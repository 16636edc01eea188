--------------------------- MODULE SessionProofs ---------------------------
(***************************************************************************)
(* Proofs about Session for every window width, packet limit, set of       *)
(* rosters and clocks.                                                     *)
(*                                                                         *)
(* AcceptOnce is not inductive: it holds because the bitmap and the        *)
(* highest number together describe exactly what was accepted within the   *)
(* window (WindowInv).  NonceFresh needs that the counter is ahead of      *)
(* every number used (CounterInv).  DataAfterMutualProof needs what a      *)
(* packet on the wire says about its sender (ProofInv), and SameScope what *)
(* a handshake message says about its sender's scope (ScopeInv).           *)
(***************************************************************************)
EXTENDS Session, TLAPS

WindowInv ==
  \A r \in Roles : \A n \in Nonces :
    /\ handed[r][n] <= 1
    /\ n > highest[r] => handed[r][n] = 0
    /\ (n <= highest[r] /\ highest[r] - n < Window) =>
         (handed[r][n] = 1 <=> (highest[r] - n) \in bits[r])

CounterInv ==
  \A r \in Roles :
    /\ sentAuth[r] <=> sealed[r][0] > 0
    /\ \A n \in Nonces :
         /\ sealed[r][n] <= 1
         /\ n >= next[r] => sealed[r][n] = 0

(* What is on the wire was sealed, under a number below the limit.         *)
WireInv ==
  \A f \in wire :
    f.kind = "packet" => f.n \in Nonces /\ sealed[f.from][f.n] > 0

ProofInv ==
  /\ \A r \in Roles : peer[r] => handed[r][0] > 0
  /\ \A r \in Roles : handed[r][0] > 0 => expects[r]
  /\ \A f \in wire :
       (f.kind = "packet" /\ f.n # 0) =>
         handed[f.from][0] > 0 /\ sealed[f.from][0] > 0
  /\ \A r \in Roles : \A n \in Nonces :
       (n # 0 /\ handed[r][n] > 0) =>
         /\ handed[r][0] > 0 /\ sealed[r][0] > 0
         /\ Packet(Other(r), n) \in wire

ScopeInv ==
  /\ \A r \in Roles : phase[r] = "idle" => step[r] = 0
  /\ \A r \in Roles : phase[r] = "session" => step[r] = 3
  /\ \A f \in wire : phase[f.from] # "idle"
  /\ \A r \in Roles :
       step[r] >= (IF r = Initiator THEN 2 ELSE 3) =>
         /\ phase[Other(r)] # "idle"
         /\ EpochOf[roster[r]] = EpochOf[roster[Other(r)]]

(* The initial states are well typed.                                      *)
LEMMA InitType == Init => TypeOK
  BY WindowAssumption, PacketsAssumption, TimeAssumption DEF Init, TypeOK

(* Closing touches only the phase and the peer.                            *)
LEMMA CloseType ==
  ASSUME TypeOK, NEW r \in Roles, Close(r), UNCHANGED hostVars
  PROVE  TypeOK'
  BY DEF TypeOK, Close, hostVars, handshakeVars, replayVars

(* Recording an accepted number keeps the replay state typed.              *)
LEMMA AcceptType ==
  ASSUME TypeOK, NEW r \in Roles, NEW n \in Nonces,
         ReplayCheck(highest[r], bits[r], n), ReplayAccept(r, n)
  PROVE  /\ highest' \in [Roles -> -1 .. MaxPackets - 1]
         /\ bits' \in [Roles -> SUBSET (0 .. Window - 1)]
         /\ handed' \in [Roles -> [Nonces -> Nat]]
<1>1. highest' \in [Roles -> -1 .. MaxPackets - 1]
  <2> DEFINE top == IF n > highest[r] THEN n ELSE highest[r]
  <2>1. n \in -1 .. MaxPackets - 1 BY PacketsAssumption DEF Nonces
  <2>2. highest \in [Roles -> -1 .. MaxPackets - 1] BY DEF TypeOK
  <2>3. top \in -1 .. MaxPackets - 1 BY <2>1, <2>2
  <2>4. highest' = [highest EXCEPT ![r] = top] BY DEF ReplayAccept
  <2> HIDE DEF top
  <2> QED BY <2>2, <2>3, <2>4
<1>2. handed' \in [Roles -> [Nonces -> Nat]]
  <2>1. [handed[r] EXCEPT ![n] = handed[r][n] + 1] \in [Nonces -> Nat]
    BY DEF TypeOK
  <2>2. handed' = [handed EXCEPT ![r] = [handed[r] EXCEPT ![n] = handed[r][n] + 1]]
    BY DEF ReplayAccept
  <2> QED BY <2>1, <2>2 DEF TypeOK
<1>3. bits' \in [Roles -> SUBSET (0 .. Window - 1)]
  <2> DEFINE new == IF highest[r] = -1 THEN {0}
                    ELSE IF n > highest[r] THEN Shifted(bits[r], n - highest[r])
                    ELSE bits[r] \cup {highest[r] - n}
  <2>1. \A k \in Nat : Shifted(bits[r], k) \subseteq 0 .. Window - 1
    BY WindowAssumption DEF Shifted
  <2>2. 0 \in 0 .. Window - 1
    BY WindowAssumption
  <2>3. new \subseteq 0 .. Window - 1
    <3>1. n \in Nat /\ highest[r] \in Int /\ bits[r] \subseteq 0 .. Window - 1
      BY PacketsAssumption DEF TypeOK, Nonces
    <3>2. CASE highest[r] = -1 BY <2>2, <3>2
    <3>3. CASE highest[r] # -1 /\ n > highest[r]
      <4>1. n - highest[r] \in Nat BY <3>1, <3>3
      <4>2. new = Shifted(bits[r], n - highest[r]) BY <3>3
      <4> QED BY <2>1, <4>1, <4>2
    <3>4. CASE highest[r] # -1 /\ ~(n > highest[r])
      <4>1. highest[r] - n \in Nat /\ highest[r] - n < Window
        BY <3>1, <3>4, WindowAssumption DEF ReplayCheck
      <4>2. highest[r] - n \in 0 .. Window - 1 BY <4>1, WindowAssumption
      <4>3. new = bits[r] \cup {highest[r] - n} BY <3>4
      <4> QED BY <3>1, <4>2, <4>3
    <3> QED BY <3>2, <3>3, <3>4
  <2>4. bits' = [bits EXCEPT ![r] = new]
    BY DEF ReplayAccept
  <2> QED BY <2>3, <2>4 DEF TypeOK
<1> QED BY <1>1, <1>2, <1>3

(* Sealing a number below the limit keeps the wire and its history typed.  *)
LEMMA SealType ==
  ASSUME TypeOK, NEW r \in Roles, NEW n \in Nonces, Seal(r, n)
  PROVE  wire' \subseteq Frames /\ sealed' \in [Roles -> [Nonces -> Nat]]
<1>1. wire' \subseteq Frames
  <2>1. n \in Nat BY PacketsAssumption DEF Nonces
  <2>2. Packet(r, n) \in Frames BY <2>1 DEF Packet, Frames
  <2>3. wire \subseteq Frames /\ wire' = wire \cup {Packet(r, n)} BY DEF TypeOK, Seal
  <2> QED BY <2>2, <2>3
<1>2. [sealed[r] EXCEPT ![n] = sealed[r][n] + 1] \in [Nonces -> Nat]
  BY DEF TypeOK
<1>3. sealed' = [sealed EXCEPT ![r] = [sealed[r] EXCEPT ![n] = sealed[r][n] + 1]]
  BY DEF Seal
<1> QED BY <1>1, <1>2, <1>3 DEF TypeOK

(* Every step keeps the state well typed, given that packets on the wire   *)
(* carry numbers below the limit.                                          *)
LEMMA NextType == TypeOK /\ WireInv /\ [Next]_vars => TypeOK'
<1> SUFFICES ASSUME TypeOK, WireInv, [Next]_vars PROVE TypeOK'
  OBVIOUS
<1> USE DEF handshakeVars, replayVars, hostVars
<1>0. CASE UNCHANGED vars
  BY <1>0 DEF TypeOK, vars
<1>1. ASSUME NEW r \in Roles, Start(r) PROVE TypeOK'
  BY <1>1, TimeAssumption DEF TypeOK, Start
<1>2. ASSUME NEW r \in Roles, Write(r) PROVE TypeOK'
  <2>a. step[r] \in 0 .. 3 BY DEF TypeOK
  <2>b. step[r] # 3 BY <1>2 DEF Write, Finished
  <2>0. step[r] + 1 \in 0 .. 3 /\ step[r] + 1 \in Nat BY <2>a, <2>b
  <2>1. step' \in [Roles -> 0 .. 3]
    BY <1>2, <2>0 DEF TypeOK, Write
  <2>2. wire' \subseteq Frames
    BY <1>2, <2>0 DEF TypeOK, Write, Frames, HandshakeFrame
  <2> QED BY <1>2, <2>1, <2>2 DEF TypeOK, Write
<1>3. ASSUME NEW r \in Roles, Finish(r) PROVE TypeOK'
  <2>1. CASE Close(r) BY <1>3, <2>1, CloseType DEF Finish
  <2>2. CASE ~Close(r) BY <1>3, <2>2 DEF TypeOK, Finish
  <2> QED BY <2>1, <2>2
<1>4. ASSUME NEW r \in Roles, HandshakeExpires(r) PROVE TypeOK'
  BY <1>4, CloseType DEF HandshakeExpires
<1>5. ASSUME NEW r \in Roles, Authentication(r) PROVE TypeOK'
  <2>1. 0 \in Nonces BY PacketsAssumption DEF Nonces
  <2> QED BY <1>5, <2>1, SealType DEF TypeOK, Authentication
<1>6. ASSUME NEW r \in Roles, Send(r) PROVE TypeOK'
  <2>1. CASE Close(r) BY <1>6, <2>1, CloseType DEF Send
  <2>2. CASE ~Close(r)
    <3>0. next[r] \in 1 .. MaxPackets /\ next[r] < MaxPackets
      BY <1>6, <2>2 DEF Send, TypeOK
    <3>1. next[r] \in Nonces /\ next[r] + 1 \in 1 .. MaxPackets
      BY <3>0, PacketsAssumption DEF Nonces
    <3>3. next' = [next EXCEPT ![r] = next[r] + 1]
      BY <1>6, <2>2 DEF Send
    <3>2. Seal(r, next[r]) BY <1>6, <2>2 DEF Send
    <3> QED BY <1>6, <2>2, <3>1, <3>2, <3>3, SealType DEF TypeOK, Send
  <2> QED BY <2>1, <2>2
<1>7. ASSUME NEW r \in Roles, SessionLapses(r) PROVE TypeOK'
  BY <1>7, CloseType DEF SessionLapses
<1>8. ASSUME NEW r \in Roles, HostCloses(r) PROVE TypeOK'
  BY <1>8, CloseType DEF HostCloses
<1>9. ASSUME NEW r \in Roles, NEW f \in wire, Read(r, f) PROVE TypeOK'
  <2>1. CASE Close(r) BY <1>9, <2>1, CloseType DEF Read
  <2>2. CASE ~Close(r)
    <3>a. step[r] \in 0 .. 3 BY DEF TypeOK
    <3>b. step[r] # 3 BY <1>9 DEF Read, Finished
    <3>0. step[r] + 1 \in 0 .. 3 BY <3>a, <3>b
    <3>1. step' \in [Roles -> 0 .. 3]
      BY <1>9, <2>2, <3>0 DEF TypeOK, Read
    <3> QED BY <1>9, <2>2, <3>1 DEF TypeOK, Read
  <2> QED BY <2>1, <2>2
<1>10. ASSUME NEW r \in Roles, NEW f \in wire, ReceiveProof(r, f) PROVE TypeOK'
  <2>1. CASE Close(r) BY <1>10, <2>1, CloseType DEF ReceiveProof
  <2>2. CASE ~Close(r)
    <3>1. 0 \in Nonces BY PacketsAssumption DEF Nonces
    <3>2. ReplayAccept(r, 0) /\ ReplayCheck(highest[r], bits[r], 0)
      BY <1>10, <2>2 DEF ReceiveProof, Admissible
    <3> QED BY <1>10, <2>2, <3>1, <3>2, AcceptType DEF TypeOK, ReceiveProof
  <2> QED BY <2>1, <2>2
<1>11. ASSUME NEW r \in Roles, NEW f \in wire, ReceiveData(r, f) PROVE TypeOK'
  <2>1. f.n \in Nonces /\ ReplayCheck(highest[r], bits[r], f.n)
    BY <1>11 DEF ReceiveData, Admissible, WireInv
  <2> QED BY <1>11, <2>1, AcceptType DEF TypeOK, ReceiveData
<1>12. ASSUME NEW r \in Roles, NEW t \in Times, SetClock(r, t) PROVE TypeOK'
  BY <1>12 DEF TypeOK, SetClock
<1>13. ASSUME NEW r \in Roles, NEW ro \in Rosters, Install(r, ro) PROVE TypeOK'
  BY <1>13 DEF TypeOK, Install
<1> QED
  BY <1>0, <1>1, <1>2, <1>3, <1>4, <1>5, <1>6, <1>7, <1>8, <1>9, <1>10, <1>11,
     <1>12, <1>13 DEF Next

(* One acceptance keeps the bitmap an exact record of the window.          *)
LEMMA AcceptWindow ==
  ASSUME TypeOK, WindowInv, NEW r \in Roles, NEW n \in Nonces,
         ReplayCheck(highest[r], bits[r], n), ReplayAccept(r, n)
  PROVE  WindowInv'
<1> DEFINE high == highest[r]
<1>0. /\ high \in -1 .. MaxPackets - 1 /\ bits[r] \subseteq 0 .. Window - 1
      /\ handed[r] \in [Nonces -> Nat]
  BY DEF TypeOK
<1>1. \A q \in Roles : q # r =>
        highest'[q] = highest[q] /\ bits'[q] = bits[q] /\ handed'[q] = handed[q]
  BY DEF TypeOK, ReplayAccept
<1>2. \A m \in Nonces : handed'[r][m] = IF m = n THEN handed[r][m] + 1 ELSE handed[r][m]
  BY DEF TypeOK, ReplayAccept
<1>3. handed[r][n] = 0
  <2>1. /\ n > high => handed[r][n] = 0
        /\ (n <= high /\ high - n < Window) => (handed[r][n] = 1 <=> (high - n) \in bits[r])
        /\ handed[r][n] <= 1 /\ handed[r][n] \in Nat
    BY <1>0 DEF WindowInv
  <2>2. n \in Nat /\ high \in Int
    BY <1>0, PacketsAssumption DEF Nonces
  <2> QED BY <2>1, <2>2 DEF ReplayCheck
<1>4. highest'[r] = IF n > high THEN n ELSE high
  BY DEF TypeOK, ReplayAccept
<1>5. bits'[r] = IF high = -1 THEN {0}
                 ELSE IF n > high THEN Shifted(bits[r], n - high)
                 ELSE bits[r] \cup {high - n}
  BY DEF TypeOK, ReplayAccept
<1>6. ASSUME NEW m \in Nonces
      PROVE  /\ handed'[r][m] <= 1
             /\ m > highest'[r] => handed'[r][m] = 0
             /\ (m <= highest'[r] /\ highest'[r] - m < Window) =>
                  (handed'[r][m] = 1 <=> (highest'[r] - m) \in bits'[r])
  <2>1. /\ handed[r][m] \in Nat /\ handed[r][m] <= 1
        /\ m > high => handed[r][m] = 0
        /\ (m <= high /\ high - m < Window) =>
             (handed[r][m] = 1 <=> (high - m) \in bits[r])
    BY <1>0 DEF WindowInv
  <2>2. m \in Nat /\ n \in Nat /\ high \in Int /\ Window \in Nat /\ Window > 0
    BY <1>0, PacketsAssumption, WindowAssumption DEF Nonces
  <2>3. CASE high = -1
    BY <1>2, <1>3, <1>4, <1>5, <2>1, <2>2, <2>3
  <2>4. CASE high # -1 /\ n > high
    <3>1. \A b \in 0 .. Window - 1 :
            b \in bits'[r] <=> b = 0 \/ (n - high < Window /\ b - (n - high) \in bits[r])
      BY <1>5, <2>2, <2>4 DEF Shifted
    <3>2. highest'[r] = n BY <1>4, <2>4
    <3>3. CASE m = n
      BY <1>2, <1>3, <2>2, <3>1, <3>2, <3>3
    <3>4. CASE m # n
      BY <1>0, <1>2, <2>1, <2>2, <2>4, <3>1, <3>2, <3>4
    <3> QED BY <3>3, <3>4
  <2>5. CASE high # -1 /\ ~(n > high)
    BY <1>2, <1>3, <1>4, <1>5, <2>1, <2>2, <2>5
  <2> QED BY <2>3, <2>4, <2>5
<1> QED BY <1>1, <1>6 DEF WindowInv

(* Only an acceptance touches the replay state.                            *)
LEMMA NextWindow == TypeOK /\ WireInv /\ WindowInv /\ [Next]_vars => WindowInv'
<1> SUFFICES ASSUME TypeOK, WireInv, WindowInv, [Next]_vars PROVE WindowInv'
  OBVIOUS
<1>1. ASSUME UNCHANGED replayVars PROVE WindowInv'
  BY <1>1 DEF WindowInv, replayVars
<1>2. ASSUME NEW r \in Roles, NEW f \in wire, ReceiveProof(r, f) PROVE WindowInv'
  <2>1. 0 \in Nonces BY PacketsAssumption DEF Nonces
  <2>2. CASE ReplayAccept(r, 0)
    BY <1>2, <2>1, <2>2, AcceptWindow DEF ReceiveProof, Admissible
  <2>3. CASE ~ReplayAccept(r, 0)
    BY <1>1, <1>2, <2>3 DEF ReceiveProof, Close
  <2> QED BY <2>2, <2>3
<1>3. ASSUME NEW r \in Roles, NEW f \in wire, ReceiveData(r, f) PROVE WindowInv'
  <2>1. f.n \in Nonces /\ ReplayCheck(highest[r], bits[r], f.n) /\ ReplayAccept(r, f.n)
    BY <1>3 DEF ReceiveData, Admissible, WireInv
  <2> QED BY <2>1, AcceptWindow
<1>4. CASE UNCHANGED vars
  BY <1>1, <1>4 DEF vars
<1>5. ASSUME NEW r \in Roles,
             \/ Start(r) \/ Write(r) \/ Finish(r) \/ HandshakeExpires(r)
             \/ Authentication(r) \/ Send(r) \/ SessionLapses(r) \/ HostCloses(r)
             \/ \E f \in wire : Read(r, f)
             \/ \E t \in Times : SetClock(r, t)
             \/ \E ro \in Rosters : Install(r, ro)
      PROVE  WindowInv'
  BY <1>1, <1>5 DEF Start, Write, Finish, HandshakeExpires, Authentication, Send,
     SessionLapses, HostCloses, Read, SetClock, Install, Close
<1> QED BY <1>2, <1>3, <1>4, <1>5 DEF Next

(* A send that does not close the session seals the counter's number,      *)
(* which is below the limit and is not the one kept for the proof.         *)
LEMMA SendSeals ==
  ASSUME TypeOK, NEW r \in Roles, Send(r), ~Close(r)
  PROVE  /\ next[r] \in Nonces /\ next[r] > 0 /\ Seal(r, next[r])
         /\ UNCHANGED <<peer, handed, expects>>
<1>1. next[r] < MaxPackets /\ Seal(r, next[r]) BY DEF Send
<1>2. UNCHANGED <<peer, replayVars, hostVars>> BY DEF Send
<1>3. UNCHANGED <<handed, expects>> BY <1>2 DEF replayVars, hostVars
<1>4. next[r] \in 1 .. MaxPackets BY DEF TypeOK
<1>5. next[r] \in Nonces /\ next[r] > 0 BY <1>1, <1>4, PacketsAssumption DEF Nonces
<1> QED BY <1>1, <1>2, <1>3, <1>5

(* Only Authentication and Send seal, each under a number not yet used.    *)
LEMMA NextCounter == TypeOK /\ CounterInv /\ [Next]_vars => CounterInv'
<1> SUFFICES ASSUME TypeOK, CounterInv, [Next]_vars PROVE CounterInv'
  OBVIOUS
<1>0. 0 \in Nonces /\ MaxPackets \in Nat
  BY PacketsAssumption DEF Nonces
<1>1. ASSUME UNCHANGED <<sentAuth, next, sealed>> PROVE CounterInv'
  BY <1>1 DEF CounterInv
<1>2. ASSUME NEW r \in Roles, Authentication(r) PROVE CounterInv'
  <2>1. \A q \in Roles : next'[q] = next[q] /\ next[q] \in 1 .. MaxPackets
    BY <1>2 DEF Authentication, TypeOK
  <2>2. /\ \A q \in Roles : q # r => sealed'[q] = sealed[q] /\ sentAuth'[q] = sentAuth[q]
        /\ sentAuth'[r] /\ ~sentAuth[r]
        /\ \A n \in Nonces : sealed'[r][n] = IF n = 0 THEN sealed[r][n] + 1 ELSE sealed[r][n]
    BY <1>0, <1>2 DEF Authentication, Seal, TypeOK
  <2>3. sealed[r][0] = 0 /\ sealed[r] \in [Nonces -> Nat]
    BY <1>0, <2>2 DEF CounterInv, TypeOK
  <2> QED BY <1>0, <2>1, <2>2, <2>3 DEF CounterInv
<1>3. ASSUME NEW r \in Roles, Send(r) PROVE CounterInv'
  <2>1. CASE Close(r) BY <1>1, <2>1 DEF Close
  <2>2. CASE ~Close(r)
    <3>1. next[r] \in Nonces /\ next[r] > 0
      BY <1>3, <2>2, SendSeals
    <3>2. /\ \A q \in Roles : q # r => next'[q] = next[q] /\ sealed'[q] = sealed[q]
          /\ next'[r] = next[r] + 1 /\ sentAuth' = sentAuth
          /\ \A n \in Nonces :
               sealed'[r][n] = IF n = next[r] THEN sealed[r][n] + 1 ELSE sealed[r][n]
      BY <1>3, <2>2, <3>1 DEF Send, Seal, TypeOK
    <3>3. sealed[r] \in [Nonces -> Nat] /\ sealed[r][next[r]] = 0
      BY <3>1 DEF CounterInv, TypeOK, Nonces
    <3>4. \A n \in Nonces : n \in Nat BY <1>0 DEF Nonces
    <3> QED BY <1>0, <3>1, <3>2, <3>3, <3>4 DEF CounterInv
  <2> QED BY <2>1, <2>2
<1>4. CASE UNCHANGED vars
  BY <1>1, <1>4 DEF vars
<1>5. ASSUME NEW r \in Roles,
             \/ Start(r) \/ Write(r) \/ Finish(r) \/ HandshakeExpires(r)
             \/ SessionLapses(r) \/ HostCloses(r)
             \/ \E f \in wire : Read(r, f) \/ ReceiveProof(r, f) \/ ReceiveData(r, f)
             \/ \E t \in Times : SetClock(r, t)
             \/ \E ro \in Rosters : Install(r, ro)
      PROVE  CounterInv'
  BY <1>1, <1>5 DEF Start, Write, Finish, HandshakeExpires, SessionLapses, HostCloses,
     Read, ReceiveProof, ReceiveData, SetClock, Install, Close
<1> QED BY <1>2, <1>3, <1>4, <1>5 DEF Next

(* Sealing counts the sealed number once and adds its packet; nothing that *)
(* was sealed becomes unsealed.                                            *)
LEMMA SealEffect ==
  ASSUME TypeOK, NEW r \in Roles, NEW n \in Nonces, Seal(r, n)
  PROVE  /\ wire' = wire \cup {Packet(r, n)}
         /\ sealed'[r][n] > 0
         /\ \A q \in Roles : \A m \in Nonces : sealed[q][m] > 0 => sealed'[q][m] > 0
  BY DEF TypeOK, Seal

(* An acceptance counts the accepted number and forgets none.              *)
LEMMA AcceptEffect ==
  ASSUME TypeOK, NEW r \in Roles, NEW n \in Nonces, ReplayAccept(r, n)
  PROVE  /\ handed'[r][n] > 0
         /\ \A q \in Roles : \A m \in Nonces :
              /\ handed[q][m] > 0 => handed'[q][m] > 0
              /\ (q # r \/ m # n) => handed'[q][m] = handed[q][m]
  BY DEF TypeOK, ReplayAccept

(* Every packet on the wire was sealed by its sender.                      *)
LEMMA NextWire == TypeOK /\ WireInv /\ [Next]_vars => WireInv'
<1> SUFFICES ASSUME TypeOK, WireInv, [Next]_vars PROVE WireInv'
  OBVIOUS
<1>0. 0 \in Nonces /\ MaxPackets \in Nat
  BY PacketsAssumption DEF Nonces
<1>1. ASSUME UNCHANGED <<wire, sealed>> PROVE WireInv'
  BY <1>1 DEF WireInv
<1>2. ASSUME NEW r \in Roles, NEW n \in Nonces, Seal(r, n) PROVE WireInv'
  <2>1. \A f \in wire : f.from \in Roles BY DEF TypeOK, Frames
  <2>2. Packet(r, n).n = n /\ Packet(r, n).from = r BY DEF Packet
  <2> QED BY <1>2, <2>1, <2>2, SealEffect DEF WireInv
<1>3. ASSUME NEW r \in Roles, Authentication(r) PROVE WireInv'
  BY <1>0, <1>2, <1>3 DEF Authentication
<1>4. ASSUME NEW r \in Roles, Send(r) PROVE WireInv'
  <2>1. CASE Close(r) BY <1>1, <2>1 DEF Close
  <2>2. CASE ~Close(r)
    <3>1. next[r] \in Nonces /\ Seal(r, next[r]) BY <1>4, <2>2, SendSeals
    <3> QED BY <1>2, <3>1
  <2> QED BY <2>1, <2>2
<1>5. ASSUME NEW r \in Roles, Write(r) PROVE WireInv'
  BY <1>5 DEF Write, WireInv, HandshakeFrame
<1>6. CASE UNCHANGED vars
  BY <1>1, <1>6 DEF vars
<1>7. ASSUME NEW r \in Roles,
             \/ Start(r) \/ Finish(r) \/ HandshakeExpires(r)
             \/ SessionLapses(r) \/ HostCloses(r)
             \/ \E f \in wire : Read(r, f) \/ ReceiveProof(r, f) \/ ReceiveData(r, f)
             \/ \E t \in Times : SetClock(r, t)
             \/ \E ro \in Rosters : Install(r, ro)
      PROVE  WireInv'
  BY <1>1, <1>7 DEF Start, Finish, HandshakeExpires, SessionLapses, HostCloses,
     Read, ReceiveProof, ReceiveData, SetClock, Install, Close
<1> QED BY <1>3, <1>4, <1>5, <1>6, <1>7 DEF Next

(* A packet of data vouches for both proofs: its sender had accepted the   *)
(* other end's identity, and had sealed its own proof before.              *)
LEMMA NextProof ==
  TypeOK /\ WireInv /\ CounterInv /\ ProofInv /\ [Next]_vars => ProofInv'
<1> SUFFICES ASSUME TypeOK, WireInv, CounterInv, ProofInv, [Next]_vars PROVE ProofInv'
  OBVIOUS
<1>0. 0 \in Nonces /\ MaxPackets \in Nat
  BY PacketsAssumption DEF Nonces
<1>f. \A f \in wire : f.from \in Roles /\ f.n \in Nat BY DEF TypeOK, Frames
<1>o. \A r \in Roles : Other(r) \in Roles BY DEF Other, Roles
<1>1. ASSUME NEW r \in Roles, Close(r), UNCHANGED hostVars PROVE ProofInv'
  <2>1. \A q \in Roles : peer'[q] => peer[q] BY <1>1 DEF Close, TypeOK
  <2> QED BY <1>1, <2>1 DEF Close, ProofInv, hostVars, replayVars
<1>2. ASSUME UNCHANGED <<peer, handed, expects, sealed>>,
             \A f \in wire' : f \in wire \/ f.kind = "hs", wire \subseteq wire'
      PROVE  ProofInv'
  BY <1>2 DEF ProofInv
<1>3. ASSUME NEW r \in Roles, Authentication(r) PROVE ProofInv'
  <2>1. /\ Seal(r, 0) /\ UNCHANGED <<peer, handed, expects>>
    BY <1>3 DEF Authentication, replayVars, hostVars
  <2>2. \A f \in wire' : f \in wire \/ f.n = 0
    BY <2>1 DEF Seal, Packet
  <2> QED BY <1>0, <1>f, <2>1, <2>2, SealEffect DEF ProofInv
<1>4. ASSUME NEW r \in Roles, Send(r) PROVE ProofInv'
  <2>1. CASE Close(r) BY <1>1, <1>4, <2>1 DEF Send
  <2>2. CASE ~Close(r)
    <3>1. /\ next[r] \in Nonces /\ Seal(r, next[r])
          /\ UNCHANGED <<peer, handed, expects>>
      BY <1>4, <2>2, SendSeals
    <3>2. handed[r][0] > 0 /\ sealed[r][0] > 0
      BY <1>4 DEF Send, IsAuthenticated, CounterInv, ProofInv
    <3>3. \A f \in wire' : f \in wire \/ f.from = r
      BY <3>1 DEF Seal, Packet
    <3> QED BY <1>0, <1>f, <3>1, <3>2, <3>3, SealEffect DEF ProofInv
  <2> QED BY <2>1, <2>2
<1>5. ASSUME NEW r \in Roles, NEW f \in wire, ReceiveProof(r, f) PROVE ProofInv'
  <2>1. CASE Close(r) BY <1>1, <1>5, <2>1 DEF ReceiveProof
  <2>2. CASE ~Close(r)
    <3>1. /\ ReplayAccept(r, 0) /\ UNCHANGED <<expects, wire, sealed>>
          /\ expects[r] /\ \A q \in Roles : peer'[q] => peer[q] \/ q = r
      BY <1>5, <2>2 DEF ReceiveProof, TypeOK, hostVars
    <3>2. \A m \in Nonces : m \in Nat BY <1>0 DEF Nonces
    <3> QED BY <1>0, <1>f, <1>o, <3>1, <3>2, AcceptEffect DEF ProofInv
  <2> QED BY <2>1, <2>2
<1>6. ASSUME NEW r \in Roles, NEW f \in wire, ReceiveData(r, f) PROVE ProofInv'
  <2>1. /\ f.n \in Nonces /\ ReplayAccept(r, f.n)
        /\ UNCHANGED <<expects, wire, sealed, peer>> /\ f.n # 0
    BY <1>6 DEF ReceiveData, Admissible, WireInv, hostVars
  <2>2. handed[r][0] > 0 /\ sealed[r][0] > 0
    BY <1>6 DEF ReceiveData, IsAuthenticated, CounterInv, ProofInv
  <2>3. Packet(Other(r), f.n) \in wire
    <3>1. f.kind = "packet" /\ f.from = Other(r) BY <1>6 DEF ReceiveData, Admissible
    <3>2. f = Packet(Other(r), f.n) BY <3>1 DEF Packet, TypeOK, Frames
    <3> QED BY <3>2
  <2> QED BY <1>0, <1>f, <1>o, <2>1, <2>2, <2>3, AcceptEffect DEF ProofInv
<1>7. ASSUME NEW r \in Roles, HandshakeExpires(r) \/ SessionLapses(r) \/ HostCloses(r)
      PROVE  ProofInv'
  BY <1>1, <1>7 DEF HandshakeExpires, SessionLapses, HostCloses
<1>8. ASSUME NEW r \in Roles, Start(r) \/ Write(r) \/ Finish(r) PROVE ProofInv'
  <2>1. CASE Close(r) BY <1>1, <1>8, <2>1 DEF Finish, Start, Write, Close
  <2>2. CASE ~Close(r)
    BY <1>2, <1>8, <2>2 DEF Start, Write, Finish, HandshakeFrame, replayVars, hostVars
  <2> QED BY <2>1, <2>2
<1>9. ASSUME NEW r \in Roles, NEW f \in wire, Read(r, f) PROVE ProofInv'
  <2>1. CASE Close(r) BY <1>1, <1>9, <2>1 DEF Read
  <2>2. CASE ~Close(r) BY <1>2, <1>9, <2>2 DEF Read, replayVars, hostVars
  <2> QED BY <2>1, <2>2
<1>10. ASSUME NEW r \in Roles,
              \/ \E t \in Times : SetClock(r, t)
              \/ \E ro \in Rosters : Install(r, ro)
       PROVE  ProofInv'
  BY <1>2, <1>10 DEF SetClock, Install, replayVars
<1>11. CASE UNCHANGED vars
  BY <1>2, <1>11 DEF vars, replayVars, hostVars
<1> QED
  BY <1>3, <1>4, <1>5, <1>6, <1>7, <1>8, <1>9, <1>10, <1>11 DEF Next

(* Reading past the first message is only possible within one scope.       *)
LEMMA NextScope == TypeOK /\ ScopeInv /\ [Next]_vars => ScopeInv'
<1> SUFFICES ASSUME TypeOK, ScopeInv, [Next]_vars PROVE ScopeInv'
  OBVIOUS
<1>f. \A f \in wire : f.from \in Roles BY DEF TypeOK, Frames
<1>o. \A r \in Roles : Other(r) \in Roles /\ Other(r) # r
  BY DEF Other, Roles, Initiator, Responder
<1>s. \A r \in Roles : step[r] \in 0 .. 3 BY DEF TypeOK
<1>1. ASSUME NEW r \in Roles, Close(r) PROVE ScopeInv'
  <2>1. /\ \A q \in Roles : phase'[q] = IF q = r THEN "closed" ELSE phase[q]
        /\ UNCHANGED <<step, roster, wire>>
    BY <1>1 DEF Close, TypeOK, handshakeVars
  <2> QED BY <1>f, <1>o, <2>1 DEF ScopeInv
<1>2. ASSUME UNCHANGED <<phase, step, roster>>,
             \A f \in wire' : f \in wire \/ phase[f.from] # "idle"
      PROVE  ScopeInv'
  BY <1>2 DEF ScopeInv
<1>3. ASSUME NEW r \in Roles, Start(r) PROVE ScopeInv'
  <2>1. /\ \A q \in Roles : q # r => phase'[q] = phase[q] /\ roster'[q] = roster[q]
        /\ phase[r] = "idle" /\ phase'[r] = "handshake" /\ UNCHANGED <<step, wire>>
    BY <1>3 DEF Start, TypeOK
  <2>2. step[r] = 0 BY <2>1 DEF ScopeInv
  <2>3. \A q \in Roles : phase'[q] = "idle" => phase[q] = "idle" BY <2>1
  <2>4. ASSUME NEW q \in Roles, step'[q] >= (IF q = Initiator THEN 2 ELSE 3)
        PROVE  /\ phase'[Other(q)] # "idle"
               /\ EpochOf[roster'[q]] = EpochOf[roster'[Other(q)]]
    <3>1. q # r BY <2>1, <2>2, <2>4
    <3>2. phase[Other(q)] # "idle" BY <2>1, <2>4 DEF ScopeInv
    <3>3. Other(q) # r BY <2>1, <3>2
    <3> QED BY <1>o, <2>1, <2>4, <3>1, <3>2, <3>3 DEF ScopeInv
  <2> QED BY <1>f, <2>1, <2>2, <2>3, <2>4 DEF ScopeInv
<1>4. ASSUME NEW r \in Roles, Write(r) PROVE ScopeInv'
  <2>1. /\ \A q \in Roles : q # r => step'[q] = step[q]
        /\ step'[r] = step[r] + 1 /\ UNCHANGED <<phase, roster>>
        /\ phase[r] = "handshake" /\ step[r] # 3 /\ MyTurn(r)
    BY <1>4 DEF Write, TypeOK, Finished
  <2>2. \A f \in wire' : f \in wire \/ f.from = r
    BY <1>4 DEF Write, HandshakeFrame
  <2>3. step'[r] >= (IF r = Initiator THEN 2 ELSE 3) =>
          step[r] >= (IF r = Initiator THEN 2 ELSE 3)
    <3>1. step[r] \in {0, 1, 2} BY <1>s, <2>1
    <3>2. r = Initiator => step[r] \in {0, 2} BY <2>1, <3>1 DEF MyTurn
    <3>3. r # Initiator => step[r] = 1 BY <2>1, <3>1 DEF MyTurn
    <3> QED BY <2>1, <3>1, <3>2, <3>3
  <2> QED BY <1>f, <1>o, <2>1, <2>2, <2>3 DEF ScopeInv
<1>5. ASSUME NEW r \in Roles, NEW f \in wire, Read(r, f) PROVE ScopeInv'
  <2>1. CASE Close(r) BY <1>1, <2>1
  <2>2. CASE ~Close(r)
    <3>1. /\ \A q \in Roles : q # r => step'[q] = step[q]
          /\ step'[r] = step[r] + 1 /\ UNCHANGED <<phase, roster, wire>>
          /\ phase[r] = "handshake" /\ NoiseReads(r, f) /\ f.from = Other(r)
      BY <1>5, <2>2 DEF Read, TypeOK
    <3>2. phase[Other(r)] # "idle" BY <3>1 DEF ScopeInv
    <3>3. step'[r] >= 2 => EpochOf[roster[r]] = EpochOf[roster[Other(r)]]
      BY <1>s, <3>1 DEF NoiseReads
    <3>4. step'[r] >= (IF r = Initiator THEN 2 ELSE 3) => step'[r] >= 2
      BY <1>s, <3>1
    <3> QED BY <1>f, <1>o, <3>1, <3>2, <3>3, <3>4 DEF ScopeInv
  <2> QED BY <2>1, <2>2
<1>6. ASSUME NEW r \in Roles, Finish(r) PROVE ScopeInv'
  <2>1. CASE Close(r) BY <1>1, <2>1
  <2>2. CASE ~Close(r)
    <3>1. /\ \A q \in Roles : phase'[q] = IF q = r THEN "session" ELSE phase[q]
          /\ UNCHANGED <<step, roster, wire>> /\ step[r] = 3
      BY <1>6, <2>2 DEF Finish, Finished, TypeOK, handshakeVars
    <3> QED BY <1>f, <1>o, <3>1 DEF ScopeInv
  <2> QED BY <2>1, <2>2
<1>7. ASSUME NEW r \in Roles, Authentication(r) PROVE ScopeInv'
  BY <1>2, <1>7 DEF Authentication, Seal, Packet, handshakeVars
<1>8. ASSUME NEW r \in Roles, Send(r) PROVE ScopeInv'
  <2>1. CASE Close(r) BY <1>1, <2>1
  <2>2. CASE ~Close(r)
    BY <1>2, <1>8, <2>2 DEF Send, IsAuthenticated, Seal, Packet, handshakeVars
  <2> QED BY <2>1, <2>2
<1>9. ASSUME NEW r \in Roles, NEW f \in wire, ReceiveProof(r, f) PROVE ScopeInv'
  BY <1>1, <1>2, <1>9 DEF ReceiveProof, handshakeVars
<1>10. ASSUME NEW r \in Roles,
              \/ HandshakeExpires(r) \/ SessionLapses(r) \/ HostCloses(r)
              \/ \E f \in wire : ReceiveData(r, f)
              \/ \E t \in Times : SetClock(r, t)
              \/ \E ro \in Rosters : Install(r, ro)
       PROVE  ScopeInv'
  BY <1>1, <1>2, <1>10 DEF HandshakeExpires, SessionLapses, HostCloses, ReceiveData,
     SetClock, Install, handshakeVars
<1>11. CASE UNCHANGED vars
  BY <1>2, <1>11 DEF vars, handshakeVars
<1> QED
  BY <1>3, <1>4, <1>5, <1>6, <1>7, <1>8, <1>9, <1>10, <1>11 DEF Next

-----------------------------------------------------------------------------
SessionInv ==
  TypeOK /\ WireInv /\ WindowInv /\ CounterInv /\ ProofInv /\ ScopeInv

(* The invariant holds initially: nothing sealed, accepted or on the wire. *)
LEMMA InitSession == Init => SessionInv
<1> SUFFICES ASSUME Init PROVE SessionInv
  OBVIOUS
<1>0. 0 \in Nonces /\ MaxPackets \in Nat
  BY PacketsAssumption DEF Nonces
<1>1. TypeOK BY InitType
<1>2. WireInv BY DEF Init, WireInv
<1>3. WindowInv BY <1>0 DEF Init, WindowInv, Nonces
<1>4. CounterInv BY <1>0 DEF Init, CounterInv
<1>5. ProofInv BY <1>0 DEF Init, ProofInv
<1>6. ScopeInv BY DEF Init, ScopeInv
<1> QED BY <1>1, <1>2, <1>3, <1>4, <1>5, <1>6 DEF SessionInv

(* The inductive invariant of a session pair, for all constants.           *)
THEOREM SessionInvariant == Spec => []SessionInv
<1>1. SessionInv /\ [Next]_vars => SessionInv'
  BY NextType, NextWire, NextWindow, NextCounter, NextProof, NextScope DEF SessionInv
<1> QED BY <1>1, InitSession, PTL DEF Spec

(* Type correctness.                                                       *)
THEOREM SessionTypeCorrect == Spec => []TypeOK
<1>1. SessionInv => TypeOK BY DEF SessionInv
<1> QED BY <1>1, SessionInvariant, PTL

(* receive hands no number to the host twice.                              *)
THEOREM SessionAcceptsOnce == Spec => []AcceptOnce
<1>1. SessionInv => AcceptOnce BY DEF SessionInv, WindowInv, AcceptOnce
<1> QED BY <1>1, SessionInvariant, PTL

(* The window refuses, of the numbers it covers, exactly those accepted.   *)
THEOREM SessionWindowExact == Spec => []ReplayExact
<1>1. SessionInv => ReplayExact
  <2> SUFFICES ASSUME SessionInv, NEW r \in Roles, NEW n \in Nonces,
                      highest[r] - n < Window
               PROVE  ReplayCheck(highest[r], bits[r], n) <=> handed[r][n] = 0
    BY DEF ReplayExact
  <2>1. /\ highest[r] \in -1 .. MaxPackets - 1 /\ handed[r][n] \in Nat
        /\ n \in Nat /\ MaxPackets \in Nat
    BY PacketsAssumption DEF SessionInv, TypeOK, Nonces
  <2>2. /\ handed[r][n] <= 1
        /\ n > highest[r] => handed[r][n] = 0
        /\ (n <= highest[r] /\ highest[r] - n < Window) =>
             (handed[r][n] = 1 <=> (highest[r] - n) \in bits[r])
    BY DEF SessionInv, WindowInv
  <2> QED BY <2>1, <2>2 DEF ReplayCheck
<1> QED BY <1>1, SessionInvariant, PTL

(* No number is sealed twice under one key.                                *)
THEOREM SessionNonceFresh == Spec => []NonceFresh
<1>1. SessionInv => NonceFresh BY DEF SessionInv, CounterInv, NonceFresh
<1> QED BY <1>1, SessionInvariant, PTL

(* Data flows only after both identity proofs were accepted.               *)
THEOREM SessionMutualProof == Spec => []DataAfterMutualProof
<1>1. SessionInv => DataAfterMutualProof
  <2> SUFFICES ASSUME SessionInv, NEW r \in Roles, NEW n \in Nonces,
                      n # 0, handed[r][n] > 0
               PROVE  /\ handed[r][0] > 0 /\ handed[Other(r)][0] > 0
                      /\ expects[r] /\ expects[Other(r)]
                      /\ sealed[r][0] > 0 /\ sealed[Other(r)][n] > 0
    BY DEF DataAfterMutualProof
  <2>1. Other(r) \in Roles BY DEF Other, Roles
  <2>2. handed[r][0] > 0 /\ sealed[r][0] > 0 /\ Packet(Other(r), n) \in wire
    BY DEF SessionInv, ProofInv
  <2>3. /\ Packet(Other(r), n).kind = "packet" /\ Packet(Other(r), n).n = n
        /\ Packet(Other(r), n).from = Other(r)
    BY DEF Packet
  <2>4. handed[Other(r)][0] > 0 /\ sealed[Other(r)][n] > 0
    BY <2>2, <2>3 DEF SessionInv, ProofInv, WireInv
  <2> QED BY <2>1, <2>2, <2>4 DEF SessionInv, ProofInv
<1> QED BY <1>1, SessionInvariant, PTL

(* A session is never established across two scopes.                       *)
THEOREM SessionSameScope == Spec => []SameScope
<1>1. SessionInv => SameScope BY DEF SessionInv, ScopeInv, SameScope
<1> QED BY <1>1, SessionInvariant, PTL

-----------------------------------------------------------------------------
(* No proof of identity leaves before the handshake is finished.           *)
ProofsFollow == \A r \in Roles : phase[r] \in {"idle", "handshake"} => ~sentAuth[r]

(* Only Session::authentication sends the proof, and no step goes back to  *)
(* a handshake.                                                            *)
LEMMA ProofsFollowHandshake == Spec => []ProofsFollow
<1>1. Init => ProofsFollow
  BY DEF Init, ProofsFollow
<1>2. TypeOK /\ ProofsFollow /\ [Next]_vars => ProofsFollow'
  <2> SUFFICES ASSUME TypeOK, ProofsFollow, [Next]_vars PROVE ProofsFollow'
    OBVIOUS
  <2> USE DEF ProofsFollow, TypeOK
  <2>1. CASE UNCHANGED vars
    BY <2>1 DEF vars
  <2>2. ASSUME NEW r \in Roles, Close(r)
        PROVE  ProofsFollow'
    BY <2>2 DEF Close
  <2>3. ASSUME NEW r \in Roles, Start(r) \/ Write(r)
        PROVE  ProofsFollow'
    BY <2>3 DEF Start, Write
  <2>4. ASSUME NEW r \in Roles, Finish(r)
        PROVE  ProofsFollow'
    BY <2>2, <2>4 DEF Finish
  <2>5. ASSUME NEW r \in Roles, HandshakeExpires(r) \/ SessionLapses(r) \/ HostCloses(r)
        PROVE  ProofsFollow'
    BY <2>2, <2>5 DEF HandshakeExpires, SessionLapses, HostCloses
  <2>6. ASSUME NEW r \in Roles, Authentication(r)
        PROVE  ProofsFollow'
    BY <2>6 DEF Authentication
  <2>7. ASSUME NEW r \in Roles, Send(r)
        PROVE  ProofsFollow'
    BY <2>2, <2>7 DEF Send
  <2>8. ASSUME NEW r \in Roles, NEW f \in wire,
               Read(r, f) \/ ReceiveProof(r, f) \/ ReceiveData(r, f)
        PROVE  ProofsFollow'
    BY <2>2, <2>8 DEF Read, ReceiveProof, ReceiveData
  <2>9. ASSUME NEW r \in Roles,
               (\E t \in Times : SetClock(r, t)) \/ (\E ro \in Rosters : Install(r, ro))
        PROVE  ProofsFollow'
    BY <2>9 DEF SetClock, Install
  <2> QED BY <2>1, <2>3, <2>4, <2>5, <2>6, <2>7, <2>8, <2>9 DEF Next
<1> QED BY <1>1, <1>2, SessionTypeCorrect, PTL DEF Spec

(* Session::check holds a session to its handshake deadline until both     *)
(* proofs are through: whichever proof comes last, sent or received, comes *)
(* in time, on a clock not behind the start and under the roster the       *)
(* handshake began with.                                                   *)
THEOREM SessionAuthenticatedInTime == Spec => AuthenticatedInTime
<1> DEFINE InTime(r) ==
      (~IsAuthenticated(r) /\ IsAuthenticated(r)') =>
        /\ started[r] <= clock[r] /\ clock[r] < Deadline(r)
        /\ installed[r] = roster[r]
        /\ ValidAt(roster[r], clock[r])
<1>1. ASSUME TypeOK, ProofsFollow, [Next]_vars, NEW r \in Roles
      PROVE  InTime(r)
  <2> SUFFICES ASSUME ~IsAuthenticated(r), IsAuthenticated(r)'
               PROVE  SessionCheck(r)
    BY DEF SessionCheck
  <2>0. phase'[r] = "session" /\ sentAuth'[r] /\ peer'[r]
    BY DEF IsAuthenticated
  <2> USE <1>1 DEF TypeOK
  <2>1. ASSUME UNCHANGED <<phase, sentAuth, peer>>
        PROVE  FALSE
    BY <2>1 DEF IsAuthenticated
  <2>2. ASSUME NEW s \in Roles, Close(s)
        PROVE  FALSE
    BY <2>0, <2>2 DEF Close, IsAuthenticated
  <2>3. CASE UNCHANGED vars
    BY <2>1, <2>3 DEF vars
  <2>4. ASSUME NEW s \in Roles, Start(s) \/ Write(s) \/ Finish(s)
        PROVE  FALSE
    <3>1. sentAuth' = sentAuth /\ peer' = peer /\ phase[s] \in {"idle", "handshake"}
      BY <2>2, <2>4 DEF Start, Write, Finish
    <3>2. \A q \in Roles : q # s => phase'[q] = phase[q]
      BY <2>2, <2>4 DEF Start, Write, Finish
    <3>3. ~sentAuth[s]
      BY <3>1 DEF ProofsFollow
    <3> QED BY <2>0, <3>1, <3>2, <3>3 DEF IsAuthenticated
  <2>5. ASSUME NEW s \in Roles, HandshakeExpires(s) \/ SessionLapses(s) \/ HostCloses(s)
        PROVE  FALSE
    BY <2>2, <2>5 DEF HandshakeExpires, SessionLapses, HostCloses
  <2>6. ASSUME NEW s \in Roles, Authentication(s)
        PROVE  SessionCheck(r)
    <3>1. SessionCheck(s) /\ UNCHANGED <<phase, peer>>
          /\ sentAuth' = [sentAuth EXCEPT ![s] = TRUE]
      BY <2>6 DEF Authentication
    <3>2. s = r
      BY <2>0, <3>1 DEF IsAuthenticated
    <3> QED BY <3>1, <3>2
  <2>7. ASSUME NEW s \in Roles, Send(s)
        PROVE  FALSE
    BY <2>1, <2>2, <2>7 DEF Send
  <2>8. ASSUME NEW s \in Roles, NEW f \in wire, ReceiveProof(s, f)
        PROVE  SessionCheck(r)
    <3>1. /\ SessionCheck(s) /\ UNCHANGED <<phase, sentAuth>>
          /\ peer' = [peer EXCEPT ![s] = TRUE]
      BY <2>2, <2>8 DEF ReceiveProof, Admissible
    <3>2. s = r
      BY <2>0, <3>1 DEF IsAuthenticated
    <3> QED BY <3>1, <3>2
  <2>9. ASSUME NEW s \in Roles, NEW f \in wire, Read(s, f) \/ ReceiveData(s, f)
        PROVE  FALSE
    BY <2>1, <2>2, <2>9 DEF Read, ReceiveData
  <2>10. ASSUME NEW s \in Roles,
                (\E t \in Times : SetClock(s, t)) \/ (\E ro \in Rosters : Install(s, ro))
         PROVE  FALSE
    BY <2>1, <2>10 DEF SetClock, Install
  <2> QED BY <2>3, <2>4, <2>5, <2>6, <2>7, <2>8, <2>9, <2>10 DEF Next
<1>2. TypeOK /\ ProofsFollow /\ [Next]_vars =>
        [\A r \in Roles :
           (~IsAuthenticated(r) /\ IsAuthenticated(r)') =>
             /\ started[r] <= clock[r] /\ clock[r] < Deadline(r)
             /\ installed[r] = roster[r]
             /\ ValidAt(roster[r], clock[r])]_vars
  BY <1>1
<1> QED BY <1>2, SessionTypeCorrect, ProofsFollowHandshake, PTL DEF Spec, AuthenticatedInTime
=============================================================================
