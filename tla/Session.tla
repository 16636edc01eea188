------------------------------ MODULE Session ------------------------------
(***************************************************************************)
(* One link session of crates/mesh-session: the Noise XX handshake, the    *)
(* certified identity confirmation that follows it, numbered datagrams and *)
(* the per-direction replay window.                                        *)
(*                                                                         *)
(* The two ends are two objects in two processes.  What they exchange is a *)
(* set of frames that only grows, so a frame may be delivered late, out of *)
(* order, more than once or never.  The bytes of a frame are abstracted to *)
(* who sealed it and the number it is sealed under: Noise gives each       *)
(* direction its own key, so a reflected or altered frame fails to decrypt *)
(* and leaves the state alone (it is a stuttering step here).              *)
(*                                                                         *)
(* Time is the `now` argument of every call.  It is the wall clock of the  *)
(* phone and may be set to anything, backwards included.  `installed` is   *)
(* the roster the host passes to a call; `roster` is the one the handshake *)
(* started under.                                                          *)
(***************************************************************************)
EXTENDS Integers

CONSTANTS
  Window,            \* width of the replay bitmap (64 in the code)
  MaxPackets,        \* MAX_PACKETS
  HandshakeTimeout,  \* HANDSHAKE_TIMEOUT
  MaxLogicalTime,    \* MAX_LOGICAL_TIME
  Times,             \* values of `now` the hosts pass
  Rosters,           \* rosters the policies may install
  EpochOf,           \* the scope a roster binds into the Noise prologue
  ValidFrom,         \* VerifiedRoster::validate_at: valid_from <= now
  ValidUntil         \*                              now < valid_until

ASSUME WindowAssumption == Window \in Nat \ {0}
ASSUME PacketsAssumption == MaxPackets \in Nat \ {0}
ASSUME TimeAssumption ==
  /\ HandshakeTimeout \in Nat
  /\ MaxLogicalTime \in Nat
  /\ Times \subseteq Nat
ASSUME RosterAssumption ==
  /\ EpochOf \in [Rosters -> Nat]
  /\ ValidFrom \in [Rosters -> Nat]
  /\ ValidUntil \in [Rosters -> Nat]

Initiator == "initiator"
Responder == "responder"
Roles == {Initiator, Responder}
Other(r) == IF r = Initiator THEN Responder ELSE Initiator

Nonces == 0 .. MaxPackets - 1

VARIABLES
  phase,      \* "idle", "handshake", "session" or "closed"
  step,       \* handshake messages this end has written or read
  started,    \* Config.now of the handshake
  roster,     \* digest the handshake started under
  installed,  \* roster the host passes now
  clock,      \* now, at each host
  expects,    \* TRUE iff the peer's certified identity is acceptable here
  sentAuth,   \* Session.sent_auth
  peer,       \* Session.peer.is_some()
  next,       \* Session.next
  highest,    \* Replay.highest, -1 for None
  bits,       \* Replay.bits, as the set of its one positions
  wire,       \* every frame ever emitted
  sealed,     \* history: how often this end encrypted under each number
  handed      \* history: how often this end accepted each number

handshakeVars == <<step, started, roster>>
replayVars == <<highest, bits, handed>>
hostVars == <<installed, clock, expects>>
vars == <<phase, handshakeVars, hostVars, sentAuth, peer, next,
          replayVars, wire, sealed>>

Frames == [kind : {"hs", "packet"}, from : Roles, n : Nat]
HandshakeFrame(r, k) == [kind |-> "hs", from |-> r, n |-> k]
Packet(r, n) == [kind |-> "packet", from |-> r, n |-> n]

Init ==
  /\ phase = [r \in Roles |-> "idle"]
  /\ step = [r \in Roles |-> 0]
  /\ started = [r \in Roles |-> 0]
  /\ installed \in [Roles -> Rosters]
  /\ roster = installed
  /\ clock \in [Roles -> Times]
  /\ expects \in [Roles -> BOOLEAN]
  /\ sentAuth = [r \in Roles |-> FALSE]
  /\ peer = [r \in Roles |-> FALSE]
  /\ next = [r \in Roles |-> 1]
  /\ highest = [r \in Roles |-> -1]
  /\ bits = [r \in Roles |-> {}]
  /\ wire = {}
  /\ sealed = [r \in Roles |-> [n \in Nonces |-> 0]]
  /\ handed = [r \in Roles |-> [n \in Nonces |-> 0]]

ValidAt(ro, now) == ValidFrom[ro] <= now /\ now < ValidUntil[ro]
Deadline(r) == started[r] + HandshakeTimeout

-----------------------------------------------------------------------------
(* Replay: a bitmap of the Window numbers up to the highest accepted one.  *)

(* Mutant: numbers below the window are not refused.                       *)
ReplayCheckForgetsOld(high, seen, n) ==
  \/ high = -1
  \/ n > high
  \/ (high - n) \notin seen

ReplayCheck(high, seen, n) ==
  \/ high = -1
  \/ n > high
  \/ high - n < Window /\ (high - n) \notin seen

(* Mutant: the shift that clears the bitmap is taken one step too early.   *)
ShiftedClearsEarly(seen, k) ==
  IF k >= Window - 1 THEN {0}
  ELSE {b \in 0 .. Window - 1 : b - k \in seen} \cup {0}

Shifted(seen, k) ==
  IF k >= Window THEN {0}
  ELSE {b \in 0 .. Window - 1 : b - k \in seen} \cup {0}

ReplayAccept(r, n) ==
  /\ highest' = [highest EXCEPT ![r] = IF n > highest[r] THEN n ELSE highest[r]]
  /\ bits' = [bits EXCEPT ![r] =
       IF highest[r] = -1 THEN {0}
       ELSE IF n > highest[r] THEN Shifted(bits[r], n - highest[r])
       ELSE bits[r] \cup {highest[r] - n}]
  /\ handed' = [handed EXCEPT ![r][n] = @ + 1]

-----------------------------------------------------------------------------
(* Dropping the cryptographic state, from a handshake or from a session.   *)

Close(r) ==
  /\ phase' = [phase EXCEPT ![r] = "closed"]
  /\ peer' = [peer EXCEPT ![r] = FALSE]
  /\ UNCHANGED <<handshakeVars, sentAuth, next, replayVars, wire, sealed>>

(* The handshake. *)

Start(r) ==
  /\ phase[r] = "idle"
  /\ ValidAt(installed[r], clock[r])
  /\ clock[r] + HandshakeTimeout <= MaxLogicalTime
  /\ phase' = [phase EXCEPT ![r] = "handshake"]
  /\ started' = [started EXCEPT ![r] = clock[r]]
  /\ roster' = [roster EXCEPT ![r] = installed[r]]
  /\ UNCHANGED <<step, hostVars, sentAuth, peer, next, replayVars, wire, sealed>>

HandshakeInTime(r) == started[r] <= clock[r] /\ clock[r] < Deadline(r)
Finished(r) == step[r] = 3
MyTurn(r) == (step[r] % 2 = 0) <=> (r = Initiator)

HandshakeExpires(r) ==
  /\ phase[r] = "handshake"
  /\ ~HandshakeInTime(r)
  /\ Close(r)
  /\ UNCHANGED hostVars

Write(r) ==
  /\ phase[r] = "handshake"
  /\ HandshakeInTime(r)
  /\ ~Finished(r) /\ MyTurn(r)
  /\ step' = [step EXCEPT ![r] = @ + 1]
  /\ wire' = wire \cup {HandshakeFrame(r, step[r] + 1)}
  /\ UNCHANGED <<phase, started, roster, hostVars, sentAuth, peer, next,
                 replayVars, sealed>>

(* Mutant: the prologue is not bound into the handshake hash.              *)
NoiseReadsAnyScope(r, f) ==
  /\ f.kind = "hs"
  /\ f.n = step[r] + 1

(* The first message carries no ciphertext; from the second on, the Noise  *)
(* hash binds the prologue, so ends of different scopes fail to decrypt.   *)
NoiseReads(r, f) ==
  /\ f.kind = "hs"
  /\ f.n = step[r] + 1
  /\ f.n = 1 \/ EpochOf[roster[r]] = EpochOf[roster[f.from]]

Read(r, f) ==
  /\ phase[r] = "handshake"
  /\ HandshakeInTime(r)
  /\ ~Finished(r) /\ ~MyTurn(r)
  /\ f \in wire /\ f.from = Other(r)
  /\ \/ /\ NoiseReads(r, f)
        /\ step' = [step EXCEPT ![r] = @ + 1]
        /\ UNCHANGED <<phase, started, roster, sentAuth, peer, next,
                       replayVars, wire, sealed>>
     \/ ~NoiseReads(r, f) /\ Close(r)
  /\ UNCHANGED hostVars

(* finish consumes the handshake: every error in it is final.              *)
Finish(r) ==
  /\ phase[r] = "handshake"
  /\ HandshakeInTime(r)
  /\ \/ /\ ValidAt(installed[r], clock[r])
        /\ installed[r] = roster[r]
        /\ Finished(r)
        /\ phase' = [phase EXCEPT ![r] = "session"]
        /\ UNCHANGED <<handshakeVars, sentAuth, peer, next, replayVars, wire, sealed>>
     \/ /\ \/ ~ValidAt(installed[r], clock[r])
           \/ installed[r] # roster[r]
           \/ ~Finished(r)
        /\ Close(r)
  /\ UNCHANGED hostVars

-----------------------------------------------------------------------------
(* The session. *)

(* Mutant: authenticated as soon as the own proof is out.                  *)
IsAuthenticatedOneWay(r) == phase[r] = "session" /\ sentAuth[r]

IsAuthenticated(r) == phase[r] = "session" /\ sentAuth[r] /\ peer[r]

(* Mutant: the handshake deadline does not bind the finished session.      *)
SessionCheckNoDeadline(r) ==
  /\ started[r] <= clock[r]
  /\ installed[r] = roster[r]
  /\ ValidAt(installed[r], clock[r])

SessionCheck(r) ==
  /\ started[r] <= clock[r]
  /\ IsAuthenticated(r) \/ clock[r] < Deadline(r)
  /\ installed[r] = roster[r]
  /\ ValidAt(installed[r], clock[r])

(* Any call made when the check fails closes the session.                  *)
SessionLapses(r) ==
  /\ phase[r] = "session"
  /\ ~SessionCheck(r)
  /\ Close(r)
  /\ UNCHANGED hostVars

Seal(r, n) ==
  /\ wire' = wire \cup {Packet(r, n)}
  /\ sealed' = [sealed EXCEPT ![r][n] = @ + 1]

(* Mutant: the proof may be sealed again.                                  *)
AuthenticationAgain(r) ==
  /\ phase[r] = "session"
  /\ SessionCheck(r)
  /\ sentAuth' = [sentAuth EXCEPT ![r] = TRUE]
  /\ Seal(r, 0)
  /\ UNCHANGED <<phase, handshakeVars, hostVars, peer, next, replayVars>>

Authentication(r) ==
  /\ phase[r] = "session"
  /\ SessionCheck(r)
  /\ ~sentAuth[r]
  /\ sentAuth' = [sentAuth EXCEPT ![r] = TRUE]
  /\ Seal(r, 0)
  /\ UNCHANGED <<phase, handshakeVars, hostVars, peer, next, replayVars>>

(* Mutant: the packet limit is tested one too late.                        *)
SendPastLimit(r) ==
  /\ IsAuthenticated(r)
  /\ SessionCheck(r)
  /\ next[r] <= MaxPackets
  /\ next' = [next EXCEPT ![r] = @ + 1]
  /\ Seal(r, next[r])
  /\ UNCHANGED <<phase, handshakeVars, hostVars, sentAuth, peer, replayVars>>

Send(r) ==
  /\ IsAuthenticated(r)
  /\ SessionCheck(r)
  /\ \/ /\ next[r] < MaxPackets
        /\ next' = [next EXCEPT ![r] = @ + 1]
        /\ Seal(r, next[r])
        /\ UNCHANGED <<phase, handshakeVars, sentAuth, peer, replayVars>>
     \/ next[r] >= MaxPackets /\ Close(r)
  /\ UNCHANGED hostVars

Admissible(r, f) ==
  /\ phase[r] = "session"
  /\ SessionCheck(r)
  /\ f \in wire /\ f.kind = "packet" /\ f.from = Other(r)
  /\ ReplayCheck(highest[r], bits[r], f.n)

ReceiveProof(r, f) ==
  /\ Admissible(r, f)
  /\ f.n = 0
  /\ \/ /\ expects[r]
        /\ peer' = [peer EXCEPT ![r] = TRUE]
        /\ ReplayAccept(r, 0)
        /\ UNCHANGED <<phase, handshakeVars, sentAuth, next, wire, sealed>>
     \/ ~expects[r] /\ Close(r)
  /\ UNCHANGED hostVars

ReceiveData(r, f) ==
  /\ Admissible(r, f)
  /\ f.n # 0
  /\ IsAuthenticated(r)
  /\ ReplayAccept(r, f.n)
  /\ UNCHANGED <<phase, handshakeVars, hostVars, sentAuth, peer, next, wire, sealed>>

(* Session::close, and dropping a handshake that is no longer wanted.      *)
HostCloses(r) ==
  /\ phase[r] \in {"handshake", "session"}
  /\ Close(r)
  /\ UNCHANGED hostVars

-----------------------------------------------------------------------------
(* The host around the session: its clock, and its policy moving on.       *)

SetClock(r, t) ==
  /\ t # clock[r]
  /\ clock' = [clock EXCEPT ![r] = t]
  /\ UNCHANGED <<phase, handshakeVars, installed, expects, sentAuth, peer, next,
                 replayVars, wire, sealed>>

Install(r, ro) ==
  /\ EpochOf[ro] > EpochOf[installed[r]]
  /\ installed' = [installed EXCEPT ![r] = ro]
  /\ UNCHANGED <<phase, handshakeVars, clock, expects, sentAuth, peer, next,
                 replayVars, wire, sealed>>

Next ==
  \E r \in Roles :
    \/ Start(r) \/ Write(r) \/ Finish(r) \/ HandshakeExpires(r)
    \/ Authentication(r) \/ Send(r) \/ SessionLapses(r) \/ HostCloses(r)
    \/ \E f \in wire : Read(r, f) \/ ReceiveProof(r, f) \/ ReceiveData(r, f)
    \/ \E t \in Times : SetClock(r, t)
    \/ \E ro \in Rosters : Install(r, ro)

Spec == Init /\ [][Next]_vars

-----------------------------------------------------------------------------
(* Every variable has its type.                                            *)
TypeOK ==
  /\ phase \in [Roles -> {"idle", "handshake", "session", "closed"}]
  /\ step \in [Roles -> 0 .. 3]
  /\ started \in [Roles -> Nat]
  /\ roster \in [Roles -> Rosters]
  /\ installed \in [Roles -> Rosters]
  /\ clock \in [Roles -> Times]
  /\ expects \in [Roles -> BOOLEAN]
  /\ sentAuth \in [Roles -> BOOLEAN]
  /\ peer \in [Roles -> BOOLEAN]
  /\ next \in [Roles -> 1 .. MaxPackets]
  /\ highest \in [Roles -> -1 .. MaxPackets - 1]
  /\ bits \in [Roles -> SUBSET (0 .. Window - 1)]
  /\ wire \subseteq Frames
  /\ sealed \in [Roles -> [Nonces -> Nat]]
  /\ handed \in [Roles -> [Nonces -> Nat]]

(* However frames are delayed, reordered or repeated, Session::receive     *)
(* hands each number to the host at most once, the identity proof too.     *)
AcceptOnce == \A r \in Roles : \A n \in Nonces : handed[r][n] <= 1

(* No (key, nonce) pair is ever used twice: Session::send and              *)
(* Session::authentication never encrypt two frames under one number.      *)
NonceFresh == \A r \in Roles : \A n \in Nonces : sealed[r][n] <= 1

(* The window refuses nothing it could still tell apart: a number less     *)
(* than Window below the highest is refused exactly when it was accepted.  *)
ReplayExact ==
  \A r \in Roles : \A n \in Nonces :
    highest[r] - n < Window =>
      (ReplayCheck(highest[r], bits[r], n) <=> handed[r][n] = 0)

(* Data is handed over only between ends that both accepted the other's    *)
(* certified identity: a receiver of data accepted the sender's proof, and *)
(* the sender had accepted the receiver's proof before it sealed the data. *)
DataAfterMutualProof ==
  \A r \in Roles : \A n \in Nonces :
    (n # 0 /\ handed[r][n] > 0) =>
      /\ handed[r][0] > 0 /\ handed[Other(r)][0] > 0
      /\ expects[r] /\ expects[Other(r)]
      /\ sealed[r][0] > 0 /\ sealed[Other(r)][n] > 0

(* Handshake::finish never yields a session across two scopes: whoever has *)
(* a session has a peer whose handshake was bound to the same epoch.       *)
SameScope ==
  \A r \in Roles :
    phase[r] = "session" => EpochOf[roster[r]] = EpochOf[roster[Other(r)]]

(* A session becomes authenticated only before its handshake deadline, on  *)
(* a clock not behind its start, under the very roster it started with.    *)
AuthenticatedInTime ==
  [][\A r \in Roles :
       (~IsAuthenticated(r) /\ IsAuthenticated(r)') =>
         /\ started[r] <= clock[r] /\ clock[r] < Deadline(r)
         /\ installed[r] = roster[r]
         /\ ValidAt(roster[r], clock[r])]_vars
=============================================================================
