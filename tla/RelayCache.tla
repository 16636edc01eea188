---------------------------- MODULE RelayCache -----------------------------
(***************************************************************************)
(* One phone's forwarding gate on its own: frames of every kind arrive     *)
(* from authenticated neighbours in any order, any number of times, while  *)
(* time passes.  The gate lives in memory, so a restart empties it.        *)
(***************************************************************************)
EXTENDS RelayGate

CONSTANTS
  Local,      \* the phone whose gate this is
  Members,    \* authors and neighbours
  Ids,        \* relay identifiers
  Expires,    \* expiry of a key: relays copy it from the origin's frame
  HopLimit,   \* hop limit the origin puts on a frame
  MaxTime     \* bound on the clock

Keys == Members \X Ids
OtherKeys == (Members \ {Local}) \X Ids

ASSUME ExpiresAssumption == Expires \in [Keys -> Nat]
ASSUME HopLimitAssumption == HopLimit \in 1 .. MaxRelayHops
ASSUME TimeAssumption == MaxTime \in Nat

VARIABLES
  seen,      \* RelayCache.seen
  now,       \* the host's clock, which here never steps back
  forwards,  \* history: forward decisions per key since the gate was opened,
             \* counted up to 2
  evicted    \* history: keys the gate gave up before they expired

vars == <<seen, now, forwards, evicted>>

Frame(key, via, hops) ==
  [origin |-> key[1], id |-> key[2], previous_hop |-> via,
   expires_at |-> Expires[key], hop_limit |-> HopLimit, hops |-> hops]

Init ==
  /\ seen = NothingSeen
  /\ now = 0
  /\ forwards = [k \in Keys |-> 0]
  /\ evicted = {}

Accept(key, via, hops) ==
  LET frame == Frame(key, via, hops)
      decision == Decision(seen, Local, frame, via, now)
  IN  /\ seen' = SeenAfter(seen, frame, decision, now)
      /\ forwards' = [forwards EXCEPT ![key] =
                        IF decision = "Forward" /\ @ < 2 THEN @ + 1 ELSE @]
      /\ evicted' = evicted \cup {k \in DOMAIN seen \ DOMAIN seen' : now < seen[k].expires_at}
      /\ now' = now

Tick ==
  /\ now < MaxTime
  /\ now' = now + 1
  /\ UNCHANGED <<seen, forwards, evicted>>

(* relay_gate_release and relay_gate_open, or a restart of the process.    *)
Reopen ==
  /\ seen' = NothingSeen
  /\ forwards' = [k \in Keys |-> 0]
  /\ evicted' = {}
  /\ now' = now

Next ==
  \/ \E key \in Keys, via \in Members, hops \in 0 .. HopLimit : Accept(key, via, hops)
  \/ Tick
  \/ Reopen

Spec == Init /\ [][Next]_vars

-----------------------------------------------------------------------------
(* Every variable has its type, and the table never outgrows               *)
(* MAX_RELAY_DEDUP, whatever arrives.                                      *)
TypeOK ==
  /\ Cardinality(DOMAIN seen) <= MaxRelayDedup
  /\ DOMAIN seen \subseteq OtherKeys
  /\ \A k \in DOMAIN seen : seen[k] \in SeenRelay /\ seen[k].expires_at = Expires[k]
  /\ now \in 0 .. MaxTime
  /\ forwards \in [Keys -> 0 .. 2]
  /\ evicted \subseteq OtherKeys

(* A valid object has at most one forward decision per phone for as long   *)
(* as the gate is open, whatever the order of arrivals and expiries,       *)
(* unless a full gate had to give it up.  The comment on RelayCache does   *)
(* not make that exception: "this reducer guarantees that a valid object   *)
(* has at most one forward decision per phone".                            *)
AtMostOneForward == \A k \in Keys \ evicted : forwards[k] <= 1

(* A key still alive is only forgotten by a full gate, to admit a new key, *)
(* and only if no key that stays would have expired before it.             *)
EvictsEarliest ==
  [][\A k \in DOMAIN seen \ DOMAIN seen' :
       (now < seen[k].expires_at /\ seen' # NothingSeen) =>
         /\ Cardinality(DOMAIN seen) >= MaxRelayDedup
         /\ \A j \in DOMAIN seen \cap DOMAIN seen' : NoLater(seen[k], seen[j])]_vars
=============================================================================
