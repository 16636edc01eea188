----------------------------- MODULE EventRing ------------------------------
(***************************************************************************)
(* The process-scoped diagnostic runtime (crates/mesh-runtime, lib.rs) and *)
(* the application's view of it (app/lib/core/sdk/lab_controller.dart).    *)
(* The native executor is serial, so a call takes effect before any later  *)
(* one; its answer may be lost to the timeout.  The application may be     *)
(* relaunched while the runtime lives on, and its clock may be set back.   *)
(***************************************************************************)
EXTENDS Integers, Sequences, FiniteSets

CONSTANTS
  MaxEvents,   \* MAX_EVENTS, of the ring and of the application's list
  MaxCounter,  \* MAX_COUNTER
  Clocks       \* what the application's clock may read

VARIABLES
  sequence, last_request, ring,   \* Runtime
  snapshot,    \* cursor of the last snapshot taken over, -1 for none
  events,      \* _events
  request,     \* _pendingRequest, 0 for none
  recovering,  \* the verification goes on with subscribe(0)
  executed     \* history: every event there was

runtime == <<sequence, last_request, ring, executed>>
client == <<snapshot, events, request, recovering>>
vars == <<runtime, client>>

Init ==
  /\ sequence = 0 /\ last_request = 0 /\ ring = <<>>
  /\ snapshot = -1 /\ events = {} /\ request = 0 /\ recovering = FALSE
  /\ executed = {}

(* subscribe, for a runtime with this sequence and these events.           *)
Subscribe(cursor, last, kept) ==
  LET oldest == IF kept = <<>> THEN last + 1 ELSE Head(kept).sequence
      reset == cursor > last \/ cursor + 1 < oldest
  IN  [cursor |-> last, cursor_reset |-> reset,
       events |-> IF reset THEN {}
                  ELSE {kept[k] : k \in {j \in DOMAIN kept : kept[j].sequence > cursor}}]

(* verify_bridge up to its answer: what becomes of a request.              *)
(* Mutant: a request is old only if it is older than the last.             *)
VerdictLate(id) ==
  IF id \notin 1 .. MaxCounter THEN "invalid"
  ELSE IF id < last_request
  THEN IF \E k \in DOMAIN ring : ring[k].request_id = id THEN "repeated" ELSE "stale"
  ELSE IF sequence = MaxCounter THEN "pressure" ELSE "new"

Verdict(id) ==
  IF id \notin 1 .. MaxCounter THEN "invalid"
  ELSE IF id <= last_request
  THEN IF \E k \in DOMAIN ring : ring[k].request_id = id THEN "repeated" ELSE "stale"
  ELSE IF sequence = MaxCounter THEN "pressure" ELSE "new"

VerifyBridge(id) ==
  IF Verdict(id) = "new"
  THEN LET event == [sequence |-> sequence + 1, request_id |-> id]
       IN  /\ sequence' = sequence + 1
           /\ last_request' = id
           /\ ring' = Append(IF Len(ring) = MaxEvents THEN Tail(ring) ELSE ring, event)
           /\ executed' = executed \cup {event}
  ELSE UNCHANGED runtime

(* The list after _accept, which keeps the last events.                    *)
Accepted(s) ==
  LET all == (IF s.cursor_reset THEN {} ELSE events) \cup s.events
  IN  {e \in all : Cardinality({f \in all : f.sequence >= e.sequence}) <= MaxEvents}

Invalid(s) == s.cursor < snapshot /\ ~s.cursor_reset

(* refresh: one that is not answered leaves everything as it was.          *)
Refresh ==
  LET s == Subscribe(IF snapshot < 0 THEN 0 ELSE snapshot, sequence, ring)
  IN  /\ ~recovering
      /\ ~Invalid(s)
      /\ snapshot' = s.cursor /\ events' = Accepted(s)
      /\ UNCHANGED <<runtime, request, recovering>>

LastId == IF events = {} THEN 0 ELSE (CHOOSE e \in events : \A f \in events : f.request_id <= e.request_id).request_id
NewRequest(clock) == IF clock > LastId THEN clock ELSE LastId + 1

(* verify: an unanswered request stays pending and is sent again.          *)
Verify(clock) ==
  LET id == IF request = 0 THEN NewRequest(clock) ELSE request
      s == Subscribe(sequence, sequence', ring')
  IN  /\ snapshot >= 0 /\ ~recovering
      /\ VerifyBridge(id)
      /\ \/ request' = id /\ UNCHANGED <<snapshot, events, recovering>>
         \/ /\ Verdict(id) = "stale"
            /\ request' = 0
            /\ UNCHANGED <<snapshot, events, recovering>>
         \/ /\ Verdict(id) \in {"new", "repeated"}
            /\ ~Invalid(s)
            /\ snapshot' = s.cursor /\ events' = Accepted(s)
            /\ recovering' = (\A e \in events' : e.request_id # id)
            /\ request' = IF recovering' THEN id ELSE 0

(* The rest of verify for a repeated request: replay from the beginning.   *)
Recover ==
  LET s == Subscribe(0, sequence, ring)
  IN  /\ recovering
      /\ recovering' = FALSE
      /\ \/ UNCHANGED <<snapshot, events, request>>
         \/ /\ ~Invalid(s)
            /\ snapshot' = s.cursor /\ events' = Accepted(s) /\ request' = 0
      /\ UNCHANGED runtime

Relaunch ==
  /\ snapshot' = -1 /\ events' = {} /\ request' = 0 /\ recovering' = FALSE
  /\ UNCHANGED runtime

Next == Refresh \/ (\E clock \in Clocks : Verify(clock)) \/ Recover \/ Relaunch

Spec == Init /\ [][Next]_vars

-----------------------------------------------------------------------------
(* The list the application shows is a true and gapless piece of what the  *)
(* runtime recorded, up to date with the snapshot beside it unless a       *)
(* request is still open; and no request was executed twice, however often *)
(* it was sent: "Snapshots are complete and authoritative.  UI never       *)
(* guesses missing deltas".                                                *)
HistoryExact ==
  /\ events \subseteq executed
  /\ \A e, f \in events : \A n \in e.sequence .. f.sequence : \E g \in events : g.sequence = n
  /\ (events # {} /\ request = 0) => \E e \in events : e.sequence = snapshot
  /\ \A e, f \in executed : e.request_id = f.request_id => e = f
=============================================================================
