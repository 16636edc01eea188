------------------------------ MODULE Runtime ------------------------------
(***************************************************************************)
(* The reducers of crates/mesh-runtime side by side: the diagnostic event  *)
(* ring, the durable sender and the durable receiver.  The two durable     *)
(* ones are one kind of machine, so they use the same names.               *)
(***************************************************************************)
EXTENDS EventRing

CONSTANTS
  Commands, MaxPendingSends, MaxOperations,     \* sender
  Arriving, MaxPendingReceives,                 \* receiver
  MaxTokens, MaxIncarnations, MaxRepeats, MaxTime

VARIABLES
  incarnation, next_token, pending, effects, callbacks, repeats, now,  \* both reducers
  operations, next_sequence, committed, accepted,                      \* the sender's
  stored, receipts, signed, received                                   \* the receiver's

Send == INSTANCE DurableSender
Recv == INSTANCE DurableReceiver WITH next <- next_token

(* Accepted means committed, once (DurableSender.tla).                     *)
AcceptedIsDurable == Send!AcceptedIsDurable

(* Received means a receipt, once (DurableReceiver.tla).                   *)
ReceivedIsDurable == Recv!ReceivedIsDurable
=============================================================================
