----------------------------- MODULE MCRuntime ------------------------------
(***************************************************************************)
(* Instances of the reducers of crates/mesh-runtime for TLC.  They share   *)
(* no state, so each behaviour exercises one of them (part): the sender    *)
(* across a restart, the sender with its slots full, the receiver and the  *)
(* event ring.                                                             *)
(***************************************************************************)
EXTENDS Runtime

CONSTANT SlotCommands

VARIABLE part

Slots == INSTANCE DurableSender WITH
  Commands <- SlotCommands, MaxPendingSends <- 2, MaxOperations <- 1, MaxIncarnations <- 1

reducer == <<incarnation, next_token, pending, effects, callbacks, repeats, now>>
outgoing == <<operations, next_sequence, committed, accepted>>
incoming == <<stored, receipts, signed, received>>

Command(operation, digest, expires_at) ==
  [operation |-> [name |-> operation], digest |-> digest, expires_at |-> expires_at]

(* The operation identifier is used again for another command.             *)
MCCommands == {Command("p", 1, 1), Command("p", 2, 2)}
MCSlotCommands == MCCommands \cup {Command("q", 3, 1)}
MCArriving == {[name |-> "x", expires_at |-> 1], [name |-> "y", expires_at |-> 2]}

PartInit ==
  /\ part \in {"send", "slots", "receive", "ring"}
  /\ Send!Init /\ Recv!Init /\ Init

SendStep == part = "send" /\ Send!Next /\ UNCHANGED <<part, incoming, vars>>
SlotStep == part = "slots" /\ Slots!Next /\ UNCHANGED <<part, incoming, vars>>
ReceiveStep == part = "receive" /\ Recv!Next /\ UNCHANGED <<part, outgoing, vars>>
RingStep == part = "ring" /\ Next /\ UNCHANGED <<part, reducer, outgoing, incoming>>

PartNext == SendStep \/ SlotStep \/ ReceiveStep \/ RingStep

(* The fairness of DurableSender, for its two instances.                   *)
Executes ==
  /\ \E k \in DOMAIN effects :
       (part = "send" /\ Send!Execute(k)) \/ (part = "slots" /\ Slots!Execute(k))
  /\ UNCHANGED <<part, incoming, vars>>
CallsBack ==
  /\ part \in {"send", "slots"}
  /\ \E c \in callbacks : Send!Callback(c)
  /\ UNCHANGED <<part, incoming, vars>>

parts == <<part, reducer, outgoing, incoming, vars>>

PartSpec == PartInit /\ [][PartNext]_parts /\ WF_parts(Executes) /\ WF_parts(CallsBack)

-----------------------------------------------------------------------------
(* Every send is answered (DurableSender.tla).                             *)
SendAnswered == part \in {"send", "slots"} => Slots!SendAnswered
=============================================================================
