------------------------------- MODULE Enqueue ------------------------------
(***************************************************************************)
(* enqueue_text of crates/mesh-ffi-c over the store of one phone: a group  *)
(* message (a logical message) becomes one sealed object per audience,     *)
(* each reserved and committed in transactions of its own.  The registry   *)
(* lock is held for the whole call, so nothing else reads or writes the    *)
(* store meanwhile; the process may die between any two transactions.      *)
(* Radios drain the outbox between calls, members show what reaches them   *)
(* and their receipts come back.                                           *)
(***************************************************************************)
EXTENDS OverlayPlan, Sequences

CONSTANTS
  Local,          \* this phone, a number like every member
  Rosters,        \* the policies that may be installed, as sets of members
  Logicals,       \* logical message identifiers the application uses
  Lifetime,       \* 900 seconds, scaled
  MaxObjects,     \* limits.objects
  MaxOperations,  \* limits.operations
  MaxSequence,    \* MAX_LOGICAL_TIME, where next_sequence stops
  MaxEpoch,       \* bound on the policies installed
  MaxTime,        \* bound on the clock
  MaxCrashes      \* bound on the restarts of the process

ASSUME EnqueueAssumption ==
  /\ MaxTargets \in Nat \ {0}
  /\ Lifetime \in Nat
  /\ \A members \in Rosters : IsFiniteSet(members)

VARIABLES
  policy,         \* members of the active policy; {} when none is valid
  epoch,          \* its epoch
  next_sequence,  \* meta.next_sequence
  reserved,       \* sequences of the operations without an object
  objects,        \* committed objects, each with its operation
  outbox,         \* the outbox table, a subset of objects
  logical,        \* the logical_messages table
  receipts,       \* the target_receipts table: objects and their targets
  call,           \* the enqueue_text call in progress
  now, crashes,
  sent,           \* history: objects that left through a radio
  shown,          \* history: objects shown, with the member that did
  accepted        \* history: what was promised when a call first succeeded

store == <<next_sequence, reserved, objects, outbox, logical, receipts>>
world == <<sent, shown>>
vars == <<policy, epoch, store, call, now, crashes, world, accepted>>

Idle == [phase |-> "idle"]
Nothing == [until |-> 0, targets |-> {}]

Of(l, set) == {o \in set : o.logical = l}
Targets(members) == members \ {Local}

Init ==
  /\ policy \in Rosters /\ epoch = 1
  /\ next_sequence = 1 /\ reserved = {} /\ objects = {} /\ outbox = {}
  /\ logical = [l \in {} |-> <<>>] /\ receipts = {}
  /\ call = Idle /\ now = 1 /\ crashes = 0
  /\ sent = {} /\ shown = {}
  /\ accepted = [l \in Logicals |-> Nothing]

Without(table, ids) == [l \in DOMAIN table \ ids |-> table[l]]

(* delete_object of each object of a set: the rows that name it go too.    *)
DeleteObjects(gone) ==
  /\ objects' = objects \ gone
  /\ outbox' = outbox \ gone
  /\ receipts' = {r \in receipts : r[1] \notin gone}

(* prune_expired: expired objects, logical messages that expired or never  *)
(* got an object, and every reservation without an object.                 *)
PruneExpired ==
  LET gone == {o \in objects : o.expires_at <= now}
  IN  /\ DeleteObjects(gone)
      /\ logical' = Without(logical, {l \in DOMAIN logical :
                        logical[l].expires_at <= now \/ Of(l, objects \ gone) = {}})
      /\ reserved' = {}
      /\ UNCHANGED next_sequence

(* logical_delivery_summary.                                               *)
CommittedAudiences(l) == Cardinality(Of(l, objects))
DeliveredTargets(l) == Cardinality({r \in receipts : r[1].logical = l})

(* Mutant: delivery of every committed audience counts as delivery.        *)
StateAnyAudience(l) ==
  IF logical[l].expires_at <= now THEN "Expired"
  ELSE IF \A o \in Of(l, objects) : \A t \in o.audience : <<o, t>> \in receipts
  THEN "Delivered"
  ELSE "Queued"

State(l) ==
  IF \/ CommittedAudiences(l) > logical[l].audience_count
     \/ DeliveredTargets(l) > logical[l].target_count THEN "Corrupt"
  ELSE IF logical[l].expires_at <= now THEN "Expired"
  ELSE IF /\ CommittedAudiences(l) = logical[l].audience_count
          /\ DeliveredTargets(l) = logical[l].target_count THEN "Delivered"
  ELSE IF DeliveredTargets(l) > 0 THEN "PartiallyDelivered"
  ELSE "Queued"

(* What enqueue_text finds out before it changes anything but the prune.   *)
Known(l) == l \in DOMAIN logical /\ logical[l].expires_at > now /\ Of(l, objects) # {}

SameShape(l) ==
  /\ logical[l].target_count = Cardinality(Targets(policy))
  /\ logical[l].audience_count = Len(BroadcastAudiences(Local, policy))

Owned(l) == CommittedAudiences(l) = logical[l].audience_count

(* The call up to its first write: the prune, then the policy, the         *)
(* audiences and the summary of an earlier attempt.                        *)
Start(l) ==
  /\ call = Idle
  /\ PruneExpired
  /\ call' =
       IF policy = {} \/ (Known(l) /\ (State(l) = "Corrupt" \/ ~SameShape(l) \/ Owned(l)))
       THEN Idle
       ELSE [phase |-> IF Known(l) THEN "rollback" ELSE "begin", logical |-> l,
             audiences |-> BroadcastAudiences(Local, policy), at |-> now, sequence |-> 0]
  /\ UNCHANGED <<policy, epoch, now, crashes, world, accepted>>

(* rollback_logical_message.                                               *)
(* Mutant: the logical message goes, its objects stay.                     *)
RollbackShell(l) ==
  /\ logical' = Without(logical, {l})
  /\ reserved' = {}
  /\ UNCHANGED <<next_sequence, objects, outbox, receipts>>

(* Mutant: the sequence numbers of the objects deleted are given back.     *)
RollbackSequence(l) ==
  /\ DeleteObjects(Of(l, objects))
  /\ logical' = Without(logical, {l})
  /\ reserved' = {}
  /\ next_sequence' = next_sequence - Cardinality(Of(l, objects))

RollbackLogicalMessage(l) ==
  /\ DeleteObjects(Of(l, objects))
  /\ logical' = Without(logical, {l})
  /\ reserved' = {}
  /\ UNCHANGED next_sequence

Rollback ==
  /\ call.phase = "rollback"
  /\ RollbackLogicalMessage(call.logical)
  /\ call' = [call EXCEPT !.phase = "begin"]
  /\ UNCHANGED <<policy, epoch, now, crashes, world, accepted>>

(* begin_logical_message: a group without other members is refused.        *)
Begin ==
  /\ call.phase = "begin"
  /\ IF call.audiences = <<>>
     THEN /\ call' = [call EXCEPT !.phase = "undo"]
          /\ UNCHANGED logical
     ELSE /\ call' = [call EXCEPT !.phase = "reserve"]
          /\ logical' = [l \in DOMAIN logical \cup {call.logical} |->
               IF l # call.logical THEN logical[l]
               ELSE [created_at |-> call.at, expires_at |-> call.at + Lifetime,
                     target_count |-> Cardinality(UNION {call.audiences[k] : k \in DOMAIN call.audiences}),
                     audience_count |-> Len(call.audiences)]]
  /\ UNCHANGED <<policy, epoch, next_sequence, reserved, objects, outbox, receipts,
                 now, crashes, world, accepted>>

(* reserve, under an operation identifier drawn for this audience.         *)
Reserve ==
  /\ call.phase = "reserve"
  /\ IF Cardinality(reserved) + Cardinality(objects) >= MaxOperations
        \/ next_sequence >= MaxSequence
     THEN /\ call' = [call EXCEPT !.phase = "undo"]
          /\ UNCHANGED <<next_sequence, reserved>>
     ELSE /\ next_sequence' = next_sequence + 1
          /\ reserved' = reserved \cup {next_sequence}
          /\ call' = [call EXCEPT !.phase = "commit", !.sequence = next_sequence]
  /\ UNCHANGED <<policy, epoch, objects, outbox, logical, receipts, now, crashes, world, accepted>>

Sealed ==
  LET k == 1 + Cardinality(Of(call.logical, objects))
  IN  [sequence |-> call.sequence, epoch |-> epoch, logical |-> call.logical,
       audience |-> call.audiences[k], expires_at |-> call.at + Lifetime]

(* seal_message and commit_sealed_logical: object, outbox, logical link    *)
(* and operation in one transaction.  The last audience ends the call.     *)
Commit ==
  /\ call.phase = "commit"
  /\ IF Cardinality(objects) >= MaxObjects
     THEN /\ call' = [call EXCEPT !.phase = "undo"]
          /\ UNCHANGED <<reserved, objects, outbox, accepted>>
     ELSE /\ objects' = objects \cup {Sealed}
          /\ outbox' = outbox \cup {Sealed}
          /\ reserved' = reserved \ {call.sequence}
          /\ IF Cardinality(Of(call.logical, objects')) = Len(call.audiences)
             THEN /\ call' = Idle
                  /\ accepted' = [accepted EXCEPT ![call.logical] =
                       [until |-> call.at + Lifetime,
                        targets |-> UNION {call.audiences[k] : k \in DOMAIN call.audiences}]]
             ELSE /\ call' = [call EXCEPT !.phase = "reserve"]
                  /\ UNCHANGED accepted
  /\ UNCHANGED <<policy, epoch, next_sequence, logical, receipts, now, crashes, world>>

(* The error path: whatever the call has written is rolled back.           *)
Undo ==
  /\ call.phase = "undo"
  /\ RollbackLogicalMessage(call.logical)
  /\ call' = Idle
  /\ UNCHANGED <<policy, epoch, now, crashes, world, accepted>>

Crash ==
  /\ crashes < MaxCrashes
  /\ crashes' = crashes + 1
  /\ call' = Idle
  /\ UNCHANGED <<policy, epoch, store, now, world, accepted>>

(* authenticated_announcement: the object is live and of this policy.      *)
Verifies(o) == policy # {} /\ o.epoch = epoch /\ o.expires_at > now

(* A neighbour is offered the outbox, at reconnection or after a call: all *)
(* of it, or nothing when one live object does not verify.                 *)
Drain(o) ==
  /\ call = Idle
  /\ o \in outbox \ sent
  /\ \A p \in outbox : p.expires_at > now => Verifies(p)
  /\ Verifies(o)
  /\ sent' = sent \cup {o}
  /\ UNCHANGED <<policy, epoch, store, call, now, crashes, shown, accepted>>

Show(o, t) ==
  /\ o \in sent /\ t \in o.audience /\ <<o, t>> \notin shown
  /\ o.expires_at > now
  /\ shown' = shown \cup {<<o, t>>}
  /\ UNCHANGED <<policy, epoch, store, call, now, crashes, sent, accepted>>

(* record_target_receipt: the last receipt takes the object off the        *)
(* outbox.                                                                 *)
RecordReceipt(o, t) ==
  /\ call = Idle
  /\ o \in objects /\ <<o, t>> \in shown \ receipts
  /\ Verifies(o)
  /\ receipts' = receipts \cup {<<o, t>>}
  /\ outbox' = IF \A u \in o.audience : <<o, u>> \in receipts' THEN outbox \ {o} ELSE outbox
  /\ UNCHANGED <<policy, epoch, next_sequence, reserved, objects, logical, call, now, crashes,
                 world, accepted>>

InstallPolicy(members) ==
  /\ call = Idle
  /\ epoch < MaxEpoch
  /\ policy' = members
  /\ epoch' = epoch + 1
  /\ UNCHANGED <<store, call, now, crashes, world, accepted>>

PolicyLapses ==
  /\ call = Idle
  /\ policy' = {}
  /\ UNCHANGED <<epoch, store, call, now, crashes, world, accepted>>

Tick ==
  /\ now < MaxTime
  /\ now' = now + 1
  /\ UNCHANGED <<policy, epoch, store, call, crashes, world, accepted>>

Next ==
  \/ \E l \in Logicals : Start(l)
  \/ Rollback \/ Begin \/ Reserve \/ Commit \/ Undo
  \/ Crash
  \/ \E o \in outbox : Drain(o)
  \/ \E o \in sent : \E t \in o.audience : Show(o, t) \/ RecordReceipt(o, t)
  \/ \E members \in Rosters \ {{}} : InstallPolicy(members)
  \/ PolicyLapses
  \/ Tick

Spec == Init /\ [][Next]_vars

-----------------------------------------------------------------------------
(* A logical message is reported as delivered only when everybody it was   *)
(* promised to has shown it, and its counts never read as corrupt, however *)
(* the call that made it was interrupted, undone and repeated: "A message  *)
(* becomes `Delivered` only once every certified target has a verified     *)
(* receipt and every audience committed".                                  *)
DeliveredIsShown ==
  \A l \in DOMAIN logical :
    call = Idle =>
      /\ State(l) # "Corrupt"
      /\ State(l) = "Delivered" =>
           /\ accepted[l].until = logical[l].expires_at
           /\ \A t \in accepted[l].targets : \E s \in shown : s[1].logical = l /\ s[2] = t

(* Once a call has succeeded, and until the message expires, the store     *)
(* holds exactly one object of it for every target and offers it until all *)
(* receipts are in; retries, crashes and full tables change nothing about  *)
(* that.                                                                   *)
AcceptedIsKept ==
  \A l \in Logicals :
    (accepted[l].until > now /\ call = Idle) =>
      /\ \A t \in accepted[l].targets :
           Cardinality({o \in Of(l, objects) : t \in o.audience}) = 1
      /\ \A o \in Of(l, objects) :
           o \in outbox \/ \A t \in o.audience : <<o, t>> \in receipts

(* No two objects ever leave this phone under one sequence number, nor is  *)
(* a number in use reserved again, although interrupted calls leave        *)
(* reservations behind and rollbacks delete objects.                       *)
SequenceOnce ==
  /\ \A o, p \in objects \cup sent : o.sequence = p.sequence => o = p
  /\ \A o \in objects \cup sent : o.sequence < next_sequence /\ o.sequence \notin reserved

(* What a rollback deletes has never left the phone: "Rolls back one       *)
(* enqueue which never became visible to a radio.  The host calls the      *)
(* radio drain only after the whole logical action succeeds, so these      *)
(* objects cannot have left this store yet".                               *)
RollbackUnsent ==
  [][(Rollback \/ Undo) => (objects \ objects') \cap sent = {}]_vars
=============================================================================
