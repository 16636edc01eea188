--------------------------- MODULE EnqueueProofs ----------------------------
(***************************************************************************)
(* Enqueue for any rosters, messages, limits, crashes and clock.  The      *)
(* store alone tells how far a call got: the objects of a logical message  *)
(* carry different audiences of one division of the group, as many as its  *)
(* row says exactly when the call that made them succeeded.                *)
(***************************************************************************)
EXTENDS Enqueue, FiniteSetTheorems, FunctionTheorems, TLAPS

People == {people \in SUBSET UNION Rosters : IsFiniteSet(people)}
Objects ==
  [sequence : Nat, epoch : Nat, logical : Logicals, audience : People, expires_at : Nat]
Rows == [created_at : Nat, expires_at : Nat, target_count : Nat, audience_count : Nat \ {0}]
Calls ==
  [phase : {"rollback", "begin", "reserve", "commit", "undo"}, logical : Logicals,
   audiences : Seq(People), at : Nat, sequence : Nat]

StoreTyped ==
  /\ policy \in People /\ epoch \in Nat /\ next_sequence \in Nat /\ now \in Nat
  /\ reserved \subseteq Nat
  /\ objects \subseteq Objects /\ sent \subseteq Objects /\ IsFiniteSet(objects)
  /\ DOMAIN logical \subseteq Logicals
  /\ \A l \in DOMAIN logical : logical[l] \in Rows
  /\ accepted \in [Logicals -> [until : Nat, targets : People]]

(* Reservations are below the next number as well.                         *)
Numbered == SequenceOnce /\ \A n \in reserved : n < next_sequence

(* An object is linked to the row of its message and expires with it.      *)
Linked ==
  \A o \in objects : o.logical \in DOMAIN logical /\ o.expires_at = logical[o.logical].expires_at

Disjoint ==
  \A o, p \in objects : o.logical = p.logical /\ o # p => o.audience \cap p.audience = {}

AudiencesOf(set) == {o.audience : o \in set}

(* Everyone an object of the message is addressed to.                      *)
Covered(l) == UNION AudiencesOf(Of(l, objects))

(* A row's counts are those of the whole message; the call was accepted    *)
(* when all its audiences are there.                                       *)
Counted ==
  \A l \in DOMAIN logical :
    /\ CommittedAudiences(l) <= logical[l].audience_count
    /\ Cardinality(Covered(l)) <= logical[l].target_count
    /\ CommittedAudiences(l) = logical[l].audience_count =>
         /\ accepted[l].until = logical[l].expires_at
         /\ accepted[l].targets = Covered(l)
         /\ logical[l].target_count = Cardinality(Covered(l))

Complete ==
  \A l \in Logicals : accepted[l].until > now =>
    /\ l \in DOMAIN logical
    /\ CommittedAudiences(l) = logical[l].audience_count
    /\ logical[l].expires_at = accepted[l].until

Offered ==
  /\ outbox \subseteq objects
  /\ \A o \in objects : o \in outbox \/ \A t \in o.audience : <<o, t>> \in receipts
  /\ receipts \subseteq shown
  /\ \A r \in receipts : \E o \in objects : \E t \in o.audience : r = <<o, t>>

StoreInv ==
  /\ StoreTyped /\ Numbered /\ Linked /\ Disjoint /\ Counted /\ Complete /\ Offered

Firsts(audiences, n) == {audiences[k] : k \in 1 .. n}
Everyone(audiences) == UNION {audiences[k] : k \in DOMAIN audiences}

(* What a call in progress has written so far.                             *)
Written ==
  LET l == call.logical
      n == CommittedAudiences(l)
  IN  /\ l \in DOMAIN logical
      /\ logical[l].expires_at = call.at + Lifetime
      /\ logical[l].audience_count = Len(call.audiences)
      /\ logical[l].target_count = Cardinality(Everyone(call.audiences))
      /\ n < Len(call.audiences)
      /\ AudiencesOf(Of(l, objects)) = Firsts(call.audiences, n)

CallInv ==
  \/ call = Idle
  \/ /\ call \in Calls
     /\ accepted[call.logical].until <= now
     /\ Everyone(call.audiences) \in People
     /\ \A j, k \in DOMAIN call.audiences : j # k => call.audiences[j] \cap call.audiences[k] = {}
     /\ call.phase = "begin" => call.logical \notin DOMAIN logical
     /\ call.phase \in {"reserve", "commit"} => Written
     /\ call.phase = "commit" =>
          /\ call.sequence < next_sequence
          /\ \A o \in objects \cup sent : o.sequence # call.sequence

EnqueueInv == StoreInv /\ CallInv

-----------------------------------------------------------------------------
(* Parts of a group are groups.                                            *)
LEMMA PeopleParts ==
  ASSUME NEW people \in People, NEW part \in SUBSET people PROVE part \in People
  BY FS_Subset DEF People

(* Two finite sets of members make a finite set of members.                *)
LEMMA PeopleUnion ==
  ASSUME NEW a \in People, NEW b \in People PROVE a \cup b \in People
  BY FS_Union DEF People

(* Division of natural numbers, as the count of audiences needs it.        *)
LEMMA Division ==
  ASSUME NEW a \in Nat, NEW b \in Nat \ {0} PROVE a \div b \in Nat
  OBVIOUS

(* broadcast_audiences: no member is in two audiences, whatever the order  *)
(* of the members.                                                         *)
LEMMA AudiencesDisjoint ==
  ASSUME NEW members \in People
  PROVE  /\ BroadcastAudiences(Local, members) \in Seq(People)
         /\ Everyone(BroadcastAudiences(Local, members)) \in People
         /\ \A j, k \in DOMAIN BroadcastAudiences(Local, members) : j # k =>
              BroadcastAudiences(Local, members)[j] \cap BroadcastAudiences(Local, members)[k] = {}
<1> DEFINE targets == members \ {Local}
           count == (Cardinality(targets) + MaxTargets - 1) \div MaxTargets
           a == BroadcastAudiences(Local, members)
<1>1. count \in Nat
  <2>1. IsFiniteSet(targets)
    BY FS_Difference DEF People
  <2>2. Cardinality(targets) \in Nat
    BY <2>1, FS_CardinalityType
  <2>3. Cardinality(targets) + MaxTargets - 1 \in Nat
    BY <2>2, EnqueueAssumption
  <2> QED BY <2>3, Division, EnqueueAssumption
<1>2. a = [k \in 1 .. count |-> {m \in targets : Rank(m, targets) \div MaxTargets = k - 1}]
  BY DEF BroadcastAudiences
<1> HIDE DEF count, a
<1>3. \A k \in 1 .. count : a[k] \in SUBSET members
  BY <1>2
<1>4. a \in [1 .. count -> People]
  BY <1>2, <1>3, PeopleParts
<1>5. Everyone(a) \in SUBSET members
  BY <1>3, <1>4 DEF Everyone
<1>6. \A j, k \in 1 .. count : j # k => a[j] \cap a[k] = {}
  BY <1>1, <1>2
<1>7. a \in Seq(People) /\ Everyone(a) \in People
  BY <1>1, <1>4, <1>5, PeopleParts
<1>8. \A j, k \in DOMAIN a : j # k => a[j] \cap a[k] = {}
  BY <1>4, <1>6
<1> QED BY <1>7, <1>8 DEF a

(* The parts of the store's invariant a set of objects and its rows have   *)
(* to do with are kept where objects and rows go together.                 *)
LEMMA Removal ==
  ASSUME StoreInv, NEW gone, NEW ids, DeleteObjects(gone), logical' = Without(logical, ids),
         reserved' = {}, UNCHANGED <<policy, epoch, next_sequence, now, sent, shown, accepted>>,
         \A o \in objects : o \in gone <=> o.logical \in ids,
         \A l \in ids \cap Logicals : accepted[l].until <= now
  PROVE  StoreInv'
<1> USE DEF StoreInv
<1>1. /\ objects' = objects \ gone /\ outbox' = outbox \ gone
      /\ receipts' = {r \in receipts : r[1] \notin gone}
  BY DEF DeleteObjects
<1>2. /\ DOMAIN logical' = DOMAIN logical \ ids
      /\ \A l \in DOMAIN logical \ ids : logical'[l] = logical[l]
  BY DEF Without
<1>3. \A l \in DOMAIN logical \ ids : Of(l, objects') = Of(l, objects)
  BY <1>1 DEF Of
<1>4. StoreTyped'
  <2>1. IsFiniteSet(objects')
    BY <1>1, FS_Difference DEF StoreTyped
  <2> QED BY <1>1, <1>2, <2>1 DEF StoreTyped
<1>5. Numbered' /\ Disjoint' /\ Linked'
  BY <1>1, <1>2 DEF Numbered, SequenceOnce, Disjoint, Linked
<1>6. \A l \in DOMAIN logical \ ids :
        CommittedAudiences(l)' = CommittedAudiences(l) /\ Covered(l)' = Covered(l)
  BY <1>3 DEF CommittedAudiences, Covered
<1>7. Counted'
  BY <1>2, <1>6 DEF Counted
<1>8. Complete'
  <2> SUFFICES ASSUME NEW l \in Logicals, accepted[l].until > now
               PROVE  /\ l \in DOMAIN logical'
                      /\ CommittedAudiences(l)' = logical'[l].audience_count
                      /\ logical'[l].expires_at = accepted[l].until
    BY DEF Complete
  <2>1. l \in DOMAIN logical \ ids
    BY DEF Complete, StoreTyped
  <2> QED BY <1>2, <1>6, <2>1 DEF Complete
<1>9. Offered'
  BY <1>1 DEF Offered
<1> QED BY <1>4, <1>5, <1>7, <1>8, <1>9

(* Steps that leave the objects and rows alone, and those that touch no    *)
(* table.                                                                  *)
LEMMA ObjectsFrame ==
  ASSUME StoreInv, UNCHANGED <<next_sequence, reserved, objects, logical, accepted>>,
         policy' \in People, epoch' \in Nat, now' \in Nat, now <= now',
         sent' \subseteq sent \cup objects, Offered'
  PROVE  StoreInv'
<1> USE DEF StoreInv
<1>1. StoreTyped'
  BY DEF StoreTyped
<1>2. Numbered' /\ Disjoint' /\ Linked'
  BY DEF Numbered, SequenceOnce, Disjoint, Linked
<1>3. \A l : CommittedAudiences(l)' = CommittedAudiences(l) /\ Covered(l)' = Covered(l)
  BY DEF CommittedAudiences, Covered, Of
<1>4. Counted'
  BY <1>3 DEF Counted
<1>5. Complete'
  BY <1>3 DEF Complete, StoreTyped
<1> QED BY <1>1, <1>2, <1>4, <1>5

(* A step that leaves the tables alone (policy, clock, radios, screens)    *)
(* keeps the invariant of the store.                                       *)
LEMMA StoreFrame ==
  ASSUME StoreInv,
         UNCHANGED <<next_sequence, reserved, objects, outbox, logical, receipts, accepted>>,
         policy' \in People, epoch' \in Nat, now' \in Nat, now <= now',
         sent' \subseteq sent \cup objects, shown \subseteq shown'
  PROVE  StoreInv'
<1>1. Offered'
  BY DEF StoreInv, Offered
<1> QED BY <1>1, ObjectsFrame

(* The same for the call in progress, which such a step does not touch.    *)
LEMMA CallFrame ==
  ASSUME StoreInv, CallInv, UNCHANGED <<next_sequence, objects, logical, accepted, call>>,
         now' \in Nat, now <= now', sent' \subseteq sent \cup objects
  PROVE  CallInv'
<1>1. CASE call = Idle
  BY <1>1 DEF CallInv
<1>2. CASE call # Idle
  <2>1. CommittedAudiences(call.logical)' = CommittedAudiences(call.logical)
    BY DEF CommittedAudiences, Of
  <2>2. Written => Written'
    BY <2>1 DEF Written, Of
  <2>3. call.logical \in Logicals
    BY <1>2 DEF CallInv, Calls
  <2>4. accepted[call.logical].until <= now'
    BY <1>2, <2>3 DEF CallInv, StoreInv, StoreTyped
  <2> QED BY <1>2, <2>2, <2>4 DEF CallInv
<1> QED BY <1>1, <1>2

(* A new store, with no call in progress, satisfies the invariant.         *)
LEMMA InitEnqueue == Init => EnqueueInv
<1> SUFFICES ASSUME Init PROVE EnqueueInv
  OBVIOUS
<1>1. policy \in People /\ {} \in People /\ IsFiniteSet({})
  BY EnqueueAssumption, FS_EmptySet DEF Init, People
<1>2. StoreTyped
  BY <1>1 DEF Init, StoreTyped, Nothing
<1>3. Numbered /\ Linked /\ Disjoint /\ Counted /\ Offered
  BY DEF Init, Numbered, SequenceOnce, Linked, Disjoint, Counted, Offered
<1>4. Complete
  BY DEF Init, Complete, Nothing
<1>5. CallInv
  BY DEF Init, CallInv
<1> QED BY <1>2, <1>3, <1>4, <1>5 DEF EnqueueInv, StoreInv

(* A message accepted and not yet expired is one the next call knows and   *)
(* owns.                                                                   *)
LEMMA AcceptedIsKnown ==
  ASSUME StoreInv, NEW l \in Logicals, accepted[l].until > now PROVE Known(l) /\ Owned(l)
<1>1. /\ l \in DOMAIN logical /\ CommittedAudiences(l) = logical[l].audience_count
      /\ logical[l].expires_at > now /\ logical[l].audience_count # 0
  BY DEF StoreInv, Complete, StoreTyped, Rows
<1>2. Of(l, objects) # {}
  BY <1>1, FS_EmptySet DEF CommittedAudiences
<1> QED BY <1>1, <1>2 DEF Known, Owned

(* The head of enqueue_text: prune, and what the summary knows.            *)
LEMMA StartKeeps ==
  ASSUME EnqueueInv, NEW l \in Logicals, Start(l) PROVE EnqueueInv'
<1> DEFINE gone == {o \in objects : o.expires_at <= now}
           ids == {k \in DOMAIN logical : logical[k].expires_at <= now \/ Of(k, objects \ gone) = {}}
<1> USE DEF EnqueueInv
<1>1. /\ DeleteObjects(gone) /\ logical' = Without(logical, ids) /\ reserved' = {}
      /\ UNCHANGED <<policy, epoch, next_sequence, now, sent, shown, accepted>>
  BY DEF Start, PruneExpired, world
<1>2. \A o \in objects : o \in gone <=> o.logical \in ids
  BY DEF StoreInv, Linked, Of
<1>3. \A k \in ids \cap Logicals : accepted[k].until <= now
  <2> SUFFICES ASSUME NEW k \in ids \cap Logicals, accepted[k].until > now PROVE FALSE
    BY DEF StoreInv, StoreTyped
  <2>1. Known(k)
    BY AcceptedIsKnown
  <2>2. PICK o \in Of(k, objects) : o \in gone
    BY <2>1 DEF Known, Of, StoreInv, StoreTyped, Rows, Linked
  <2> QED BY <2>1, <2>2 DEF Known, Of, StoreInv, Linked, StoreTyped, Rows
<1>4. ~Known(l) => l \notin DOMAIN logical'
  BY <1>1 DEF Known, Without, Of, StoreInv, StoreTyped, Rows
<1> HIDE DEF gone, ids
<1>5. StoreInv'
  BY <1>1, <1>2, <1>3, Removal
<1>6. CallInv'
  <2>1. CASE call' = Idle
    BY <2>1 DEF CallInv
  <2>2. CASE call' # Idle
    <3> DEFINE a == BroadcastAudiences(Local, policy)
    <3>1. /\ call' = [phase |-> IF Known(l) THEN "rollback" ELSE "begin", logical |-> l,
                      audiences |-> a, at |-> now, sequence |-> 0]
          /\ Known(l) => ~Owned(l)
      BY <2>2 DEF Start
    <3>2. accepted[l].until <= now
      BY <3>1, AcceptedIsKnown DEF StoreInv, StoreTyped
    <3>3. /\ a \in Seq(People) /\ Everyone(a) \in People
          /\ \A j, k \in DOMAIN a : j # k => a[j] \cap a[k] = {}
      BY AudiencesDisjoint DEF StoreInv, StoreTyped
    <3> HIDE DEF a
    <3>4. call' \in Calls
      BY <3>1, <3>3 DEF Calls, StoreInv, StoreTyped
    <3> QED BY <1>1, <1>4, <3>1, <3>2, <3>3, <3>4 DEF CallInv
  <2> QED BY <2>1, <2>2
<1> QED BY <1>5, <1>6

(* rollback_logical_message takes the row and its objects together.        *)
LEMMA RollbackStore ==
  ASSUME StoreInv, CallInv, call # Idle, RollbackLogicalMessage(call.logical),
         UNCHANGED <<policy, epoch, now, sent, shown, accepted>>
  PROVE  StoreInv' /\ DOMAIN logical' = DOMAIN logical \ {call.logical}
<1> DEFINE gone == Of(call.logical, objects)
           ids == {call.logical}
<1>1. /\ DeleteObjects(gone) /\ logical' = Without(logical, ids) /\ reserved' = {}
      /\ UNCHANGED <<policy, epoch, next_sequence, now, sent, shown, accepted>>
  BY DEF RollbackLogicalMessage
<1>2. \A o \in objects : o \in gone <=> o.logical \in ids
  BY DEF Of
<1>3. \A l \in ids \cap Logicals : accepted[l].until <= now
  BY DEF CallInv
<1> HIDE DEF gone
<1> QED BY <1>1, <1>2, <1>3, Removal DEF Without

(* The rollback of an attempt, by a later call or by the same one.         *)
LEMMA UndoingKeeps == ASSUME EnqueueInv, Rollback \/ Undo PROVE EnqueueInv'
<1> USE DEF EnqueueInv
<1>1. call # Idle
  BY DEF Rollback, Undo, Idle
<1>2. StoreInv' /\ DOMAIN logical' = DOMAIN logical \ {call.logical}
  BY <1>1, RollbackStore DEF Rollback, Undo, world
<1>3. CASE Undo
  BY <1>2, <1>3 DEF Undo, CallInv
<1>4. CASE Rollback
  <2>1. call' = [call EXCEPT !.phase = "begin"] /\ UNCHANGED <<now, accepted>>
    BY <1>4 DEF Rollback
  <2>2. /\ call' \in Calls /\ call'.phase = "begin"
        /\ call'.logical = call.logical /\ call'.audiences = call.audiences
    BY <1>1, <2>1 DEF CallInv, Calls
  <2> QED BY <1>1, <1>2, <2>1, <2>2 DEF CallInv
<1> QED BY <1>3, <1>4

(* begin_logical_message: a row without objects yet.                       *)
LEMMA BeginKeeps == ASSUME EnqueueInv, Begin PROVE EnqueueInv'
<1> DEFINE l == call.logical
           row == [created_at |-> call.at, expires_at |-> call.at + Lifetime,
                   target_count |-> Cardinality(Everyone(call.audiences)),
                   audience_count |-> Len(call.audiences)]
<1> USE DEF EnqueueInv
<1>1. /\ call \in Calls /\ l \in Logicals \ DOMAIN logical /\ call.phase = "begin"
      /\ accepted[l].until <= now
  BY DEF Begin, CallInv, Idle, Calls
<1>2. UNCHANGED <<policy, epoch, next_sequence, reserved, objects, outbox, receipts, now, sent,
                  shown, accepted>>
  BY DEF Begin, world
<1>3. CASE call.audiences = <<>>
  <2>1. call' = [call EXCEPT !.phase = "undo"] /\ logical' = logical
    BY <1>3 DEF Begin
  <2>2. /\ call' \in Calls /\ call'.phase = "undo"
        /\ call'.logical = l /\ call'.audiences = call.audiences
    BY <1>1, <2>1 DEF Calls
  <2>3. StoreInv'
    BY <1>2, <2>1, StoreFrame DEF StoreInv, StoreTyped
  <2> QED BY <1>1, <1>2, <2>2, <2>3 DEF CallInv, Idle
<1>4. CASE call.audiences # <<>>
  <2>1. /\ call' = [call EXCEPT !.phase = "reserve"]
        /\ logical' = [k \in DOMAIN logical \cup {l} |-> IF k # l THEN logical[k] ELSE row]
    BY <1>4 DEF Begin, Everyone
  <2>2. /\ call' \in Calls /\ call'.phase = "reserve" /\ call'.at = call.at
        /\ call'.logical = l /\ call'.audiences = call.audiences
    BY <1>1, <2>1 DEF Calls
  <2>3. Cardinality(Everyone(call.audiences)) \in Nat
    BY <1>1, FS_CardinalityType DEF CallInv, People, Idle
  <2>4. /\ row \in Rows /\ row.audience_count = Len(call.audiences)
        /\ row.target_count = Cardinality(Everyone(call.audiences))
        /\ row.expires_at = call.at + Lifetime
    <3>1. Len(call.audiences) \in Nat \ {0} /\ call.at \in Nat
      BY <1>1, <1>4 DEF Calls
    <3> QED BY <2>3, <3>1, EnqueueAssumption DEF Rows
  <2> HIDE DEF row
  <2>5. /\ DOMAIN logical' = DOMAIN logical \cup {l} /\ logical'[l] = row
        /\ \A k \in DOMAIN logical : logical'[k] = logical[k]
    BY <1>1, <2>1
  <2>6. Of(l, objects) = {}
    BY <1>1 DEF Of, StoreInv, Linked
  <2>7. \A k : CommittedAudiences(k)' = CommittedAudiences(k) /\ Covered(k)' = Covered(k)
    BY <1>2 DEF CommittedAudiences, Covered, Of
  <2>8. CommittedAudiences(l) = 0 /\ Covered(l) = {} /\ Cardinality(Covered(l)) = 0
    BY <2>6, FS_EmptySet DEF CommittedAudiences, Covered, AudiencesOf
  <2>9. StoreTyped'
    BY <1>1, <1>2, <2>4, <2>5 DEF StoreInv, StoreTyped
  <2>10. Numbered' /\ Linked' /\ Disjoint' /\ Offered'
    BY <1>1, <1>2, <2>5 DEF StoreInv, Numbered, SequenceOnce, Linked, Disjoint, Offered
  <2>11. Counted'
    <3> SUFFICES ASSUME NEW k \in DOMAIN logical'
                 PROVE  /\ CommittedAudiences(k) <= logical'[k].audience_count
                        /\ Cardinality(Covered(k)) <= logical'[k].target_count
                        /\ CommittedAudiences(k) = logical'[k].audience_count =>
                             /\ accepted[k].until = logical'[k].expires_at
                             /\ accepted[k].targets = Covered(k)
                             /\ logical'[k].target_count = Cardinality(Covered(k))
      BY <1>2, <2>7 DEF Counted
    <3>1. CASE k = l
      <4>1. row.audience_count \in Nat \ {0} /\ row.target_count \in Nat
        BY <2>4 DEF Rows
      <4> QED BY <2>5, <2>8, <3>1, <4>1
    <3>2. CASE k \in DOMAIN logical
      BY <2>5, <3>2 DEF StoreInv, Counted
    <3> QED BY <2>5, <3>1, <3>2
  <2>12. Complete'
    BY <1>1, <1>2, <2>5, <2>7 DEF StoreInv, StoreTyped, Complete
  <2>13. Written'
    <3>1. Len(call.audiences) \in Nat \ {0}
      BY <1>1, <1>4 DEF Calls
    <3>2. AudiencesOf({}) = Firsts(call.audiences, 0)
      BY DEF AudiencesOf, Firsts
    <3> QED BY <1>2, <2>2, <2>4, <2>5, <2>6, <2>7, <2>8, <3>1, <3>2 DEF Written
  <2>14. CallInv'
    BY <1>1, <1>2, <2>2, <2>13 DEF CallInv, Idle
  <2> QED BY <2>9, <2>10, <2>11, <2>12, <2>14 DEF StoreInv
<1> QED BY <1>3, <1>4

(* reserve takes a number nobody has had.                                  *)
LEMMA ReserveKeeps == ASSUME EnqueueInv, Reserve PROVE EnqueueInv'
<1> USE DEF EnqueueInv
<1>1. call \in Calls /\ call.phase = "reserve" /\ Written
  BY DEF Reserve, CallInv, Idle
<1>2. UNCHANGED <<policy, epoch, objects, outbox, logical, receipts, now, sent, shown, accepted>>
  BY DEF Reserve, world
<1>3. \/ call' = [call EXCEPT !.phase = "undo"] /\ UNCHANGED <<next_sequence, reserved>>
      \/ /\ next_sequence' = next_sequence + 1 /\ reserved' = reserved \cup {next_sequence}
         /\ call' = [call EXCEPT !.phase = "commit", !.sequence = next_sequence]
  BY DEF Reserve
<1>4. /\ call' \in Calls /\ call'.logical = call.logical /\ call'.audiences = call.audiences
      /\ call'.at = call.at /\ call'.phase \in {"undo", "commit"}
      /\ call'.phase = "commit" =>
           call'.sequence = next_sequence /\ next_sequence' = next_sequence + 1
  BY <1>1, <1>3 DEF Calls, StoreInv, StoreTyped
<1>5. StoreTyped'
  BY <1>2, <1>3 DEF StoreInv, StoreTyped
<1>6. Numbered'
  <2>1. next_sequence \in Nat /\ reserved \subseteq Nat
        /\ \A o \in objects \cup sent : o.sequence \in Nat
    BY DEF StoreInv, StoreTyped, Objects
  <2> QED BY <1>2, <1>3, <2>1 DEF StoreInv, Numbered, SequenceOnce
<1>7. \A l : CommittedAudiences(l)' = CommittedAudiences(l) /\ Covered(l)' = Covered(l)
  BY <1>2 DEF CommittedAudiences, Covered, Of
<1>8. Linked' /\ Disjoint' /\ Offered' /\ Counted' /\ Complete'
  BY <1>2, <1>7 DEF StoreInv, Linked, Disjoint, Offered, Counted, Complete
<1>9. Written'
  <2>1. Of(call'.logical, objects') = Of(call.logical, objects)
    BY <1>2, <1>4
  <2> QED BY <1>1, <1>2, <1>4, <2>1 DEF Written, CommittedAudiences
<1>10. ASSUME call'.phase = "commit"
       PROVE  /\ call'.sequence < next_sequence'
              /\ \A o \in objects \cup sent : o.sequence # call'.sequence
  BY <1>4, <1>10 DEF StoreInv, StoreTyped, Numbered, SequenceOnce, Objects
<1>11. CallInv'
  BY <1>1, <1>2, <1>4, <1>9, <1>10 DEF CallInv, Idle
<1> QED BY <1>5, <1>6, <1>8, <1>11 DEF StoreInv

(* commit_sealed_logical adds the object of the next audience; with the    *)
(* last one the message is complete and the call accepted.                 *)
LEMMA CommitKeeps == ASSUME EnqueueInv, Commit PROVE EnqueueInv'
<1> DEFINE l == call.logical
           n == CommittedAudiences(l)
<1> USE DEF EnqueueInv
<1>1. /\ call \in Calls /\ call.phase = "commit" /\ Written /\ l \in Logicals
      /\ accepted[l].until <= now /\ call.sequence < next_sequence
      /\ Everyone(call.audiences) \in People
      /\ \A j, k \in DOMAIN call.audiences : j # k => call.audiences[j] \cap call.audiences[k] = {}
      /\ \A o \in objects \cup sent : o.sequence # call.sequence
  BY DEF Commit, CallInv, Idle, Calls
<1>2. UNCHANGED <<policy, epoch, next_sequence, logical, receipts, now, sent, shown>>
  BY DEF Commit, world
<1>3. CASE Cardinality(objects) >= MaxObjects
  <2>1. call' = [call EXCEPT !.phase = "undo"] /\ UNCHANGED <<reserved, objects, outbox, accepted>>
    BY <1>3 DEF Commit
  <2>2. /\ call' \in Calls /\ call'.phase = "undo"
        /\ call'.logical = l /\ call'.audiences = call.audiences
    BY <1>1, <2>1 DEF Calls
  <2>3. StoreInv'
    BY <1>2, <2>1, StoreFrame DEF StoreInv, StoreTyped
  <2> QED BY <1>1, <1>2, <2>1, <2>2, <2>3 DEF CallInv, Idle
<1>4. CASE ~(Cardinality(objects) >= MaxObjects)
  <2>1. /\ objects' = objects \cup {Sealed} /\ outbox' = outbox \cup {Sealed}
        /\ reserved' = reserved \ {call.sequence}
        /\ \/ /\ Cardinality(Of(l, objects')) = Len(call.audiences) /\ call' = Idle
              /\ accepted' = [accepted EXCEPT ![l] = [until |-> call.at + Lifetime,
                                                    targets |-> Everyone(call.audiences)]]
           \/ /\ Cardinality(Of(l, objects')) # Len(call.audiences)
              /\ call' = [call EXCEPT !.phase = "reserve"] /\ accepted' = accepted
    BY <1>4 DEF Commit, Everyone
  <2>2. n \in Nat /\ n + 1 \in DOMAIN call.audiences /\ Len(call.audiences) \in Nat
    <3>1. n \in Nat
      <4>1. IsFiniteSet(Of(l, objects))
        BY FS_Subset DEF Of, StoreInv, StoreTyped
      <4> QED BY <4>1, FS_CardinalityType DEF CommittedAudiences
    <3> QED BY <1>1, <3>1 DEF Written, Calls
  <2>3. /\ Sealed \in Objects /\ Sealed.sequence = call.sequence /\ Sealed.logical = l
        /\ Sealed.audience = call.audiences[n + 1] /\ Sealed.expires_at = call.at + Lifetime
    <3>1. call.audiences[n + 1] \in People /\ call.at + Lifetime \in Nat
      BY <1>1, <2>2, EnqueueAssumption DEF Calls
    <3>2. Sealed = [sequence |-> call.sequence, epoch |-> epoch, logical |-> l,
                    audience |-> call.audiences[n + 1], expires_at |-> call.at + Lifetime]
      BY <2>2 DEF Sealed, CommittedAudiences
    <3>3. call.sequence \in Nat /\ epoch \in Nat
      BY <1>1 DEF Calls, StoreInv, StoreTyped
    <3> QED BY <1>1, <3>1, <3>2, <3>3 DEF Objects
  <2> HIDE DEF n
  <2>4. Sealed \notin objects
    BY <1>1, <2>3
  <2>5. /\ Of(l, objects') = Of(l, objects) \cup {Sealed}
        /\ \A k : k # l => Of(k, objects') = Of(k, objects)
    BY <2>1, <2>3 DEF Of
  <2>6. IsFiniteSet(objects') /\ Cardinality(Of(l, objects')) = n + 1
    <3>1. IsFiniteSet(objects) /\ IsFiniteSet(Of(l, objects)) /\ Sealed \notin Of(l, objects)
      BY <2>4, FS_Subset DEF Of, StoreInv, StoreTyped
    <3> QED BY <2>1, <2>5, <3>1, FS_AddElement DEF n, CommittedAudiences
  <2>7. AudiencesOf(Of(l, objects)) = Firsts(call.audiences, n)
    BY <1>1 DEF Written, n
  <2>8. AudiencesOf(Of(l, objects')) = Firsts(call.audiences, n + 1)
    <3>1. AudiencesOf(Of(l, objects')) = AudiencesOf(Of(l, objects)) \cup {call.audiences[n + 1]}
      BY <2>3, <2>5 DEF AudiencesOf
    <3>2. Firsts(call.audiences, n + 1) = Firsts(call.audiences, n) \cup {call.audiences[n + 1]}
      BY <2>2 DEF Firsts
    <3> QED BY <2>7, <3>1, <3>2
  <2>9. /\ UNION Firsts(call.audiences, n + 1) \in SUBSET Everyone(call.audiences)
        /\ Len(call.audiences) = n + 1 => UNION Firsts(call.audiences, n + 1) = Everyone(call.audiences)
    <3>1. DOMAIN call.audiences = 1 .. Len(call.audiences)
      BY <1>1 DEF Calls
    <3> QED BY <2>2, <3>1 DEF Firsts, Everyone
  <2>10. StoreTyped'
    <3>1. call.at + Lifetime \in Nat
      BY <1>1, EnqueueAssumption DEF Calls
    <3> QED BY <1>1, <1>2, <2>1, <2>3, <2>6, <3>1 DEF StoreInv, StoreTyped
  <2>11. Numbered'
    BY <1>1, <1>2, <2>1, <2>3 DEF StoreInv, Numbered, SequenceOnce
  <2>12. Linked' /\ Offered'
    BY <1>1, <1>2, <2>1, <2>3 DEF StoreInv, Linked, Offered, Written
  <2>13. Disjoint'
    <3>1. ASSUME NEW o \in objects, o.logical = l PROVE o.audience \cap Sealed.audience = {}
      <4>1. o.audience \in Firsts(call.audiences, n)
        BY <2>7, <3>1 DEF AudiencesOf, Of
      <4>2. PICK j \in 1 .. n : o.audience = call.audiences[j]
        BY <4>1 DEF Firsts
      <4>3. j \in DOMAIN call.audiences /\ j # n + 1
        BY <1>1, <2>2 DEF Calls
      <4> QED BY <1>1, <2>2, <2>3, <4>2, <4>3
    <3> QED BY <2>1, <2>3, <3>1 DEF StoreInv, Disjoint
  <2>14. /\ l \in DOMAIN logical /\ logical[l].expires_at = call.at + Lifetime
         /\ logical[l].audience_count = Len(call.audiences)
         /\ logical[l].target_count = Cardinality(Everyone(call.audiences))
         /\ n < Len(call.audiences)
    BY <1>1 DEF Written, n
  <2>15. \A k \in Logicals \ {l} : accepted'[k] = accepted[k]
    BY <2>1 DEF StoreInv, StoreTyped
  <2>16. /\ n + 1 = Len(call.audiences) => /\ accepted'[l].until = call.at + Lifetime
                                          /\ accepted'[l].targets = Everyone(call.audiences)
         /\ n + 1 # Len(call.audiences) => accepted'[l] = accepted[l]
    BY <1>1, <2>1, <2>6 DEF StoreInv, StoreTyped
  <2>17. Counted'
    <3>1. IsFiniteSet(Everyone(call.audiences))
      BY <1>1 DEF People
    <3>2. Cardinality(UNION Firsts(call.audiences, n + 1)) <= Cardinality(Everyone(call.audiences))
      BY <2>9, <3>1, FS_Subset
    <3> SUFFICES ASSUME NEW k \in DOMAIN logical
                 PROVE  LET cover == UNION AudiencesOf(Of(k, objects'))
                        IN  /\ Cardinality(Of(k, objects')) <= logical[k].audience_count
                            /\ Cardinality(cover) <= logical[k].target_count
                            /\ Cardinality(Of(k, objects')) = logical[k].audience_count =>
                                 /\ accepted'[k].until = logical[k].expires_at
                                 /\ accepted'[k].targets = cover
                                 /\ logical[k].target_count = Cardinality(cover)
      BY <1>2 DEF Counted, CommittedAudiences, Covered
    <3>3. CASE k = l
      <4>1. n + 1 <= Len(call.audiences)
        BY <2>2, <2>14
      <4>2. UNION AudiencesOf(Of(l, objects')) = UNION Firsts(call.audiences, n + 1)
        BY <2>8
      <4> QED BY <2>6, <2>9, <2>14, <2>16, <3>2, <3>3, <4>1, <4>2
    <3>4. CASE k # l
      <4>1. Of(k, objects') = Of(k, objects) /\ accepted'[k] = accepted[k]
        BY <2>5, <2>15, <3>4 DEF StoreInv, StoreTyped
      <4> QED BY <4>1 DEF StoreInv, Counted, CommittedAudiences, Covered
    <3> QED BY <3>3, <3>4
  <2>18. Complete'
    <3> SUFFICES ASSUME NEW k \in Logicals, accepted'[k].until > now
                 PROVE  /\ k \in DOMAIN logical
                        /\ Cardinality(Of(k, objects')) = logical[k].audience_count
                        /\ logical[k].expires_at = accepted'[k].until
      BY <1>2 DEF Complete, CommittedAudiences
    <3>1. CASE k = l
      BY <1>1, <2>6, <2>14, <2>16, <3>1 DEF StoreInv, StoreTyped
    <3>2. CASE k # l
      BY <2>5, <2>15, <3>2 DEF StoreInv, Complete, CommittedAudiences
    <3> QED BY <3>1, <3>2
  <2>19. CallInv'
    <3>1. CASE call' = Idle
      BY <3>1 DEF CallInv
    <3>2. CASE call' = [call EXCEPT !.phase = "reserve"] /\ accepted' = accepted
               /\ Cardinality(Of(l, objects')) # Len(call.audiences)
      <4>1. /\ call' \in Calls /\ call'.phase = "reserve" /\ call'.at = call.at
            /\ call'.logical = l /\ call'.audiences = call.audiences
        BY <1>1, <3>2 DEF Calls
      <4>2. Of(call'.logical, objects') = Of(l, objects')
        BY <4>1
      <4>3. Written'
        BY <1>2, <2>2, <2>6, <2>8, <2>14, <3>2, <4>1, <4>2 DEF Written, CommittedAudiences
      <4> QED BY <1>1, <1>2, <3>2, <4>1, <4>3 DEF CallInv
    <3> QED BY <2>1, <3>1, <3>2
  <2> QED BY <2>10, <2>11, <2>12, <2>13, <2>17, <2>18, <2>19 DEF StoreInv
<1> QED BY <1>3, <1>4

(* The steps of the world around the call, and the crash of the process.   *)
LEMMA WorldKeeps ==
  ASSUME EnqueueInv,
         \/ Crash \/ PolicyLapses \/ Tick
         \/ \E o \in outbox : Drain(o)
         \/ \E o \in sent : \E t \in o.audience : Show(o, t)
         \/ \E members \in Rosters \ {{}} : InstallPolicy(members)
  PROVE  EnqueueInv'
<1> USE DEF EnqueueInv
<1>1. UNCHANGED <<next_sequence, reserved, objects, outbox, logical, receipts, accepted>>
  BY DEF Crash, PolicyLapses, Tick, Drain, Show, InstallPolicy, store
<1>2. policy' \in People /\ epoch' \in Nat
  <2>1. policy \in People /\ epoch \in Nat /\ {} \in People /\ \A members \in Rosters : members \in People
    BY EnqueueAssumption, FS_EmptySet DEF StoreInv, StoreTyped, People
  <2>2. /\ policy' = policy \/ policy' = {} \/ policy' \in Rosters
        /\ epoch' = epoch \/ epoch' = epoch + 1
    BY DEF Crash, PolicyLapses, Tick, Drain, Show, InstallPolicy
  <2> QED BY <2>1, <2>2
<1>3. now' \in Nat /\ now <= now'
  <2>1. now' = now \/ now' = now + 1
    BY DEF Crash, PolicyLapses, Tick, Drain, Show, InstallPolicy
  <2> QED BY <2>1 DEF StoreInv, StoreTyped
<1>4. sent' \subseteq sent \cup objects /\ shown \subseteq shown'
  BY DEF Crash, PolicyLapses, Tick, Drain, Show, InstallPolicy, world, StoreInv, Offered
<1>5. call' = call \/ call' = Idle
  BY DEF Crash, PolicyLapses, Tick, Drain, Show, InstallPolicy
<1>6. StoreInv'
  BY <1>1, <1>2, <1>3, <1>4, StoreFrame
<1>7. CallInv'
  <2>1. CASE call' = call
    BY <1>1, <1>3, <1>4, <2>1, CallFrame
  <2>2. CASE call' = Idle
    BY <2>2 DEF CallInv
  <2> QED BY <1>5, <2>1, <2>2
<1> QED BY <1>6, <1>7

(* record_target_receipt.                                                  *)
LEMMA ReceiptKeeps ==
  ASSUME EnqueueInv, NEW o \in sent, NEW t \in o.audience, RecordReceipt(o, t) PROVE EnqueueInv'
<1> USE DEF EnqueueInv
<1>1. /\ UNCHANGED <<policy, epoch, next_sequence, reserved, objects, logical, call, now, sent,
                     shown, accepted>>
      /\ o \in objects /\ <<o, t>> \in shown /\ receipts' = receipts \cup {<<o, t>>}
      /\ outbox' = outbox \/
           (outbox' = outbox \ {o} /\ \A u \in o.audience : <<o, u>> \in receipts')
  BY DEF RecordReceipt, world
<1>2. Offered'
  BY <1>1 DEF StoreInv, Offered
<1>3. policy \in People /\ epoch \in Nat /\ now \in Nat /\ now <= now
  BY DEF StoreInv, StoreTyped
<1>4. StoreInv'
  BY <1>1, <1>2, <1>3, ObjectsFrame
<1>5. CallInv'
  BY <1>1, <1>3, CallFrame
<1> QED BY <1>4, <1>5

(* Every transaction, crash and step between calls keeps the invariant.    *)
LEMMA NextEnqueue == EnqueueInv /\ [Next]_vars => EnqueueInv'
<1> SUFFICES ASSUME EnqueueInv, [Next]_vars PROVE EnqueueInv'
  OBVIOUS
<1>1. CASE UNCHANGED vars
  <2>1. /\ UNCHANGED <<next_sequence, reserved, objects, outbox, logical, receipts, accepted, call>>
        /\ policy' \in People /\ epoch' \in Nat /\ now' \in Nat /\ now <= now'
        /\ sent' \subseteq sent \cup objects /\ shown \subseteq shown'
    BY <1>1 DEF vars, store, world, EnqueueInv, StoreInv, StoreTyped
  <2> QED BY <2>1, StoreFrame, CallFrame DEF EnqueueInv
<1>2. CASE Next
  BY <1>2, StartKeeps, UndoingKeeps, BeginKeeps, ReserveKeeps, CommitKeeps, WorldKeeps,
     ReceiptKeeps DEF Next
<1> QED BY <1>1, <1>2

(* In every state the store tells how far each call got, and a call in     *)
(* progress has written what its phase says.                               *)
THEOREM EnqueueInvariant == Spec => []EnqueueInv
  BY InitEnqueue, NextEnqueue, PTL DEF Spec

-----------------------------------------------------------------------------
(* The targets of a logical message can be counted.                        *)
LEMMA CoveredFinite ==
  ASSUME StoreInv, NEW l
  PROVE  /\ IsFiniteSet(Covered(l))
         /\ CommittedAudiences(l) \in Nat /\ Cardinality(Covered(l)) \in Nat
<1>1. IsFiniteSet(Of(l, objects))
  BY FS_Subset DEF Of, StoreInv, StoreTyped
<1>2. IsFiniteSet(AudiencesOf(Of(l, objects)))
  <2> DEFINE g == [o \in Of(l, objects) |-> o.audience]
  <2>1. g \in Surjection(Of(l, objects), AudiencesOf(Of(l, objects)))
    BY Fun_IsSurj DEF AudiencesOf
  <2> QED BY <1>1, <2>1, FS_Surjection
<1>3. \A a \in AudiencesOf(Of(l, objects)) : IsFiniteSet(a)
  BY DEF AudiencesOf, Of, StoreInv, StoreTyped, Objects, People
<1>4. IsFiniteSet(Covered(l))
  BY <1>2, <1>3, FS_UNION DEF Covered
<1> QED BY <1>1, <1>4, FS_CardinalityType DEF CommittedAudiences

(* The receipts of a message, taken to the members that gave them, are an  *)
(* injection into those its objects are addressed to.                      *)
LEMMA ReceiptsCounted ==
  ASSUME StoreInv, NEW l \in DOMAIN logical
  PROVE  /\ DeliveredTargets(l) \in Nat /\ DeliveredTargets(l) <= Cardinality(Covered(l))
         /\ DeliveredTargets(l) = Cardinality(Covered(l)) =>
              \A t \in Covered(l) : \E r \in receipts : r[1].logical = l /\ r[2] = t
<1> DEFINE R == {r \in receipts : r[1].logical = l}
           f == [r \in R |-> r[2]]
<1>1. \A r \in R : \E o \in objects : \E t \in o.audience : r = <<o, t>> /\ o.logical = l
  BY DEF StoreInv, Offered
<1>2. f \in [R -> Covered(l)]
  BY <1>1 DEF Covered, AudiencesOf, Of
<1>3. ASSUME NEW r \in R, NEW q \in R, f[r] = f[q] PROVE r = q
  <2>1. PICK o \in objects : \E t \in o.audience : r = <<o, t>> /\ o.logical = l
    BY <1>1
  <2>2. PICK p \in objects : \E t \in p.audience : q = <<p, t>> /\ p.logical = l
    BY <1>1
  <2> QED BY <1>3, <2>1, <2>2 DEF StoreInv, Disjoint
<1>4. f \in Injection(R, Covered(l))
  BY <1>2, <1>3, Fun_IsInj
<1>5. IsFiniteSet(Covered(l))
  BY CoveredFinite
<1> HIDE DEF f
<1>6. /\ IsFiniteSet(R) /\ Cardinality(R) <= Cardinality(Covered(l))
      /\ Cardinality(R) = Cardinality(Covered(l)) => f \in Surjection(R, Covered(l))
  BY <1>4, <1>5, FS_Injection
<1>7. ASSUME f \in Surjection(R, Covered(l)), NEW t \in Covered(l)
      PROVE  \E r \in receipts : r[1].logical = l /\ r[2] = t
  <2>1. PICK r \in R : f[r] = t
    BY <1>7, Fun_SurjectionProperties
  <2> QED BY <2>1 DEF f
<1>8. Cardinality(R) \in Nat
  BY <1>6, FS_CardinalityType
<1> QED BY <1>6, <1>7, <1>8 DEF DeliveredTargets

(* A call that is interrupted leaves reservations behind, and a rollback   *)
(* deletes objects, yet no number is given to two objects, deleted ones    *)
(* that had left included: reserve never takes a number back.              *)
THEOREM SequencesAreUsedOnce == Spec => []SequenceOnce
<1>1. EnqueueInv => SequenceOnce
  BY DEF EnqueueInv, StoreInv, Numbered
<1> QED BY <1>1, EnqueueInvariant, PTL

(* What enqueue_text accepted stays whole in the store, one object for     *)
(* every target, and on offer until all receipts are in: a repeated call   *)
(* finds it complete and returns before its rollback.                      *)
THEOREM AcceptedStaysWhole == Spec => []AcceptedIsKept
<1>1. ASSUME EnqueueInv PROVE AcceptedIsKept
  <2> USE <1>1 DEF EnqueueInv, StoreInv
  <2> SUFFICES ASSUME NEW l \in Logicals, accepted[l].until > now
               PROVE  /\ \A t \in accepted[l].targets :
                           Cardinality({o \in Of(l, objects) : t \in o.audience}) = 1
                      /\ \A o \in Of(l, objects) :
                           o \in outbox \/ \A t \in o.audience : <<o, t>> \in receipts
    BY DEF AcceptedIsKept
  <2>1. accepted[l].targets = Covered(l)
    BY DEF Complete, Counted
  <2>2. ASSUME NEW t \in Covered(l)
        PROVE  Cardinality({o \in Of(l, objects) : t \in o.audience}) = 1
    <3>1. PICK o \in Of(l, objects) : t \in o.audience
      BY DEF Covered, AudiencesOf
    <3>2. {p \in Of(l, objects) : t \in p.audience} = {o}
      BY <3>1 DEF Disjoint, Of
    <3> QED BY <3>2, FS_Singleton
  <2>3. \A o \in Of(l, objects) : o \in outbox \/ \A t \in o.audience : <<o, t>> \in receipts
    BY DEF Offered, Of
  <2> QED BY <2>1, <2>2, <2>3
<1> QED BY <1>1, EnqueueInvariant, PTL

(* logical_delivery_summary compares counts; that is enough for delivery   *)
(* to everybody because the audiences of a message share no member and a   *)
(* row's counts are those of the whole message.                            *)
THEOREM DeliveredMeansShown == Spec => []DeliveredIsShown
<1>1. ASSUME EnqueueInv PROVE DeliveredIsShown
  <2> USE <1>1 DEF EnqueueInv, StoreInv
  <2> SUFFICES ASSUME NEW l \in DOMAIN logical
               PROVE  /\ State(l) # "Corrupt"
                      /\ State(l) = "Delivered" =>
                           /\ accepted[l].until = logical[l].expires_at
                           /\ \A t \in accepted[l].targets :
                                \E s \in shown : s[1].logical = l /\ s[2] = t
    BY DEF DeliveredIsShown
  <2>1. /\ DeliveredTargets(l) \in Nat /\ DeliveredTargets(l) <= Cardinality(Covered(l))
        /\ DeliveredTargets(l) = Cardinality(Covered(l)) =>
             \A t \in Covered(l) : \E r \in receipts : r[1].logical = l /\ r[2] = t
    BY ReceiptsCounted
  <2>2. CommittedAudiences(l) \in Nat /\ Cardinality(Covered(l)) \in Nat
    BY CoveredFinite
  <2>3. logical[l].audience_count \in Nat /\ logical[l].target_count \in Nat
    BY DEF StoreTyped, Rows
  <2>4. /\ ~(CommittedAudiences(l) > logical[l].audience_count)
        /\ ~(DeliveredTargets(l) > logical[l].target_count)
    BY <2>1, <2>2, <2>3 DEF Counted
  <2>5. /\ State(l) # "Corrupt"
        /\ State(l) = "Delivered" => /\ CommittedAudiences(l) = logical[l].audience_count
                                     /\ DeliveredTargets(l) = logical[l].target_count
    BY <2>4 DEF State
  <2>6. CASE State(l) = "Delivered"
    <3>1. /\ accepted[l].until = logical[l].expires_at /\ accepted[l].targets = Covered(l)
          /\ DeliveredTargets(l) = Cardinality(Covered(l))
      BY <2>5, <2>6 DEF Counted
    <3> QED BY <2>1, <2>5, <3>1 DEF Offered
  <2> QED BY <2>5, <2>6
<1> QED BY <1>1, EnqueueInvariant, PTL
=============================================================================
