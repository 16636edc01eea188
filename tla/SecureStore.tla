---------------------------- MODULE SecureStore ----------------------------
(***************************************************************************)
(* The encrypted store of one phone (crates/mesh-store) and the boundary   *)
(* the hosts call it through (crates/mesh-ffi-c), as operators on a record *)
(* of its tables.  Each operator is one committed transaction, or one read *)
(* of a queue; a transaction the code refuses leaves the record as it is.  *)
(*                                                                         *)
(* What an object says is immaterial, so it is a number; numbers are       *)
(* ordered as the object identifiers are.  Its author, audience and expiry *)
(* are the signed manifest.  `ep[o]` is the epoch of the roster that       *)
(* signed the announcement of o: everything signed about o verifies under  *)
(* that epoch's roster and no other.                                       *)
(***************************************************************************)
EXTENDS Integers, FiniteSets

CONSTANTS
  Nodes,          \* members, one phone each
  Objects,        \* sealed objects, ordered by identifier
  Chunks,         \* chunk indices of an object
  Origin,         \* manifest.origin
  Targets,        \* manifest.targets
  Expiry,         \* manifest.expires_at
  Digest,         \* the order in which receipt digests sort, no two equal
  MemberOrder,    \* the order in which member identifiers sort
  OutboxOrder,    \* latest message first, then by identifier
  MaxObjects,     \* Limits.objects
  MaxOperations,  \* Limits.operations
  MaxOriginSlots  \* records a host drains from one queue in one turn

ASSUME ObjectsAssumption == Objects \subseteq Nat /\ IsFiniteSet(Objects)
ASSUME ManifestAssumption ==
  /\ Origin \in [Objects -> Nodes]
  /\ Targets \in [Objects -> SUBSET Nodes]
  /\ \A o \in Objects : Origin[o] \notin Targets[o]
  /\ Expiry \in [Objects -> Nat]
  /\ Digest \in [Objects \X Nodes -> Nat]
  /\ \A p, q \in Objects \X Nodes : Digest[p] = Digest[q] => p = q
ASSUME OrdersAssumption ==
  /\ Chunks \subseteq Nat \ {0} /\ IsFiniteSet(Chunks)
  /\ MemberOrder \in [Nodes -> Nat]
  /\ \A a, b \in Nodes : MemberOrder[a] = MemberOrder[b] => a = b
  /\ OutboxOrder \in [Objects -> Nat]
  /\ \A o, p \in Objects : OutboxOrder[o] = OutboxOrder[p] => o = p
ASSUME LimitsAssumption ==
  MaxObjects \in Nat /\ MaxOperations \in Nat /\ MaxOriginSlots \in Nat

(* Custody of an object, of a receipt or of an acknowledgement: which one, *)
(* the neighbour it came from and the hop count it continues with.         *)
Custody == [obj : Objects, from : Nodes, hops : Nat]
Held == [obj : Objects, actor : Nodes, from : Nodes, hops : Nat]

Stores ==
  [epoch          : Nat,                            \* installed policy
   objects        : SUBSET Objects,                 \* objects, auth_announcements
   chunks         : SUBSET (Objects \X Chunks),
   outbox         : SUBSET Objects,
   relay          : SUBSET Custody,                 \* relay_outbox, relay_metadata
   delivered      : SUBSET Objects,                 \* local_, auth_deliveries
   targetReceipts : SUBSET (Objects \X Nodes),
   acknowledged   : SUBSET Objects,                 \* receipt_acknowledgements
   relayReceipts  : SUBSET Held,
   relayAcks      : SUBSET Held]

EmptyStore ==
  [epoch |-> 1, objects |-> {}, chunks |-> {}, outbox |-> {}, relay |-> {},
   delivered |-> {}, targetReceipts |-> {}, acknowledged |-> {},
   relayReceipts |-> {}, relayAcks |-> {}]

Live(o, now) == now < Expiry[o]
Complete(st, o) == \A c \in Chunks : <<o, c>> \in st.chunks
Verifies(st, ep, o) == ep[o] = st.epoch

Current(held, now) == {h \in held : Live(h.obj, now)}

-----------------------------------------------------------------------------
(* Transactions. *)

(* prune_expired: delete_object for every expired object, and the expired  *)
(* receipt and acknowledgement custody.                                    *)
PruneExpiredReceipts(st, now) ==   \* mutant: receipt custody is not filtered
  [st EXCEPT !.relayReceipts = {}]

PruneExpired(st, now) ==
  [st EXCEPT
     !.objects = {o \in @ : Live(o, now)},
     !.chunks = {p \in @ : Live(p[1], now)},
     !.outbox = {o \in @ : Live(o, now)},
     !.relay = Current(@, now),
     !.delivered = {o \in @ : Live(o, now)},
     !.targetReceipts = {p \in @ : Live(p[1], now)},
     !.acknowledged = {o \in @ : Live(o, now)},
     !.relayReceipts = Current(@, now),
     !.relayAcks = Current(@, now)]

(* commit_outgoing: object, chunks and outbox entry together.              *)
CommitOutgoing(st, o) ==
  [st EXCEPT !.objects = @ \cup {o},
             !.chunks = @ \cup ({o} \X Chunks),
             !.outbox = @ \cup {o}]

HasRoomFor(st, o) == o \in st.objects \/ Cardinality(st.objects) < MaxObjects

AnnounceRefused(st, ep, o, now) ==
  ~Verifies(st, ep, o) \/ ~Live(o, now) \/ ~HasRoomFor(st, o)
Announce(st, o) == [st EXCEPT !.objects = @ \cup {o}]

(* put_relay_chunk.  The chunk that completes the object takes custody of  *)
(* it; a chunk of an object in custody must come with the route custody    *)
(* was taken under, or the whole transaction is a conflict.                *)
WithChunk(st, o, c) == [st EXCEPT !.chunks = @ \cup {<<o, c>>}]

InCustody(st, o) == \E r \in st.relay : r.obj = o

ChunkRefused(st, o, c, route, now) ==
  \/ o \notin st.objects
  \/ ~Live(o, now)
  \/ Complete(WithChunk(st, o, c), o) /\ InCustody(st, o) /\ route \notin st.relay

(* Mutant: the first chunk takes custody.                                  *)
PutRelayChunkEarly(st, o, c, route) ==
  [WithChunk(st, o, c) EXCEPT !.relay = @ \cup {route}]

PutRelayChunk(st, o, c, route) ==
  LET put == WithChunk(st, o, c)
  IN  IF Complete(put, o) THEN [put EXCEPT !.relay = @ \cup {route}] ELSE put

(* finalize_next_text after its prune: the first complete object addressed *)
(* here and not delivered is decrypted, marked delivered and receipted.    *)
DeliverableAgain(st, n, now) ==   \* mutant: delivered objects stay eligible
  {o \in st.objects : Complete(st, o) /\ n \in Targets[o] /\ Live(o, now)}

DeliverableAnywhere(st, n, now) ==   \* mutant: the audience is not checked
  {o \in st.objects : Complete(st, o) /\ o \notin st.delivered /\ Live(o, now)}

Deliverable(st, n, now) ==
  {o \in st.objects : /\ Complete(st, o) /\ o \notin st.delivered
                      /\ n \in Targets[o] /\ Live(o, now)}

IsFirst(o, objects) == \A p \in objects : o <= p

Finalized(st, ep, n, now) ==
  LET ready == Deliverable(st, n, now)
  IN  {o \in ready : IsFirst(o, ready) /\ Verifies(st, ep, o)}

Finalize(st, ep, n, now) ==
  [st EXCEPT !.delivered = @ \cup Finalized(st, ep, n, now)]

(* record_target_receipt at the origin: the last missing target retires    *)
(* the object from the outbox.                                             *)
AllConfirmed(st, o) == \A t \in Targets[o] : <<o, t>> \in st.targetReceipts

(* Mutant: the first receipt retires the object.                           *)
RecordTargetReceiptRetires(st, o, a) ==
  [st EXCEPT !.targetReceipts = @ \cup {<<o, a>>}, !.outbox = @ \ {o}]

RecordTargetReceipt(st, o, a) ==
  LET rec == [st EXCEPT !.targetReceipts = @ \cup {<<o, a>>}]
  IN  IF AllConfirmed(rec, o) THEN [rec EXCEPT !.outbox = @ \ {o}] ELSE rec

(* put_relay_receipt and put_relay_receipt_ack: expired rows go, a known   *)
(* row stays as it is, a new one needs room.                               *)
Holds(held, o, a) == \E h \in held : h.obj = o /\ h.actor = a

HoldRefused(held, item, now) ==
  \/ ~Live(item.obj, now)
  \/ /\ ~Holds(Current(held, now), item.obj, item.actor)
     /\ Cardinality(Current(held, now)) >= MaxOperations

Hold(held, item, now) ==
  IF Holds(Current(held, now), item.obj, item.actor)
  THEN Current(held, now)
  ELSE Current(held, now) \cup {item}

PutRelayReceipt(st, item, now) == [st EXCEPT !.relayReceipts = Hold(@, item, now)]
PutRelayReceiptAck(st, item, now) == [st EXCEPT !.relayAcks = Hold(@, item, now)]

RemoveRelayReceipt(st, o, a) ==
  [st EXCEPT !.relayReceipts = {h \in @ : ~(h.obj = o /\ h.actor = a)}]

RecordReceiptAck(st, o) == [st EXCEPT !.acknowledged = @ \cup {o}]

-----------------------------------------------------------------------------
(* What the drains read: the records a phone puts on its links.  A record  *)
(* carries the hop count of its frame; the sender is its previous hop.     *)

Records ==
  [kind : {"ann", "chunk", "receipt", "ack"}, obj : Objects, actor : Nodes,
   idx : Chunks \cup {0}, hops : Nat]

Ann(o, h) == [kind |-> "ann", obj |-> o, actor |-> Origin[o], idx |-> 0, hops |-> h]
Chunk(o, c, h) == [kind |-> "chunk", obj |-> o, actor |-> Origin[o], idx |-> c, hops |-> h]
Receipt(o, a, h) == [kind |-> "receipt", obj |-> o, actor |-> a, idx |-> 0, hops |-> h]
Ack(o, a, h) == [kind |-> "ack", obj |-> o, actor |-> a, idx |-> 0, hops |-> h]

Whole(o, h) == {Ann(o, h)} \cup {Chunk(o, c, h) : c \in Chunks}

(* A host reads a queue slot by slot and stops after MaxOriginSlots: a     *)
(* record has its turn if fewer records than that are listed before it.    *)
InTurn(earlier) == Cardinality(earlier) < MaxOriginSlots

(* outbox_record: the live objects of the outbox one after the other, or   *)
(* nothing at all when one that is reached does not verify under the       *)
(* installed roster.                                                       *)
OutboxQueue(st, now) == UNION {Whole(o, 0) : o \in {p \in st.outbox : Live(p, now)}}

ListedBefore(q, r) ==
  \/ OutboxOrder[q.obj] < OutboxOrder[r.obj]
  \/ q.obj = r.obj /\ q.idx < r.idx

OutboxRecords(st, ep, now) ==
  LET queue == OutboxQueue(st, now)
      turn == {r \in queue : InTurn({q \in queue : ListedBefore(q, r)})}
  IN  IF \A r \in turn : Verifies(st, ep, r.obj) THEN turn ELSE {}

(* receipt_record: receipts this phone signed and no origin acknowledged.  *)
ReceiptQueue(st, n, now) ==
  {Receipt(o, n, 0) : o \in {p \in st.delivered \ st.acknowledged : Live(p, now)}}

ReceiptRecords(st, n, now) ==
  LET queue == ReceiptQueue(st, n, now)
  IN  {r \in queue : InTurn({q \in queue : q.obj < r.obj})}

(* receipt_ack_record: an acknowledgement for every receipt recorded, or   *)
(* nothing when one reached cannot be signed under the installed roster.   *)
(* Mutant: one receipt is acknowledged to the whole audience.              *)
AckRecordsToAudience(st, ep, now) ==
  UNION {{Ack(p[1], t, 0) : t \in Targets[p[1]]} :
           p \in {q \in st.targetReceipts : Live(q[1], now) /\ Verifies(st, ep, q[1])}}

AckBefore(p, q) ==
  p[1] < q[1] \/ (p[1] = q[1] /\ MemberOrder[p[2]] < MemberOrder[q[2]])

AckRecords(st, ep, now) ==
  LET due == {p \in st.targetReceipts : Live(p[1], now)}
      turn == {q \in due : InTurn({p \in due : AckBefore(p, q)})}
  IN  IF \A p \in turn : Verifies(st, ep, p[1])
      THEN {Ack(p[1], p[2], 0) : p \in turn}
      ELSE {}

(* relay_record: only the custody with the lowest identifier, to every     *)
(* neighbour but the one it came from.                                     *)
HeadOf(queue) == {r \in queue : \A q \in queue : r.obj <= q.obj}

(* Mutant: the supplying neighbour is not left out.                        *)
RelayRecordsToAll(st, ep, now, to) ==
  UNION {Whole(r.obj, r.hops) :
           r \in {q \in HeadOf(Current(st.relay, now)) : Verifies(st, ep, q.obj)}}

RelayRecords(st, ep, now, to) ==
  UNION {Whole(r.obj, r.hops) :
           r \in {q \in HeadOf(Current(st.relay, now)) :
                    Verifies(st, ep, q.obj) /\ q.from # to}}

(* relay_receipt_record and relay_receipt_ack_record: rows by digest, to   *)
(* every neighbour but the one the first row came from.                    *)
DigestOf(h) == Digest[<<h.obj, h.actor>>]

HeldTurn(queue) ==
  {h \in queue : InTurn({g \in queue : DigestOf(g) < DigestOf(h)})}

GoesTo(queue, to) ==
  \E h \in queue : h.from # to /\ \A g \in queue : DigestOf(h) <= DigestOf(g)

RelayReceiptRecords(st, now, to) ==
  LET queue == Current(st.relayReceipts, now)
  IN  {Receipt(h.obj, h.actor, h.hops) : h \in {g \in HeldTurn(queue) : GoesTo(queue, to)}}

RelayAckRecords(st, now, to) ==
  LET queue == Current(st.relayAcks, now)
  IN  {Ack(h.obj, h.actor, h.hops) : h \in {g \in HeldTurn(queue) : GoesTo(queue, to)}}
=============================================================================
