------------------------- MODULE DurableMeshProofs -------------------------
(***************************************************************************)
(* Proofs about DurableMesh, for any number of phones, objects, chunks,    *)
(* links, drops, crashes and policies.                                     *)
(*                                                                         *)
(* The argument is one of evidence.  A receipt, wherever it is (on a link, *)
(* in the custody of a relay, recorded at the origin), stands for content  *)
(* that was shown; an acknowledgement stands for a receipt the origin      *)
(* recorded.  Each phone's store and each record on a link is backed by    *)
(* the history in this sense, and the history only grows.  On top of this  *)
(* stand the refinement of Delivery, the custody of objects and receipts   *)
(* at relays, and what every open session was offered.                     *)
(***************************************************************************)
EXTENDS DurableMesh, FiniteSetTheorems, FunctionTheorems, TLAPS

(* What a record on a link vouches for.  The history is a parameter, so    *)
(* that the predicate can be taken before and after a step.                *)
RecordBacked(rec, sealed, seen, conf) ==
  /\ sealed[rec.obj] # 0
  /\ rec.kind = "chunk" => rec.idx \in Chunks
  /\ rec.kind = "receipt" => seen[<<rec.obj, rec.actor>>] > 0
  /\ rec.kind = "ack" => <<rec.obj, rec.actor>> \in conf

(* What the store of n vouches for.                                        *)
StoreBacked(st, n, sealed, seen, conf, rel) ==
  /\ \A o \in st.objects : sealed[o] # 0
  /\ \A o \in st.outbox : sealed[o] # 0 /\ Origin[o] = n
  /\ \A r \in st.relay : sealed[r.obj] # 0
  /\ \A o \in st.delivered : seen[<<o, n>>] > 0
  /\ \A p \in st.targetReceipts : p \in conf
  /\ \A o \in st.acknowledged : <<o, n>> \in rel
  /\ \A h \in st.relayReceipts : seen[<<h.obj, h.actor>>] > 0
  /\ \A h \in st.relayAcks : <<h.obj, h.actor>> \in conf

HistoryBacked(sealed, seen, conf, rel) ==
  /\ \A o \in Objects : \A n \in Nodes :
       seen[<<o, n>>] > 0 => /\ seen[<<o, n>>] = 1
                             /\ sealed[o] # 0
                             /\ n \in Targets[o]
  /\ \A p \in conf : seen[p] > 0
  /\ rel \subseteq conf

Histories(sealed, seen, conf, rel) ==
  /\ sealed \in [Objects -> Nat]
  /\ seen \in [Objects \X Nodes -> Nat]
  /\ conf \subseteq Objects \X Nodes
  /\ rel \subseteq Objects \X Nodes

-----------------------------------------------------------------------------
(* Transactions keep the type of a store.                                  *)

(* Pruning.                                                                *)
LEMMA PruneType ==
  ASSUME NEW st \in Stores, NEW t \in Nat
  PROVE  PruneExpired(st, t) \in Stores
BY Zenon DEF Stores, PruneExpired, Current

(* Storing a relayed chunk with its route.                                 *)
LEMMA ChunkType ==
  ASSUME NEW st \in Stores, NEW o \in Objects, NEW c \in Chunks, NEW route \in Custody
  PROVE  PutRelayChunk(st, o, c, route) \in Stores
<1>1. WithChunk(st, o, c) \in Stores
  BY DEF Stores, WithChunk
<1>2. [WithChunk(st, o, c) EXCEPT !.relay = @ \cup {route}] \in Stores
  BY <1>1 DEF Stores
<1> QED BY <1>1, <1>2 DEF PutRelayChunk

(* Recording the object that was shown.                                    *)
LEMMA FinalizeType ==
  ASSUME NEW st \in Stores, NEW sealed, NEW n \in Nodes, NEW t \in Nat
  PROVE  Finalize(st, sealed, n, t) \in Stores
<1>1. Finalized(st, sealed, n, t) \subseteq Objects
  BY DEF Finalized, Deliverable, Stores
<1> QED BY <1>1 DEF Finalize, Stores

-----------------------------------------------------------------------------
(* Drains only put well-formed, backed records on the links.               *)
LEMMA DrainsBacked ==
  ASSUME NEW st \in Stores, NEW n \in Nodes, NEW to \in Nodes, NEW t \in Nat,
         NEW sealed, NEW seen, NEW conf, NEW rel,
         Histories(sealed, seen, conf, rel),
         HistoryBacked(sealed, seen, conf, rel),
         StoreBacked(st, n, sealed, seen, conf, rel)
  PROVE  \A rec \in OutboxRecords(st, sealed, t) \cup ReceiptRecords(st, n, t)
                      \cup AckRecords(st, sealed, t) \cup RelayRecords(st, sealed, t, to)
                      \cup RelayReceiptRecords(st, t, to) \cup RelayAckRecords(st, t, to) :
           rec \in Records /\ RecordBacked(rec, sealed, seen, conf)
<1> USE ManifestAssumption
<1>1. \A o \in Objects : \A h \in Nat : \A rec \in Whole(o, h) :
        sealed[o] # 0 => rec \in Records /\ RecordBacked(rec, sealed, seen, conf)
  BY DEF Whole, Ann, Chunk, Records, RecordBacked
<1>2. \A rec \in OutboxRecords(st, sealed, t) :
        rec \in Records /\ RecordBacked(rec, sealed, seen, conf)
  BY <1>1 DEF OutboxRecords, OutboxQueue, StoreBacked, Stores
<1>3. \A rec \in RelayRecords(st, sealed, t, to) :
        rec \in Records /\ RecordBacked(rec, sealed, seen, conf)
  BY <1>1 DEF RelayRecords, HeadOf, Current, StoreBacked, Stores, Custody
<1>4. \A o \in Objects : \A a \in Nodes : \A h \in Nat :
        seen[<<o, a>>] > 0 =>
          /\ Receipt(o, a, h) \in Records
          /\ RecordBacked(Receipt(o, a, h), sealed, seen, conf)
  BY DEF Receipt, Records, RecordBacked, HistoryBacked
<1>5. \A rec \in ReceiptRecords(st, n, t) :
        rec \in Records /\ RecordBacked(rec, sealed, seen, conf)
  <2> SUFFICES ASSUME NEW rec \in ReceiptRecords(st, n, t)
               PROVE  rec \in Records /\ RecordBacked(rec, sealed, seen, conf)
    OBVIOUS
  <2>1. PICK o \in st.delivered : rec = Receipt(o, n, 0)
    BY DEF ReceiptRecords, ReceiptQueue
  <2>2. o \in Objects /\ seen[<<o, n>>] > 0
    BY DEF StoreBacked, Stores
  <2> QED BY <1>4, <2>1, <2>2
<1>6. \A rec \in RelayReceiptRecords(st, t, to) :
        rec \in Records /\ RecordBacked(rec, sealed, seen, conf)
  <2> SUFFICES ASSUME NEW rec \in RelayReceiptRecords(st, t, to)
               PROVE  rec \in Records /\ RecordBacked(rec, sealed, seen, conf)
    OBVIOUS
  <2>1. PICK h \in st.relayReceipts : rec = Receipt(h.obj, h.actor, h.hops)
    BY DEF RelayReceiptRecords, HeldTurn, Current
  <2>2. h \in Held /\ seen[<<h.obj, h.actor>>] > 0
    BY DEF StoreBacked, Stores
  <2>3. h.obj \in Objects /\ h.actor \in Nodes /\ h.hops \in Nat
    BY <2>2 DEF Held
  <2> QED BY <1>4, <2>1, <2>2, <2>3
<1>7. \A o \in Objects : \A a \in Nodes : \A h \in Nat :
        <<o, a>> \in conf =>
          /\ Ack(o, a, h) \in Records
          /\ RecordBacked(Ack(o, a, h), sealed, seen, conf)
  BY DEF Ack, Records, RecordBacked, HistoryBacked
<1>8. \A rec \in AckRecords(st, sealed, t) :
        rec \in Records /\ RecordBacked(rec, sealed, seen, conf)
  <2> SUFFICES ASSUME NEW rec \in AckRecords(st, sealed, t)
               PROVE  rec \in Records /\ RecordBacked(rec, sealed, seen, conf)
    OBVIOUS
  <2>1. PICK p \in st.targetReceipts : rec = Ack(p[1], p[2], 0)
    BY DEF AckRecords
  <2>2. p \in Objects \X Nodes /\ p \in conf
    BY DEF StoreBacked, Stores
  <2>3. p[1] \in Objects /\ p[2] \in Nodes /\ <<p[1], p[2]>> \in conf
    BY <2>2
  <2> QED BY <1>7, <2>1, <2>3
<1>9. \A rec \in RelayAckRecords(st, t, to) :
        rec \in Records /\ RecordBacked(rec, sealed, seen, conf)
  <2> SUFFICES ASSUME NEW rec \in RelayAckRecords(st, t, to)
               PROVE  rec \in Records /\ RecordBacked(rec, sealed, seen, conf)
    OBVIOUS
  <2>1. PICK h \in st.relayAcks : rec = Ack(h.obj, h.actor, h.hops)
    BY DEF RelayAckRecords, HeldTurn, Current
  <2>2. h \in Held /\ <<h.obj, h.actor>> \in conf
    BY DEF StoreBacked, Stores
  <2>3. h.obj \in Objects /\ h.actor \in Nodes /\ h.hops \in Nat
    BY <2>2 DEF Held
  <2> QED BY <1>7, <2>1, <2>2, <2>3
<1> QED BY <1>2, <1>3, <1>5, <1>6, <1>8, <1>9

-----------------------------------------------------------------------------
(* The inductive invariant.                                                *)

EpochsInstalled == \A n \in Nodes : db[n].epoch \in 1 .. MaxEpoch

(* A phone that showed a live object still knows it did.                   *)
KeepsDelivered ==
  \A o \in Objects : \A n \in Nodes :
    (Shown(o, n) /\ Live(o, now)) => o \in db[n].delivered

(* An origin offers a live object until every target is confirmed.         *)
KeepsOutbox ==
  \A o \in Objects :
    (Sent(o) /\ Live(o, now) /\ o \notin db[Origin[o]].outbox) =>
      \A t \in Targets[o] : <<o, t>> \in confirmed

Backed ==
  /\ HistoryBacked(ep, shows, confirmed, released)
  /\ \A n \in Nodes : StoreBacked(db[n], n, ep, shows, confirmed, released)

WireBacked ==
  \A e \in Edges : \A rec \in wire[e] : RecordBacked(rec, ep, shows, confirmed)

MeshInv ==
  /\ TypeOK
  /\ EpochsInstalled
  /\ Backed
  /\ WireBacked
  /\ KeepsDelivered
  /\ KeepsOutbox

(* A store that n may commit, making `visible` visible, when `sealed` are  *)
(* the epochs from then on: what it adds is justified by the history, and  *)
(* what it gives up may be given up.                                       *)
Justified(n, st, visible, sealed) ==
  /\ st \in Stores
  /\ st.epoch = db[n].epoch
  /\ \A o \in st.objects : sealed[o] # 0
  /\ \A o \in st.outbox : sealed[o] # 0 /\ Origin[o] = n
  /\ \A r \in st.relay : sealed[r.obj] # 0
  /\ \A o \in st.delivered : o \in visible \/ shows[<<o, n>>] > 0
  /\ \A p \in st.targetReceipts : shows[p] > 0
  /\ \A o \in st.acknowledged : <<o, n>> \in confirmed
  /\ \A h \in st.relayReceipts : shows[<<h.obj, h.actor>>] > 0
  /\ \A h \in st.relayAcks : <<h.obj, h.actor>> \in confirmed
  /\ \A o \in visible : /\ o \in Objects /\ n \in Targets[o]
                        /\ shows[<<o, n>>] = 0 /\ sealed[o] # 0
  /\ \A o \in Objects :
       (Live(o, now) /\ (o \in visible \/ o \in db[n].delivered)) =>
         o \in st.delivered
  /\ \A o \in Objects :
       (Origin[o] = n /\ sealed[o] # 0 /\ Live(o, now) /\ o \notin st.outbox) =>
         \A t \in Targets[o] : <<o, t>> \in confirmed \cup st.targetReceipts

(* A store may be committed as it is.                                      *)
LEMMA JustifiedAsIs ==
  ASSUME MeshInv, NEW n \in Nodes
  PROVE  Justified(n, db[n], {}, ep)
  BY ManifestAssumption
     DEF MeshInv, TypeOK, Backed, HistoryBacked, StoreBacked, KeepsOutbox, Justified, Sent

(* prune_expired only forgets, so what remains is justified.               *)
LEMMA JustifiedPrune ==
  ASSUME MeshInv, NEW n \in Nodes, NEW st, NEW sealed, Justified(n, st, {}, sealed)
  PROVE  Justified(n, PruneExpired(st, now), {}, sealed)
<1>1. PruneExpired(st, now) \in Stores
  BY PruneType DEF Justified, MeshInv, TypeOK
<1>2. /\ PruneExpired(st, now).epoch = st.epoch
      /\ PruneExpired(st, now).objects \subseteq st.objects
      /\ PruneExpired(st, now).outbox = {o \in st.outbox : Live(o, now)}
      /\ PruneExpired(st, now).relay \subseteq st.relay
      /\ PruneExpired(st, now).delivered = {o \in st.delivered : Live(o, now)}
      /\ PruneExpired(st, now).targetReceipts = {p \in st.targetReceipts : Live(p[1], now)}
      /\ PruneExpired(st, now).acknowledged \subseteq st.acknowledged
      /\ PruneExpired(st, now).relayReceipts \subseteq st.relayReceipts
      /\ PruneExpired(st, now).relayAcks \subseteq st.relayAcks
  BY DEF Justified, Stores, PruneExpired, Current
<1>3. \A o \in Objects : \A t \in Targets[o] :
        (Live(o, now) /\ <<o, t>> \in st.targetReceipts) =>
          <<o, t>> \in PruneExpired(st, now).targetReceipts
  BY <1>2
<1> QED BY <1>1, <1>2, <1>3 DEF Justified

(* Finalizing shows the object it records as delivered.                    *)
LEMMA JustifiedFinalize ==
  ASSUME MeshInv, NEW n \in Nodes, NEW st, Justified(n, st, {}, ep)
  PROVE  Justified(n, Finalize(st, ep, n, now), Finalized(st, ep, n, now), ep)
<1> DEFINE new == Finalized(st, ep, n, now)
           fin == Finalize(st, ep, n, now)
<1>1. fin \in Stores
  BY FinalizeType DEF Justified, MeshInv, TypeOK
<1>2. \A o \in new : /\ o \in Objects /\ o \in st.objects /\ n \in Targets[o]
                     /\ o \notin st.delivered /\ Live(o, now)
  BY DEF Finalized, Deliverable, Justified, Stores
<1>3. \A o \in new : shows[<<o, n>>] = 0 /\ ep[o] # 0
  <2> SUFFICES ASSUME NEW o \in new
               PROVE  shows[<<o, n>>] = 0 /\ ep[o] # 0
    OBVIOUS
  <2>1. o \notin db[n].delivered
    BY <1>2 DEF Justified
  <2>2. ~ Shown(o, n)
    BY <1>2, <2>1 DEF MeshInv, KeepsDelivered
  <2>3. shows[<<o, n>>] \in Nat
    BY <1>2 DEF MeshInv, TypeOK
  <2> QED BY <1>2, <2>2, <2>3 DEF Shown, Justified
<1>4. /\ fin.epoch = st.epoch /\ fin.objects = st.objects /\ fin.outbox = st.outbox
      /\ fin.relay = st.relay /\ fin.delivered = st.delivered \cup new
      /\ fin.targetReceipts = st.targetReceipts /\ fin.acknowledged = st.acknowledged
      /\ fin.relayReceipts = st.relayReceipts /\ fin.relayAcks = st.relayAcks
  BY DEF Finalize, Justified, Stores
<1>5. Justified(n, fin, new, ep)
  <2> HIDE DEF new, fin
  <2> QED BY <1>1, <1>2, <1>3, <1>4 DEF Justified
<1> QED BY <1>5

(* commit_outgoing: the object sealed in this step is the one stored.      *)
LEMMA JustifiedOutgoing ==
  ASSUME MeshInv, NEW o \in Objects, NEW st, NEW sealed,
         ep[o] = 0, sealed = [ep EXCEPT ![o] = db[Origin[o]].epoch],
         Justified(Origin[o], st, {}, ep)
  PROVE  Justified(Origin[o], CommitOutgoing(st, o), {}, sealed)
<1> DEFINE n == Origin[o]
           out == CommitOutgoing(st, o)
<1>1. n \in Nodes /\ db[n].epoch \in 1 .. MaxEpoch /\ ep \in [Objects -> 0 .. MaxEpoch]
  BY ManifestAssumption DEF MeshInv, TypeOK, EpochsInstalled
<1>2. /\ sealed[o] # 0
      /\ \A p \in Objects : p # o => sealed[p] = ep[p]
  BY <1>1
<1>3. out \in Stores
  BY DEF Justified, Stores, CommitOutgoing
<1>4. /\ out.epoch = st.epoch /\ out.objects = st.objects \cup {o}
      /\ out.outbox = st.outbox \cup {o}
      /\ out.relay = st.relay /\ out.delivered = st.delivered
      /\ out.targetReceipts = st.targetReceipts /\ out.acknowledged = st.acknowledged
      /\ out.relayReceipts = st.relayReceipts /\ out.relayAcks = st.relayAcks
  BY DEF CommitOutgoing, Justified, Stores
<1>5. \A r \in st.relay : r.obj \in Objects
  BY DEF Justified, Stores, Custody
<1>6. st.objects \subseteq Objects /\ st.outbox \subseteq Objects
  BY DEF Justified, Stores
<1>7. Justified(n, out, {}, sealed)
  <2> HIDE DEF out
  <2> QED BY <1>2, <1>3, <1>4, <1>5, <1>6 DEF Justified
<1> QED BY <1>7

(* An announced object was sealed by its origin.                           *)
LEMMA JustifiedAnnounce ==
  ASSUME MeshInv, NEW n \in Nodes, NEW o \in Objects, ep[o] # 0
  PROVE  Justified(n, Announce(db[n], o), {}, ep)
<1> DEFINE st == db[n]
           new == Announce(st, o)
<1>1. Justified(n, st, {}, ep)
  BY JustifiedAsIs
<1>2. new \in Stores
  BY <1>1 DEF Justified, Stores, Announce
<1>3. /\ new.epoch = st.epoch /\ new.objects = st.objects \cup {o}
      /\ new.outbox = st.outbox
      /\ new.relay = st.relay /\ new.delivered = st.delivered
      /\ new.targetReceipts = st.targetReceipts /\ new.acknowledged = st.acknowledged
      /\ new.relayReceipts = st.relayReceipts /\ new.relayAcks = st.relayAcks
  BY <1>1 DEF Announce, Justified, Stores
<1>4. Justified(n, new, {}, ep)
  <2> HIDE DEF new
  <2> QED BY <1>1, <1>2, <1>3 DEF Justified
<1> QED BY <1>4

(* A chunk and its custody belong to a sealed object.                      *)
LEMMA JustifiedChunk ==
  ASSUME MeshInv, NEW n \in Nodes, NEW o \in Objects, NEW c \in Chunks,
         NEW route \in Custody, route.obj = o, ep[o] # 0
  PROVE  Justified(n, PutRelayChunk(db[n], o, c, route), {}, ep)
<1> DEFINE st == db[n]
           new == PutRelayChunk(st, o, c, route)
<1>1. Justified(n, st, {}, ep)
  BY JustifiedAsIs
<1>2. new \in Stores
  BY <1>1, ChunkType DEF Justified
<1>3. /\ new.epoch = st.epoch /\ new.objects = st.objects /\ new.outbox = st.outbox
      /\ new.relay \subseteq st.relay \cup {route} /\ new.delivered = st.delivered
      /\ new.targetReceipts = st.targetReceipts /\ new.acknowledged = st.acknowledged
      /\ new.relayReceipts = st.relayReceipts /\ new.relayAcks = st.relayAcks
  BY <1>1 DEF PutRelayChunk, WithChunk, Justified, Stores
<1>4. Justified(n, new, {}, ep)
  <2> HIDE DEF new
  <2> QED BY <1>1, <1>2, <1>3 DEF Justified
<1> QED BY <1>4

(* A receipt recorded at the origin stands for a showing.                  *)
LEMMA JustifiedReceipt ==
  ASSUME MeshInv, NEW n \in Nodes, NEW o \in Objects, NEW a \in Nodes,
         shows[<<o, a>>] > 0
  PROVE  Justified(n, RecordTargetReceipt(db[n], o, a), {}, ep)
<1> DEFINE st == db[n]
           rec == [st EXCEPT !.targetReceipts = @ \cup {<<o, a>>}]
           new == RecordTargetReceipt(st, o, a)
<1>1. Justified(n, st, {}, ep)
  BY JustifiedAsIs
<1>2. rec \in Stores /\ rec.targetReceipts = st.targetReceipts \cup {<<o, a>>}
  BY <1>1 DEF Justified, Stores
<1>3. /\ new.epoch = st.epoch /\ new.objects = st.objects
      /\ new.relay = st.relay /\ new.delivered = st.delivered
      /\ new.targetReceipts = st.targetReceipts \cup {<<o, a>>}
      /\ new.acknowledged = st.acknowledged
      /\ new.relayReceipts = st.relayReceipts /\ new.relayAcks = st.relayAcks
  BY <1>1 DEF RecordTargetReceipt, Justified, Stores
<1>4. \/ new.outbox = st.outbox
      \/ /\ new.outbox = st.outbox \ {o}
         /\ \A t \in Targets[o] : <<o, t>> \in new.targetReceipts
  <2>1. CASE AllConfirmed(rec, o)
    <3>1. new = [rec EXCEPT !.outbox = @ \ {o}]
      BY <2>1 DEF RecordTargetReceipt
    <3>2. new.outbox = st.outbox \ {o}
      BY <1>1, <3>1 DEF Justified, Stores
    <3>3. \A t \in Targets[o] : <<o, t>> \in new.targetReceipts
      BY <1>2, <1>3, <2>1 DEF AllConfirmed
    <3> QED BY <3>2, <3>3
  <2>2. CASE ~AllConfirmed(rec, o)
    BY <1>1, <2>2 DEF RecordTargetReceipt, Justified, Stores
  <2> QED BY <2>1, <2>2
<1>5. new \in Stores
  <2>1. CASE AllConfirmed(rec, o)
    <3>1. new = [rec EXCEPT !.outbox = @ \ {o}]
      BY <2>1 DEF RecordTargetReceipt
    <3> HIDE DEF rec, new
    <3> QED BY <1>2, <3>1 DEF Stores
  <2>2. CASE ~AllConfirmed(rec, o)
    BY <1>2, <2>2 DEF RecordTargetReceipt
  <2> QED BY <2>1, <2>2
<1>6. Justified(n, new, {}, ep)
  <2> HIDE DEF new, rec
  <2> QED BY <1>1, <1>3, <1>4, <1>5 DEF Justified
<1> QED BY <1>6

(* Replacing a held record keeps the custody well-formed.                  *)
LEMMA HoldType ==
  ASSUME NEW held \in SUBSET Held, NEW item \in Held, NEW t \in Nat
  PROVE  Hold(held, item, t) \in SUBSET Held /\ Hold(held, item, t) \subseteq held \cup {item}
  BY DEF Hold, Current

(* A receipt held for another phone stands for a showing.                  *)
LEMMA JustifiedHeldReceipt ==
  ASSUME MeshInv, NEW n \in Nodes, NEW item \in Held,
         shows[<<item.obj, item.actor>>] > 0
  PROVE  Justified(n, PutRelayReceipt(db[n], item, now), {}, ep)
<1> DEFINE st == db[n]
           new == PutRelayReceipt(st, item, now)
<1>1. Justified(n, st, {}, ep)
  BY JustifiedAsIs
<1>2. /\ Hold(st.relayReceipts, item, now) \in SUBSET Held
      /\ Hold(st.relayReceipts, item, now) \subseteq st.relayReceipts \cup {item}
  BY <1>1, HoldType DEF Justified, Stores, MeshInv, TypeOK
<1>3. new \in Stores
  BY <1>1, <1>2 DEF Justified, Stores, PutRelayReceipt
<1>4. /\ new.epoch = st.epoch /\ new.objects = st.objects /\ new.outbox = st.outbox
      /\ new.relay = st.relay /\ new.delivered = st.delivered
      /\ new.targetReceipts = st.targetReceipts /\ new.acknowledged = st.acknowledged
      /\ new.relayReceipts \subseteq st.relayReceipts \cup {item}
      /\ new.relayAcks = st.relayAcks
  BY <1>1, <1>2 DEF PutRelayReceipt, Justified, Stores
<1>5. Justified(n, new, {}, ep)
  <2> HIDE DEF new
  <2> QED BY <1>1, <1>3, <1>4 DEF Justified
<1> QED BY <1>5

(* An acknowledgement held for another phone stands for a receipt.         *)
LEMMA JustifiedHeldAck ==
  ASSUME MeshInv, NEW n \in Nodes, NEW item \in Held,
         <<item.obj, item.actor>> \in confirmed
  PROVE  Justified(n, PutRelayReceiptAck(db[n], item, now), {}, ep)
<1> DEFINE st == db[n]
           new == PutRelayReceiptAck(st, item, now)
<1>1. Justified(n, st, {}, ep)
  BY JustifiedAsIs
<1>2. /\ Hold(st.relayAcks, item, now) \in SUBSET Held
      /\ Hold(st.relayAcks, item, now) \subseteq st.relayAcks \cup {item}
  BY <1>1, HoldType DEF Justified, Stores, MeshInv, TypeOK
<1>3. new \in Stores
  BY <1>1, <1>2 DEF Justified, Stores, PutRelayReceiptAck
<1>4. /\ new.epoch = st.epoch /\ new.objects = st.objects /\ new.outbox = st.outbox
      /\ new.relay = st.relay /\ new.delivered = st.delivered
      /\ new.targetReceipts = st.targetReceipts /\ new.acknowledged = st.acknowledged
      /\ new.relayReceipts = st.relayReceipts
      /\ new.relayAcks \subseteq st.relayAcks \cup {item}
  BY <1>1, <1>2 DEF PutRelayReceiptAck, Justified, Stores
<1>5. Justified(n, new, {}, ep)
  <2> HIDE DEF new
  <2> QED BY <1>1, <1>3, <1>4 DEF Justified
<1> QED BY <1>5

(* Dropping a held receipt only forgets.                                   *)
LEMMA JustifiedRemoval ==
  ASSUME NEW n \in Nodes, NEW st, NEW o, NEW a, Justified(n, st, {}, ep)
  PROVE  Justified(n, RemoveRelayReceipt(st, o, a), {}, ep)
<1> DEFINE new == RemoveRelayReceipt(st, o, a)
<1>1. new \in Stores
  BY DEF Justified, Stores, RemoveRelayReceipt
<1>2. /\ new.epoch = st.epoch /\ new.objects = st.objects /\ new.outbox = st.outbox
      /\ new.relay = st.relay /\ new.delivered = st.delivered
      /\ new.targetReceipts = st.targetReceipts /\ new.acknowledged = st.acknowledged
      /\ new.relayReceipts \subseteq st.relayReceipts
      /\ new.relayAcks = st.relayAcks
  BY DEF RemoveRelayReceipt, Justified, Stores
<1>3. Justified(n, new, {}, ep)
  <2> HIDE DEF new
  <2> QED BY <1>1, <1>2 DEF Justified
<1> QED BY <1>3

(* An acknowledgement recorded by its target stands for a receipt.         *)
LEMMA JustifiedAck ==
  ASSUME MeshInv, NEW n \in Nodes, NEW o \in Objects, <<o, n>> \in confirmed
  PROVE  Justified(n, RecordReceiptAck(db[n], o), {}, ep)
<1> DEFINE st == db[n]
           new == RecordReceiptAck(st, o)
<1>1. Justified(n, st, {}, ep)
  BY JustifiedAsIs
<1>2. new \in Stores
  BY <1>1 DEF Justified, Stores, RecordReceiptAck
<1>3. /\ new.epoch = st.epoch /\ new.objects = st.objects /\ new.outbox = st.outbox
      /\ new.relay = st.relay /\ new.delivered = st.delivered
      /\ new.targetReceipts = st.targetReceipts
      /\ new.acknowledged = st.acknowledged \cup {o}
      /\ new.relayReceipts = st.relayReceipts /\ new.relayAcks = st.relayAcks
  BY <1>1 DEF RecordReceiptAck, Justified, Stores
<1>4. Justified(n, new, {}, ep)
  <2> HIDE DEF new
  <2> QED BY <1>1, <1>2, <1>3 DEF Justified
<1> QED BY <1>4

-----------------------------------------------------------------------------
(* Committing a justified store keeps the invariant of the stores, and the *)
(* history only grows.                                                     *)

Grown ==
  /\ \A o \in Objects : ep[o] # 0 => ep'[o] # 0
  /\ \A p \in Objects \X Nodes : shows[p] > 0 => shows'[p] > 0
  /\ confirmed \subseteq confirmed'
  /\ released \subseteq released'

(* Committing a justified store keeps stores and history backed.           *)
LEMMA CommitBacked ==
  ASSUME MeshInv, NEW n \in Nodes, NEW st, NEW visible,
         Justified(n, st, visible, ep'), Commit(n, st, visible), now' = now,
         ep' \in [Objects -> 0 .. MaxEpoch],
         \A o \in Objects : ep[o] # 0 => ep'[o] = ep[o],
         \A o \in Objects : ep'[o] # ep[o] => Origin[o] = n
  PROVE  /\ db' \in [Nodes -> Stores]
         /\ shows' \in [Objects \X Nodes -> Nat]
         /\ confirmed' \subseteq Objects \X Nodes
         /\ released' \subseteq Objects \X Nodes
         /\ db'[n] = st
         /\ EpochsInstalled' /\ Backed' /\ KeepsDelivered' /\ KeepsOutbox'
         /\ Grown
<1> USE ManifestAssumption
<1>t. /\ db \in [Nodes -> Stores] /\ shows \in [Objects \X Nodes -> Nat]
      /\ confirmed \subseteq Objects \X Nodes /\ released \subseteq Objects \X Nodes
      /\ st \in Stores
  BY DEF MeshInv, TypeOK, Justified
<1>1. /\ db' \in [Nodes -> Stores] /\ db'[n] = st
      /\ \A m \in Nodes : m # n => db'[m] = db[m]
  BY <1>t DEF Commit
<1>2. /\ shows' \in [Objects \X Nodes -> Nat]
      /\ \A o \in Objects : o \in visible => shows'[<<o, n>>] = shows[<<o, n>>] + 1
      /\ \A o \in Objects : \A m \in Nodes :
           (m # n \/ o \notin visible) => shows'[<<o, m>>] = shows[<<o, m>>]
  BY <1>t DEF Commit
<1>3. /\ confirmed' = confirmed \cup st.targetReceipts
      /\ confirmed' \subseteq Objects \X Nodes
  BY <1>t DEF Commit, Stores
<1>4. /\ released' = released \cup {<<o, n>> : o \in st.acknowledged}
      /\ released' \subseteq Objects \X Nodes
      /\ \A o \in st.acknowledged : o \in Objects
  BY <1>t DEF Commit, Stores
<1>5. Grown
  <2>1. \A o \in Objects : ep[o] # 0 => ep'[o] # 0
    OBVIOUS
  <2>2. \A o \in Objects : \A m \in Nodes : shows[<<o, m>>] > 0 => shows'[<<o, m>>] > 0
    BY <1>t, <1>2
  <2>3. \A p \in Objects \X Nodes : shows[p] > 0 => shows'[p] > 0
    BY <2>2
  <2> QED BY <1>3, <1>4, <2>1, <2>3 DEF Grown
<1>6. EpochsInstalled'
  BY <1>1 DEF MeshInv, EpochsInstalled, Justified
<1>7. HistoryBacked(ep, shows, confirmed, released)'
  <2>1. ASSUME NEW o \in Objects, NEW m \in Nodes, shows'[<<o, m>>] > 0
        PROVE  shows'[<<o, m>>] = 1 /\ ep'[o] # 0 /\ m \in Targets[o]
    <3>1. CASE m = n /\ o \in visible
      BY <1>t, <1>2, <3>1 DEF Justified
    <3>2. CASE m # n \/ o \notin visible
      BY <1>2, <1>5, <2>1, <3>2 DEF MeshInv, Backed, HistoryBacked, Grown
    <3> QED BY <3>1, <3>2
  <2>2. \A p \in confirmed' : shows'[p] > 0
    BY <1>t, <1>3, <1>5 DEF MeshInv, Backed, HistoryBacked, Grown, Justified
  <2>3. released' \subseteq confirmed'
    BY <1>3, <1>4 DEF MeshInv, Backed, HistoryBacked, Justified
  <2> QED BY <2>1, <2>2, <2>3 DEF HistoryBacked
<1>8. ASSUME NEW m \in Nodes
      PROVE  StoreBacked(db[m], m, ep, shows, confirmed, released)'
  <2>1. CASE m = n
    <3>1. \A o \in st.delivered : shows'[<<o, n>>] > 0
      BY <1>t, <1>2, <1>5 DEF Justified, Grown, Stores
    <3>2. \A h \in st.relayReceipts : shows'[<<h.obj, h.actor>>] > 0
      BY <1>t, <1>5, Zenon DEF Justified, Grown, Stores, Held
    <3>3. \A h \in st.relayAcks : <<h.obj, h.actor>> \in confirmed'
      BY <1>3, Zenon DEF Justified
    <3> QED BY <1>1, <1>3, <1>4, <2>1, <3>1, <3>2, <3>3 DEF Justified, StoreBacked
  <2>2. CASE m # n
    <3>1. db'[m] = db[m] /\ db[m] \in Stores
      BY <1>1, <1>t, <2>2
    <3>2. StoreBacked(db[m], m, ep, shows, confirmed, released)
      BY DEF MeshInv, Backed
    <3>3. StoreBacked(db[m], m, ep', shows', confirmed', released')
      BY <1>5, <3>1, <3>2 DEF StoreBacked, Grown, Stores, Custody, Held
    <3> QED BY <3>1, <3>3
  <2> QED BY <2>1, <2>2
<1>9. KeepsDelivered'
  <2> SUFFICES ASSUME NEW o \in Objects, NEW m \in Nodes, Shown(o, m)', Live(o, now)'
               PROVE  o \in db'[m].delivered
    BY DEF KeepsDelivered
  <2>1. Live(o, now)
    BY DEF Live
  <2>2. CASE m = n
    <3>1. o \in visible \/ shows[<<o, n>>] > 0
      BY <1>2, <2>2 DEF Shown
    <3>2. o \in visible \/ o \in db[n].delivered
      BY <2>1, <3>1 DEF MeshInv, KeepsDelivered, Shown
    <3> QED BY <1>1, <2>1, <2>2, <3>2 DEF Justified
  <2>3. CASE m # n
    BY <1>1, <1>2, <2>1, <2>3 DEF MeshInv, KeepsDelivered, Shown
  <2> QED BY <2>2, <2>3
<1>10. KeepsOutbox'
  <2> SUFFICES ASSUME NEW o \in Objects, Sent(o)', Live(o, now)',
                      o \notin db'[Origin[o]].outbox, NEW t \in Targets[o]
               PROVE  <<o, t>> \in confirmed'
    BY DEF KeepsOutbox
  <2>1. Live(o, now) /\ Origin[o] \in Nodes
    BY DEF Live
  <2>2. CASE Origin[o] = n
    BY <1>1, <1>3, <2>1, <2>2 DEF Justified, Sent
  <2>3. CASE Origin[o] # n
    BY <1>1, <1>3, <2>1, <2>3 DEF MeshInv, KeepsOutbox, Sent
  <2> QED BY <2>2, <2>3
<1> QED BY <1>1, <1>2, <1>3, <1>4, <1>5, <1>6, <1>7, <1>8, <1>9, <1>10 DEF Backed

(* What is put on the links of n stays backed.                             *)
LEMMA TransmitBacked ==
  ASSUME TypeOK, NEW n \in Nodes, NEW sessions, NEW carried, NEW out,
         Transmit(n, sessions, carried, out),
         carried \in [Edges -> SUBSET Records],
         \A e \in Edges : \A rec \in carried[e] : RecordBacked(rec, ep', shows', confirmed'),
         \A to \in Nodes : \A rec \in out[to] :
           rec \in Records /\ RecordBacked(rec, ep', shows', confirmed')
  PROVE  /\ wire' \in [Edges -> SUBSET Records]
         /\ admitted' \in [Edges -> SUBSET Records]
         /\ WireBacked'
<1>1. \A e \in Edges : e[2] \in Nodes
  BY EdgesAssumption
<1>2. \A e \in Edges :
        /\ wire'[e] \subseteq carried[e] \cup out[e[2]]
        /\ admitted'[e] \subseteq admitted[e] \cup out[e[2]]
  BY DEF Transmit
<1>3. wire' \in [Edges -> SUBSET Records]
  BY <1>1 DEF Transmit
<1>4. admitted' \in [Edges -> SUBSET Records]
  BY <1>1 DEF Transmit, TypeOK
<1>5. WireBacked'
  <2>1. \A e \in Edges : \A rec \in wire'[e] : RecordBacked(rec, ep', shows', confirmed')
    BY <1>1, <1>2
  <2> QED BY <2>1, Zenon DEF WireBacked, RecordBacked
<1> QED BY <1>3, <1>4, <1>5

(* Records that were backed stay so while the history grows.               *)
LEMMA WireGrows ==
  ASSUME MeshInv, Grown
  PROVE  \A e \in Edges : \A rec \in wire[e] :
           rec \in Records /\ RecordBacked(rec, ep', shows', confirmed')
<1> SUFFICES ASSUME NEW e \in Edges, NEW rec \in wire[e]
             PROVE  rec \in Records /\ RecordBacked(rec, ep', shows', confirmed')
  OBVIOUS
<1>1. rec \in Records /\ RecordBacked(rec, ep, shows, confirmed)
  BY DEF MeshInv, TypeOK, WireBacked
<1>2. rec.obj \in Objects /\ rec.actor \in Nodes
  BY <1>1 DEF Records
<1> QED BY <1>1, <1>2 DEF RecordBacked, Grown

(* Breaking links loses records, and nothing else.                         *)
LEMMA DisconnectBacked ==
  ASSUME MeshInv, NEW edges, Disconnect(edges), Grown
  PROVE  /\ up' \subseteq Edges /\ fresh' \subseteq up'
         /\ wire' \in [Edges -> SUBSET Records]
         /\ admitted' \in [Edges -> SUBSET Records]
         /\ WireBacked'
<1>1. /\ up \subseteq Edges /\ fresh \subseteq up
      /\ wire \in [Edges -> SUBSET Records] /\ admitted \in [Edges -> SUBSET Records]
  BY DEF MeshInv, TypeOK
<1>2. up' \subseteq Edges /\ fresh' \subseteq up'
  BY <1>1 DEF Disconnect
<1>3. wire' \in [Edges -> SUBSET Records]
  BY <1>1 DEF Disconnect
<1>4. admitted' \in [Edges -> SUBSET Records]
  BY <1>1 DEF Disconnect
<1>5. \A e \in Edges : wire'[e] \subseteq wire[e]
  BY <1>1 DEF Disconnect
<1>6. WireBacked'
  BY <1>5, WireGrows DEF WireBacked
<1> QED BY <1>2, <1>3, <1>4, <1>6

(* A step that changes neither stores nor history, as time passes.         *)
LEMMA StoresStay ==
  ASSUME MeshInv, UNCHANGED <<db, ep, history>>, now' \in Nat, now <= now'
  PROVE  /\ EpochsInstalled' /\ Backed' /\ KeepsDelivered' /\ KeepsOutbox'
         /\ Grown
<1> USE DEF history
<1>1. \A o \in Objects : Live(o, now)' => Live(o, now)
  BY ManifestAssumption DEF Live, MeshInv, TypeOK
<1>2. EpochsInstalled'
  BY DEF MeshInv, EpochsInstalled
<1>3. Backed'
  BY DEF MeshInv, Backed, HistoryBacked, StoreBacked
<1>4. KeepsDelivered'
  BY <1>1 DEF MeshInv, KeepsDelivered, Shown
<1>5. KeepsOutbox'
  BY <1>1 DEF MeshInv, KeepsOutbox, Sent
<1>6. Grown
  BY DEF Grown
<1> QED BY <1>2, <1>3, <1>4, <1>5, <1>6

(* The frame a gate lets through continues within the hop limit.           *)
LEMMA GatedType ==
  ASSUME MeshInv, NEW n \in Nodes, NEW m \in Nodes, NEW rec \in Records, Gated(n, m, rec)
  PROVE  forwarded' \in [Nodes -> [Objects -> 0 .. MaxRelayHops]]
<1>1. rec.obj \in Objects /\ rec.hops \in Nat
  BY DEF Records
<1>2. GateDecision(n, m, rec) = "Forward" =>
        Forwarded(n, FrameOf(rec, m)).hops \in 0 .. MaxRelayHops
  BY <1>1, HopLimitAssumption, HopsAssumption
     DEF GateDecision, Decision, Valid, FrameOf, Forwarded
<1> QED BY <1>1, <1>2 DEF Gated, MeshInv, TypeOK

(* The custody entry made of a record is well-formed and about that record.*)
LEMMA ItemType ==
  ASSUME NEW n \in Nodes, NEW m \in Nodes, NEW rec \in Records
  PROVE  /\ Item(n, m, rec) \in Held
         /\ Item(n, m, rec).obj = rec.obj /\ Item(n, m, rec).actor = rec.actor
  BY DEF Item, Held, Records, Forwarded, FrameOf

(* Taking a record off its link.                                           *)
LEMMA WithoutBacked ==
  ASSUME MeshInv, Grown, NEW n \in Nodes, NEW m \in Nodes, NEW rec
  PROVE  /\ Without(m, n, rec) \in [Edges -> SUBSET Records]
         /\ \A e \in Edges : \A r \in Without(m, n, rec)[e] :
              RecordBacked(r, ep', shows', confirmed')
<1>1. wire \in [Edges -> SUBSET Records]
  BY DEF MeshInv, TypeOK
<1>2. \A e \in Edges : Without(m, n, rec)[e] \subseteq wire[e]
  BY <1>1 DEF Without
<1> QED BY <1>1, <1>2, WireGrows DEF Without

(* A record that arrives is one a link carries, and is backed.             *)
LEMMA ArrivesBacked ==
  ASSUME MeshInv, NEW n \in Nodes, NEW m \in Nodes, NEW rec, Arrives(n, m, rec)
  PROVE  /\ <<m, n>> \in Edges
         /\ rec \in Records /\ rec.obj \in Objects /\ rec.actor \in Nodes
         /\ RecordBacked(rec, ep, shows, confirmed)
<1>1. <<n, m>> \in Edges
  BY DEF Arrives, Open, MeshInv, TypeOK
<1>2. <<m, n>> \in Edges
  BY <1>1, EdgesAssumption
<1> QED BY <1>2 DEF Arrives, MeshInv, TypeOK, WireBacked, Records

-----------------------------------------------------------------------------
(* Every action keeps the invariant.                                       *)

(* The invariant holds at the start: nothing is stored, sent or shown.     *)
LEMMA InitMeshInv == Init => MeshInv
<1> SUFFICES ASSUME Init PROVE MeshInv
  OBVIOUS
<1> USE ManifestAssumption, BoundsAssumption, HopsAssumption
<1>1. EmptyStore \in Stores
  BY DEF EmptyStore, Stores
<1>2. TypeOK
  BY <1>1 DEF Init, TypeOK
<1>3. EpochsInstalled
  BY DEF Init, EpochsInstalled, EmptyStore
<1>4. Backed
  BY DEF Init, Backed, HistoryBacked, StoreBacked, EmptyStore
<1>5. WireBacked
  BY DEF Init, WireBacked
<1>6. KeepsDelivered /\ KeepsOutbox
  BY DEF Init, KeepsDelivered, KeepsOutbox, Shown, Sent
<1> QED BY <1>2, <1>3, <1>4, <1>5, <1>6 DEF MeshInv

(* secure_store_enqueue_text, from the sealed object on.                   *)
LEMMA EnqueueInv ==
  ASSUME MeshInv, NEW o \in Objects, Enqueue(o)
  PROVE  MeshInv'
<1> DEFINE n == Origin[o]
           st == CommitOutgoing(PruneExpired(db[n], now), o)
<1>1. n \in Nodes /\ now \in Nat
  BY ManifestAssumption, BoundsAssumption DEF MeshInv, TypeOK
<1>2. /\ ep' = [ep EXCEPT ![o] = db[n].epoch] /\ ep[o] = 0
      /\ Commit(n, st, {})
      /\ Transmit(n, Open, wire, [to \in Nodes |-> OutboxRecords(st, ep', now)])
      /\ UNCHANGED <<memory, up, fresh, now, bounds>>
  BY DEF Enqueue
<1>3. Justified(n, st, {}, ep')
  BY <1>1, <1>2, JustifiedAsIs, JustifiedPrune, JustifiedOutgoing
<1>4. /\ ep' \in [Objects -> 0 .. MaxEpoch]
      /\ \A p \in Objects : ep[p] # 0 => ep'[p] = ep[p]
      /\ \A p \in Objects : ep'[p] # ep[p] => Origin[p] = n
  BY <1>1, <1>2 DEF MeshInv, TypeOK, EpochsInstalled
<1> HIDE DEF st, n
<1>5. /\ db' \in [Nodes -> Stores]
      /\ shows' \in [Objects \X Nodes -> Nat]
      /\ confirmed' \subseteq Objects \X Nodes
      /\ released' \subseteq Objects \X Nodes
      /\ db'[n] = st
      /\ EpochsInstalled' /\ Backed' /\ KeepsDelivered' /\ KeepsOutbox'
      /\ Grown
  BY <1>1, <1>2, <1>3, <1>4, CommitBacked
<1>6. \A rec \in OutboxRecords(st, ep', now) :
        rec \in Records /\ RecordBacked(rec, ep', shows', confirmed')
  <2>1. /\ HistoryBacked(ep', shows', confirmed', released')
        /\ StoreBacked(st, n, ep', shows', confirmed', released')
        /\ st \in Stores
    BY <1>1, <1>5 DEF Backed
  <2>2. Histories(ep', shows', confirmed', released')
    BY <1>4, <1>5, BoundsAssumption DEF Histories
  <2> QED BY <1>1, <2>1, <2>2, DrainsBacked
<1>7. /\ wire' \in [Edges -> SUBSET Records]
      /\ admitted' \in [Edges -> SUBSET Records]
      /\ WireBacked'
  <2>1. TypeOK /\ wire \in [Edges -> SUBSET Records]
    BY DEF MeshInv, TypeOK
  <2> DEFINE out == [to \in Nodes |-> OutboxRecords(st, ep', now)]
  <2>2. Transmit(n, Open, wire, out)
    BY <1>2
  <2>3. \A to \in Nodes : \A rec \in out[to] :
          rec \in Records /\ RecordBacked(rec, ep', shows', confirmed')
    BY <1>6
  <2>4. \A e \in Edges : \A rec \in wire[e] : RecordBacked(rec, ep', shows', confirmed')
    BY <1>5, WireGrows
  <2> HIDE DEF out
  <2> QED BY <1>1, <2>1, <2>2, <2>3, <2>4, TransmitBacked
<1>8. TypeOK'
  BY <1>2, <1>4, <1>5, <1>7 DEF MeshInv, TypeOK, memory, bounds
<1> QED BY <1>5, <1>7, <1>8 DEF MeshInv

(* What the drains of n may put on the link to `to`.                       *)
Drainable(st, n, to) ==
  OutboxRecords(st, ep, now) \cup ReceiptRecords(st, n, now)
    \cup AckRecords(st, ep, now) \cup RelayRecords(st, ep, now, to)
    \cup RelayReceiptRecords(st, now, to) \cup RelayAckRecords(st, now, to)

(* What holds of stores and history after a justified commit at n.         *)
LEMMA CommitStays ==
  ASSUME MeshInv, NEW n \in Nodes, NEW st, NEW visible,
         Justified(n, st, visible, ep), Commit(n, st, visible), UNCHANGED <<ep, now>>
  PROVE  /\ db' \in [Nodes -> Stores]
         /\ shows' \in [Objects \X Nodes -> Nat]
         /\ confirmed' \subseteq Objects \X Nodes
         /\ released' \subseteq Objects \X Nodes
         /\ st \in Stores
         /\ HistoryBacked(ep, shows', confirmed', released')
         /\ StoreBacked(st, n, ep, shows', confirmed', released')
         /\ EpochsInstalled' /\ Backed' /\ KeepsDelivered' /\ KeepsOutbox'
         /\ Grown
<1>1. ep \in [Objects -> 0 .. MaxEpoch] /\ ep' = ep /\ now' = now
  BY DEF MeshInv, TypeOK
<1>2. /\ Justified(n, st, visible, ep') /\ ep' \in [Objects -> 0 .. MaxEpoch]
      /\ \A o \in Objects : ep[o] # 0 => ep'[o] = ep[o]
      /\ \A o \in Objects : ep'[o] # ep[o] => Origin[o] = n
  BY <1>1
<1>3. /\ db' \in [Nodes -> Stores]
      /\ shows' \in [Objects \X Nodes -> Nat]
      /\ confirmed' \subseteq Objects \X Nodes
      /\ released' \subseteq Objects \X Nodes
      /\ db'[n] = st
      /\ EpochsInstalled' /\ Backed' /\ KeepsDelivered' /\ KeepsOutbox'
      /\ Grown
  BY <1>1, <1>2, CommitBacked
<1>4. /\ st \in Stores
      /\ HistoryBacked(ep', shows', confirmed', released')
      /\ StoreBacked(st, n, ep', shows', confirmed', released')
  BY <1>3 DEF Backed
<1> QED BY <1>1, <1>3, <1>4

(* What the drains offer from the store just committed is backed.          *)
LEMMA DrainsAfter ==
  ASSUME MeshInv, NEW n \in Nodes, NEW st \in Stores, UNCHANGED <<ep, now>>,
         shows' \in [Objects \X Nodes -> Nat],
         confirmed' \subseteq Objects \X Nodes, released' \subseteq Objects \X Nodes,
         HistoryBacked(ep, shows', confirmed', released'),
         StoreBacked(st, n, ep, shows', confirmed', released'),
         NEW to \in Nodes
  PROVE  \A rec \in Drainable(st, n, to) :
           rec \in Records /\ RecordBacked(rec, ep', shows', confirmed')
<1>1. Histories(ep, shows', confirmed', released') /\ now \in Nat /\ ep' = ep
  BY BoundsAssumption DEF Histories, MeshInv, TypeOK
<1> QED BY <1>1, DrainsBacked DEF Drainable

(* A handler that commits at n and then drains.                            *)
LEMMA HandlerBacked ==
  ASSUME MeshInv, NEW n \in Nodes, NEW m \in Nodes, NEW rec, NEW st, NEW visible, NEW out,
         Justified(n, st, visible, ep), Commit(n, st, visible), UNCHANGED <<ep, now>>,
         Transmit(n, Open, Without(m, n, rec), out),
         \A to \in Nodes : out[to] \subseteq Drainable(st, n, to),
         UNCHANGED <<up, fresh, bounds>>,
         forwarded' \in [Nodes -> [Objects -> 0 .. MaxRelayHops]]
  PROVE  MeshInv'
<1>1. /\ db' \in [Nodes -> Stores]
      /\ shows' \in [Objects \X Nodes -> Nat]
      /\ confirmed' \subseteq Objects \X Nodes
      /\ released' \subseteq Objects \X Nodes
      /\ st \in Stores
      /\ HistoryBacked(ep, shows', confirmed', released')
      /\ StoreBacked(st, n, ep, shows', confirmed', released')
      /\ EpochsInstalled' /\ Backed' /\ KeepsDelivered' /\ KeepsOutbox'
      /\ Grown
  BY CommitStays
<1>2. \A to \in Nodes : \A r \in out[to] :
        r \in Records /\ RecordBacked(r, ep', shows', confirmed')
  BY <1>1, DrainsAfter
<1>3. TypeOK
  BY DEF MeshInv
<1>4. /\ wire' \in [Edges -> SUBSET Records]
      /\ admitted' \in [Edges -> SUBSET Records]
      /\ WireBacked'
  BY <1>1, <1>2, <1>3, WithoutBacked, TransmitBacked
<1>5. TypeOK'
  BY <1>1, <1>3, <1>4 DEF TypeOK, bounds
<1> QED BY <1>1, <1>4, <1>5 DEF MeshInv

(* A handler cut off by the end of the process.                            *)
LEMMA RestartBacked ==
  ASSUME MeshInv, NEW n \in Nodes, NEW st,
         Justified(n, st, {}, ep), Commit(n, st, {}), Restart(n)
  PROVE  MeshInv'
<1>1. UNCHANGED <<ep, now, drops>> /\ Disconnect(EdgesOf(n))
  BY DEF Restart
<1>2. /\ db' \in [Nodes -> Stores]
      /\ shows' \in [Objects \X Nodes -> Nat]
      /\ confirmed' \subseteq Objects \X Nodes
      /\ released' \subseteq Objects \X Nodes
      /\ EpochsInstalled' /\ Backed' /\ KeepsDelivered' /\ KeepsOutbox'
      /\ Grown
  BY <1>1, CommitStays
<1>3. /\ up' \subseteq Edges /\ fresh' \subseteq up'
      /\ wire' \in [Edges -> SUBSET Records]
      /\ admitted' \in [Edges -> SUBSET Records]
      /\ WireBacked'
  BY <1>1, <1>2, DisconnectBacked
<1>4. forwarded' \in [Nodes -> [Objects -> 0 .. MaxRelayHops]]
  BY HopsAssumption DEF Restart, MeshInv, TypeOK
<1>5. crashes' \in 0 .. MaxCrashes
  BY BoundsAssumption DEF Restart, MeshInv, TypeOK
<1>6. TypeOK'
  BY <1>1, <1>2, <1>3, <1>4, <1>5 DEF MeshInv, TypeOK
<1> QED BY <1>2, <1>3, <1>6 DEF MeshInv

(* The drains of a newly authenticated session.                            *)
LEMMA AuthenticatedInv ==
  ASSUME MeshInv, NEW n \in Nodes, NEW m \in Nodes, Authenticated(n, m)
  PROVE  MeshInv'
<1> DEFINE out == [to \in Nodes |->
        OutboxRecords(db[n], ep, now) \cup ReceiptRecords(db[n], n, now)
          \cup RelayRecords(db[n], ep, now, to)
          \cup RelayReceiptRecords(db[n], now, to)
          \cup RelayAckRecords(db[n], now, to)]
<1>1. /\ fresh' = fresh \ {<<n, m>>}
      /\ Transmit(n, Open \cup {<<n, m>>}, wire, out)
      /\ UNCHANGED <<db, ep, memory, up, now, bounds, history>>
  BY DEF Authenticated
<1>2. /\ TypeOK /\ now \in Nat
      /\ HistoryBacked(ep, shows, confirmed, released)
      /\ StoreBacked(db[n], n, ep, shows, confirmed, released)
  BY BoundsAssumption DEF MeshInv, TypeOK, Backed
<1>3. EpochsInstalled' /\ Backed' /\ KeepsDelivered' /\ KeepsOutbox' /\ Grown
  BY <1>1, <1>2, StoresStay
<1>4. \A to \in Nodes : out[to] \subseteq Drainable(db[n], n, to)
  BY DEF Drainable
<1>5. /\ db[n] \in Stores /\ shows' = shows /\ confirmed' = confirmed
      /\ released' = released /\ ep' = ep /\ now' = now
      /\ shows \in [Objects \X Nodes -> Nat]
      /\ confirmed \subseteq Objects \X Nodes /\ released \subseteq Objects \X Nodes
  BY <1>1, <1>2 DEF TypeOK, history
<1> HIDE DEF out
<1>6. \A to \in Nodes : \A rec \in out[to] :
        rec \in Records /\ RecordBacked(rec, ep', shows', confirmed')
  BY <1>2, <1>4, <1>5, DrainsAfter
<1>7. \A e \in Edges : \A rec \in wire[e] : RecordBacked(rec, ep', shows', confirmed')
  BY <1>3, WireGrows
<1>8. /\ wire' \in [Edges -> SUBSET Records]
      /\ admitted' \in [Edges -> SUBSET Records]
      /\ WireBacked'
  <2>1. wire \in [Edges -> SUBSET Records]
    BY <1>2 DEF TypeOK
  <2> QED BY <1>1, <1>2, <1>6, <1>7, <2>1, TransmitBacked
<1>9. TypeOK'
  BY <1>1, <1>2, <1>8 DEF TypeOK, memory, bounds, history
<1> QED BY <1>3, <1>8, <1>9 DEF MeshInv

(* A frame refused by the gate or the store.                               *)
LEMMA DiscardInv ==
  ASSUME MeshInv, NEW n \in Nodes, NEW m \in Nodes, NEW rec, Discard(n, m, rec)
  PROVE  MeshInv'
<1>1. /\ Arrives(n, m, rec) /\ wire' = Without(m, n, rec)
      /\ UNCHANGED <<db, ep, up, fresh, admitted, now, bounds, history>>
  BY DEF Discard
<1>2. TypeOK /\ now \in Nat
  BY BoundsAssumption DEF MeshInv, TypeOK
<1>3. EpochsInstalled' /\ Backed' /\ KeepsDelivered' /\ KeepsOutbox' /\ Grown
  BY <1>1, <1>2, StoresStay
<1>4. /\ wire' \in [Edges -> SUBSET Records]
      /\ \A e \in Edges : \A r \in wire'[e] : RecordBacked(r, ep', shows', confirmed')
  BY <1>1, <1>3, WithoutBacked
<1>5. WireBacked'
  BY <1>4 DEF WireBacked
<1>6. forwarded' \in [Nodes -> [Objects -> 0 .. MaxRelayHops]]
  BY <1>1, <1>2, ArrivesBacked, GatedType DEF Discard, TypeOK, memory
<1>7. TypeOK'
  BY <1>1, <1>2, <1>4, <1>6 DEF TypeOK, bounds, history
<1> QED BY <1>3, <1>5, <1>7 DEF MeshInv

(* An announcement accepted.                                               *)
LEMMA AnnouncementInv ==
  ASSUME MeshInv, NEW n \in Nodes, NEW m \in Nodes, NEW rec, ReceiveAnnouncement(n, m, rec)
  PROVE  MeshInv'
<1>1. /\ Arrives(n, m, rec) /\ Gated(n, m, rec)
      /\ Commit(n, Announce(db[n], rec.obj), {}) /\ wire' = Without(m, n, rec)
      /\ UNCHANGED <<ep, up, fresh, admitted, now, bounds>>
  BY DEF ReceiveAnnouncement, TakesAnnouncement, Passes
<1>2. rec \in Records /\ rec.obj \in Objects /\ ep[rec.obj] # 0
  BY <1>1, ArrivesBacked DEF RecordBacked
<1>3. Justified(n, Announce(db[n], rec.obj), {}, ep)
  BY <1>2, JustifiedAnnounce
<1>4. /\ db' \in [Nodes -> Stores]
      /\ shows' \in [Objects \X Nodes -> Nat]
      /\ confirmed' \subseteq Objects \X Nodes
      /\ released' \subseteq Objects \X Nodes
      /\ EpochsInstalled' /\ Backed' /\ KeepsDelivered' /\ KeepsOutbox'
      /\ Grown
  BY <1>1, <1>3, CommitStays
<1>5. /\ wire' \in [Edges -> SUBSET Records]
      /\ \A e \in Edges : \A r \in wire'[e] : RecordBacked(r, ep', shows', confirmed')
  BY <1>1, <1>4, WithoutBacked
<1>6. WireBacked'
  BY <1>5 DEF WireBacked
<1>7. forwarded' \in [Nodes -> [Objects -> 0 .. MaxRelayHops]]
  BY <1>1, <1>2, GatedType
<1>8. TypeOK'
  BY <1>1, <1>4, <1>5, <1>7 DEF MeshInv, TypeOK, bounds
<1> QED BY <1>4, <1>6, <1>8 DEF MeshInv

(* The three stores of the chunk handler are justified, one after another. *)
LEMMA ChunkJustified ==
  ASSUME MeshInv, NEW n \in Nodes, NEW m \in Nodes, NEW rec, TakesChunk(n, m, rec)
  PROVE  /\ Justified(n, ChunkStored(n, m, rec), {}, ep)
         /\ Justified(n, ChunkPruned(n, m, rec), {}, ep)
         /\ Justified(n, ChunkFinal(n, m, rec),
                      Finalized(ChunkPruned(n, m, rec), ep, n, now), ep)
<1>1. /\ rec.obj \in Objects /\ ep[rec.obj] # 0 /\ rec.idx \in Chunks
  BY ArrivesBacked DEF TakesChunk, RecordBacked
<1>2. Route(n, m, rec) \in Custody /\ Route(n, m, rec).obj = rec.obj
  BY <1>1, HopsAssumption DEF Route, Custody, MeshInv, TypeOK
<1>3. Justified(n, ChunkStored(n, m, rec), {}, ep)
  BY <1>1, <1>2, JustifiedChunk DEF ChunkStored
<1>4. Justified(n, ChunkPruned(n, m, rec), {}, ep)
  BY <1>3, JustifiedPrune DEF ChunkPruned
<1>5. Justified(n, ChunkFinal(n, m, rec), Finalized(ChunkPruned(n, m, rec), ep, n, now), ep)
  BY <1>4, JustifiedFinalize DEF ChunkFinal
<1> QED BY <1>3, <1>4, <1>5

(* A chunk accepted, with the finalization that may follow.                *)
LEMMA ChunkInv ==
  ASSUME MeshInv, NEW n \in Nodes, NEW m \in Nodes, NEW rec, ReceiveChunk(n, m, rec)
  PROVE  MeshInv'
<1> DEFINE st == ChunkFinal(n, m, rec)
           visible == Finalized(ChunkPruned(n, m, rec), ep, n, now)
           receipts == IF visible # {} THEN ReceiptRecords(st, n, now) ELSE {}
           out == [to \in Nodes |-> receipts \cup RelayRecords(st, ep, now, to)]
<1>1. /\ TakesChunk(n, m, rec) /\ Commit(n, st, visible)
      /\ Transmit(n, Open, Without(m, n, rec), out)
      /\ UNCHANGED <<ep, memory, up, fresh, now, bounds>>
  BY DEF ReceiveChunk
<1>2. Justified(n, st, visible, ep)
  BY <1>1, ChunkJustified
<1>3. \A to \in Nodes : out[to] \subseteq Drainable(st, n, to)
  BY DEF Drainable
<1>4. forwarded' \in [Nodes -> [Objects -> 0 .. MaxRelayHops]]
  BY <1>1 DEF MeshInv, TypeOK, memory
<1> HIDE DEF st, visible, receipts, out
<1> QED BY <1>1, <1>2, <1>3, <1>4, HandlerBacked

(* Both outcomes of a receipt, recorded or held, are justified.            *)
LEMMA ReceiptJustified ==
  ASSUME MeshInv, NEW n \in Nodes, NEW m \in Nodes, NEW rec,
         ConfirmsReceipt(n, m, rec) \/ HoldsReceipt(n, m, rec)
  PROVE  Justified(n, ReceiptStored(n, m, rec), {}, ep)
<1>1. Arrives(n, m, rec) /\ rec.kind = "receipt"
  BY DEF ConfirmsReceipt, HoldsReceipt, Passes
<1>2. /\ rec \in Records /\ rec.obj \in Objects /\ rec.actor \in Nodes
      /\ shows[<<rec.obj, rec.actor>>] > 0
  BY <1>1, ArrivesBacked DEF RecordBacked
<1>3. CASE IsSource(n, rec.obj)
  BY <1>2, <1>3, JustifiedReceipt DEF ReceiptStored
<1>4. CASE ~IsSource(n, rec.obj)
  BY <1>2, <1>4, ItemType, JustifiedHeldReceipt DEF ReceiptStored
<1> QED BY <1>3, <1>4

(* A receipt accepted.                                                     *)
LEMMA ReceiptInv ==
  ASSUME MeshInv, NEW n \in Nodes, NEW m \in Nodes, NEW rec, ReceiveReceipt(n, m, rec)
  PROVE  MeshInv'
<1> DEFINE st == ReceiptStored(n, m, rec)
           out == [to \in Nodes |-> RelayReceiptRecords(st, now, to)
                                      \cup AckRecords(st, ep, now)]
<1>1. /\ ConfirmsReceipt(n, m, rec) \/ HoldsReceipt(n, m, rec)
      /\ Gated(n, m, rec) /\ Commit(n, st, {})
      /\ Transmit(n, Open, Without(m, n, rec), out)
      /\ UNCHANGED <<ep, up, fresh, now, bounds>>
  BY DEF ReceiveReceipt
<1>2. Justified(n, st, {}, ep)
  BY <1>1, ReceiptJustified
<1>3. \A to \in Nodes : out[to] \subseteq Drainable(st, n, to)
  BY DEF Drainable
<1>4. forwarded' \in [Nodes -> [Objects -> 0 .. MaxRelayHops]]
  BY <1>1, ArrivesBacked, GatedType DEF ConfirmsReceipt, HoldsReceipt, Passes
<1> HIDE DEF st, out
<1> QED BY <1>1, <1>2, <1>3, <1>4, HandlerBacked

(* The stores of the acknowledgement handler are justified.                *)
LEMMA AckJustified ==
  ASSUME MeshInv, NEW n \in Nodes, NEW m \in Nodes, NEW rec,
         TakesAck(n, m, rec) \/ HoldsAck(n, m, rec)
  PROVE  /\ Justified(n, AckStored(n, m, rec), {}, ep)
         /\ Justified(n, AckHeld(n, m, rec), {}, ep)
<1>1. Arrives(n, m, rec) /\ rec.kind = "ack"
  BY DEF TakesAck, HoldsAck, Passes
<1>2. /\ rec \in Records /\ rec.obj \in Objects /\ rec.actor \in Nodes
      /\ <<rec.obj, rec.actor>> \in confirmed
  BY <1>1, ArrivesBacked DEF RecordBacked
<1>3. Justified(n, AckHeld(n, m, rec), {}, ep)
  BY <1>2, ItemType, JustifiedHeldAck DEF AckHeld
<1>4. CASE n = rec.actor
  BY <1>2, <1>3, <1>4, JustifiedAck DEF AckStored
<1>5. CASE n # rec.actor
  BY <1>3, <1>5, JustifiedRemoval DEF AckStored
<1> QED BY <1>3, <1>4, <1>5

(* An acknowledgement accepted.                                            *)
LEMMA AckInv ==
  ASSUME MeshInv, NEW n \in Nodes, NEW m \in Nodes, NEW rec, ReceiveAck(n, m, rec)
  PROVE  MeshInv'
<1> DEFINE st == AckStored(n, m, rec)
           out == [to \in Nodes |-> RelayAckRecords(st, now, to)]
<1>1. /\ TakesAck(n, m, rec) \/ HoldsAck(n, m, rec)
      /\ Gated(n, m, rec) /\ Commit(n, st, {})
      /\ Transmit(n, Open, Without(m, n, rec), out)
      /\ UNCHANGED <<ep, up, fresh, now, bounds>>
  BY DEF ReceiveAck
<1>2. Justified(n, st, {}, ep)
  BY <1>1, AckJustified
<1>3. \A to \in Nodes : out[to] \subseteq Drainable(st, n, to)
  BY DEF Drainable
<1>4. forwarded' \in [Nodes -> [Objects -> 0 .. MaxRelayHops]]
  BY <1>1, ArrivesBacked, GatedType DEF TakesAck, HoldsAck, Passes
<1> HIDE DEF st, out
<1> QED BY <1>1, <1>2, <1>3, <1>4, HandlerBacked

(* A newer policy installed.                                               *)
LEMMA PolicyInv ==
  ASSUME MeshInv, NEW n \in Nodes, InstallPolicy(n)
  PROVE  MeshInv'
<1> DEFINE st == [db[n] EXCEPT !.epoch = @ + 1]
<1>1. /\ db[n].epoch < MaxEpoch /\ db' = [db EXCEPT ![n] = st]
      /\ Disconnect(EdgesOf(n))
      /\ UNCHANGED <<ep, memory, now, bounds, history>>
  BY DEF InstallPolicy
<1>2. TypeOK
  BY DEF MeshInv
<1>3. db[n] \in Stores /\ db[n].epoch \in 1 .. MaxEpoch
  BY <1>2 DEF TypeOK, MeshInv, EpochsInstalled
<1>4. /\ st \in Stores /\ st.epoch \in 1 .. MaxEpoch
      /\ st.objects = db[n].objects /\ st.outbox = db[n].outbox /\ st.relay = db[n].relay
      /\ st.delivered = db[n].delivered /\ st.targetReceipts = db[n].targetReceipts
      /\ st.acknowledged = db[n].acknowledged
      /\ st.relayReceipts = db[n].relayReceipts /\ st.relayAcks = db[n].relayAcks
  BY <1>1, <1>3, BoundsAssumption DEF Stores
<1> HIDE DEF st
<1>5. /\ db' \in [Nodes -> Stores] /\ db'[n] = st
      /\ \A k \in Nodes : k # n => db'[k] = db[k]
  BY <1>1, <1>2, <1>4 DEF TypeOK
<1>6. EpochsInstalled'
  BY <1>4, <1>5 DEF EpochsInstalled, MeshInv
<1>7. /\ ep' = ep /\ shows' = shows /\ confirmed' = confirmed /\ released' = released
      /\ now' = now
  BY <1>1 DEF history
<1>8. Grown
  BY <1>7 DEF Grown
<1>9. Backed'
  <2>1. ASSUME NEW k \in Nodes
        PROVE  StoreBacked(db[k], k, ep, shows, confirmed, released)'
    BY <1>4, <1>5, <1>7 DEF MeshInv, Backed, StoreBacked
  <2>2. HistoryBacked(ep, shows, confirmed, released)'
    BY <1>7 DEF MeshInv, Backed, HistoryBacked
  <2> QED BY <2>1, <2>2 DEF Backed
<1>10. KeepsDelivered'
  BY <1>4, <1>5, <1>7 DEF MeshInv, KeepsDelivered, Shown, Live
<1>11. KeepsOutbox'
  BY <1>4, <1>5, <1>7, ManifestAssumption DEF MeshInv, KeepsOutbox, Sent, Live
<1>12. /\ up' \subseteq Edges /\ fresh' \subseteq up'
       /\ wire' \in [Edges -> SUBSET Records]
       /\ admitted' \in [Edges -> SUBSET Records]
       /\ WireBacked'
  BY <1>1, <1>8, DisconnectBacked
<1>13. TypeOK'
  BY <1>1, <1>2, <1>5, <1>12 DEF TypeOK, memory, bounds, history
<1> QED BY <1>6, <1>9, <1>10, <1>11, <1>12, <1>13 DEF MeshInv

(* Steps that only touch links, memory or the clock.                       *)
LEMMA QuietInv ==
  ASSUME MeshInv,
         \/ \E n, m \in Nodes : LinkUp(n, m) \/ Drop(n, m)
         \/ \E n \in Nodes : Crash(n)
         \/ Tick
  PROVE  MeshInv'
<1>0. TypeOK /\ now \in Nat
  BY BoundsAssumption DEF MeshInv, TypeOK
<1>1. ASSUME NEW n \in Nodes, NEW m \in Nodes, LinkUp(n, m)
      PROVE  MeshInv'
  <2>1. UNCHANGED <<db, ep, memory, wire, admitted, now, bounds, history>>
    BY <1>1 DEF LinkUp
  <2>2. EpochsInstalled' /\ Backed' /\ KeepsDelivered' /\ KeepsOutbox' /\ Grown
    BY <1>0, <2>1, StoresStay
  <2>3. up' \subseteq Edges /\ fresh' \subseteq up'
    BY <1>0, <1>1, EdgesAssumption DEF LinkUp, TypeOK
  <2>4. WireBacked'
    BY <2>1, <2>2, WireGrows DEF WireBacked
  <2>5. TypeOK'
    BY <1>0, <2>1, <2>3 DEF TypeOK, memory, bounds, history
  <2> QED BY <2>2, <2>4, <2>5 DEF MeshInv
<1>2. ASSUME NEW n \in Nodes, NEW m \in Nodes, Drop(n, m)
      PROVE  MeshInv'
  <2>1. /\ UNCHANGED <<db, ep, memory, now, crashes, history>>
        /\ Disconnect({<<n, m>>, <<m, n>>})
    BY <1>2 DEF Drop
  <2>2. EpochsInstalled' /\ Backed' /\ KeepsDelivered' /\ KeepsOutbox' /\ Grown
    BY <1>0, <2>1, StoresStay
  <2>3. /\ up' \subseteq Edges /\ fresh' \subseteq up'
        /\ wire' \in [Edges -> SUBSET Records]
        /\ admitted' \in [Edges -> SUBSET Records]
        /\ WireBacked'
    BY <2>1, <2>2, DisconnectBacked
  <2>4. drops' \in 0 .. MaxDrops
    BY <1>0, <1>2, BoundsAssumption DEF Drop, TypeOK
  <2>5. TypeOK'
    BY <1>0, <2>1, <2>3, <2>4 DEF TypeOK, memory, history
  <2> QED BY <2>2, <2>3, <2>5 DEF MeshInv
<1>3. ASSUME NEW n \in Nodes, Crash(n)
      PROVE  MeshInv'
  <2>1. /\ UNCHANGED <<db, history, ep, now, drops>> /\ Restart(n)
        /\ Disconnect(EdgesOf(n))
    BY <1>3 DEF Crash, Restart
  <2>2. EpochsInstalled' /\ Backed' /\ KeepsDelivered' /\ KeepsOutbox' /\ Grown
    BY <1>0, <2>1, StoresStay
  <2>3. /\ up' \subseteq Edges /\ fresh' \subseteq up'
        /\ wire' \in [Edges -> SUBSET Records]
        /\ admitted' \in [Edges -> SUBSET Records]
        /\ WireBacked'
    BY <2>1, <2>2, DisconnectBacked
  <2>4. /\ crashes' \in 0 .. MaxCrashes
        /\ forwarded' \in [Nodes -> [Objects -> 0 .. MaxRelayHops]]
    BY <1>0, <2>1, BoundsAssumption, HopsAssumption DEF Restart, TypeOK
  <2>5. TypeOK'
    BY <1>0, <2>1, <2>3, <2>4 DEF TypeOK, history
  <2> QED BY <2>2, <2>3, <2>5 DEF MeshInv
<1>4. ASSUME Tick
      PROVE  MeshInv'
  <2>1. /\ UNCHANGED <<db, ep, memory, links, bounds, history>>
        /\ now' \in 0 .. MaxTime /\ now' \in Nat /\ now <= now'
    BY <1>0, <1>4, BoundsAssumption DEF Tick, TypeOK
  <2>2. EpochsInstalled' /\ Backed' /\ KeepsDelivered' /\ KeepsOutbox' /\ Grown
    BY <2>1, StoresStay
  <2>3. WireBacked'
    BY <2>1, <2>2, WireGrows DEF WireBacked, links
  <2>4. TypeOK'
    BY <1>0, <2>1 DEF TypeOK, memory, links, bounds, history
  <2> QED BY <2>2, <2>3, <2>4 DEF MeshInv
<1> QED BY <1>1, <1>2, <1>3, <1>4

(* Every step keeps the invariant.                                         *)
LEMMA MeshStep == MeshInv /\ [Next]_vars => MeshInv'
<1> SUFFICES ASSUME MeshInv, [Next]_vars PROVE MeshInv'
  OBVIOUS
<1>1. CASE \E o \in Objects : Enqueue(o)
  BY <1>1, EnqueueInv
<1>2. CASE \E n, m \in Nodes : Authenticated(n, m)
  BY <1>2, AuthenticatedInv
<1>3. CASE \E n, m \in Nodes : LinkUp(n, m) \/ Drop(n, m)
  BY <1>3, QuietInv
<1>4. CASE \E n \in Nodes : Crash(n)
  BY <1>4, QuietInv
<1>5. CASE Tick
  BY <1>5, QuietInv
<1>6. CASE \E n \in Nodes : InstallPolicy(n)
  BY <1>6, PolicyInv
<1>7. ASSUME NEW n \in Nodes, NEW m \in Nodes, NEW rec, Receive(n, m, rec)
      PROVE  MeshInv'
  BY <1>7, DiscardInv, AnnouncementInv, ChunkInv, ReceiptInv, AckInv DEF Receive
<1>8. ASSUME NEW n \in Nodes, NEW m \in Nodes, NEW rec, CrashInChunk(n, m, rec)
      PROVE  MeshInv'
  <2>1. PICK st \in {ChunkStored(n, m, rec), ChunkPruned(n, m, rec)} : Commit(n, st, {})
    BY <1>8 DEF CrashInChunk
  <2>2. Justified(n, st, {}, ep) /\ Restart(n)
    BY <1>8, ChunkJustified DEF CrashInChunk
  <2> QED BY <2>1, <2>2, RestartBacked
<1>9. ASSUME NEW n \in Nodes, NEW m \in Nodes, NEW rec, CrashInAck(n, m, rec)
      PROVE  MeshInv'
  <2>1. /\ Justified(n, AckHeld(n, m, rec), {}, ep)
        /\ Commit(n, AckHeld(n, m, rec), {}) /\ Restart(n)
    BY <1>9, AckJustified DEF CrashInAck
  <2> QED BY <2>1, RestartBacked
<1>10. CASE UNCHANGED vars
  <2>1. /\ UNCHANGED <<db, ep, memory, links, now, bounds, history>>
        /\ now \in Nat /\ now' = now
    BY <1>10, BoundsAssumption DEF vars, MeshInv, TypeOK
  <2>2. EpochsInstalled' /\ Backed' /\ KeepsDelivered' /\ KeepsOutbox' /\ Grown
    BY <2>1, StoresStay
  <2>3. WireBacked'
    BY <2>1, <2>2, WireGrows DEF WireBacked, links
  <2>4. TypeOK'
    BY <2>1 DEF MeshInv, TypeOK, memory, links, bounds, history
  <2> QED BY <2>2, <2>3, <2>4 DEF MeshInv
<1> QED BY <1>1, <1>2, <1>3, <1>4, <1>5, <1>6, <1>7, <1>8, <1>9, <1>10 DEF Next

-----------------------------------------------------------------------------
(* MeshInv holds of every reachable state.                                 *)
THEOREM MeshInvariant == Spec => []MeshInv
<1>1. Init => MeshInv
  BY InitMeshInv
<1>2. MeshInv /\ [Next]_vars => MeshInv'
  BY MeshStep
<1> QED BY <1>1, <1>2, PTL DEF Spec

(* Every variable keeps its type: stores stay stores whatever transaction  *)
(* is the last one before a crash, and frames stay within the hop limit.   *)
THEOREM MeshTypeCorrect == Spec => []TypeOK
<1>1. MeshInv => TypeOK
  BY DEF MeshInv
<1> QED BY <1>1, MeshInvariant, PTL

(* finalize_next_text makes an object visible at most once per phone, and  *)
(* only where its audience includes the phone.                             *)
THEOREM MeshShownOnce == Spec => []ShownOnce
<1>1. MeshInv => ShownOnce
  <2> SUFFICES ASSUME MeshInv, NEW o \in Objects, NEW n \in Nodes
               PROVE  /\ shows[<<o, n>>] <= 1
                      /\ Shown(o, n) => Sent(o) /\ n \in Targets[o]
    BY Zenon DEF ShownOnce
  <2>1. shows[<<o, n>>] \in Nat
    BY DEF MeshInv, TypeOK
  <2>2. shows[<<o, n>>] > 0 =>
          shows[<<o, n>>] = 1 /\ ep[o] # 0 /\ n \in Targets[o]
    BY DEF MeshInv, Backed, HistoryBacked
  <2> QED BY <2>1, <2>2 DEF Shown, Sent
<1> QED BY <1>1, MeshInvariant, PTL

(* What record_target_receipt counts was shown, and an object leaves the   *)
(* outbox of its origin before expiry only when every target has shown it. *)
THEOREM MeshConfirmedIsShown == Spec => []ConfirmedIsShown
<1>1. MeshInv => ConfirmedIsShown
  <2> SUFFICES ASSUME MeshInv PROVE ConfirmedIsShown
    OBVIOUS
  <2>1. confirmed \subseteq Objects \X Nodes
    BY DEF MeshInv, TypeOK
  <2>2. \A p \in confirmed : Shown(p[1], p[2])
    BY <2>1 DEF MeshInv, Backed, HistoryBacked, Shown
  <2>3. \A o \in Objects :
          (Sent(o) /\ Live(o, now) /\ o \notin db[Origin[o]].outbox) =>
            \A t \in Targets[o] : Shown(o, t)
    BY <2>2 DEF MeshInv, KeepsOutbox
  <2> QED BY <2>2, <2>3 DEF ConfirmedIsShown
<1> QED BY <1>1, MeshInvariant, PTL

(* Acknowledgements, held by a relay or recorded by a recipient, stand for *)
(* receipts the origin recorded.                                           *)
THEOREM MeshReleasedIsConfirmed == Spec => []ReleasedIsConfirmed
<1>1. MeshInv => ReleasedIsConfirmed
  BY DEF MeshInv, Backed, HistoryBacked, StoreBacked, ReleasedIsConfirmed
<1> QED BY <1>1, MeshInvariant, PTL

-----------------------------------------------------------------------------
(* The mesh implements Delivery.                                           *)

(* A store that reports no receipt and no acknowledgement that was not     *)
(* counted before.                                                         *)
NothingNew(n, st) ==
  /\ st.targetReceipts \subseteq confirmed
  /\ \A o \in st.acknowledged : <<o, n>> \in released

(* A commit that records nothing new leaves the history alone.             *)
LEMMA QuietCommit ==
  ASSUME MeshInv, NEW n \in Nodes, NEW st, NothingNew(n, st), Commit(n, st, {})
  PROVE  UNCHANGED history
<1>1. shows \in [Objects \X Nodes -> Nat]
  BY DEF MeshInv, TypeOK
<1>2. shows' = shows
  BY <1>1 DEF Commit
<1>3. confirmed' = confirmed /\ released' = released
  BY DEF Commit, NothingNew
<1> QED BY <1>2, <1>3 DEF history

(* The store of n has nothing the history lacks.                           *)
LEMMA NothingNewAsIs ==
  ASSUME MeshInv, NEW n \in Nodes
  PROVE  NothingNew(n, db[n]) /\ db[n] \in Stores
  BY DEF MeshInv, TypeOK, Backed, StoreBacked, NothingNew

(* Transactions that record neither a receipt nor an acknowledgement.      *)
LEMMA NothingNewAfter ==
  ASSUME NEW n \in Nodes, NEW st \in Stores, NothingNew(n, st),
         NEW o, NEW c, NEW r, NEW t, NEW sealed
  PROVE  /\ NothingNew(n, PruneExpired(st, t))
         /\ NothingNew(n, CommitOutgoing(st, o))
         /\ NothingNew(n, Announce(st, o))
         /\ NothingNew(n, PutRelayChunk(st, o, c, r))
         /\ NothingNew(n, Finalize(st, sealed, n, t))
         /\ NothingNew(n, PutRelayReceipt(st, r, t))
         /\ NothingNew(n, PutRelayReceiptAck(st, r, t))
         /\ NothingNew(n, RemoveRelayReceipt(st, o, r))
<1>1. NothingNew(n, PruneExpired(st, t))
  BY DEF NothingNew, Stores, PruneExpired
<1>2. NothingNew(n, CommitOutgoing(st, o))
  BY DEF NothingNew, Stores, CommitOutgoing
<1>3. NothingNew(n, Announce(st, o))
  BY DEF NothingNew, Stores, Announce
<1>4. NothingNew(n, PutRelayChunk(st, o, c, r))
  BY DEF NothingNew, Stores, PutRelayChunk, WithChunk
<1>5. NothingNew(n, Finalize(st, sealed, n, t))
  BY DEF NothingNew, Stores, Finalize
<1>6. NothingNew(n, PutRelayReceipt(st, r, t))
  BY DEF NothingNew, Stores, PutRelayReceipt
<1>7. NothingNew(n, PutRelayReceiptAck(st, r, t))
  BY DEF NothingNew, Stores, PutRelayReceiptAck
<1>8. NothingNew(n, RemoveRelayReceipt(st, o, r))
  BY DEF NothingNew, Stores, RemoveRelayReceipt
<1> QED BY <1>1, <1>2, <1>3, <1>4, <1>5, <1>6, <1>7, <1>8

(* A handler finalizes at most one object.                                 *)
LEMMA OneVisible ==
  ASSUME NEW st \in Stores, NEW n, NEW t, NEW sealed,
         NEW o \in Finalized(st, sealed, n, t), NEW p \in Finalized(st, sealed, n, t)
  PROVE  o = p
<1>1. /\ o \in Objects /\ p \in Objects /\ o <= p /\ p <= o
  BY DEF Finalized, IsFirst, Deliverable, Stores
<1> QED BY <1>1, ObjectsAssumption

(* A chunk shows at most one object, and shows it for the first time.      *)
LEMMA ShowStep ==
  ASSUME MeshInv, NEW n \in Nodes, NEW m \in Nodes, NEW rec, ReceiveChunk(n, m, rec)
  PROVE  /\ UNCHANGED <<ep, confirmed, released>>
         /\ \/ UNCHANGED shows
            \/ \E o \in Objects : /\ ep[o] # 0 /\ n \in Targets[o] /\ shows[<<o, n>>] = 0
                                  /\ shows' = [shows EXCEPT ![<<o, n>>] = 1]
<1> DEFINE st == ChunkFinal(n, m, rec)
           visible == Finalized(ChunkPruned(n, m, rec), ep, n, now)
<1>1. TakesChunk(n, m, rec) /\ Commit(n, st, visible) /\ ep' = ep
  BY DEF ReceiveChunk
<1>2. Justified(n, st, visible, ep) /\ ChunkPruned(n, m, rec) \in Stores
      /\ ChunkStored(n, m, rec) \in Stores
  BY <1>1, ChunkJustified DEF Justified
<1>3. NothingNew(n, st)
  <2>1. NothingNew(n, ChunkStored(n, m, rec))
    BY NothingNewAsIs, NothingNewAfter DEF ChunkStored
  <2>2. NothingNew(n, ChunkPruned(n, m, rec))
    BY <1>2, <2>1, NothingNewAfter DEF ChunkPruned
  <2> QED BY <1>2, <2>2, NothingNewAfter DEF ChunkFinal
<1>4. confirmed' = confirmed /\ released' = released
  BY <1>1, <1>3 DEF Commit, NothingNew
<1>5. shows \in [Objects \X Nodes -> Nat]
  BY DEF MeshInv, TypeOK
<1>6. \A o \in visible : \A p \in visible : o = p
  BY <1>2, OneVisible
<1> HIDE DEF st, visible
<1>7. CASE visible = {}
  BY <1>1, <1>4, <1>5, <1>7 DEF Commit
<1>8. CASE visible # {}
  <2>1. PICK o \in visible : TRUE
    BY <1>8
  <2>2. visible = {o}
    BY <1>6, <2>1
  <2>3. o \in Objects /\ ep[o] # 0 /\ n \in Targets[o] /\ shows[<<o, n>>] = 0
    BY <1>2, <2>1 DEF Justified
  <2>4. \A p \in Objects \X Nodes : (p[2] = n /\ p[1] \in visible) <=> p = <<o, n>>
    BY <2>2, <2>3
  <2>5. shows' = [p \in Objects \X Nodes |->
                   IF p[2] = n /\ p[1] \in visible THEN shows[p] + 1 ELSE shows[p]]
    BY <1>1 DEF Commit
  <2>6. shows' = [p \in Objects \X Nodes |-> IF p = <<o, n>> THEN 1 ELSE shows[p]]
    <3>1. \A p \in Objects \X Nodes :
            shows'[p] = IF p = <<o, n>> THEN 1 ELSE shows[p]
      BY <2>3, <2>4, <2>5
    <3> QED BY <2>5, <3>1
  <2>7. shows' = [shows EXCEPT ![<<o, n>>] = 1]
    BY <1>5, <2>6
  <2> QED BY <1>1, <1>4, <2>3, <2>7
<1> QED BY <1>7, <1>8

(* A receipt confirms only what was shown.                                 *)
LEMMA ConfirmStep ==
  ASSUME MeshInv, NEW n \in Nodes, NEW m \in Nodes, NEW rec, ReceiveReceipt(n, m, rec)
  PROVE  /\ UNCHANGED <<ep, shows, released>>
         /\ \/ UNCHANGED confirmed
            \/ \E o \in Objects : \E a \in Nodes :
                 /\ shows[<<o, a>>] = 1 /\ <<o, a>> \notin confirmed
                 /\ confirmed' = confirmed \cup {<<o, a>>}
<1> DEFINE st == ReceiptStored(n, m, rec)
<1>1. /\ ConfirmsReceipt(n, m, rec) \/ HoldsReceipt(n, m, rec)
      /\ Commit(n, st, {}) /\ ep' = ep
  BY DEF ReceiveReceipt
<1>2. Arrives(n, m, rec) /\ rec.kind = "receipt"
  BY <1>1 DEF ConfirmsReceipt, HoldsReceipt, Passes
<1>3. /\ rec \in Records /\ rec.obj \in Objects /\ rec.actor \in Nodes
      /\ shows[<<rec.obj, rec.actor>>] > 0
  BY <1>2, ArrivesBacked DEF RecordBacked
<1>4. shows[<<rec.obj, rec.actor>>] = 1
  BY <1>3 DEF MeshInv, Backed, HistoryBacked
<1>5. shows \in [Objects \X Nodes -> Nat] /\ db[n] \in Stores /\ NothingNew(n, db[n])
  BY NothingNewAsIs DEF MeshInv, TypeOK
<1>6. shows' = shows
  BY <1>1, <1>5 DEF Commit
<1>7. CASE ~IsSource(n, rec.obj)
  <2>1. NothingNew(n, st)
    BY <1>5, <1>7, NothingNewAfter DEF ReceiptStored
  <2> QED BY <1>1, <1>6, <2>1, QuietCommit DEF history
<1>8. CASE IsSource(n, rec.obj)
  <2>1. st = RecordTargetReceipt(db[n], rec.obj, rec.actor)
    BY <1>8 DEF ReceiptStored
  <2>2. /\ st.targetReceipts = db[n].targetReceipts \cup {<<rec.obj, rec.actor>>}
        /\ st.acknowledged = db[n].acknowledged
    BY <1>5, <2>1 DEF RecordTargetReceipt, Stores
  <2>3. released' = released /\ confirmed' = confirmed \cup {<<rec.obj, rec.actor>>}
    BY <1>1, <1>5, <2>2 DEF Commit, NothingNew
  <2> QED BY <1>1, <1>3, <1>4, <1>6, <2>3
<1> QED BY <1>7, <1>8

(* An acknowledgement releases only what was confirmed.                    *)
LEMMA ReleaseStep ==
  ASSUME MeshInv, NEW n \in Nodes, NEW m \in Nodes, NEW rec, ReceiveAck(n, m, rec)
  PROVE  /\ UNCHANGED <<ep, shows, confirmed>>
         /\ \/ UNCHANGED released
            \/ \E o \in Objects : /\ <<o, n>> \in confirmed \ released
                                  /\ released' = released \cup {<<o, n>>}
<1> DEFINE st == AckStored(n, m, rec)
<1>1. /\ TakesAck(n, m, rec) \/ HoldsAck(n, m, rec)
      /\ Commit(n, st, {}) /\ ep' = ep
  BY DEF ReceiveAck
<1>2. Arrives(n, m, rec) /\ rec.kind = "ack"
  BY <1>1 DEF TakesAck, HoldsAck, Passes
<1>3. /\ rec \in Records /\ rec.obj \in Objects /\ rec.actor \in Nodes
      /\ <<rec.obj, rec.actor>> \in confirmed
  BY <1>2, ArrivesBacked DEF RecordBacked
<1>4. shows \in [Objects \X Nodes -> Nat] /\ db[n] \in Stores /\ NothingNew(n, db[n])
  BY NothingNewAsIs DEF MeshInv, TypeOK
<1>5. shows' = shows
  BY <1>1, <1>4 DEF Commit
<1>6. CASE n # rec.actor
  <2>1. NothingNew(n, AckHeld(n, m, rec)) /\ AckHeld(n, m, rec) \in Stores
    BY <1>1, <1>4, AckJustified, NothingNewAfter DEF AckHeld, Justified
  <2>2. NothingNew(n, st)
    BY <1>6, <2>1, NothingNewAfter DEF AckStored
  <2> QED BY <1>1, <1>5, <2>2, QuietCommit DEF history
<1>7. CASE n = rec.actor
  <2>1. st = RecordReceiptAck(db[n], rec.obj)
    BY <1>7 DEF AckStored
  <2>2. /\ st.targetReceipts = db[n].targetReceipts
        /\ st.acknowledged = db[n].acknowledged \cup {rec.obj}
    BY <1>4, <2>1 DEF RecordReceiptAck, Stores
  <2>3. confirmed' = confirmed /\ released' = released \cup {<<rec.obj, n>>}
    BY <1>1, <1>4, <2>2 DEF Commit, NothingNew
  <2> QED BY <1>1, <1>3, <1>5, <1>7, <2>3
<1> QED BY <1>6, <1>7

(* Every other step leaves what Delivery sees alone.                       *)
LEMMA OtherSteps ==
  ASSUME MeshInv, NEW n \in Nodes, NEW m \in Nodes, NEW rec,
         \/ Discard(n, m, rec) \/ ReceiveAnnouncement(n, m, rec)
         \/ CrashInChunk(n, m, rec) \/ CrashInAck(n, m, rec)
         \/ LinkUp(n, m) \/ Authenticated(n, m) \/ Drop(n, m)
         \/ Crash(n) \/ InstallPolicy(n) \/ Tick \/ UNCHANGED vars
  PROVE  UNCHANGED <<ep, shows, confirmed, released>>
<1> USE NothingNewAsIs
<1>1. CASE ReceiveAnnouncement(n, m, rec)
  <2>1. Commit(n, Announce(db[n], rec.obj), {}) /\ ep' = ep
    BY <1>1 DEF ReceiveAnnouncement
  <2> QED BY <2>1, NothingNewAfter, QuietCommit DEF history
<1>2. CASE CrashInChunk(n, m, rec)
  <2>1. PICK st \in {ChunkStored(n, m, rec), ChunkPruned(n, m, rec)} : Commit(n, st, {})
    BY <1>2 DEF CrashInChunk
  <2>2. ChunkStored(n, m, rec) \in Stores /\ ep' = ep
    BY <1>2, ChunkJustified DEF CrashInChunk, Justified, Restart
  <2>3. NothingNew(n, ChunkStored(n, m, rec))
    BY NothingNewAfter DEF ChunkStored
  <2>4. NothingNew(n, ChunkPruned(n, m, rec))
    BY <2>2, <2>3, NothingNewAfter DEF ChunkPruned
  <2> QED BY <2>1, <2>2, <2>3, <2>4, QuietCommit DEF history
<1>3. CASE CrashInAck(n, m, rec)
  <2>1. Commit(n, AckHeld(n, m, rec), {}) /\ ep' = ep
    BY <1>3 DEF CrashInAck, Restart
  <2>2. NothingNew(n, AckHeld(n, m, rec))
    BY NothingNewAfter DEF AckHeld
  <2> QED BY <2>1, <2>2, QuietCommit DEF history
<1>4. CASE \/ Discard(n, m, rec) \/ LinkUp(n, m) \/ Authenticated(n, m) \/ Drop(n, m)
           \/ Crash(n) \/ InstallPolicy(n) \/ Tick \/ UNCHANGED vars
  BY <1>4 DEF Discard, LinkUp, Authenticated, Drop, Crash, Restart, InstallPolicy,
              Tick, vars, history
<1> QED BY <1>1, <1>2, <1>3, <1>4

(* Sealing an object sends it, and nothing else.                           *)
LEMMA SendStep ==
  ASSUME MeshInv, NEW o \in Objects, Enqueue(o)
  PROVE  /\ UNCHANGED <<shows, confirmed, released>>
         /\ ~Sent(o)
         /\ {p \in Objects : Sent(p)}' = {p \in Objects : Sent(p)} \cup {o}
<1> DEFINE n == Origin[o]
           st == CommitOutgoing(PruneExpired(db[n], now), o)
<1>1. n \in Nodes /\ now \in Nat /\ db[n].epoch \in 1 .. MaxEpoch
      /\ ep \in [Objects -> 0 .. MaxEpoch]
  BY ManifestAssumption, BoundsAssumption DEF MeshInv, TypeOK, EpochsInstalled
<1>2. /\ ep' = [ep EXCEPT ![o] = db[n].epoch] /\ ep[o] = 0 /\ Commit(n, st, {})
  BY DEF Enqueue
<1>3. NothingNew(n, st)
  <2>1. PruneExpired(db[n], now) \in Stores /\ NothingNew(n, PruneExpired(db[n], now))
    BY <1>1, NothingNewAsIs, NothingNewAfter, PruneType
  <2> QED BY <1>1, <2>1, NothingNewAfter
<1>4. UNCHANGED history
  BY <1>1, <1>2, <1>3, QuietCommit
<1>5. {p \in Objects : Sent(p)}' = {p \in Objects : Sent(p)} \cup {o}
  BY <1>1, <1>2 DEF Sent
<1> QED BY <1>2, <1>4, <1>5 DEF history, Sent

(* The mesh, with its crashes, lost links, repeated offers and changing    *)
(* policies, implements Delivery: secure_store_accept_routed and           *)
(* finalize_next_text show, confirm and release in that order, each once.  *)
THEOREM MeshDeliversAsPromised == Spec => DeliversAsPromised
<1> USE DEF Promise!vars
<1>1. Init => Promise!Init
  BY DEF Init, Promise!Init, Sent
<1>2. MeshInv /\ [Next]_vars => [Promise!Next]_(Promise!vars)
  <2> SUFFICES ASSUME MeshInv, [Next]_vars
               PROVE  [Promise!Next]_(Promise!vars)
    OBVIOUS
  <2>1. ASSUME UNCHANGED <<ep, shows, confirmed, released>>
        PROVE  [Promise!Next]_(Promise!vars)
    BY <2>1 DEF Sent
  <2>2. ASSUME NEW o \in Objects, Enqueue(o)
        PROVE  [Promise!Next]_(Promise!vars)
    <3>1. Promise!Send(o)
      BY <2>2, SendStep DEF Promise!Send
    <3> QED BY <3>1 DEF Promise!Next
  <2>3. ASSUME NEW n \in Nodes, NEW m \in Nodes, NEW rec, ReceiveChunk(n, m, rec)
        PROVE  [Promise!Next]_(Promise!vars)
    <3>1. CASE UNCHANGED shows
      BY <2>1, <2>3, <3>1, ShowStep
    <3>2. CASE ~UNCHANGED shows
      <4>1. PICK o \in Objects :
              /\ ep[o] # 0 /\ n \in Targets[o] /\ shows[<<o, n>>] = 0
              /\ shows' = [shows EXCEPT ![<<o, n>>] = 1]
        BY <2>3, <3>2, ShowStep
      <4>2. UNCHANGED <<ep, confirmed, released>>
        BY <2>3, ShowStep
      <4>3. Promise!Show(o, n)
        BY <4>1, <4>2 DEF Promise!Show, Sent
      <4> QED BY <4>3 DEF Promise!Next
    <3> QED BY <3>1, <3>2
  <2>4. ASSUME NEW n \in Nodes, NEW m \in Nodes, NEW rec, ReceiveReceipt(n, m, rec)
        PROVE  [Promise!Next]_(Promise!vars)
    <3>1. CASE UNCHANGED confirmed
      BY <2>1, <2>4, <3>1, ConfirmStep
    <3>2. CASE ~UNCHANGED confirmed
      <4>1. PICK o \in Objects, a \in Nodes :
              /\ shows[<<o, a>>] = 1 /\ <<o, a>> \notin confirmed
              /\ confirmed' = confirmed \cup {<<o, a>>}
        BY <2>4, <3>2, ConfirmStep
      <4>2. UNCHANGED <<ep, shows, released>>
        BY <2>4, ConfirmStep
      <4>3. Promise!Confirm(o, a)
        BY <4>1, <4>2 DEF Promise!Confirm, Sent
      <4> QED BY <4>3 DEF Promise!Next
    <3> QED BY <3>1, <3>2
  <2>5. ASSUME NEW n \in Nodes, NEW m \in Nodes, NEW rec, ReceiveAck(n, m, rec)
        PROVE  [Promise!Next]_(Promise!vars)
    <3>1. CASE UNCHANGED released
      BY <2>1, <2>5, <3>1, ReleaseStep
    <3>2. CASE ~UNCHANGED released
      <4>1. PICK o \in Objects : /\ <<o, n>> \in confirmed \ released
                                 /\ released' = released \cup {<<o, n>>}
        BY <2>5, <3>2, ReleaseStep
      <4>2. UNCHANGED <<ep, shows, confirmed>>
        BY <2>5, ReleaseStep
      <4>3. Promise!Release(o, n)
        BY <4>1, <4>2 DEF Promise!Release, Sent
      <4> QED BY <4>3 DEF Promise!Next
    <3> QED BY <3>1, <3>2
  <2>6. ASSUME NEW n \in Nodes, NEW m \in Nodes, NEW rec,
               \/ Receive(n, m, rec) \/ CrashInChunk(n, m, rec) \/ CrashInAck(n, m, rec)
        PROVE  [Promise!Next]_(Promise!vars)
    BY <2>1, <2>3, <2>4, <2>5, <2>6, OtherSteps DEF Receive
  <2>7. ASSUME NEW n \in Nodes, NEW m \in Nodes,
               \/ LinkUp(n, m) \/ Authenticated(n, m) \/ Drop(n, m)
               \/ Crash(n) \/ InstallPolicy(n)
        PROVE  [Promise!Next]_(Promise!vars)
    BY <2>1, <2>7, OtherSteps
  <2>8. CASE Tick \/ UNCHANGED vars
    BY <2>1, <2>8 DEF Tick, vars, history
  <2> QED BY <2>2, <2>6, <2>7, <2>8 DEF Next
<1>3. Spec => Promise!Spec
  BY <1>1, <1>2, MeshInvariant, PTL DEF Spec, Promise!Spec
<1> QED BY <1>3 DEF DeliversAsPromised

-----------------------------------------------------------------------------
(* Custody.  What a relay carries on is whole, was announced, comes from   *)
(* another phone and continues within the hop limit; what it puts on a     *)
(* link stays covered by the custody it was taken from.                    *)

(* The store of n offers its own objects, and holds others whole, each     *)
(* under one route.                                                        *)
Sound(st, n) ==
  /\ \A o \in st.outbox : Origin[o] = n
  /\ \A r \in st.relay :
       /\ r.obj \in st.objects /\ Complete(st, r.obj)
       /\ Origin[r.obj] # n /\ r.from # n
       /\ r.hops <= HopLimit
       /\ \A q \in st.relay : q.obj = r.obj => q = r

(* A frame kept for the chunks that follow is one the gate let through.    *)
ForwardedSound ==
  \A n \in Nodes : \A o \in Objects :
    forwarded[n][o] # 0 => Origin[o] # n /\ forwarded[n][o] <= HopLimit

CarryInv ==
  /\ ForwardedSound
  /\ \A n \in Nodes : Sound(db[n], n)
  /\ NeverReturned

(* A store n may commit next: it is sound and keeps the custody of what is *)
(* alive.                                                                  *)
Succeeds(n, st) ==
  /\ Sound(st, n)
  /\ \A r \in db[n].relay : Live(r.obj, now) => r \in st.relay

(* Where a record of an object on the link to `to` may come from.          *)
Sourced(rec, st, to) ==
  rec.kind \in {"ann", "chunk"} =>
    \/ rec.obj \in st.outbox
    \/ \E r \in st.relay : r.obj = rec.obj /\ r.hops = rec.hops /\ r.from # to

(* A transaction that leaves the custody alone.                            *)
LEMMA SucceedsAlike ==
  ASSUME NEW n \in Nodes, NEW st, Sound(db[n], n), st.relay = db[n].relay,
         \A o \in st.outbox : Origin[o] = n,
         db[n].objects \subseteq st.objects, db[n].chunks \subseteq st.chunks
  PROVE  Succeeds(n, st)
  BY DEF Succeeds, Sound, Complete

(* prune_expired drops an object with its chunks and its custody.          *)
LEMMA SucceedsPrune ==
  ASSUME NEW n \in Nodes, NEW st \in Stores, Succeeds(n, st)
  PROVE  Succeeds(n, PruneExpired(st, now))
<1> DEFINE pruned == PruneExpired(st, now)
<1>1. /\ pruned.objects = {o \in st.objects : Live(o, now)}
      /\ pruned.chunks = {p \in st.chunks : Live(p[1], now)}
      /\ pruned.outbox \subseteq st.outbox
      /\ pruned.relay = {r \in st.relay : Live(r.obj, now)}
  BY DEF Stores, PruneExpired, Current
<1> HIDE DEF pruned
<1>2. Sound(pruned, n)
  <2>1. ASSUME NEW r \in pruned.relay
        PROVE  r.obj \in pruned.objects /\ Complete(pruned, r.obj)
    <3>1. r \in st.relay /\ Live(r.obj, now) /\ r.obj \in st.objects /\ Complete(st, r.obj)
      BY <1>1 DEF Succeeds, Sound
    <3>2. \A c \in Chunks : <<r.obj, c>> \in pruned.chunks
      BY <1>1, <3>1 DEF Complete
    <3> QED BY <1>1, <3>1, <3>2 DEF Complete
  <2> QED BY <1>1, <2>1 DEF Succeeds, Sound
<1>3. \A r \in db[n].relay : Live(r.obj, now) => r \in pruned.relay
  BY <1>1 DEF Succeeds
<1> QED BY <1>2, <1>3 DEF Succeeds, pruned

(* put_relay_chunk takes custody only with the last missing chunk, under   *)
(* the route the gate let the object through, and never a second time.     *)
LEMMA SucceedsChunk ==
  ASSUME NEW n \in Nodes, NEW o \in Objects, NEW c \in Chunks, NEW route \in Custody,
         db[n] \in Stores, Sound(db[n], n), route.obj = o,
         ~ChunkRefused(db[n], o, c, route, now),
         Origin[o] # n, route.from # n, route.hops <= HopLimit
  PROVE  Succeeds(n, PutRelayChunk(db[n], o, c, route))
<1> DEFINE put == WithChunk(db[n], o, c)
           taken == [put EXCEPT !.relay = @ \cup {route}]
<1>1. /\ put \in Stores /\ put.objects = db[n].objects /\ put.outbox = db[n].outbox
      /\ put.relay = db[n].relay /\ db[n].chunks \subseteq put.chunks
  BY DEF Stores, WithChunk
<1>2. /\ taken.objects = put.objects /\ taken.outbox = put.outbox
      /\ taken.chunks = put.chunks /\ taken.relay = put.relay \cup {route}
  BY <1>1 DEF Stores
<1>3. o \in db[n].objects
  BY DEF ChunkRefused
<1>4. Succeeds(n, put)
  BY <1>1, SucceedsAlike DEF Sound
<1>5. ASSUME Complete(put, o)
      PROVE  Succeeds(n, taken)
  <2>1. \A q \in db[n].relay : q.obj = o => route \in db[n].relay
    BY <1>5 DEF ChunkRefused, InCustody
  <2>2. \A q \in db[n].relay : q.obj = o => q = route
    BY <2>1 DEF Sound
  <2>3. \A p \in Objects : Complete(put, p) => Complete(taken, p)
    BY <1>2 DEF Complete
  <2> HIDE DEF put, taken
  <2>4. ASSUME NEW r \in taken.relay
        PROVE  /\ r.obj \in taken.objects /\ Complete(taken, r.obj)
               /\ Origin[r.obj] # n /\ r.from # n /\ r.hops <= HopLimit
    <3>1. CASE r = route
      BY <1>1, <1>2, <1>3, <1>5, <2>3, <3>1
    <3>2. CASE r \in put.relay
      <4>1. r.obj \in Objects
        BY <1>1, <3>2 DEF Stores, Custody
      <4> QED BY <1>2, <1>4, <2>3, <3>2, <4>1 DEF Succeeds, Sound
    <3> QED BY <1>2, <3>1, <3>2
  <2>5. \A r, q \in taken.relay : q.obj = r.obj => q = r
    BY <1>1, <1>2, <2>2 DEF Sound
  <2> QED BY <1>2, <1>4, <2>4, <2>5 DEF Succeeds, Sound
<1> QED BY <1>4, <1>5 DEF PutRelayChunk

(* What the drains of a sound store offer.                                 *)
LEMMA DrainsSourced ==
  ASSUME NEW st, NEW n \in Nodes, NEW to \in Nodes, NEW t, NEW sealed
  PROVE  \A rec \in OutboxRecords(st, sealed, t) \cup ReceiptRecords(st, n, t)
                      \cup AckRecords(st, sealed, t) \cup RelayRecords(st, sealed, t, to)
                      \cup RelayReceiptRecords(st, t, to) \cup RelayAckRecords(st, t, to) :
           Sourced(rec, st, to)
<1>1. \A o, h : \A rec \in Whole(o, h) : rec.obj = o /\ rec.hops = h
  BY DEF Whole, Ann, Chunk
<1>2. \A rec \in OutboxRecords(st, sealed, t) : rec.obj \in st.outbox
  BY <1>1 DEF OutboxRecords, OutboxQueue
<1>3. \A rec \in RelayRecords(st, sealed, t, to) :
        \E r \in st.relay : r.obj = rec.obj /\ r.hops = rec.hops /\ r.from # to
  BY <1>1 DEF RelayRecords, HeadOf, Current
<1>4. \A rec \in ReceiptRecords(st, n, t) \cup AckRecords(st, sealed, t)
                   \cup RelayReceiptRecords(st, t, to) \cup RelayAckRecords(st, t, to) :
        rec.kind \notin {"ann", "chunk"}
  <2>1. \A rec \in ReceiptRecords(st, n, t) : rec.kind = "receipt"
    BY DEF ReceiptRecords, ReceiptQueue, Receipt
  <2>2. \A rec \in AckRecords(st, sealed, t) : rec.kind = "ack"
    <3>1. \A rec \in AckRecords(st, sealed, t) : \E p \in st.targetReceipts : rec = Ack(p[1], p[2], 0)
      BY DEF AckRecords
    <3> QED BY <3>1 DEF Ack
  <2>3. \A rec \in RelayReceiptRecords(st, t, to) : rec.kind = "receipt"
    BY DEF RelayReceiptRecords, Receipt
  <2>4. \A rec \in RelayAckRecords(st, t, to) : rec.kind = "ack"
    BY DEF RelayAckRecords, Ack
  <2> QED BY <2>1, <2>2, <2>3, <2>4
<1> QED BY <1>2, <1>3, <1>4 DEF Sourced

(* The links after a step at n: what they carry was there before or comes  *)
(* from the store n has now, and custody of what is alive was kept.        *)
LEMMA CarriesOn ==
  ASSUME MeshInv, CarryInv, NEW n \in Nodes, now' \in Nat, now <= now',
         \A k \in Nodes : k # n => db'[k] = db[k],
         Succeeds(n, db'[n]),
         \A e \in Edges : \A rec \in wire'[e] :
           rec \in wire[e] \/ (e[1] = n /\ Sourced(rec, db'[n], e[2]))
  PROVE  /\ \A k \in Nodes : Sound(db'[k], k)
         /\ NeverReturned'
<1>1. \A k \in Nodes : Sound(db'[k], k)
  BY DEF CarryInv, Succeeds
<1>2. \A e \in Edges : e[1] \in Nodes
  BY EdgesAssumption
<1>3. NeverReturned'
  <2> SUFFICES ASSUME NEW e \in Edges, NEW rec \in wire'[e],
                      rec.kind \in {"ann", "chunk"}, Origin[rec.obj] # e[1],
                      Live(rec.obj, now')
               PROVE  \E r \in db'[e[1]].relay :
                        r.obj = rec.obj /\ r.hops = rec.hops /\ r.from # e[2]
    BY DEF NeverReturned
  <2>1. CASE rec \in wire[e]
    <3>1. rec.obj \in Objects
      BY <2>1 DEF MeshInv, TypeOK, Records
    <3>2. Live(rec.obj, now)
      BY <3>1, ManifestAssumption DEF Live, MeshInv, TypeOK
    <3>3. PICK r \in db[e[1]].relay : r.obj = rec.obj /\ r.hops = rec.hops /\ r.from # e[2]
      BY <2>1, <3>2 DEF CarryInv, NeverReturned
    <3>4. r \in db'[e[1]].relay
      BY <1>2, <3>2, <3>3 DEF Succeeds
    <3> QED BY <3>3, <3>4
  <2>2. CASE e[1] = n /\ Sourced(rec, db'[n], e[2])
    BY <1>1, <2>2 DEF Sourced, Sound
  <2> QED BY <2>1, <2>2
<1> QED BY <1>1, <1>3

(* The gate lets through frames of other phones that have hops left.       *)
LEMMA GatedSound ==
  ASSUME MeshInv, CarryInv, NEW n \in Nodes, NEW m \in Nodes, NEW rec \in Records,
         Gated(n, m, rec)
  PROVE  ForwardedSound'
<1>1. rec.obj \in Objects /\ rec.hops \in Nat
  BY DEF Records
<1>2. (rec.kind = "ann" /\ GateDecision(n, m, rec) = "Forward") =>
        /\ Origin[rec.obj] # n
        /\ Forwarded(n, FrameOf(rec, m)).hops <= HopLimit
  BY <1>1, HopLimitAssumption, HopsAssumption
     DEF GateDecision, Decision, Valid, FrameOf, Forwarded
<1>3. forwarded \in [Nodes -> [Objects -> 0 .. MaxRelayHops]]
  BY DEF MeshInv, TypeOK
<1>4. \A k \in Nodes : \A o \in Objects :
        \/ forwarded'[k][o] = forwarded[k][o]
        \/ /\ k = n /\ o = rec.obj /\ rec.kind = "ann"
           /\ GateDecision(n, m, rec) = "Forward"
           /\ forwarded'[k][o] = Forwarded(n, FrameOf(rec, m)).hops
  BY <1>1, <1>3 DEF Gated
<1> QED BY <1>2, <1>4 DEF CarryInv, ForwardedSound

(* A handler that commits at n and then drains.                            *)
LEMMA HandlerCarries ==
  ASSUME MeshInv, CarryInv, NEW n \in Nodes, NEW st, NEW visible,
         NEW sessions, NEW carried, NEW out, NEW sealed,
         Succeeds(n, st), Commit(n, st, visible), now' = now,
         Transmit(n, sessions, carried, out),
         \A e \in Edges : carried[e] \subseteq wire[e],
         \A to \in Nodes : out[to] \subseteq
           OutboxRecords(st, sealed, now) \cup ReceiptRecords(st, n, now)
             \cup AckRecords(st, sealed, now) \cup RelayRecords(st, sealed, now, to)
             \cup RelayReceiptRecords(st, now, to) \cup RelayAckRecords(st, now, to),
         ForwardedSound'
  PROVE  CarryInv'
<1>1. /\ db'[n] = st /\ \A k \in Nodes : k # n => db'[k] = db[k]
  BY DEF Commit, MeshInv, TypeOK
<1>2. \A to \in Nodes : \A rec \in out[to] : Sourced(rec, st, to)
  BY DrainsSourced
<1>3. \A e \in Edges : e[2] \in Nodes
  BY EdgesAssumption
<1>4. \A e \in Edges : \A rec \in wire'[e] :
        rec \in wire[e] \/ (e[1] = n /\ rec \in out[e[2]])
  BY DEF Transmit
<1>5. \A e \in Edges : \A rec \in wire'[e] :
        rec \in wire[e] \/ (e[1] = n /\ Sourced(rec, db'[n], e[2]))
  BY <1>1, <1>2, <1>3, <1>4
<1>6. now' \in Nat /\ now <= now'
  BY BoundsAssumption DEF MeshInv, TypeOK
<1> QED BY <1>1, <1>5, <1>6, CarriesOn DEF CarryInv

(* A step at n that puts nothing on the links.                             *)
LEMMA SilentCarries ==
  ASSUME MeshInv, CarryInv, NEW n \in Nodes, now' \in Nat, now <= now',
         \A k \in Nodes : k # n => db'[k] = db[k],
         Succeeds(n, db'[n]),
         \A e \in Edges : wire'[e] \subseteq wire[e],
         ForwardedSound'
  PROVE  CarryInv'
<1>1. \A e \in Edges : \A rec \in wire'[e] :
        rec \in wire[e] \/ (e[1] = n /\ Sourced(rec, db'[n], e[2]))
  OBVIOUS
<1> QED BY <1>1, CarriesOn DEF CarryInv

(* The end of the process at n, after the transaction that stored st.      *)
LEMMA RestartCarries ==
  ASSUME MeshInv, CarryInv, NEW n \in Nodes, NEW st, Succeeds(n, st),
         db' = [db EXCEPT ![n] = st], Restart(n)
  PROVE  CarryInv'
<1>1. db'[n] = st /\ \A k \in Nodes : k # n => db'[k] = db[k]
  BY DEF MeshInv, TypeOK
<1>2. \A e \in Edges : wire'[e] \subseteq wire[e]
  BY DEF Restart, Disconnect, MeshInv, TypeOK
<1>3. now' = now /\ now' \in Nat /\ now <= now'
  BY BoundsAssumption DEF Restart, MeshInv, TypeOK
<1>4. ForwardedSound'
  BY DEF Restart, CarryInv, ForwardedSound, MeshInv, TypeOK
<1> QED BY <1>1, <1>2, <1>3, <1>4, SilentCarries

(* The stores of the chunk handler.                                        *)
LEMMA ChunkSucceeds ==
  ASSUME MeshInv, CarryInv, NEW n \in Nodes, NEW m \in Nodes, NEW rec, TakesChunk(n, m, rec)
  PROVE  /\ Succeeds(n, ChunkStored(n, m, rec))
         /\ Succeeds(n, ChunkPruned(n, m, rec))
         /\ Succeeds(n, ChunkFinal(n, m, rec))
<1>1. /\ rec.obj \in Objects /\ rec.idx \in Chunks /\ <<m, n>> \in Edges
  BY ArrivesBacked DEF TakesChunk, RecordBacked
<1>2. /\ Route(n, m, rec) \in Custody /\ Route(n, m, rec).obj = rec.obj
      /\ Route(n, m, rec).from = m /\ Route(n, m, rec).hops = forwarded[n][rec.obj]
  BY <1>1, HopsAssumption DEF Route, Custody, MeshInv, TypeOK
<1>3. m # n
  BY <1>1, EdgesAssumption
<1>4. Origin[rec.obj] # n /\ forwarded[n][rec.obj] <= HopLimit
  BY <1>1 DEF TakesChunk, CarryInv, ForwardedSound
<1>5. Succeeds(n, ChunkStored(n, m, rec))
  <2>1. db[n] \in Stores /\ Sound(db[n], n)
    BY DEF MeshInv, TypeOK, CarryInv
  <2>2. ~ChunkRefused(db[n], rec.obj, rec.idx, Route(n, m, rec), now)
    BY DEF TakesChunk
  <2> QED BY <1>1, <1>2, <1>3, <1>4, <2>1, <2>2, SucceedsChunk DEF ChunkStored
<1>6. /\ ChunkStored(n, m, rec) \in Stores /\ ChunkPruned(n, m, rec) \in Stores
  BY ChunkJustified DEF Justified
<1>7. Succeeds(n, ChunkPruned(n, m, rec))
  BY <1>5, <1>6, SucceedsPrune DEF ChunkPruned
<1>8. /\ ChunkFinal(n, m, rec).relay = ChunkPruned(n, m, rec).relay
      /\ ChunkFinal(n, m, rec).outbox = ChunkPruned(n, m, rec).outbox
      /\ ChunkFinal(n, m, rec).objects = ChunkPruned(n, m, rec).objects
      /\ ChunkFinal(n, m, rec).chunks = ChunkPruned(n, m, rec).chunks
  BY <1>6 DEF ChunkFinal, Finalize, Stores
<1>9. Succeeds(n, ChunkFinal(n, m, rec))
  BY <1>7, <1>8 DEF Succeeds, Sound, Complete
<1> QED BY <1>5, <1>7, <1>9

(* The stores of the receipt and acknowledgement handlers keep objects,    *)
(* chunks and custody, and at most retire an object from the outbox.       *)
LEMMA ReceiptSucceeds ==
  ASSUME MeshInv, CarryInv, NEW n \in Nodes, NEW m \in Nodes, NEW rec
  PROVE  /\ Succeeds(n, ReceiptStored(n, m, rec))
         /\ Succeeds(n, AckHeld(n, m, rec))
         /\ Succeeds(n, AckStored(n, m, rec))
<1>1. db[n] \in Stores /\ Sound(db[n], n)
  BY DEF MeshInv, TypeOK, CarryInv
<1>2. Succeeds(n, ReceiptStored(n, m, rec))
  <2>1. /\ ReceiptStored(n, m, rec).relay = db[n].relay
        /\ ReceiptStored(n, m, rec).objects = db[n].objects
        /\ ReceiptStored(n, m, rec).chunks = db[n].chunks
        /\ ReceiptStored(n, m, rec).outbox \subseteq db[n].outbox
    BY <1>1 DEF ReceiptStored, RecordTargetReceipt, PutRelayReceipt, Stores
  <2> QED BY <1>1, <2>1, SucceedsAlike DEF Sound
<1>3. Succeeds(n, AckHeld(n, m, rec)) /\ Succeeds(n, AckStored(n, m, rec))
  <2>1. /\ AckHeld(n, m, rec).relay = db[n].relay
        /\ AckHeld(n, m, rec).objects = db[n].objects
        /\ AckHeld(n, m, rec).chunks = db[n].chunks
        /\ AckHeld(n, m, rec).outbox = db[n].outbox
    BY <1>1 DEF AckHeld, PutRelayReceiptAck, Stores
  <2>2. /\ AckStored(n, m, rec).relay = db[n].relay
        /\ AckStored(n, m, rec).objects = db[n].objects
        /\ AckStored(n, m, rec).chunks = db[n].chunks
        /\ AckStored(n, m, rec).outbox = db[n].outbox
    BY <1>1 DEF AckStored, AckHeld, PutRelayReceiptAck, RemoveRelayReceipt,
                RecordReceiptAck, Stores
  <2> QED BY <1>1, <2>1, <2>2, SucceedsAlike DEF Sound
<1> QED BY <1>2, <1>3

(* An object enqueued at its origin.                                       *)
LEMMA EnqueueCarries ==
  ASSUME MeshInv, CarryInv, NEW o \in Objects, Enqueue(o)
  PROVE  CarryInv'
<1> DEFINE n == Origin[o]
           pruned == PruneExpired(db[n], now)
           st == CommitOutgoing(pruned, o)
           out == [to \in Nodes |-> OutboxRecords(st, ep', now)]
<1>1. /\ n \in Nodes /\ now \in Nat /\ db[n] \in Stores /\ Sound(db[n], n)
  BY ManifestAssumption, BoundsAssumption DEF MeshInv, TypeOK, CarryInv
<1>2. /\ Commit(n, st, {}) /\ Transmit(n, Open, wire, out)
      /\ UNCHANGED <<memory, now>>
  BY DEF Enqueue
<1>3. pruned \in Stores /\ Succeeds(n, pruned)
  BY <1>1, PruneType, SucceedsPrune, SucceedsAlike DEF Sound
<1>4. Succeeds(n, st)
  <2>1. /\ st.relay = pruned.relay /\ st.outbox = pruned.outbox \cup {o}
        /\ pruned.objects \subseteq st.objects /\ pruned.chunks \subseteq st.chunks
    BY <1>3 DEF CommitOutgoing, Stores
  <2> HIDE DEF st, pruned
  <2> QED BY <1>3, <2>1 DEF Succeeds, Sound, Complete, n
<1>5. ForwardedSound'
  BY <1>2 DEF memory, CarryInv, ForwardedSound
<1>6. \A to \in Nodes : out[to] \subseteq
           OutboxRecords(st, ep', now) \cup ReceiptRecords(st, n, now)
             \cup AckRecords(st, ep', now) \cup RelayRecords(st, ep', now, to)
             \cup RelayReceiptRecords(st, now, to) \cup RelayAckRecords(st, now, to)
  OBVIOUS
<1> HIDE DEF n, st, out
<1> QED BY <1>1, <1>2, <1>4, <1>5, <1>6, HandlerCarries

(* Taking a record off its link adds nothing to any.                       *)
LEMMA WithoutSubset ==
  ASSUME MeshInv, NEW n \in Nodes, NEW m \in Nodes, NEW rec
  PROVE  \A e \in Edges : Without(m, n, rec)[e] \subseteq wire[e]
  BY DEF Without, MeshInv, TypeOK

(* Frames that are handled, or refused.                                    *)
LEMMA ReceiveCarries ==
  ASSUME MeshInv, CarryInv, NEW n \in Nodes, NEW m \in Nodes, NEW rec, Receive(n, m, rec)
  PROVE  CarryInv'
<1>0. /\ now \in Nat /\ db[n] \in Stores /\ Sound(db[n], n) /\ Succeeds(n, db[n])
      /\ \A e \in Edges : Without(m, n, rec)[e] \subseteq wire[e]
  BY BoundsAssumption, WithoutSubset DEF MeshInv, TypeOK, CarryInv, Succeeds
<1>1. CASE Discard(n, m, rec)
  <2>1. /\ Arrives(n, m, rec) /\ wire' = Without(m, n, rec) /\ db' = db /\ now' = now
    BY <1>1 DEF Discard
  <2>2. rec \in Records
    BY <2>1, ArrivesBacked
  <2>3. ForwardedSound'
    <3>1. CASE rec.kind = "chunk"
      BY <1>1, <3>1 DEF Discard, memory, CarryInv, ForwardedSound
    <3>2. CASE rec.kind # "chunk"
      BY <1>1, <2>2, <3>2, GatedSound DEF Discard
    <3> QED BY <3>1, <3>2
  <2> QED BY <1>0, <2>1, <2>3, SilentCarries
<1>2. CASE ReceiveAnnouncement(n, m, rec)
  <2> DEFINE st == Announce(db[n], rec.obj)
  <2>1. /\ Arrives(n, m, rec) /\ Gated(n, m, rec) /\ Commit(n, st, {})
        /\ wire' = Without(m, n, rec) /\ now' = now
    BY <1>2 DEF ReceiveAnnouncement, TakesAnnouncement, Passes
  <2>2. rec \in Records
    BY <2>1, ArrivesBacked
  <2>3. /\ st.relay = db[n].relay /\ st.outbox = db[n].outbox
        /\ db[n].objects \subseteq st.objects /\ st.chunks = db[n].chunks
    BY <1>0 DEF Announce, Stores
  <2>4. Succeeds(n, st)
    BY <1>0, <2>3, SucceedsAlike DEF Sound
  <2>5. db'[n] = st /\ \A k \in Nodes : k # n => db'[k] = db[k]
    BY <2>1 DEF Commit, MeshInv, TypeOK
  <2>6. ForwardedSound'
    BY <2>1, <2>2, GatedSound
  <2> QED BY <1>0, <2>1, <2>4, <2>5, <2>6, SilentCarries
<1>3. CASE ReceiveChunk(n, m, rec)
  <2> DEFINE st == ChunkFinal(n, m, rec)
             visible == Finalized(ChunkPruned(n, m, rec), ep, n, now)
             receipts == IF visible # {} THEN ReceiptRecords(st, n, now) ELSE {}
             out == [to \in Nodes |-> receipts \cup RelayRecords(st, ep, now, to)]
  <2>1. /\ TakesChunk(n, m, rec) /\ Commit(n, st, visible)
        /\ Transmit(n, Open, Without(m, n, rec), out) /\ now' = now /\ UNCHANGED memory
    BY <1>3 DEF ReceiveChunk
  <2>2. Succeeds(n, st)
    BY <2>1, ChunkSucceeds
  <2>3. \A to \in Nodes : out[to] \subseteq
             OutboxRecords(st, ep, now) \cup ReceiptRecords(st, n, now)
               \cup AckRecords(st, ep, now) \cup RelayRecords(st, ep, now, to)
               \cup RelayReceiptRecords(st, now, to) \cup RelayAckRecords(st, now, to)
    OBVIOUS
  <2>4. ForwardedSound'
    BY <2>1 DEF memory, CarryInv, ForwardedSound
  <2> HIDE DEF st, visible, receipts, out
  <2> QED BY <1>0, <2>1, <2>2, <2>3, <2>4, HandlerCarries
<1>4. CASE ReceiveReceipt(n, m, rec)
  <2> DEFINE st == ReceiptStored(n, m, rec)
             out == [to \in Nodes |-> RelayReceiptRecords(st, now, to)
                                        \cup AckRecords(st, ep, now)]
  <2>1. /\ Arrives(n, m, rec) /\ Gated(n, m, rec) /\ Commit(n, st, {})
        /\ Transmit(n, Open, Without(m, n, rec), out) /\ now' = now
    BY <1>4 DEF ReceiveReceipt, ConfirmsReceipt, HoldsReceipt, Passes
  <2>2. Succeeds(n, st)
    BY ReceiptSucceeds
  <2>3. \A to \in Nodes : out[to] \subseteq
             OutboxRecords(st, ep, now) \cup ReceiptRecords(st, n, now)
               \cup AckRecords(st, ep, now) \cup RelayRecords(st, ep, now, to)
               \cup RelayReceiptRecords(st, now, to) \cup RelayAckRecords(st, now, to)
    OBVIOUS
  <2>4. ForwardedSound'
    BY <2>1, ArrivesBacked, GatedSound
  <2> HIDE DEF st, out
  <2> QED BY <1>0, <2>1, <2>2, <2>3, <2>4, HandlerCarries
<1>5. CASE ReceiveAck(n, m, rec)
  <2> DEFINE st == AckStored(n, m, rec)
             out == [to \in Nodes |-> RelayAckRecords(st, now, to)]
  <2>1. /\ Arrives(n, m, rec) /\ Gated(n, m, rec) /\ Commit(n, st, {})
        /\ Transmit(n, Open, Without(m, n, rec), out) /\ now' = now
    BY <1>5 DEF ReceiveAck, TakesAck, HoldsAck, Passes
  <2>2. Succeeds(n, st)
    BY ReceiptSucceeds
  <2>3. \A to \in Nodes : out[to] \subseteq
             OutboxRecords(st, ep, now) \cup ReceiptRecords(st, n, now)
               \cup AckRecords(st, ep, now) \cup RelayRecords(st, ep, now, to)
               \cup RelayReceiptRecords(st, now, to) \cup RelayAckRecords(st, now, to)
    OBVIOUS
  <2>4. ForwardedSound'
    BY <2>1, ArrivesBacked, GatedSound
  <2> HIDE DEF st, out
  <2> QED BY <1>0, <2>1, <2>2, <2>3, <2>4, HandlerCarries
<1> QED BY <1>1, <1>2, <1>3, <1>4, <1>5 DEF Receive

(* The drains of a newly authenticated session.                            *)
LEMMA AuthenticatedCarries ==
  ASSUME MeshInv, CarryInv, NEW n \in Nodes, NEW m \in Nodes, Authenticated(n, m)
  PROVE  CarryInv'
<1> DEFINE out == [to \in Nodes |->
        OutboxRecords(db[n], ep, now) \cup ReceiptRecords(db[n], n, now)
          \cup RelayRecords(db[n], ep, now, to)
          \cup RelayReceiptRecords(db[n], now, to)
          \cup RelayAckRecords(db[n], now, to)]
<1>1. /\ Transmit(n, Open \cup {<<n, m>>}, wire, out)
      /\ UNCHANGED <<db, memory, now>>
  BY DEF Authenticated
<1>2. \A to \in Nodes : \A rec \in out[to] : Sourced(rec, db[n], to)
  BY DrainsSourced
<1>3. \A e \in Edges : e[2] \in Nodes
  BY EdgesAssumption
<1>4. \A e \in Edges : \A rec \in wire'[e] :
        rec \in wire[e] \/ (e[1] = n /\ rec \in out[e[2]])
  BY <1>1 DEF Transmit
<1> HIDE DEF out
<1>5. \A e \in Edges : \A rec \in wire'[e] :
        rec \in wire[e] \/ (e[1] = n /\ Sourced(rec, db'[n], e[2]))
  BY <1>1, <1>2, <1>3, <1>4
<1>6. now' \in Nat /\ now <= now' /\ Succeeds(n, db'[n])
  BY <1>1, BoundsAssumption DEF MeshInv, TypeOK, CarryInv, Succeeds
<1>7. ForwardedSound'
  BY <1>1 DEF memory, CarryInv, ForwardedSound
<1> QED BY <1>1, <1>5, <1>6, <1>7, CarriesOn DEF CarryInv

(* Links, policies and time.                                               *)
LEMMA QuietCarries ==
  ASSUME MeshInv, CarryInv,
         \/ \E n, m \in Nodes : LinkUp(n, m) \/ Drop(n, m)
         \/ \E n \in Nodes : InstallPolicy(n)
         \/ Tick
         \/ UNCHANGED vars
  PROVE  CarryInv'
<1>1. now \in Nat /\ now' \in Nat /\ now <= now'
  <2>1. now \in Nat
    BY BoundsAssumption DEF MeshInv, TypeOK
  <2>2. now' = now \/ now' = now + 1
    BY DEF LinkUp, Drop, InstallPolicy, Tick, vars
  <2> QED BY <2>1, <2>2
<1>2. \A e \in Edges : wire'[e] \subseteq wire[e]
  BY DEF LinkUp, Drop, InstallPolicy, Tick, vars, links, Disconnect, MeshInv, TypeOK
<1>3. ForwardedSound'
  BY DEF LinkUp, Drop, InstallPolicy, Tick, vars, memory, CarryInv, ForwardedSound
<1>4. \A k \in Nodes :
        /\ db'[k].outbox = db[k].outbox /\ db'[k].relay = db[k].relay
        /\ db'[k].objects = db[k].objects /\ db'[k].chunks = db[k].chunks
  <2>1. CASE \E n \in Nodes : InstallPolicy(n)
    BY <2>1 DEF InstallPolicy, MeshInv, TypeOK, Stores
  <2>2. CASE \/ \E n, m \in Nodes : LinkUp(n, m) \/ Drop(n, m)
             \/ Tick \/ UNCHANGED vars
    BY <2>2 DEF LinkUp, Drop, Tick, vars
  <2> QED BY <2>1, <2>2
<1>5. \A k \in Nodes : Succeeds(k, db'[k])
  BY <1>4, SucceedsAlike DEF CarryInv, Sound
<1>6. CASE \E n \in Nodes : InstallPolicy(n)
  <2>1. PICK n \in Nodes : InstallPolicy(n)
    BY <1>6
  <2>2. \A k \in Nodes : k # n => db'[k] = db[k]
    BY <2>1 DEF InstallPolicy, MeshInv, TypeOK
  <2> QED BY <1>1, <1>2, <1>3, <1>5, <2>2, SilentCarries
<1>7. CASE \/ \E n, m \in Nodes : LinkUp(n, m) \/ Drop(n, m)
           \/ Tick \/ UNCHANGED vars
  <2>1. db' = db
    BY <1>7 DEF LinkUp, Drop, Tick, vars
  <2>2. \A k \in Nodes : Sound(db'[k], k)
    BY <1>5 DEF Succeeds
  <2>3. NeverReturned'
    <3>1. CASE Nodes = {}
      BY <3>1, EdgesAssumption DEF NeverReturned
    <3>2. ASSUME NEW n \in Nodes
          PROVE  NeverReturned'
      BY <1>1, <1>2, <1>3, <1>5, <2>1, SilentCarries DEF CarryInv
    <3> QED BY <3>1, <3>2
  <2> QED BY <1>3, <2>2, <2>3 DEF CarryInv
<1> QED BY <1>6, <1>7

(* Every step keeps custody sound.                                         *)
LEMMA CarryStep == MeshInv /\ CarryInv /\ [Next]_vars => CarryInv'
<1> SUFFICES ASSUME MeshInv, CarryInv, [Next]_vars PROVE CarryInv'
  OBVIOUS
<1>1. CASE \E o \in Objects : Enqueue(o)
  BY <1>1, EnqueueCarries
<1>2. CASE \E n, m \in Nodes : Authenticated(n, m)
  BY <1>2, AuthenticatedCarries
<1>3. CASE \/ \E n, m \in Nodes : LinkUp(n, m) \/ Drop(n, m)
           \/ \E n \in Nodes : InstallPolicy(n)
           \/ Tick \/ UNCHANGED vars
  BY <1>3, QuietCarries
<1>4. ASSUME NEW n \in Nodes, Crash(n)
      PROVE  CarryInv'
  <2>1. db' = [db EXCEPT ![n] = db[n]] /\ Restart(n)
    BY <1>4 DEF Crash, MeshInv, TypeOK
  <2>2. Succeeds(n, db[n])
    BY DEF CarryInv, Succeeds
  <2> QED BY <2>1, <2>2, RestartCarries
<1>5. ASSUME NEW n \in Nodes, NEW m \in Nodes, NEW rec, Receive(n, m, rec)
      PROVE  CarryInv'
  BY <1>5, ReceiveCarries
<1>6. ASSUME NEW n \in Nodes, NEW m \in Nodes, NEW rec, CrashInChunk(n, m, rec)
      PROVE  CarryInv'
  <2>1. PICK st \in {ChunkStored(n, m, rec), ChunkPruned(n, m, rec)} : Commit(n, st, {})
    BY <1>6 DEF CrashInChunk
  <2>2. Succeeds(n, st) /\ Restart(n)
    BY <1>6, ChunkSucceeds DEF CrashInChunk
  <2> QED BY <2>1, <2>2, RestartCarries DEF Commit
<1>7. ASSUME NEW n \in Nodes, NEW m \in Nodes, NEW rec, CrashInAck(n, m, rec)
      PROVE  CarryInv'
  <2>1. Commit(n, AckHeld(n, m, rec), {}) /\ Restart(n)
    BY <1>7 DEF CrashInAck
  <2> QED BY <2>1, ReceiptSucceeds, RestartCarries DEF Commit
<1> QED BY <1>1, <1>2, <1>3, <1>4, <1>5, <1>6, <1>7 DEF Next

(* CarryInv holds of every reachable state.                                *)
LEMMA MeshCarries == Spec => []CarryInv
<1>1. Init => CarryInv
  <2> SUFFICES ASSUME Init PROVE CarryInv
    OBVIOUS
  <2>1. ForwardedSound
    BY DEF Init, ForwardedSound
  <2>2. \A n \in Nodes : Sound(db[n], n)
    BY DEF Init, Sound, EmptyStore
  <2>3. NeverReturned
    BY DEF Init, NeverReturned
  <2> QED BY <2>1, <2>2, <2>3 DEF CarryInv
<1>2. MeshInv /\ CarryInv /\ [Next]_vars => CarryInv'
  BY CarryStep
<1> QED BY <1>1, <1>2, MeshInvariant, PTL DEF Spec

(* put_relay_chunk takes custody of whole, announced objects of other      *)
(* members, once each, and the frame goes on within the hop limit.         *)
THEOREM MeshCustodyWhole == Spec => []CustodyWhole
<1>1. CarryInv => CustodyWhole
  BY DEF CarryInv, Sound, CustodyWhole
<1> QED BY <1>1, MeshCarries, PTL

(* relay_record offers what is in custody, under the frame it was taken    *)
(* with, and never to the neighbour that supplied it; a record on a link   *)
(* stays covered by its custody until it expires.                          *)
THEOREM MeshNeverReturned == Spec => []NeverReturned
<1>1. CarryInv => NeverReturned
  BY DEF CarryInv
<1> QED BY <1>1, MeshCarries, PTL

-----------------------------------------------------------------------------
(* Offers.  What a phone still owes its neighbours was put on every        *)
(* session that is open: the receipts, the outbox as long as all the phone *)
(* ever sealed was sealed under its present policy, and the first object   *)
(* in custody as long as none that would come before it has expired.  The  *)
(* runs mesh_policy and mesh_queue show that the outbox after a policy,    *)
(* and the second object of a queue, may not be offered.                   *)
(*                                                                         *)
(* A drain reads no more than MaxOriginSlots records, so for receipts and  *)
(* outbox this takes queues that fit in a turn: `w` names the queues that  *)
(* do and whose records are counted as due.                                *)
ReceiptsFit == \A n \in Nodes : Cardinality(ReceiptQueue(db[n], n, now)) <= MaxOriginSlots
OutboxFits == \A n \in Nodes : Cardinality(OutboxQueue(db[n], now)) <= MaxOriginSlots

TurnsFit(w) == ("receipts" \in w => ReceiptsFit) /\ ("outbox" \in w => OutboxFits)

SealedNow(st, n, sealed) ==
  \A o \in Objects : (Origin[o] = n /\ sealed[o] # 0) => Verifies(st, sealed, o)

FirstInCustody(r, held, t) ==
  /\ \A q \in held : r.obj <= q.obj
  /\ \A o \in Objects : o < r.obj => Live(o, t)

DueReceipts(st, n, t, w) == {rec \in ReceiptQueue(st, n, t) : "receipts" \in w}

DueOutbox(st, n, sealed, t, w) ==
  {rec \in OutboxQueue(st, t) : "outbox" \in w /\ SealedNow(st, n, sealed)}

DueCustody(st, sealed, t, to) ==
  UNION {Whole(r.obj, r.hops) :
           r \in {q \in Current(st.relay, t) :
                    FirstInCustody(q, st.relay, t) /\ Verifies(st, sealed, q.obj) /\ q.from # to}}

Due(st, sealed, t, n, to, w) ==
  DueReceipts(st, n, t, w) \cup DueOutbox(st, n, sealed, t, w) \cup DueCustody(st, sealed, t, to)

AllOffered(w) == \A e \in Open : Due(db[e[1]], ep, now, e[1], e[2], w) \subseteq admitted[e]

(* A finite queue that fits in a turn is read to its end.                  *)
LEMMA FitsInTurn ==
  ASSUME NEW queue, IsFiniteSet(queue), Cardinality(queue) <= MaxOriginSlots,
         NEW r \in queue, NEW earlier \in SUBSET queue, r \notin earlier
  PROVE  InTurn(earlier)
<1>1. /\ IsFiniteSet(queue \ {r}) /\ Cardinality(queue \ {r}) = Cardinality(queue) - 1
      /\ Cardinality(queue) \in Nat
  BY FS_RemoveElement, FS_CardinalityType
<1>2. earlier \in SUBSET (queue \ {r})
  OBVIOUS
<1>3. IsFiniteSet(earlier) /\ Cardinality(earlier) <= Cardinality(queue \ {r})
  BY <1>1, <1>2, FS_Subset
<1>4. Cardinality(earlier) \in Nat
  BY <1>3, FS_CardinalityType
<1> QED BY <1>1, <1>3, <1>4, LimitsAssumption DEF InTurn

(* What a function takes from a finite set is finite.                      *)
LEMMA FiniteValues ==
  ASSUME NEW S, IsFiniteSet(S), NEW f, f = [x \in S |-> f[x]],
         NEW T, \A y \in T : \E x \in S : y = f[x]
  PROVE  IsFiniteSet(T)
<1> DEFINE values == {f[x] : x \in S}
<1>1. f \in [S -> values] /\ \A y \in values : \E x \in S : f[x] = y
  OBVIOUS
<1>2. f \in Surjection(S, values)
  BY <1>1, Fun_IsSurj
<1>3. IsFiniteSet(values)
  BY <1>2, FS_Surjection
<1>4. T \in SUBSET values
  OBVIOUS
<1> QED BY <1>3, <1>4, FS_Subset

(* An outbox lists finitely many records.                                  *)
LEMMA OutboxFinite ==
  ASSUME NEW st, st.outbox \subseteq Objects, NEW t
  PROVE  IsFiniteSet(OutboxQueue(st, t))
<1> DEFINE S == Objects \X (Chunks \cup {0})
           f == [p \in S |-> IF p[2] = 0 THEN Ann(p[1], 0) ELSE Chunk(p[1], p[2], 0)]
<1>1. IsFiniteSet(S)
  BY ObjectsAssumption, OrdersAssumption, FS_AddElement, FS_Product
<1>2. \A y \in OutboxQueue(st, t) : \E x \in S : y = f[x]
  <2> SUFFICES ASSUME NEW y \in OutboxQueue(st, t) PROVE \E x \in S : y = f[x]
    OBVIOUS
  <2>1. PICK o \in Objects : y \in Whole(o, 0)
    BY DEF OutboxQueue
  <2>2. CASE y = Ann(o, 0)
    <3>1. <<o, 0>> \in S /\ f[<<o, 0>>] = Ann(o, 0)
      OBVIOUS
    <3> QED BY <2>2, <3>1
  <2>3. ASSUME NEW c \in Chunks, y = Chunk(o, c, 0) PROVE \E x \in S : y = f[x]
    <3>1. c # 0
      BY OrdersAssumption
    <3>2. <<o, c>> \in S /\ f[<<o, c>>] = Chunk(o, c, 0)
      BY <3>1
    <3> QED BY <2>3, <3>2
  <2> QED BY <2>1, <2>2, <2>3 DEF Whole
<1>3. f = [x \in S |-> f[x]]
  OBVIOUS
<1> HIDE DEF S, f
<1> QED BY <1>1, <1>2, <1>3, FiniteValues

(* A phone owes finitely many receipts.                                    *)
LEMMA ReceiptsFinite ==
  ASSUME NEW st, st.delivered \subseteq Objects, NEW n, NEW t
  PROVE  IsFiniteSet(ReceiptQueue(st, n, t))
<1> DEFINE f == [o \in Objects |-> Receipt(o, n, 0)]
<1>1. \A y \in ReceiptQueue(st, n, t) : \E o \in Objects : y = f[o]
  BY DEF ReceiptQueue
<1>2. f = [x \in Objects |-> f[x]]
  OBVIOUS
<1> HIDE DEF f
<1> QED BY <1>1, <1>2, ObjectsAssumption, FiniteValues

(* As time passes no more falls due, unless the store itself owes more:    *)
(* receipts.                                                               *)
LEMMA ReceiptsFade ==
  ASSUME NEW st, NEW st2, NEW n, NEW w, NEW t \in Nat, NEW t2 \in Nat, t <= t2,
         st2.delivered \subseteq Objects,
         \A o \in st2.delivered \ st2.acknowledged :
           Live(o, t2) => o \in st.delivered \ st.acknowledged
  PROVE  DueReceipts(st2, n, t2, w) \subseteq DueReceipts(st, n, t, w)
<1>1. \A o \in Objects : Live(o, t2) => Live(o, t)
  BY ManifestAssumption DEF Live
<1> QED BY <1>1 DEF DueReceipts, ReceiptQueue

(* The same of the outbox.                                                 *)
LEMMA OutboxFades ==
  ASSUME NEW st, NEW st2, NEW t \in Nat, NEW t2 \in Nat, t <= t2, NEW n, NEW w,
         NEW sealed, NEW sealed2,
         st2.outbox \subseteq Objects, st2.outbox \subseteq st.outbox, st2.epoch = st.epoch,
         \A o \in Objects : sealed[o] # 0 => sealed2[o] = sealed[o]
  PROVE  DueOutbox(st2, n, sealed2, t2, w) \subseteq DueOutbox(st, n, sealed, t, w)
<1>1. \A o \in Objects : Live(o, t2) => Live(o, t)
  BY ManifestAssumption DEF Live
<1>2. SealedNow(st2, n, sealed2) => SealedNow(st, n, sealed)
  BY DEF SealedNow, Verifies
<1> QED BY <1>1, <1>2 DEF DueOutbox, OutboxQueue

(* The same of custody, of which nothing alive is given up: no object      *)
(* becomes the first by the loss of one before it.                         *)
LEMMA CustodyFades ==
  ASSUME NEW st, NEW st2, NEW t \in Nat, NEW t2 \in Nat, t <= t2, NEW to,
         NEW sealed, NEW sealed2, st2.epoch = st.epoch,
         st.relay \subseteq Custody, st2.relay \subseteq st.relay,
         \A r \in st.relay : Live(r.obj, t2) => r \in st2.relay,
         \A r \in st2.relay : sealed2[r.obj] = sealed[r.obj]
  PROVE  DueCustody(st2, sealed2, t2, to) \subseteq DueCustody(st, sealed, t, to)
<1>1. \A o \in Objects : Live(o, t2) => Live(o, t)
  BY ManifestAssumption DEF Live
<1>2. \A r \in st.relay : r.obj \in Objects /\ r.obj \in Nat
  BY ObjectsAssumption DEF Custody
<1>3. ASSUME NEW r \in st2.relay, FirstInCustody(r, st2.relay, t2)
      PROVE  FirstInCustody(r, st.relay, t)
  <2>1. ASSUME NEW q \in st.relay PROVE r.obj <= q.obj
    <3>1. r.obj \in Nat /\ q.obj \in Nat /\ q.obj \in Objects BY <1>2
    <3>2. CASE q.obj < r.obj
      <4>1. q \in st2.relay BY <1>3, <3>1, <3>2 DEF FirstInCustody
      <4> QED BY <1>3, <4>1 DEF FirstInCustody
    <3> QED BY <3>1, <3>2
  <2> QED BY <1>1, <1>3, <2>1 DEF FirstInCustody
<1>4. {q \in Current(st2.relay, t2) :
         FirstInCustody(q, st2.relay, t2) /\ Verifies(st2, sealed2, q.obj) /\ q.from # to}
        \subseteq {q \in Current(st.relay, t) :
                     FirstInCustody(q, st.relay, t) /\ Verifies(st, sealed, q.obj) /\ q.from # to}
  BY <1>1, <1>2, <1>3 DEF Current, Verifies
<1> QED BY <1>4 DEF DueCustody

(* outbox_record offers the whole outbox while the policy verifies it and  *)
(* the turn is long enough.                                                *)
LEMMA OutboxDrained ==
  ASSUME NEW st, NEW t, NEW n, NEW sealed, NEW w, st.outbox \subseteq Objects,
         \A o \in st.outbox : sealed[o] # 0 /\ Origin[o] = n,
         "outbox" \in w => Cardinality(OutboxQueue(st, t)) <= MaxOriginSlots
  PROVE  DueOutbox(st, n, sealed, t, w) \subseteq OutboxRecords(st, sealed, t)
<1> DEFINE queue == OutboxQueue(st, t)
<1>1. \A r \in queue : r.obj \in st.outbox /\ r.idx \in Nat
  BY OrdersAssumption DEF OutboxQueue, Whole, Ann, Chunk
<1>2. \A r \in queue : r \notin {q \in queue : ListedBefore(q, r)}
  <2>1. \A r \in queue : OutboxOrder[r.obj] \in Nat
    BY <1>1, OrdersAssumption
  <2> QED BY <1>1, <2>1 DEF ListedBefore
<1>3. ASSUME "outbox" \in w, NEW r \in queue
      PROVE  InTurn({q \in queue : ListedBefore(q, r)})
  BY <1>2, <1>3, OutboxFinite, FitsInTurn
<1>4. SealedNow(st, n, sealed) => \A r \in queue : Verifies(st, sealed, r.obj)
  BY <1>1 DEF SealedNow
<1> QED BY <1>3, <1>4 DEF DueOutbox, OutboxRecords

(* receipt_record offers every receipt when the turn is long enough.       *)
LEMMA ReceiptsDrained ==
  ASSUME NEW st, NEW t, NEW n, NEW w, st.delivered \subseteq Objects,
         "receipts" \in w => Cardinality(ReceiptQueue(st, n, t)) <= MaxOriginSlots
  PROVE  DueReceipts(st, n, t, w) \subseteq ReceiptRecords(st, n, t)
<1> DEFINE queue == ReceiptQueue(st, n, t)
<1>1. \A r \in queue : r.obj \in Nat
  <2>1. \A r \in queue : \E o \in st.delivered : r = Receipt(o, n, 0)
    BY DEF ReceiptQueue
  <2>2. \A o \in st.delivered : Receipt(o, n, 0).obj = o /\ o \in Nat
    BY ObjectsAssumption DEF Receipt
  <2> HIDE DEF queue
  <2> QED BY <2>1, <2>2
<1>2. \A r \in queue : r \notin {q \in queue : q.obj < r.obj}
  BY <1>1
<1>3. ASSUME "receipts" \in w, NEW r \in queue
      PROVE  InTurn({q \in queue : q.obj < r.obj})
  BY <1>2, <1>3, ReceiptsFinite, FitsInTurn
<1> QED BY <1>3 DEF DueReceipts, ReceiptRecords

(* relay_record offers the first object in custody.                        *)
LEMMA CustodyDrained ==
  ASSUME NEW st, NEW t, NEW sealed, NEW to
  PROVE  DueCustody(st, sealed, t, to) \subseteq RelayRecords(st, sealed, t, to)
<1>1. \A r \in Current(st.relay, t) :
        FirstInCustody(r, st.relay, t) => r \in HeadOf(Current(st.relay, t))
  BY DEF FirstInCustody, HeadOf, Current
<1> QED BY <1>1 DEF DueCustody, RelayRecords

(* A phone whose store does not change owes no more than before.           *)
LEMMA DueFades ==
  ASSUME MeshInv, NEW w, NEW k \in Nodes, NEW to, db'[k] = db[k],
         now' \in Nat, now <= now', \A o \in Objects : ep[o] # 0 => ep'[o] = ep[o]
  PROVE  Due(db'[k], ep', now', k, to, w) \subseteq Due(db[k], ep, now, k, to, w)
<1>1. now \in Nat /\ db[k] \in Stores
  BY BoundsAssumption DEF MeshInv, TypeOK
<1>2. \A r \in db[k].relay : ep'[r.obj] = ep[r.obj]
  BY <1>1 DEF MeshInv, Backed, StoreBacked, Stores, Custody
<1>3. /\ db[k].relay \subseteq Custody /\ db[k].outbox \subseteq Objects
      /\ db[k].delivered \subseteq Objects
  BY <1>1 DEF Stores
<1> QED BY <1>1, <1>2, <1>3, ReceiptsFade, OutboxFades, CustodyFades DEF Due

(* A step at n keeps the offers of everybody if n offers what it owes.     *)
LEMMA OffersGoOn ==
  ASSUME MeshInv, NEW w, AllOffered(w), NEW n \in Nodes, now' \in Nat, now <= now',
         \A k \in Nodes : k # n => db'[k] = db[k],
         \A o \in Objects : ep[o] # 0 => ep'[o] = ep[o],
         Open' \subseteq Edges,
         \A e \in Open' : e[1] # n => e \in Open /\ admitted[e] \subseteq admitted'[e],
         \A e \in Open' : e[1] = n => Due(db'[n], ep', now', n, e[2], w) \subseteq admitted'[e]
  PROVE  AllOffered(w)'
<1> SUFFICES ASSUME NEW e \in Open'
             PROVE  Due(db'[e[1]], ep', now', e[1], e[2], w) \subseteq admitted'[e]
  <2>1. \A e \in Open' : Due(db'[e[1]], ep', now', e[1], e[2], w) \subseteq admitted'[e]
    OBVIOUS
  <2> QED BY <2>1 DEF AllOffered, Due, DueReceipts, ReceiptQueue, DueOutbox, OutboxQueue, DueCustody
<1>1. e[1] \in Nodes
  BY EdgesAssumption
<1>2. CASE e[1] = n
  BY <1>2
<1>3. CASE e[1] # n
  <2>1. Due(db'[e[1]], ep', now', e[1], e[2], w) \subseteq Due(db[e[1]], ep, now, e[1], e[2], w)
    BY <1>1, <1>3, DueFades
  <2>2. Due(db[e[1]], ep, now, e[1], e[2], w) \subseteq admitted[e]
    BY <1>3 DEF AllOffered
  <2> QED BY <1>3, <2>1, <2>2
<1> QED BY <1>2, <1>3

(* The same when no store changes and sessions only end.                   *)
LEMMA OffersStay ==
  ASSUME MeshInv, NEW w, AllOffered(w), now' \in Nat, now <= now', UNCHANGED <<db, ep>>,
         Open' \subseteq Open, \A e \in Open' : admitted[e] \subseteq admitted'[e]
  PROVE  AllOffered(w)'
<1> SUFFICES ASSUME NEW e \in Open'
             PROVE  Due(db'[e[1]], ep', now', e[1], e[2], w) \subseteq admitted'[e]
  <2>1. \A e \in Open' : Due(db'[e[1]], ep', now', e[1], e[2], w) \subseteq admitted'[e]
    OBVIOUS
  <2> QED BY <2>1 DEF AllOffered, Due, DueReceipts, ReceiptQueue, DueOutbox, OutboxQueue, DueCustody
<1>1. e \in Open /\ e[1] \in Nodes
  BY EdgesAssumption DEF Open, MeshInv, TypeOK
<1>2. Due(db'[e[1]], ep', now', e[1], e[2], w) \subseteq Due(db[e[1]], ep, now, e[1], e[2], w)
  BY <1>1, DueFades
<1> QED BY <1>1, <1>2 DEF AllOffered

(* A handler that commits st at n and then puts `out` on its sessions.     *)
LEMMA HandlerOffers ==
  ASSUME MeshInv, NEW w, AllOffered(w), NEW n \in Nodes, NEW st, NEW visible, NEW carried, NEW out,
         Commit(n, st, visible), Transmit(n, Open, carried, out),
         now' = now, UNCHANGED <<up, fresh>>,
         \A o \in Objects : ep[o] # 0 => ep'[o] = ep[o],
         \A to \in Nodes :
           Due(st, ep', now, n, to, w) \subseteq Due(db[n], ep, now, n, to, w) \cup out[to]
  PROVE  AllOffered(w)'
<1>1. db'[n] = st /\ \A k \in Nodes : k # n => db'[k] = db[k]
  BY DEF Commit, MeshInv, TypeOK
<1>2. Open' = Open /\ Open \subseteq Edges
  BY DEF Open, MeshInv, TypeOK
<1>3. \A e \in Edges : e[1] \in Nodes /\ e[2] \in Nodes
  BY EdgesAssumption
<1>4. \A e \in Open : /\ admitted[e] \subseteq admitted'[e]
                      /\ e[1] = n => admitted'[e] = admitted[e] \cup out[e[2]]
  BY <1>2 DEF Transmit
<1>5. \A e \in Open' : e[1] = n => Due(db'[n], ep', now', n, e[2], w) \subseteq admitted'[e]
  BY <1>1, <1>2, <1>3, <1>4 DEF AllOffered
<1>6. now' \in Nat /\ now <= now'
  BY BoundsAssumption DEF MeshInv, TypeOK
<1> QED BY <1>1, <1>2, <1>4, <1>5, <1>6, OffersGoOn

(* Sessions of n that all end owe nothing.                                 *)
LEMMA CutOffers ==
  ASSUME MeshInv, NEW w, AllOffered(w), NEW n \in Nodes, Disconnect(EdgesOf(n)),
         now' = now, ep' = ep, \A k \in Nodes : k # n => db'[k] = db[k]
  PROVE  AllOffered(w)'
<1>1. Open' = Open \ EdgesOf(n) /\ Open \subseteq Edges
  BY DEF Disconnect, Open, MeshInv, TypeOK
<1>2. \A e \in Open' : e[1] # n /\ admitted'[e] = admitted[e]
  BY <1>1 DEF Disconnect, EdgesOf
<1>3. now' \in Nat /\ now <= now'
  BY BoundsAssumption DEF MeshInv, TypeOK
<1> QED BY <1>1, <1>2, <1>3, OffersGoOn

(* A store of n that gives up some of what it owes, and adds nothing; what *)
(* it gives up of its custody has expired.                                 *)
OwesLess(n, st) ==
  /\ st \in Stores /\ st.epoch = db[n].epoch
  /\ st.outbox \subseteq db[n].outbox
  /\ st.relay \subseteq db[n].relay
  /\ \A r \in db[n].relay : Live(r.obj, now) => r \in st.relay
  /\ \A o \in st.delivered \ st.acknowledged :
       Live(o, now) => o \in db[n].delivered \ db[n].acknowledged

(* Part by part, and for epochs that agree where it matters.               *)
LEMMA LessIsDue ==
  ASSUME MeshInv, NEW w, NEW n \in Nodes, NEW st, OwesLess(n, st), NEW sealed, NEW to,
         \A o \in Objects : ep[o] # 0 => sealed[o] = ep[o]
  PROVE  /\ DueReceipts(st, n, now, w) \subseteq DueReceipts(db[n], n, now, w)
         /\ DueOutbox(st, n, sealed, now, w) \subseteq DueOutbox(db[n], n, ep, now, w)
         /\ DueCustody(st, sealed, now, to) \subseteq DueCustody(db[n], ep, now, to)
<1>1. now \in Nat /\ now <= now /\ db[n] \in Stores
  BY BoundsAssumption DEF MeshInv, TypeOK
<1>2. /\ st.delivered \subseteq Objects /\ st.outbox \subseteq Objects
      /\ st.relay \subseteq Custody
  BY DEF OwesLess, Stores
<1>3. \A r \in st.relay : sealed[r.obj] = ep[r.obj]
  BY <1>2 DEF OwesLess, MeshInv, Backed, StoreBacked, Custody
<1>4. DueReceipts(st, n, now, w) \subseteq DueReceipts(db[n], n, now, w)
  BY <1>1, <1>2, ReceiptsFade DEF OwesLess
<1>5. DueOutbox(st, n, sealed, now, w) \subseteq DueOutbox(db[n], n, ep, now, w)
  BY <1>1, <1>2, OutboxFades DEF OwesLess
<1>6. DueCustody(st, sealed, now, to) \subseteq DueCustody(db[n], ep, now, to)
  <2>1. db[n].relay \subseteq Custody BY <1>1 DEF Stores
  <2> QED BY <1>1, <1>3, <2>1, CustodyFades DEF OwesLess
<1> QED BY <1>4, <1>5, <1>6

(* A handler after which n owes no more, whatever it drains.               *)
LEMMA LessOffers ==
  ASSUME MeshInv, NEW w, AllOffered(w), NEW n \in Nodes, NEW st, NEW visible, NEW carried, NEW out,
         Commit(n, st, visible), Transmit(n, Open, carried, out),
         UNCHANGED <<ep, now, up, fresh>>, OwesLess(n, st)
  PROVE  AllOffered(w)'
<1>1. \A to \in Nodes : Due(st, ep', now, n, to, w) \subseteq Due(db[n], ep, now, n, to, w)
  BY LessIsDue DEF Due
<1> QED BY <1>1, HandlerOffers

(* Pruning gives up what is no longer alive.                               *)
LEMMA PruneOwesLess ==
  ASSUME NEW n \in Nodes, NEW st, OwesLess(n, st), now \in Nat
  PROVE  OwesLess(n, PruneExpired(st, now))
<1> DEFINE pruned == PruneExpired(st, now)
<1>1. pruned \in Stores
  BY PruneType DEF OwesLess
<1>2. /\ pruned.epoch = st.epoch /\ pruned.outbox \subseteq st.outbox
      /\ pruned.relay = {r \in st.relay : Live(r.obj, now)}
      /\ pruned.delivered \subseteq st.delivered
      /\ pruned.acknowledged = {o \in st.acknowledged : Live(o, now)}
  BY DEF OwesLess, Stores, PruneExpired, Current
<1> HIDE DEF pruned
<1>3. OwesLess(n, pruned)
  BY <1>1, <1>2 DEF OwesLess
<1> QED BY <1>3 DEF pruned

(* The object just enqueued is offered at once, as is the rest of the      *)
(* outbox.                                                                 *)
LEMMA EnqueueOffers ==
  ASSUME MeshInv, NEW w, AllOffered(w), TurnsFit(w)', NEW o \in Objects, Enqueue(o)
  PROVE  AllOffered(w)'
<1> DEFINE n == Origin[o]
           pruned == PruneExpired(db[n], now)
           st == CommitOutgoing(pruned, o)
           out == [to \in Nodes |-> OutboxRecords(st, ep', now)]
<1>1. /\ n \in Nodes /\ now \in Nat /\ db[n] \in Stores
      /\ db[n].epoch \in 1 .. MaxEpoch
  BY ManifestAssumption, BoundsAssumption DEF MeshInv, TypeOK, EpochsInstalled
<1>2. /\ ep' = [ep EXCEPT ![o] = db[n].epoch] /\ ep[o] = 0
      /\ Commit(n, st, {}) /\ Transmit(n, Open, wire, out)
      /\ UNCHANGED <<up, fresh, now>>
  BY DEF Enqueue
<1>3. /\ ep' \in [Objects -> 0 .. MaxEpoch]
      /\ \A p \in Objects : ep[p] # 0 => ep'[p] = ep[p]
  BY <1>1, <1>2 DEF MeshInv, TypeOK
<1>4. Justified(n, st, {}, ep')
  BY <1>1, <1>2, JustifiedAsIs, JustifiedPrune, JustifiedOutgoing
<1>5. OwesLess(n, pruned)
  BY <1>1, PruneOwesLess DEF OwesLess
<1>6. /\ st.relay = pruned.relay /\ st.delivered = pruned.delivered
      /\ st.acknowledged = pruned.acknowledged /\ st.epoch = pruned.epoch
  BY <1>5 DEF CommitOutgoing, OwesLess, Stores
<1>7. DueOutbox(st, n, ep', now, w) \subseteq OutboxRecords(st, ep', now)
  <2>1. db'[n] = st /\ now' = now
    BY <1>1, <1>2 DEF Commit, MeshInv, TypeOK
  <2>2. "outbox" \in w => Cardinality(OutboxQueue(db'[n], now')) <= MaxOriginSlots
    BY <1>1 DEF TurnsFit, OutboxFits, OutboxQueue
  <2>3. st.outbox \subseteq Objects /\ \A p \in st.outbox : ep'[p] # 0 /\ Origin[p] = n
    BY <1>4 DEF Justified, StoreBacked, Stores
  <2> HIDE DEF n, st
  <2> QED BY <2>1, <2>2, <2>3, OutboxDrained
<1>8. \A to \in Nodes :
        Due(st, ep', now, n, to, w) \subseteq Due(db[n], ep, now, n, to, w) \cup out[to]
  <2> SUFFICES ASSUME NEW to \in Nodes
               PROVE  Due(st, ep', now, n, to, w) \subseteq Due(db[n], ep, now, n, to, w) \cup out[to]
    OBVIOUS
  <2>1. /\ DueReceipts(pruned, n, now, w) \subseteq DueReceipts(db[n], n, now, w)
        /\ DueCustody(pruned, ep', now, to) \subseteq DueCustody(db[n], ep, now, to)
    BY <1>1, <1>3, <1>5, LessIsDue
  <2>2. /\ DueReceipts(st, n, now, w) = DueReceipts(pruned, n, now, w)
        /\ DueCustody(st, ep', now, to) = DueCustody(pruned, ep', now, to)
    BY <1>6 DEF DueReceipts, ReceiptQueue, DueCustody, Verifies
  <2>3. out[to] = OutboxRecords(st, ep', now)
    OBVIOUS
  <2> HIDE DEF n, st, pruned, out
  <2> QED BY <1>7, <2>1, <2>2, <2>3 DEF Due
<1> HIDE DEF n, st, pruned, out
<1> QED BY <1>1, <1>2, <1>3, <1>8, HandlerOffers

(* A chunk that completes an object: its custody is offered at once, and   *)
(* its receipt if it was shown.                                            *)
LEMMA ChunkOffers ==
  ASSUME MeshInv, NEW w, AllOffered(w), TurnsFit(w)', NEW n \in Nodes, NEW m \in Nodes, NEW rec,
         ReceiveChunk(n, m, rec)
  PROVE  AllOffered(w)'
<1> DEFINE put == ChunkStored(n, m, rec)
           pruned == ChunkPruned(n, m, rec)
           st == ChunkFinal(n, m, rec)
           visible == Finalized(pruned, ep, n, now)
           receipts == IF visible # {} THEN ReceiptRecords(st, n, now) ELSE {}
           out == [to \in Nodes |-> receipts \cup RelayRecords(st, ep, now, to)]
<1>1. /\ TakesChunk(n, m, rec) /\ Commit(n, st, visible)
      /\ Transmit(n, Open, Without(m, n, rec), out)
      /\ UNCHANGED <<ep, up, fresh, now>>
  BY DEF ReceiveChunk
<1>2. put \in Stores /\ pruned \in Stores /\ st \in Stores /\ now \in Nat /\ db[n] \in Stores
  BY <1>1, ChunkJustified, BoundsAssumption DEF Justified, MeshInv, TypeOK
<1>3. /\ put.outbox = db[n].outbox /\ put.delivered = db[n].delivered
      /\ put.acknowledged = db[n].acknowledged
  BY <1>2 DEF ChunkStored, PutRelayChunk, WithChunk, Stores
<1>4. /\ pruned.outbox \subseteq put.outbox /\ pruned.delivered \subseteq put.delivered
      /\ pruned.acknowledged = {o \in put.acknowledged : Live(o, now)}
  BY <1>2, Zenon DEF ChunkPruned, PruneExpired, Stores
<1>5. /\ st.outbox = pruned.outbox /\ st.acknowledged = pruned.acknowledged
      /\ st.delivered = pruned.delivered \cup visible
  BY <1>2 DEF ChunkFinal, Finalize, Stores
<1> HIDE DEF put, pruned, st, visible
<1>6. DueOutbox(st, n, ep, now, w) \subseteq DueOutbox(db[n], n, ep, now, w)
  <2>1. st.outbox \subseteq db[n].outbox /\ st.outbox \subseteq Objects /\ st.epoch = db[n].epoch
    <3>1. st.epoch = db[n].epoch
      BY <1>1, ChunkJustified DEF Justified, st
    <3> QED BY <1>2, <1>3, <1>4, <1>5, <3>1 DEF Stores
  <2> QED BY <1>2, <2>1, OutboxFades
<1>7. DueReceipts(st, n, now, w) \subseteq DueReceipts(db[n], n, now, w) \cup receipts
  <2>1. CASE visible # {}
    <3>1. db'[n] = st /\ now' = now
      BY <1>1 DEF Commit, MeshInv, TypeOK
    <3>2. "receipts" \in w => Cardinality(ReceiptQueue(db'[n], n, now')) <= MaxOriginSlots
      BY DEF TurnsFit, ReceiptsFit, ReceiptQueue
    <3>3. st.delivered \subseteq Objects
      BY <1>2 DEF Stores
    <3>4. DueReceipts(st, n, now, w) \subseteq ReceiptRecords(st, n, now)
      BY <3>1, <3>2, <3>3, ReceiptsDrained
    <3> QED BY <2>1, <3>4
  <2>2. CASE visible = {}
    <3>1. /\ st.delivered \subseteq Objects
          /\ \A o \in st.delivered \ st.acknowledged :
               Live(o, now) => o \in db[n].delivered \ db[n].acknowledged
      BY <1>2, <1>3, <1>4, <1>5, <2>2 DEF Stores
    <3>2. DueReceipts(st, n, now, w) \subseteq DueReceipts(db[n], n, now, w)
      BY <1>2, <3>1, ReceiptsFade
    <3> QED BY <3>2
  <2> QED BY <2>1, <2>2
<1>8. \A to \in Nodes : DueCustody(st, ep, now, to) \subseteq RelayRecords(st, ep, now, to)
  BY <1>2, CustodyDrained
<1>9. \A to \in Nodes : out[to] = receipts \cup RelayRecords(st, ep, now, to)
  OBVIOUS
<1> HIDE DEF receipts, out
<1>10. \A to \in Nodes :
        Due(st, ep', now, n, to, w) \subseteq Due(db[n], ep, now, n, to, w) \cup out[to]
  BY <1>1, <1>6, <1>7, <1>8, <1>9 DEF Due
<1> QED BY <1>1, <1>10, HandlerOffers

(* Receipts and acknowledgements only take from what the phone owes.       *)
LEMMA ReceiptOwesLess ==
  ASSUME MeshInv, NEW n \in Nodes, NEW m \in Nodes, NEW rec
  PROVE  /\ ReceiptStored(n, m, rec) \in Stores => OwesLess(n, ReceiptStored(n, m, rec))
         /\ AckStored(n, m, rec) \in Stores => OwesLess(n, AckStored(n, m, rec))
<1>1. db[n] \in Stores
  BY DEF MeshInv, TypeOK
<1>2. /\ ReceiptStored(n, m, rec).epoch = db[n].epoch
      /\ ReceiptStored(n, m, rec).relay = db[n].relay
      /\ ReceiptStored(n, m, rec).outbox \subseteq db[n].outbox
      /\ ReceiptStored(n, m, rec).delivered = db[n].delivered
      /\ ReceiptStored(n, m, rec).acknowledged = db[n].acknowledged
  BY <1>1 DEF ReceiptStored, RecordTargetReceipt, PutRelayReceipt, Stores
<1>3. /\ AckStored(n, m, rec).epoch = db[n].epoch
      /\ AckStored(n, m, rec).relay = db[n].relay
      /\ AckStored(n, m, rec).outbox = db[n].outbox
      /\ AckStored(n, m, rec).delivered = db[n].delivered
      /\ db[n].acknowledged \subseteq AckStored(n, m, rec).acknowledged
  BY <1>1 DEF AckStored, AckHeld, PutRelayReceiptAck, RemoveRelayReceipt,
              RecordReceiptAck, Stores
<1> QED BY <1>2, <1>3 DEF OwesLess

(* Frames that are handled, or refused.                                    *)
LEMMA ReceiveOffers ==
  ASSUME MeshInv, NEW w, AllOffered(w), TurnsFit(w)', NEW n \in Nodes, NEW m \in Nodes,
         NEW rec, Receive(n, m, rec)
  PROVE  AllOffered(w)'
<1>0. now \in Nat /\ now <= now
  BY BoundsAssumption DEF MeshInv, TypeOK
<1>1. CASE Discard(n, m, rec)
  <2>1. UNCHANGED <<db, ep, up, fresh, admitted, now>>
    BY <1>1 DEF Discard
  <2>2. Open' = Open
    BY <2>1 DEF Open
  <2> QED BY <1>0, <2>1, <2>2, OffersStay
<1>2. CASE ReceiveAnnouncement(n, m, rec)
  <2> DEFINE st == Announce(db[n], rec.obj)
  <2>1. /\ Commit(n, st, {}) /\ UNCHANGED <<ep, up, fresh, admitted, now>>
        /\ Arrives(n, m, rec)
    BY <1>2 DEF ReceiveAnnouncement, TakesAnnouncement, Passes
  <2>2. db[n] \in Stores /\ rec.obj \in Objects
    BY <2>1, ArrivesBacked DEF MeshInv, TypeOK
  <2>3. OwesLess(n, st)
    BY <2>2 DEF Announce, OwesLess, Stores
  <2>4. Open' = Open /\ Open \subseteq Edges
    BY <2>1 DEF Open, MeshInv, TypeOK
  <2>5. db'[n] = st /\ \A k \in Nodes : k # n => db'[k] = db[k]
    BY <2>1 DEF Commit, MeshInv, TypeOK
  <2> HIDE DEF st
  <2>6. \A to : Due(st, ep', now', n, to, w) \subseteq Due(db[n], ep, now, n, to, w)
    BY <2>1, <2>3, LessIsDue DEF Due
  <2>7. \A e \in Open' : e[1] = n => Due(db'[n], ep', now', n, e[2], w) \subseteq admitted'[e]
    BY <2>1, <2>4, <2>5, <2>6 DEF AllOffered
  <2> QED BY <1>0, <2>1, <2>4, <2>5, <2>7, OffersGoOn
<1>3. CASE ReceiveChunk(n, m, rec)
  BY <1>3, ChunkOffers
<1>4. CASE ReceiveReceipt(n, m, rec)
  <2> DEFINE st == ReceiptStored(n, m, rec)
             out == [to \in Nodes |-> RelayReceiptRecords(st, now, to)
                                        \cup AckRecords(st, ep, now)]
  <2>1. /\ Commit(n, st, {}) /\ Transmit(n, Open, Without(m, n, rec), out)
        /\ UNCHANGED <<ep, now, up, fresh>>
    BY <1>4 DEF ReceiveReceipt
  <2>2. st \in Stores
    BY <1>4, ReceiptJustified DEF ReceiveReceipt, Justified
  <2>3. OwesLess(n, st)
    BY <2>2, ReceiptOwesLess
  <2> HIDE DEF st, out
  <2> QED BY <2>1, <2>3, LessOffers
<1>5. CASE ReceiveAck(n, m, rec)
  <2> DEFINE st == AckStored(n, m, rec)
             out == [to \in Nodes |-> RelayAckRecords(st, now, to)]
  <2>1. /\ Commit(n, st, {}) /\ Transmit(n, Open, Without(m, n, rec), out)
        /\ UNCHANGED <<ep, now, up, fresh>>
    BY <1>5 DEF ReceiveAck
  <2>2. st \in Stores
    BY <1>5, AckJustified DEF ReceiveAck, Justified
  <2>3. OwesLess(n, st)
    BY <2>2, ReceiptOwesLess
  <2> HIDE DEF st, out
  <2> QED BY <2>1, <2>3, LessOffers
<1> QED BY <1>1, <1>2, <1>3, <1>4, <1>5 DEF Receive

(* The first authenticated frame: the session opens with all that is due.  *)
LEMMA AuthenticatedOffers ==
  ASSUME MeshInv, NEW w, AllOffered(w), TurnsFit(w), NEW n \in Nodes, NEW m \in Nodes,
         Authenticated(n, m)
  PROVE  AllOffered(w)'
<1> DEFINE out == [to \in Nodes |->
        OutboxRecords(db[n], ep, now) \cup ReceiptRecords(db[n], n, now)
          \cup RelayRecords(db[n], ep, now, to)
          \cup RelayReceiptRecords(db[n], now, to)
          \cup RelayAckRecords(db[n], now, to)]
<1>1. /\ <<n, m>> \in fresh /\ fresh' = fresh \ {<<n, m>>}
      /\ Transmit(n, Open \cup {<<n, m>>}, wire, out)
      /\ UNCHANGED <<db, ep, up, now>>
  BY DEF Authenticated
<1>2. /\ db[n] \in Stores /\ db[n].epoch \in 1 .. MaxEpoch
      /\ ep \in [Objects -> 0 .. MaxEpoch] /\ \A o \in db[n].outbox : ep[o] # 0 /\ Origin[o] = n
      /\ now \in Nat /\ now <= now
  BY BoundsAssumption DEF MeshInv, TypeOK, EpochsInstalled, Backed, StoreBacked
<1>3. Open' = Open \cup {<<n, m>>} /\ Open' \subseteq Edges
  BY <1>1 DEF Open, MeshInv, TypeOK
<1>4. \A e \in Edges : e[2] \in Nodes
  BY EdgesAssumption
<1>5. \A to \in Nodes : Due(db[n], ep, now, n, to, w) \subseteq out[to]
  <2> SUFFICES ASSUME NEW to \in Nodes PROVE Due(db[n], ep, now, n, to, w) \subseteq out[to]
    OBVIOUS
  <2>1. DueOutbox(db[n], n, ep, now, w) \subseteq OutboxRecords(db[n], ep, now)
    BY <1>2, OutboxDrained DEF Stores, TurnsFit, OutboxFits
  <2>2. DueCustody(db[n], ep, now, to) \subseteq RelayRecords(db[n], ep, now, to)
    BY <1>2, CustodyDrained
  <2>3. DueReceipts(db[n], n, now, w) \subseteq ReceiptRecords(db[n], n, now)
    BY <1>2, ReceiptsDrained DEF Stores, TurnsFit, ReceiptsFit
  <2> QED BY <2>1, <2>2, <2>3 DEF Due
<1> HIDE DEF out
<1>6. \A e \in Open' :
        /\ e[1] # n => e \in Open /\ admitted'[e] = admitted[e]
        /\ e[1] = n => admitted'[e] = admitted[e] \cup out[e[2]]
  BY <1>1, <1>3 DEF Transmit
<1>7. \A e \in Open' : e[1] = n => Due(db'[n], ep', now', n, e[2], w) \subseteq admitted'[e]
  BY <1>1, <1>3, <1>4, <1>5, <1>6
<1> QED BY <1>1, <1>2, <1>3, <1>6, <1>7, OffersGoOn

(* Sessions that start or end, and time.                                   *)
LEMMA QuietOffers ==
  ASSUME MeshInv, NEW w, AllOffered(w),
         \/ \E n, m \in Nodes : LinkUp(n, m) \/ Drop(n, m)
         \/ Tick
         \/ UNCHANGED vars
  PROVE  AllOffered(w)'
<1>1. now' \in Nat /\ now <= now'
  <2>1. now \in Nat
    BY BoundsAssumption DEF MeshInv, TypeOK
  <2>2. now' = now \/ now' = now + 1
    BY DEF LinkUp, Drop, Tick, vars
  <2> QED BY <2>1, <2>2
<1>2. UNCHANGED <<db, ep>>
  BY DEF LinkUp, Drop, Tick, vars
<1>3. Open' \subseteq Open /\ \A e \in Open' : admitted[e] \subseteq admitted'[e]
  <2>1. ASSUME NEW n \in Nodes, NEW m \in Nodes, LinkUp(n, m)
        PROVE  Open' \subseteq Open /\ \A e \in Open' : admitted[e] \subseteq admitted'[e]
    BY <2>1 DEF LinkUp, Open
  <2>2. ASSUME NEW n \in Nodes, NEW m \in Nodes, Drop(n, m)
        PROVE  Open' \subseteq Open /\ \A e \in Open' : admitted[e] \subseteq admitted'[e]
    <3>1. Open' = Open \ {<<n, m>>, <<m, n>>} /\ Open \subseteq Edges
      BY <2>2 DEF Drop, Disconnect, Open, MeshInv, TypeOK
    <3>2. \A e \in Open' : admitted'[e] = admitted[e]
      BY <2>2, <3>1 DEF Drop, Disconnect
    <3> QED BY <3>1, <3>2
  <2>3. CASE Tick \/ UNCHANGED vars
    BY <2>3 DEF Tick, vars, links, Open
  <2> QED BY <2>1, <2>2, <2>3
<1> QED BY <1>1, <1>2, <1>3, OffersStay

(* Every step keeps the offers.                                            *)
LEMMA OfferStep ==
  ASSUME MeshInv, NEW w, AllOffered(w), TurnsFit(w), TurnsFit(w)', [Next]_vars
  PROVE  AllOffered(w)'
<1>1. CASE \E o \in Objects : Enqueue(o)
  BY <1>1, EnqueueOffers
<1>2. CASE \E n, m \in Nodes : Authenticated(n, m)
  BY <1>2, AuthenticatedOffers
<1>3. CASE \/ \E n, m \in Nodes : LinkUp(n, m) \/ Drop(n, m)
           \/ Tick \/ UNCHANGED vars
  BY <1>3, QuietOffers
<1>4. ASSUME NEW n \in Nodes, Crash(n) \/ InstallPolicy(n)
      PROVE  AllOffered(w)'
  <2>1. /\ Disconnect(EdgesOf(n)) /\ now' = now /\ ep' = ep
        /\ \A k \in Nodes : k # n => db'[k] = db[k]
    BY <1>4 DEF Crash, Restart, InstallPolicy, MeshInv, TypeOK
  <2> QED BY <2>1, CutOffers
<1>5. ASSUME NEW n \in Nodes, NEW m \in Nodes, NEW rec, Receive(n, m, rec)
      PROVE  AllOffered(w)'
  BY <1>5, ReceiveOffers
<1>6. ASSUME NEW n \in Nodes, NEW m \in Nodes, NEW rec,
             CrashInChunk(n, m, rec) \/ CrashInAck(n, m, rec)
      PROVE  AllOffered(w)'
  <2>1. Restart(n) /\ \E st : Commit(n, st, {})
    BY <1>6 DEF CrashInChunk, CrashInAck
  <2>2. /\ Disconnect(EdgesOf(n)) /\ now' = now /\ ep' = ep
        /\ \A k \in Nodes : k # n => db'[k] = db[k]
    BY <2>1 DEF Restart, Commit, MeshInv, TypeOK
  <2> QED BY <2>2, CutOffers
<1> QED BY <1>1, <1>2, <1>3, <1>4, <1>5, <1>6 DEF Next

(* drainReceipts: a receipt nobody acknowledged was put on every open      *)
(* session, through crashes, lost links and policies, as long as no phone  *)
(* owes more receipts than a drain reads in one turn.                      *)
THEOREM MeshReceiptsOffered == Spec /\ []ReceiptsFit => []ReceiptsOffered
<1> DEFINE w == {"receipts"}
<1>1. Init => AllOffered(w)
  BY DEF Init, AllOffered, Open
<1>2. MeshInv /\ AllOffered(w) /\ ReceiptsFit /\ ReceiptsFit' /\ [Next]_vars => AllOffered(w)'
  BY OfferStep DEF TurnsFit
<1>3. AllOffered(w) => ReceiptsOffered
  BY DEF AllOffered, Due, DueReceipts, ReceiptsOffered
<1> HIDE DEF w
<1> QED BY <1>1, <1>2, <1>3, MeshInvariant, PTL DEF Spec

(* outbox_record offers the outbox or, when one object of it no longer     *)
(* verifies, nothing: a phone that sealed nothing under an earlier policy  *)
(* has put every live object of its outbox, whole, on every open session.  *)
SealedOutboxOffered ==
  \A e \in Open : SealedNow(db[e[1]], e[1], ep) =>
    \A o \in db[e[1]].outbox : Live(o, now) => Whole(o, 0) \subseteq admitted[e]

(* drainOutbox: so it does, through crashes, lost links and the policies   *)
(* of the others, as long as no outbox holds more records than a drain     *)
(* reads in one turn.                                                      *)
THEOREM MeshSealedOutboxOffered == Spec /\ []OutboxFits => []SealedOutboxOffered
<1> DEFINE w == {"outbox"}
<1>1. Init => AllOffered(w)
  BY DEF Init, AllOffered, Open
<1>2. MeshInv /\ AllOffered(w) /\ OutboxFits /\ OutboxFits' /\ [Next]_vars => AllOffered(w)'
  BY OfferStep DEF TurnsFit
<1>3. AllOffered(w) => SealedOutboxOffered
  BY DEF AllOffered, Due, DueOutbox, OutboxQueue, SealedOutboxOffered
<1> HIDE DEF w
<1> QED BY <1>1, <1>2, <1>3, MeshInvariant, PTL DEF Spec

OneRoster == MaxEpoch = 1

(* drainOutbox: as long as no policy replaces the first and no outbox      *)
(* holds more than a turn, every live object of an outbox was put, whole,  *)
(* on every open session.  The run mesh_policy shows that a second policy  *)
(* breaks this.                                                            *)
THEOREM MeshOutboxOffered ==
  ASSUME OneRoster
  PROVE  Spec /\ []OutboxFits => []OutboxOffered
<1>1. MeshInv /\ SealedOutboxOffered => OutboxOffered
  <2> SUFFICES ASSUME MeshInv, SealedOutboxOffered, NEW e \in Open PROVE SealedNow(db[e[1]], e[1], ep)
    BY DEF SealedOutboxOffered, OutboxOffered
  <2>1. db[e[1]].epoch \in 1 .. MaxEpoch /\ ep \in [Objects -> 0 .. MaxEpoch]
    BY EdgesAssumption DEF MeshInv, TypeOK, EpochsInstalled, Open
  <2> QED BY <2>1 DEF SealedNow, Verifies, OneRoster
<1> QED BY <1>1, MeshInvariant, MeshSealedOutboxOffered, PTL

(* relay_record offers one object at a time, the one with the lowest       *)
(* identifier: as long as it lives and no object that comes before it has  *)
(* expired, it was put, whole, on every open session but the one to its    *)
(* supplier.                                                               *)
FirstCustodyOffered ==
  \A e \in Open : \A r \in db[e[1]].relay :
    (/\ Live(r.obj, now) /\ FirstInCustody(r, db[e[1]].relay, now)
     /\ r.from # e[2] /\ Verifies(db[e[1]], ep, r.obj)) =>
      Whole(r.obj, r.hops) \subseteq admitted[e]

(* drainRelay: the first object in custody was put on every open session   *)
(* but the one to its supplier, through crashes, lost links and policies,  *)
(* however many objects are behind it.                                     *)
THEOREM MeshFirstCustodyOffered == Spec => []FirstCustodyOffered
<1> DEFINE w == {}
<1>1. Init => AllOffered(w)
  BY DEF Init, AllOffered, Open
<1>2. MeshInv /\ AllOffered(w) /\ [Next]_vars => AllOffered(w)'
  BY OfferStep DEF TurnsFit
<1>3. AllOffered(w) => FirstCustodyOffered
  BY DEF AllOffered, Due, DueCustody, Current, FirstCustodyOffered
<1> HIDE DEF w
<1> QED BY <1>1, <1>2, <1>3, MeshInvariant, PTL DEF Spec

OneObject == \A o, p \in Objects : o = p

(* drainRelay: custody of a group's only object was put, whole, on every   *)
(* open session but the one to its supplier.  The run mesh_queue shows     *)
(* that a second object breaks this.                                       *)
THEOREM MeshCustodyOffered ==
  ASSUME OneObject
  PROVE  Spec => []CustodyOffered
<1>1. MeshInv /\ FirstCustodyOffered => CustodyOffered
  <2> SUFFICES ASSUME MeshInv, FirstCustodyOffered, NEW e \in Open, NEW r \in db[e[1]].relay,
                      Live(r.obj, now), r.from # e[2], Verifies(db[e[1]], ep, r.obj)
               PROVE  Whole(r.obj, r.hops) \subseteq admitted[e]
    BY DEF CustodyOffered
  <2>1. db[e[1]].relay \subseteq Custody
    BY EdgesAssumption DEF MeshInv, TypeOK, Open, Stores
  <2>2. \A q \in db[e[1]].relay : q.obj \in Objects
    BY <2>1 DEF Custody
  <2>3. \A o \in Objects : o = r.obj /\ o \in Nat
    BY <2>2, ObjectsAssumption DEF OneObject
  <2>4. FirstInCustody(r, db[e[1]].relay, now)
    BY <2>2, <2>3 DEF FirstInCustody
  <2> QED BY <2>4 DEF FirstCustodyOffered
<1> QED BY <1>1, MeshInvariant, MeshFirstCustodyOffered, PTL

-----------------------------------------------------------------------------
(* Custody of receipts.                                                    *)

(* A store of n that gives up a live receipt only when it was confirmed.   *)
KeepsReceipts(n, st) ==
  \A h \in db[n].relayReceipts :
    Live(h.obj, now) => h \in st.relayReceipts \/ <<h.obj, h.actor>> \in confirmed

(* Pruning drops expired receipts, put_relay_receipt drops none that lives *)
(* and remove_relay_receipt follows an acknowledgement.                    *)
LEMMA HandlersKeepReceipts ==
  ASSUME MeshInv, NEW n \in Nodes, NEW m \in Nodes, NEW rec
  PROVE  /\ KeepsReceipts(n, ChunkStored(n, m, rec))
         /\ ChunkStored(n, m, rec) \in Stores =>
              /\ KeepsReceipts(n, ChunkPruned(n, m, rec))
              /\ KeepsReceipts(n, ChunkFinal(n, m, rec))
         /\ KeepsReceipts(n, ReceiptStored(n, m, rec))
         /\ KeepsReceipts(n, AckHeld(n, m, rec))
         /\ <<rec.obj, rec.actor>> \in confirmed => KeepsReceipts(n, AckStored(n, m, rec))
<1>1. db[n] \in Stores /\ now \in Nat
  BY BoundsAssumption DEF MeshInv, TypeOK
<1>2. ChunkStored(n, m, rec).relayReceipts = db[n].relayReceipts
  BY <1>1 DEF ChunkStored, PutRelayChunk, WithChunk, Stores
<1>3. ASSUME ChunkStored(n, m, rec) \in Stores
      PROVE  /\ ChunkPruned(n, m, rec).relayReceipts = Current(db[n].relayReceipts, now)
             /\ ChunkFinal(n, m, rec).relayReceipts = Current(db[n].relayReceipts, now)
  <2>1. /\ ChunkPruned(n, m, rec).relayReceipts = Current(db[n].relayReceipts, now)
        /\ ChunkPruned(n, m, rec) \in Stores
    <3>1. ChunkPruned(n, m, rec) = PruneExpired(ChunkStored(n, m, rec), now) BY DEF ChunkPruned
    <3>2. ASSUME NEW st \in Stores
          PROVE  PruneExpired(st, now).relayReceipts = Current(st.relayReceipts, now)
      BY DEF PruneExpired, Stores
    <3> QED BY <1>1, <1>2, <1>3, <3>1, <3>2, PruneType
  <2>2. ChunkFinal(n, m, rec).relayReceipts = ChunkPruned(n, m, rec).relayReceipts
    BY <2>1 DEF ChunkFinal, Finalize, Stores
  <2> QED BY <2>1, <2>2
<1>4. Current(db[n].relayReceipts, now) \subseteq ReceiptStored(n, m, rec).relayReceipts
  BY <1>1 DEF ReceiptStored, RecordTargetReceipt, PutRelayReceipt, Hold, Current, Stores
<1>5. AckHeld(n, m, rec).relayReceipts = db[n].relayReceipts
  BY <1>1 DEF AckHeld, PutRelayReceiptAck, Stores
<1>6. \A h \in db[n].relayReceipts :
        \/ h \in AckStored(n, m, rec).relayReceipts
        \/ h.obj = rec.obj /\ h.actor = rec.actor
  BY <1>1 DEF AckStored, AckHeld, RemoveRelayReceipt, PutRelayReceiptAck,
              RecordReceiptAck, Stores
<1> QED BY <1>2, <1>3, <1>4, <1>5, <1>6 DEF KeepsReceipts, Current

(* A relay gives up the custody of a live receipt only in exchange for an  *)
(* acknowledgement that the origin recorded that very receipt.             *)
THEOREM MeshReceiptCustodyKept == Spec => ReceiptCustodyKept
<1> DEFINE Kept == \A n \in Nodes : \A h \in db[n].relayReceipts \ db'[n].relayReceipts :
                     Live(h.obj, now) => <<h.obj, h.actor>> \in confirmed
<1>1. ASSUME MeshInv, NEW n \in Nodes, NEW st, db' = [db EXCEPT ![n] = st],
             KeepsReceipts(n, st)
      PROVE  Kept
  BY <1>1 DEF KeepsReceipts, MeshInv, TypeOK
<1>2. ASSUME db' = db
      PROVE  Kept
  BY <1>2
<1>3. ASSUME MeshInv, NEW o \in Objects, Enqueue(o)
      PROVE  Kept
  <2>1. Origin[o] \in Nodes /\ db[Origin[o]] \in Stores
    BY <1>3, ManifestAssumption DEF MeshInv, TypeOK
  <2>2. KeepsReceipts(Origin[o], CommitOutgoing(PruneExpired(db[Origin[o]], now), o))
    BY <2>1 DEF KeepsReceipts, CommitOutgoing, PruneExpired, Current, Stores
  <2> QED BY <1>1, <1>3, <2>1, <2>2 DEF Enqueue, Commit
<1>4. ASSUME MeshInv, NEW n \in Nodes, InstallPolicy(n)
      PROVE  Kept
  <2>1. db[n] \in Stores
    BY <1>4 DEF MeshInv, TypeOK
  <2>2. KeepsReceipts(n, [db[n] EXCEPT !.epoch = @ + 1])
    BY <2>1 DEF KeepsReceipts, Stores
  <2>3. db' = [db EXCEPT ![n] = [db[n] EXCEPT !.epoch = @ + 1]]
    BY <1>4 DEF InstallPolicy
  <2> QED BY <1>1, <1>4, <2>2, <2>3
<1>5. ASSUME MeshInv, NEW n \in Nodes, NEW m \in Nodes, NEW rec,
             \/ Receive(n, m, rec) \/ CrashInChunk(n, m, rec) \/ CrashInAck(n, m, rec)
      PROVE  Kept
  <2> USE <1>5
  <2>1. CASE Discard(n, m, rec)
    BY <1>2, <2>1 DEF Discard
  <2>2. CASE ReceiveAnnouncement(n, m, rec)
    <3>1. KeepsReceipts(n, Announce(db[n], rec.obj))
      BY DEF KeepsReceipts, Announce, MeshInv, TypeOK, Stores
    <3> QED BY <1>1, <2>2, <3>1 DEF ReceiveAnnouncement, Commit
  <2>3. CASE ReceiveChunk(n, m, rec) \/ CrashInChunk(n, m, rec)
    <3>1. ChunkStored(n, m, rec) \in Stores
      BY <2>3, ChunkJustified DEF ReceiveChunk, CrashInChunk, Justified
    <3>2. \E st \in {ChunkStored(n, m, rec), ChunkPruned(n, m, rec), ChunkFinal(n, m, rec)} :
            db' = [db EXCEPT ![n] = st]
      BY <2>3 DEF ReceiveChunk, CrashInChunk, Commit
    <3> QED BY <1>1, <3>1, <3>2, HandlersKeepReceipts
  <2>4. CASE ReceiveReceipt(n, m, rec)
    BY <1>1, <2>4, HandlersKeepReceipts DEF ReceiveReceipt, Commit
  <2>5. CASE ReceiveAck(n, m, rec) \/ CrashInAck(n, m, rec)
    <3>1. Arrives(n, m, rec) /\ rec.kind = "ack"
      BY <2>5 DEF ReceiveAck, CrashInAck, TakesAck, HoldsAck, Passes
    <3>2. <<rec.obj, rec.actor>> \in confirmed
      BY <3>1, ArrivesBacked DEF RecordBacked
    <3> QED BY <1>1, <2>5, <3>2, HandlersKeepReceipts DEF ReceiveAck, CrashInAck, Commit
  <2> QED BY <2>1, <2>2, <2>3, <2>4, <2>5 DEF Receive
<1>6. ASSUME \/ \E n, m \in Nodes : LinkUp(n, m) \/ Authenticated(n, m) \/ Drop(n, m)
             \/ \E n \in Nodes : Crash(n)
             \/ Tick \/ UNCHANGED vars
      PROVE  Kept
  <2>1. db' = db
    BY <1>6 DEF LinkUp, Authenticated, Drop, Crash, Tick, vars
  <2> QED BY <1>2, <2>1
<1>7. MeshInv /\ [Next]_vars =>
        [\A n \in Nodes : \A h \in db[n].relayReceipts \ db'[n].relayReceipts :
           Live(h.obj, now) => <<h.obj, h.actor>> \in confirmed]_vars
  BY <1>3, <1>4, <1>5, <1>6 DEF Next
<1> QED BY <1>7, MeshInvariant, PTL DEF Spec, ReceiptCustodyKept
=============================================================================
