---------------------------- MODULE DurableMesh ----------------------------
(***************************************************************************)
(* Durable group delivery end to end: phones with an encrypted store each  *)
(* (SecureStore), a forwarding gate in memory (RelayGate) and the host     *)
(* executor that moves records between its links and its store             *)
(* (BluetoothAccess in platforms/mesh_host).                               *)
(*                                                                         *)
(* A link is an authenticated session between neighbours.  It delivers     *)
(* every record it carries at most once; the order of its records is open  *)
(* (fresh batches overtake the unsent tail), except that the chunks of an  *)
(* object follow its announcement.  When a link drops, what it carried is  *)
(* lost.  A host never puts the same record on one session twice.          *)
(*                                                                         *)
(* A crash loses the gate, the forwarded frames and the links; the store   *)
(* keeps what was committed, which may be only the first of the            *)
(* transactions of the handler that was running.                           *)
(***************************************************************************)
EXTENDS SecureStore, RelayGate

CONSTANTS
  Edges,        \* pairs of neighbours
  HopLimit,     \* manifest.hop_limit
  MaxTime,      \* bound on the clock, which all phones share
  MaxEpoch,     \* bound on policy epochs
  MaxDrops,     \* bound on link drops
  MaxCrashes    \* bound on crashes

ASSUME EdgesAssumption ==
  /\ Edges \subseteq Nodes \X Nodes
  /\ \A e \in Edges : e[1] # e[2] /\ <<e[2], e[1]>> \in Edges
ASSUME HopLimitAssumption == HopLimit \in 1 .. MaxRelayHops
ASSUME BoundsAssumption ==
  {MaxTime, MaxDrops, MaxCrashes} \subseteq Nat /\ MaxEpoch \in Nat \ {0}

VARIABLES
  db,         \* the store of each phone
  ep,         \* epoch an object was sealed under, 0 before it is enqueued
  gate,       \* RelayCache of each phone
  forwarded,  \* forwardedRelayFrames: hop count an announced object goes on
              \* with, 0 for none
  up,         \* authenticated sessions, as edges, both directions
  fresh,      \* sessions whose first authenticated frame is still to come
  wire,       \* records on their way over an edge
  admitted,   \* DurableRecordHistory: records this session already carried
  now,
  drops, crashes,
  shows,      \* history: how often o was handed to the screen of n, by <<o, n>>
  confirmed,  \* history: <<o, a>> for each receipt the origin recorded
  released    \* history: <<o, a>> for each acknowledgement a recorded

links == <<up, fresh, wire, admitted>>
memory == <<gate, forwarded>>
history == <<shows, confirmed, released>>
bounds == <<drops, crashes>>
vars == <<db, ep, memory, links, now, bounds, history>>

Init ==
  /\ db = [n \in Nodes |-> EmptyStore]
  /\ ep = [o \in Objects |-> 0]
  /\ gate = [n \in Nodes |-> NothingSeen]
  /\ forwarded = [n \in Nodes |-> [o \in Objects |-> 0]]
  /\ up = {}
  /\ fresh = {}
  /\ wire = [e \in Edges |-> {}]
  /\ admitted = [e \in Edges |-> {}]
  /\ now = 0
  /\ drops = 0 /\ crashes = 0
  /\ shows = [p \in Objects \X Nodes |-> 0]
  /\ confirmed = {} /\ released = {}

-----------------------------------------------------------------------------
(* Sessions over which the phone at their start has proof of the other.    *)
Open == up \ fresh

(* Putting records on the sessions of n: out[m] for the neighbour m, less  *)
(* what this session has carried before.  `carried` is the wire before.    *)
Transmit(n, sessions, carried, out) ==
  LET From == {e \in sessions : e[1] = n}
  IN  /\ wire' = [e \in Edges |->
                    IF e \in From
                    THEN carried[e] \cup (out[e[2]] \ admitted[e])
                    ELSE carried[e]]
      /\ admitted' = [e \in Edges |->
                    IF e \in From THEN admitted[e] \cup out[e[2]] ELSE admitted[e]]

(* The bookkeeping of a store change at n: the objects it made visible,    *)
(* and what stands confirmed or acknowledged there.                        *)
Commit(n, st, visible) ==
  /\ db' = [db EXCEPT ![n] = st]
  /\ shows' = [p \in Objects \X Nodes |->
                IF p[2] = n /\ p[1] \in visible THEN shows[p] + 1 ELSE shows[p]]
  /\ confirmed' = confirmed \cup st.targetReceipts
  /\ released' = released \cup {<<o, n>> : o \in st.acknowledged}

(* Mutant: the outbox waits for the next reconnection.                     *)
EnqueueQuietly(o) ==
  /\ ep[o] = 0 /\ Live(o, now)
  /\ HasRoomFor(PruneExpired(db[Origin[o]], now), o)
  /\ ep' = [ep EXCEPT ![o] = db[Origin[o]].epoch]
  /\ Commit(Origin[o], CommitOutgoing(PruneExpired(db[Origin[o]], now), o), {})
  /\ UNCHANGED <<memory, links, now, bounds>>

(* sendText: the object is committed, then the outbox drained.             *)
Enqueue(o) ==
  LET n == Origin[o]
      st == CommitOutgoing(PruneExpired(db[n], now), o)
      sealedUnder == [ep EXCEPT ![o] = db[n].epoch]
  IN  /\ ep[o] = 0
      /\ Live(o, now)
      /\ HasRoomFor(PruneExpired(db[n], now), o)
      /\ ep' = sealedUnder
      /\ Commit(n, st, {})
      /\ Transmit(n, Open, wire, [to \in Nodes |-> OutboxRecords(st, sealedUnder, now)])
      /\ UNCHANGED <<memory, up, fresh, now, bounds>>

(* Two neighbours complete a handshake, which needs one scope at both.     *)
LinkUp(n, m) ==
  /\ <<n, m>> \in Edges \ up
  /\ db[n].epoch = db[m].epoch
  /\ up' = up \cup {<<n, m>>, <<m, n>>}
  /\ fresh' = fresh \cup {<<n, m>>, <<m, n>>}
  /\ UNCHANGED <<db, ep, memory, wire, admitted, now, bounds, history>>

(* The first authenticated frame of a session: the host drains its queues, *)
(* except the acknowledgements it owes as an origin, on all its links.     *)
(* Mutant: only the outbox is drained.                                     *)
AuthenticatedOutboxOnly(n, m) ==
  /\ <<n, m>> \in fresh
  /\ fresh' = fresh \ {<<n, m>>}
  /\ Transmit(n, Open \cup {<<n, m>>}, wire,
              [to \in Nodes |-> OutboxRecords(db[n], ep, now)])
  /\ UNCHANGED <<db, ep, memory, up, now, bounds, history>>

Authenticated(n, m) ==
  LET out == [to \in Nodes |->
        OutboxRecords(db[n], ep, now) \cup ReceiptRecords(db[n], n, now)
          \cup RelayRecords(db[n], ep, now, to)
          \cup RelayReceiptRecords(db[n], now, to)
          \cup RelayAckRecords(db[n], now, to)]
  IN  /\ <<n, m>> \in fresh
      /\ fresh' = fresh \ {<<n, m>>}
      /\ Transmit(n, Open \cup {<<n, m>>}, wire, out)
      /\ UNCHANGED <<db, ep, memory, up, now, bounds, history>>

-----------------------------------------------------------------------------
(* acceptRoutedPayload: the gate, then the store, then the drains.         *)

(* The frame of a record.  Chunks travel under the frame of their object.  *)
FrameOf(rec, via) ==
  [origin |-> IF rec.kind = "receipt" THEN rec.actor ELSE Origin[rec.obj],
   id |-> <<rec.kind, rec.obj, rec.actor>>,
   previous_hop |-> via,
   expires_at |-> Expiry[rec.obj],
   hop_limit |-> HopLimit,
   hops |-> rec.hops]

GateDecision(n, m, rec) == Decision(gate[n], n, FrameOf(rec, m), m, now)

(* A record is next on the link from m to n: chunks wait for their         *)
(* announcement, and the first frame of a session triggers the drains.     *)
Arrives(n, m, rec) ==
  /\ <<n, m>> \in Open
  /\ rec \in wire[<<m, n>>]
  /\ rec.kind = "chunk" => Ann(rec.obj, rec.hops) \notin wire[<<m, n>>]

Without(m, n, rec) == [wire EXCEPT ![<<m, n>>] = @ \ {rec}]

(* Announcements, receipts and acknowledgements pass the gate; the frame   *)
(* it lets through is kept for the chunks that follow.                     *)
Gated(n, m, rec) ==
  /\ gate' = [gate EXCEPT ![n] =
                SeenAfter(gate[n], FrameOf(rec, m), GateDecision(n, m, rec), now)]
  /\ forwarded' = [forwarded EXCEPT ![n][rec.obj] =
                     IF rec.kind = "ann" /\ GateDecision(n, m, rec) = "Forward"
                     THEN Forwarded(n, FrameOf(rec, m)).hops ELSE @]

Passes(n, m, rec) ==
  /\ Arrives(n, m, rec)
  /\ rec.kind # "chunk"
  /\ GateDecision(n, m, rec) = "Forward"

Route(n, m, rec) == [obj |-> rec.obj, from |-> m, hops |-> forwarded[n][rec.obj]]
Item(n, m, rec) ==
  [obj |-> rec.obj, actor |-> rec.actor, from |-> m,
   hops |-> Forwarded(n, FrameOf(rec, m)).hops]

(* Guards of the transactions of secure_store_accept_routed.               *)
TakesAnnouncement(n, m, rec) ==
  /\ Passes(n, m, rec) /\ rec.kind = "ann"
  /\ ~AnnounceRefused(db[n], ep, rec.obj, now)

TakesChunk(n, m, rec) ==
  /\ Arrives(n, m, rec) /\ rec.kind = "chunk"
  /\ forwarded[n][rec.obj] # 0
  /\ ~ChunkRefused(db[n], rec.obj, rec.idx, Route(n, m, rec), now)

IsSource(n, o) == n = Origin[o] /\ o \in db[n].objects

ConfirmsReceipt(n, m, rec) ==
  /\ Passes(n, m, rec) /\ rec.kind = "receipt"
  /\ IsSource(n, rec.obj)
  /\ Verifies(db[n], ep, rec.obj)

HoldsReceipt(n, m, rec) ==
  /\ Passes(n, m, rec) /\ rec.kind = "receipt"
  /\ ~IsSource(n, rec.obj)
  /\ ~HoldRefused(db[n].relayReceipts, Item(n, m, rec), now)

TakesAck(n, m, rec) ==
  /\ Passes(n, m, rec) /\ rec.kind = "ack"
  /\ Verifies(db[n], ep, rec.obj)
  /\ n = rec.actor
  /\ rec.obj \in db[n].delivered

HoldsAck(n, m, rec) ==
  /\ Passes(n, m, rec) /\ rec.kind = "ack"
  /\ Verifies(db[n], ep, rec.obj)
  /\ n # rec.actor
  /\ ~HoldRefused(db[n].relayAcks, Item(n, m, rec), now)

Taken(n, m, rec) ==
  \/ TakesAnnouncement(n, m, rec) \/ TakesChunk(n, m, rec)
  \/ ConfirmsReceipt(n, m, rec) \/ HoldsReceipt(n, m, rec)
  \/ TakesAck(n, m, rec) \/ HoldsAck(n, m, rec)

(* Stopped by the gate, or refused by the store after the gate has already *)
(* recorded it.                                                            *)
Discard(n, m, rec) ==
  /\ Arrives(n, m, rec)
  /\ ~Taken(n, m, rec)
  /\ IF rec.kind = "chunk" THEN UNCHANGED memory ELSE Gated(n, m, rec)
  /\ wire' = Without(m, n, rec)
  /\ UNCHANGED <<db, ep, up, fresh, admitted, now, bounds, history>>

ReceiveAnnouncement(n, m, rec) ==
  /\ TakesAnnouncement(n, m, rec)
  /\ Gated(n, m, rec)
  /\ Commit(n, Announce(db[n], rec.obj), {})
  /\ wire' = Without(m, n, rec)
  /\ UNCHANGED <<ep, up, fresh, admitted, now, bounds>>

(* The transactions of a chunk: the chunk, the prune, the delivery.        *)
ChunkStored(n, m, rec) ==
  PutRelayChunk(db[n], rec.obj, rec.idx, Route(n, m, rec))
ChunkPruned(n, m, rec) == PruneExpired(ChunkStored(n, m, rec), now)
ChunkFinal(n, m, rec) == Finalize(ChunkPruned(n, m, rec), ep, n, now)

ReceiveChunk(n, m, rec) ==
  LET st == ChunkFinal(n, m, rec)
      visible == Finalized(ChunkPruned(n, m, rec), ep, n, now)
      receipts == IF visible # {} THEN ReceiptRecords(st, n, now) ELSE {}
  IN  /\ TakesChunk(n, m, rec)
      /\ Commit(n, st, visible)
      /\ Transmit(n, Open, Without(m, n, rec),
                  [to \in Nodes |-> receipts \cup RelayRecords(st, ep, now, to)])
      /\ UNCHANGED <<ep, memory, up, fresh, now, bounds>>

ReceiptStored(n, m, rec) ==
  IF IsSource(n, rec.obj)
  THEN RecordTargetReceipt(db[n], rec.obj, rec.actor)
  ELSE PutRelayReceipt(db[n], Item(n, m, rec), now)

ReceiveReceipt(n, m, rec) ==
  LET st == ReceiptStored(n, m, rec)
  IN  /\ ConfirmsReceipt(n, m, rec) \/ HoldsReceipt(n, m, rec)
      /\ Gated(n, m, rec)
      /\ Commit(n, st, {})
      /\ Transmit(n, Open, Without(m, n, rec),
                  [to \in Nodes |-> RelayReceiptRecords(st, now, to)
                                      \cup AckRecords(st, ep, now)])
      /\ UNCHANGED <<ep, up, fresh, now, bounds>>

(* A relay holds the acknowledgement in one transaction and retires the    *)
(* receipt in the next.                                                    *)
AckHeld(n, m, rec) == PutRelayReceiptAck(db[n], Item(n, m, rec), now)

AckStored(n, m, rec) ==
  IF n = rec.actor
  THEN RecordReceiptAck(db[n], rec.obj)
  ELSE RemoveRelayReceipt(AckHeld(n, m, rec), rec.obj, rec.actor)

ReceiveAck(n, m, rec) ==
  LET st == AckStored(n, m, rec)
  IN  /\ TakesAck(n, m, rec) \/ HoldsAck(n, m, rec)
      /\ Gated(n, m, rec)
      /\ Commit(n, st, {})
      /\ Transmit(n, Open, Without(m, n, rec),
                  [to \in Nodes |-> RelayAckRecords(st, now, to)])
      /\ UNCHANGED <<ep, up, fresh, now, bounds>>

Receive(n, m, rec) ==
  \/ Discard(n, m, rec)
  \/ ReceiveAnnouncement(n, m, rec)
  \/ ReceiveChunk(n, m, rec)
  \/ ReceiveReceipt(n, m, rec)
  \/ ReceiveAck(n, m, rec)

-----------------------------------------------------------------------------
(* Failures and the passing of time.                                       *)

DisconnectStaysFresh(edges) ==   \* mutant: the drain flag outlives its session
  /\ up' = up \ edges
  /\ fresh' = fresh
  /\ wire' = [e \in Edges |-> IF e \in edges THEN {} ELSE wire[e]]
  /\ admitted' = [e \in Edges |-> IF e \in edges THEN {} ELSE admitted[e]]

Disconnect(edges) ==
  /\ up' = up \ edges
  /\ fresh' = fresh \ edges
  /\ wire' = [e \in Edges |-> IF e \in edges THEN {} ELSE wire[e]]
  /\ admitted' = [e \in Edges |-> IF e \in edges THEN {} ELSE admitted[e]]

EdgesOf(n) == {e \in Edges : e[1] = n \/ e[2] = n}

Drop(n, m) ==
  /\ <<n, m>> \in up
  /\ drops < MaxDrops
  /\ drops' = drops + 1
  /\ Disconnect({<<n, m>>, <<m, n>>})
  /\ UNCHANGED <<db, ep, memory, now, crashes, history>>

(* What a restarted process comes back with: its store, and no memory.     *)
Restart(n) ==
  /\ crashes < MaxCrashes
  /\ crashes' = crashes + 1
  /\ gate' = [gate EXCEPT ![n] = NothingSeen]
  /\ forwarded' = [forwarded EXCEPT ![n] = [o \in Objects |-> 0]]
  /\ Disconnect(EdgesOf(n))
  /\ UNCHANGED <<ep, now, drops>>

Crash(n) == Restart(n) /\ UNCHANGED <<db, history>>

(* The process dies between two transactions of a handler.                 *)
CrashInChunk(n, m, rec) ==
  /\ TakesChunk(n, m, rec)
  /\ \E st \in {ChunkStored(n, m, rec), ChunkPruned(n, m, rec)} : Commit(n, st, {})
  /\ Restart(n)

CrashInAck(n, m, rec) ==
  /\ HoldsAck(n, m, rec)
  /\ Commit(n, AckHeld(n, m, rec), {})
  /\ Restart(n)

(* A new policy ends the sessions built on the old roster.                 *)
InstallPolicy(n) ==
  /\ db[n].epoch < MaxEpoch
  /\ db' = [db EXCEPT ![n].epoch = @ + 1]
  /\ Disconnect(EdgesOf(n))
  /\ UNCHANGED <<ep, memory, now, bounds, history>>

Tick ==
  /\ now < MaxTime
  /\ now' = now + 1
  /\ UNCHANGED <<db, ep, memory, links, bounds, history>>

Next ==
  \/ \E o \in Objects : Enqueue(o)
  \/ \E n, m \in Nodes :
       \/ LinkUp(n, m)
       \/ Authenticated(n, m)
       \/ Drop(n, m)
       \/ <<m, n>> \in Edges /\ \E rec \in wire[<<m, n>>] :
            \/ Receive(n, m, rec)
            \/ CrashInChunk(n, m, rec)
            \/ CrashInAck(n, m, rec)
  \/ \E n \in Nodes : Crash(n) \/ InstallPolicy(n)
  \/ Tick

Spec == Init /\ [][Next]_vars

(* The radios keep reconnecting neighbours, the host handles every frame   *)
(* that reached it, and a link that stays up delivers what it carries.     *)
Fairness ==
  \A e \in Edges :
    /\ WF_vars(LinkUp(e[1], e[2]))
    /\ WF_vars(Authenticated(e[1], e[2]))
    /\ WF_vars(\E rec \in wire[<<e[2], e[1]>>] : Receive(e[1], e[2], rec))

FairSpec == Spec /\ Fairness

-----------------------------------------------------------------------------
(* Every variable has its type.                                            *)
TypeOK ==
  /\ db \in [Nodes -> Stores]
  /\ ep \in [Objects -> 0 .. MaxEpoch]
  /\ forwarded \in [Nodes -> [Objects -> 0 .. MaxRelayHops]]
  /\ up \subseteq Edges
  /\ fresh \subseteq up
  /\ wire \in [Edges -> SUBSET Records]
  /\ admitted \in [Edges -> SUBSET Records]
  /\ now \in 0 .. MaxTime
  /\ drops \in 0 .. MaxDrops
  /\ crashes \in 0 .. MaxCrashes
  /\ shows \in [Objects \X Nodes -> Nat]
  /\ confirmed \subseteq Objects \X Nodes
  /\ released \subseteq Objects \X Nodes

Sent(o) == ep[o] # 0
Shown(o, n) == shows[<<o, n>>] > 0

(* The origin's progress never overstates delivery: a receipt it recorded  *)
(* stands for an object the target finalized, and it stops offering a live *)
(* object only when every target has.                                      *)
ConfirmedIsShown ==
  /\ \A p \in confirmed : Shown(p[1], p[2])
  /\ \A o \in Objects :
       (Sent(o) /\ Live(o, now) /\ o \notin db[Origin[o]].outbox) =>
         \A t \in Targets[o] : Shown(o, t)

(* A recipient stops repeating its receipt only after the origin recorded  *)
(* it; a relay gives up a receipt it holds only for such an acknowledgement*)
(* or at expiry.                                                           *)
ReleasedIsConfirmed ==
  /\ released \subseteq confirmed
  /\ \A n \in Nodes : \A h \in db[n].relayAcks : <<h.obj, h.actor>> \in confirmed

(* A relay drops receipt custody of a live object only when the origin has *)
(* recorded that very receipt.                                             *)
ReceiptCustodyKept ==
  [][\A n \in Nodes : \A h \in db[n].relayReceipts \ db'[n].relayReceipts :
       Live(h.obj, now) => <<h.obj, h.actor>> \in confirmed]_vars

(* An object becomes visible at most once per phone, crashes and repeated  *)
(* offers included, and only at its targets.                               *)
ShownOnce ==
  \A o \in Objects : \A n \in Nodes :
    /\ shows[<<o, n>>] <= 1
    /\ Shown(o, n) => Sent(o) /\ n \in Targets[o]

(* The mesh keeps the promises of Delivery.                                *)
Promise == INSTANCE Delivery WITH sent <- {o \in Objects : Sent(o)}
DeliversAsPromised == Promise!Spec

(* Relay custody is taken of whole, announced objects of other members,    *)
(* one custody per object, within the hop limit.                           *)
CustodyWhole ==
  \A n \in Nodes : \A r \in db[n].relay :
    /\ r.obj \in db[n].objects /\ Complete(db[n], r.obj)
    /\ Origin[r.obj] # n /\ r.from # n
    /\ r.hops <= HopLimit
    /\ \A q \in db[n].relay : q.obj = r.obj => q = r

(* What a relay puts on a link, while it lives, is an object in its        *)
(* custody, under the frame custody was taken with, and the link does not  *)
(* lead back to the neighbour that supplied it.                            *)
NeverReturned ==
  \A e \in Edges : \A rec \in wire[e] :
    (rec.kind \in {"ann", "chunk"} /\ Origin[rec.obj] # e[1] /\ Live(rec.obj, now)) =>
      \E r \in db[e[1]].relay : r.obj = rec.obj /\ r.hops = rec.hops /\ r.from # e[2]

(* Reconnecting drains the outbox: an object the origin still waits for is *)
(* put, whole, on every session that is up.                                *)
OutboxOffered ==
  \A e \in Open : \A o \in db[e[1]].outbox :
    Live(o, now) => Whole(o, 0) \subseteq admitted[e]

(* A recipient repeats its receipts on every session until the origin      *)
(* acknowledged them.                                                      *)
ReceiptsOffered ==
  \A e \in Open : ReceiptQueue(db[e[1]], e[1], now) \subseteq admitted[e]

(* An object in relay custody goes to every authenticated neighbour but    *)
(* the one that supplied it.                                               *)
CustodyOffered ==
  \A e \in Open : \A r \in db[e[1]].relay :
    (Live(r.obj, now) /\ r.from # e[2] /\ Verifies(db[e[1]], ep, r.obj)) =>
      Whole(r.obj, r.hops) \subseteq admitted[e]

(* Every object enqueued reaches every target and is confirmed by its      *)
(* origin, or expires.                                                     *)
Settles ==
  \A o \in Objects :
    Sent(o) ~> (o \notin db[Origin[o]].outbox \/ ~Live(o, now))

(* Every recipient is eventually released from repeating its receipt.      *)
Releases ==
  \A o \in Objects : \A t \in Nodes :
    Shown(o, t) ~> (<<o, t>> \in released \/ ~Live(o, now))
=============================================================================
