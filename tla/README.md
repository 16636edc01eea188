# Mesh Lab: specification and proofs

A TLA+ development of the part of Mesh Lab that has to be right when phones
restart, links drop and frames repeat: secure sessions, the reducers that
decide about frames, members and links, durable group delivery, group policy
and the runtime that applications talk to. Paths are relative to the repository
root (`src/` here).

## 1. The system

| Component | State | Operations | Talks to |
|---|---|---|---|
| Session (`crates/mesh-session`) | handshake step, deadline, roster, packet counter, replay window | start, write, read, finish, authentication, send, receive, close | the host, through the FFI session registry |
| Relay gate (`RelayCache`, `crates/mesh-replication`) | objects seen, with expiry and arrival time, in memory | accept | the host, before the store |
| Encrypted store (`crates/mesh-store`) | objects, chunks, outbox, relay custody, deliveries, receipts, acknowledgements, policy | one transaction per operation | the FFI boundary, under one lock |
| FFI boundary (`crates/mesh-ffi-c`) | registries of stores, sessions and gates, each under a lock of its own | `secure_store_*`, `relay_gate_*`, `secure_session_*` | hosts, from several threads |
| Host executor (`platforms/mesh_host`, Android and iOS) | links, per-session record history, forwarded frames | send, accept a payload, drain five queues, policy exchange, link upkeep | radios, FFI, application |
| Presence, transport selection, neighbour plan (`crates/mesh-replication`) | member table | observe, disconnect, expire, select, plan | not yet called by the hosts, except the neighbour plan |
| Logical messages (`mesh-store`, `enqueue_text`) | operations, logical messages and the objects of each | begin, reserve, commit, roll back, summarise | application, through the SDK |
| Policy and authority (`mesh-protocol`, `mesh-store`, FFI) | installed bundle, epoch | create, enrol, install, hand off, rotate | hosts exchange bundles |
| Runtime reducers (`crates/mesh-runtime`) | pending operations by stage | sender, receiver, session link, event ring | simulator and tests |
| Field SDK (`packages/mesh_field_sdk`) | pending actions, polling | send, poll, reconcile | application |

What makes each part correct:

- Session: both ends are in one scope (group and epoch); data only after both
  have proved themselves; a number is sealed and accepted at most once.
- FFI registries: a handle never leads to a later store or session, whatever
  other threads do between the locks of one call.
- Relay gate: a live object is forwarded at most once; the table stays bounded.
- Store, FFI and host together: an object is shown once to each target, receipts
  and acknowledgements are true, custody is whole and bounded in hops, and what
  is still owed is offered again on every reconnection until it expires.
- Presence, overlay and transports: the table stays bounded, loses no fresh path
  and lets no older claim undo a newer route; plans computed apart agree and
  reach the group; audiences cover the members; the selected link works and does
  not flap.
- Logical messages: a repeated operation finds the first one's result, a failed
  one leaves nothing behind, summaries agree with the receipts.
- Policy: one policy per authority and epoch, and nobody ahead of its authority.
- Runtime reducers: no step is reported before the one it depends on; the event
  ring says when it lost events.
- Field SDK: an action is reported settled only when the store says so.

What is hard here: every phone is a separate process with a durable store and a
memory that does not survive it; a host handler runs several transactions and
then writes to radios; the only retry is the drain on a newly authenticated
link; the same record reaches a phone over several routes and after restarts;
and policies change while objects, receipts and acknowledgements of the old one
are still on their way. `PROJECT.json` lists each such place with its line
(`hazards`) and the properties that watch it.

## 2. Modules

| Module | Models |
|---|---|
| `Session` | both ends of one session |
| `SessionRegistry` | the FFI registries of stores and sessions, used by several threads |
| `RelayGate` | the gate's table and its decision, as operators |
| `RelayCache` | one gate on its own: frames, the clock, the gate reopened |
| `Presence` | one phone's table of reachable members |
| `Transport` | the choice of a bearer over the life of an object |
| `OverlayPlan` | neighbour plan and audiences, as operators on a roster |
| `Overlay` | the plans of all members while the roster changes |
| `Replication` | presence, transport, overlay and flood side by side, as the proofs and TLC take them |
| `RelayTopology` | one frame flooding the overlay, the simulator's partition included; uses `OverlayPlan` and `RelayGate` |
| `SecureStore` | one store: each transaction and each queue of durable delivery, as operators on a record of its tables |
| `DurableMesh` | phones (store, gate, host executor) and the sessions between them; extends `SecureStore` and `RelayGate` |
| `Delivery` | what durable delivery promises, without phones or links |
| `Enqueue` | `enqueue_text` transaction by transaction; uses `OverlayPlan` |
| `Authority` | founding, enrolment, handoff and installation of policies across phones |
| `DurableSender`, `DurableReceiver` | the reducers of `mesh-runtime` with the store behind them |
| `EventRing` | the diagnostic runtime and the application's view of it |
| `Runtime` | the three reducers side by side |
| `MCSession`, `MCReplication`, `MCDurableMesh`, `MCEnqueue`, `MCAuthority`, `MCRuntime` | instances for TLC |
| `SessionProofs`, `SessionRegistryProofs`, `RelayCacheProofs`, `ReplicationProofs`, `DurableMeshProofs`, `EnqueueProofs`, `AuthorityProofs`, `RuntimeProofs` | theorems |

Components that share no state are instantiated in one MC module: a behaviour
exercises the component that `part` names and leaves the others where they
began. Definitions marked "Mutant" are plausible bugs of the operator next to
them; no specification uses them, they show that a property notices.

### Session and its registries

Two roles with their own clock, installed roster and expectation of the peer's
identity. `wire` is the set of all frames ever emitted, so a frame may be lost,
late, repeated or reordered. Noise is external: a frame decrypts only at the
other end, under the prologue (group, epoch) it was made with, and under the
number it was sealed with. `Write`, `Read`, `Finish`, `Authentication`, `Send`,
`ReceiveProof`, `ReceiveData` are the methods with the checks at their head;
`HandshakeExpires` and `SessionLapses` are the calls that fail those checks and
drop the keys. The replay bitmap is the set of its one positions.

`SessionRegistry` is the layer through which threads reach a session. A call is
three steps, one per lock: `Locate` finds the session's store handle,
`ReadRoster` asks that store for its verified roster, `Apply` acts on the
session, which meanwhile may be gone; a start is `SessionStart` and `Insert`. Other
threads open and release stores and sessions and install policies in between.
`used` records what the last call that acted was called for, what it acted on
and which rosters were installed while it ran.

### Replication

In `RelayCache`, `seen` is the `BTreeMap`, keyed by author and relay id.
`Decision` is the result of `accept` and `SeenAfter` its effect: expired entries
go first, a forwarded frame is reserved, and a full table evicts the entry with
the smallest (expiry, arrival), which `evicted` remembers.

`Presence` has one action per call of `PresenceTable`. A signed heartbeat is
authenticated before it becomes a claim and loses its expiry there, so an old
one can be replayed for as long as it lives. It carries no time of signing, and
nothing but the roster's end limits its expiry (`sign_presence`). `heard` is the
history of claims about a member since the table last forgot it. The clock
(`time`) is the host's and may be set back (`ClockBack`).

`Transport` lets adapters report and withdraw links between attempts, each of
which calls `SelectTransport` with the bearer of the one before. `OverlayPlan`
is `neighbor_plan` and `broadcast_audiences` over members ordered by number, as
the code orders identifiers; `Overlay` evaluates it for every member under
rosters that grow by enrolment; no code removes a member. In `RelayTopology`
copies of a frame are tasks with a turn; a behaviour serves them in the
simulator's order or in any order.

### Durable delivery

`SecureStore` keeps one record field per table (or pair of tables written
together). An object is a number, ordered like identifiers; its manifest is
given by constants. `ep[o]` is the epoch of the roster its announcement was
signed under, and everything signed about `o` verifies under that roster only:
that is what `authenticated_announcement` and `verify_receipt_ack` check.
`OutboxRecords`, `RelayRecords` and the others are what the slot-by-slot drains
of the host read, with the behaviour the slots have when a record cannot be
produced (the whole drain is abandoned). A turn of a drain ends after
`MaxOriginSlots` records (`maxDurableOriginSlots`, 520): `OutboxQueue` and
`ReceiptQueue` are the queues in full, `InTurn` says which of their records a
turn reaches, in the order the store lists them (`OutboxOrder`, latest message
first; object, then `MemberOrder`; `Digest`). The 65 slots of a relay drain hold
any one object and it reads only one, so they never bind.

`DurableMesh` has one action per host handler. `Receive...` is
`acceptRoutedPayload`: gate, store, finalization, drains. `Discard` is the same
handler when the gate stops the frame or the store refuses it, which happens
after the gate has already remembered it. `Authenticated` is the first
authenticated frame of a session and the drains it starts. `Restart` loses the
gate, the forwarded frames and the links; `CrashInChunk` and `CrashInAck` stop
a handler between its transactions. A link carries a set of records, delivers
each at most once and keeps announcements before their chunks
(`DurableRecordHistory` puts fresh batches before the unsent tail, each batch in
order). Not represented: the 8192-entry limit of that history, far above what the
instances hold; clock differences between phones; an object of several
audiences, which is several objects here; a crash after the commit of a
finalization and before its text is queued for the application.

`shows`, `confirmed` and `released` are history variables: what was handed to
the screen, what an origin ever recorded and what a recipient ever recorded.
They survive expiry, which the tables do not.

### Enqueue

A call holds the registry lock throughout but commits several transactions:
`Start` (policy, prune, what the summary already knows), `Rollback` of an
earlier attempt, `Begin`, then `Reserve` and `Commit` per audience, or `Undo`
when one fails. `Crash` may stop it between any two. Between calls radios drain
the outbox (`Drain`), members show what reached them and their receipts return.
`State` is the delivery summary. `accepted`, `sent` and `shown` are history.

### Policy and authority

Policies, enrolment requests and handoffs are public records: once made they
may be installed anywhere, at any time, repeatedly or never. A signature is the
identity of its maker and a roster digest is the policy it is computed from.
`Installable` is what the store demands of a bundle, with or without a handoff
beside it; `IssueEnrollment`, `PrepareHandoff`, `RotateAuthority` and the two
installations are the FFI calls with all of their checks.

### Runtime

`DurableSender` and `DurableReceiver` run between the application and a host
that executes `effects` against the store in any order, repeats results and may
report a commit as failed although it took place. A restart makes a new
incarnation whose tokens start at 1 again; the store is pruned at any time.
`EventRing` is the serial native executor with its bounded ring, seen by an
application that refreshes, verifies, recovers lost answers and is relaunched.
Two branches are left out. The host protects the message it was given, so the
`Conflict` of `protected` for another one (`durable.rs:289-298`), which keeps
the pending place, is not taken; and the native runtime lives as long as its
process, so the application never meets a different one
(`lab_controller.dart:917-918, 945`).

## 3. Runs

| Run | Instance | Checks |
|---|---|---|
| `session` | two rosters, clocks over small times, window 2, four packets (the limit) in every order; registry with one place for a store and one for a session, two threads | scopes agree, data only after mutual proof, authentication in time, numbers sealed and accepted once, window exact, calls keep to their session |
| `replication` | a gate for 2 of 4 keys; a presence table for 2 of 3 members, one direct, the clock set back once; all rosters of up to 7 of 8 members; every even group from 4 to 50; two links | one forward per live object unless evicted, earliest expiry evicted, presence bounded, no route undone by an older claim and no fresh path lost, plans agree, audiences partition, the flood reaches everybody, sound and steady bearers |
| `mesh_line` | a-b-c, two chunks, two drops, one crash, expiry, fair | shown once, custody whole, outbox and custody offered after reconnection, every object leaves its outbox |
| `mesh_audience` | a-b-c, both targets, one crash, one policy change, expiry | receipts and acknowledgements are true and kept |
| `mesh_triangle` | a-b-c-a, one crash | refinement of `Delivery`, custody never returned or doubled |
| `enqueue` | two messages of up to two audiences, an object table one short, sequence numbers that run out, three epochs, one crash | summaries are true, what was accepted is kept, sequence numbers used once |
| `authority` | three phones, two groups, three requests, two handoffs, policies that expire | one policy per authority and epoch, nobody ahead of its authority, rosters diverge only through a handoff |
| `runtime` | two commands of one operation across a restart; three for two slots; two receptions; a ring of two events | accepted and received mean durable, history without gaps, every send answered |
| `mesh_acklost` | a-b-c, one crash, fair | **violated**: a recipient is never released |
| `mesh_queue` | two objects in custody | **violated**: the second is not offered |
| `mesh_policy` | a policy change with an object in the outbox | **violated**: the object is not offered again |
| `enqueue_rollback` | one message of two audiences, one crash | **violated**: a rollback deletes what has left the phone |

The violated runs are disagreements between the code and what it says about
itself; `PROJECT.json` quotes both sides under `findings`.

**Bounds.** Three phones are the least for which origin, relay and target
differ; the triangle adds a second route. One crash suffices to separate any two
transactions and a second drop to lose what the first reconnection sent. Two
chunks separate partial from whole custody; where no property tells them apart
one chunk is used. In the mesh expiry is at time 1, so `MaxTime = 1` includes it
and `MaxTime = 0` stays before it. Window and packet limit of a session are
scaled so that every distance (inside, at and beyond the window) occurs; the
proofs remove those bounds. Tables (gate, presence, objects, operations, slots,
ring, registries) are one short of what the instance can ask for, so that each
is met full. In the mesh the slots of a turn are exactly what the largest queue
needs. Two messages let one fail for want of room beside the other; three epochs
let a roster change and change back. Two handoffs let the authority return to
its first holder. In the registry one handle of each kind can be released and
taken again while two threads are in the middle of a call.

Deadlock is not checked: every instance ends when its clock, crash and counter
bounds are used up and all is delivered, answered or expired.

**Fairness.** In the mesh (`DurableMesh!Fairness`): neighbours within range are
reconnected (scanning and advertising restart on every loss), a session that is
up authenticates, and the host handles every frame its link delivers. In the
sender (`DurableSender!Fairness`): the host executes every effect it was given
and hands every result to the reducer, which is its contract with it. Nothing
is assumed about crashes, drops, policies, prunes or the clock, which may stay
still: `Settles` and `Releases` speak of objects that have not expired, and
`SendAnswered` counts a restart, which forgets all sends, as an answer.

**Conditions the properties state.** Where the code gives less than its comments
suggest, the property says so:

- `AtMostOneForward` leaves out keys a full gate evicted; the comment on
  `RelayCache` makes no such exception.
- The bound on direct neighbours holds for a clock that was not set back; one that
  was can make an earlier link fresh again beside the neighbours admitted since.
- `StaleStaysGone` speaks of a member for as long as the table remembers it. The
  comment on `observe_relay` ("stale claims cannot resurrect a member") has no
  such limit, but the version is forgotten with the entry: a heartbeat that
  outlives `PRESENCE_TTL` is still authentic then and brings the member back,
  under a version older than one observed before.
- `OutboxOffered` and `ReceiptsOffered` hold for queues that one turn of a drain
  can read. Of a longer one the rest stays in the store, and a record that moves
  up as others are confirmed is sent by the next drain of that queue: after an
  enqueue or a reception, or on a new link.
- `ReachesEveryMember` is about even rosters served in order, as the simulator
  does, and about any order only where the group is no larger than the hop
  budget. Odd rosters have no chord and, from 35 members on, lie partly beyond
  it.
- `ForkTakesHandoff`: a former authority that has signed a handoff can still
  enrol, so two rosters for one group and epoch are possible from then on.

## 4. Proofs

Each invariant and action property that a passing run checks is also proved for
every value of the constants that the named assumptions admit; what is left to
TLC is liveness. Assumptions that belong to a component are named in its module
(`ASSUME`, evaluated by TLC in every run); the rest are hypotheses of the
theorem that needs them, and hold in the instances that TLC checks unless said
otherwise.

### Sessions

`SessionProofs`. For any window, packet limit, clocks and rosters: type
correctness, `AcceptOnce`, `NonceFresh`, `ReplayExact`, `SameScope`,
`DataAfterMutualProof`, `AuthenticatedInTime`. None is inductive. `WindowInv`
ties the bitmap and the highest number to the history of accepted numbers, which
is what a shift must preserve; `CounterInv` keeps the packet counter ahead of
every number used; `WireInv` and `ProofInv` say what a packet on the wire tells
about its sender; `ScopeInv` does the same for a handshake message and the scope
it was made in. `AuthenticatedInTime` needs only that no proof of identity leaves
before the handshake is finished (`ProofsFollow`).

`SessionRegistryProofs`. `CallsKeepTheirSession` for any number of threads,
handles and policies, if the registries' limit is a natural number. The argument
is that handles only grow: `HandlesGrow` keeps every handle in a registry, in a
session or in a call below the next one, so a handle that was released is never
given out again, and what a call read under its first lock is, under its last,
either gone or the same (`SessionsKeepStore`, `StartsKeepStore`,
`CallsKeepSession`).

### Replication

`RelayCacheProofs`. For any number of members, places and times: types, the gate
keeps its bound and forwards a key once more only after it evicted it
(`GateForwardsOnce`), a gate with room for every key evicts none
(`GateWithRoomKeepsAll`), and what it evicts goes before everything that stays
(`GateEvictsEarliest`). The invariant: a forwarded key that was not evicted is
remembered until its frames expire.

`ReplicationProofs`. `Presence`: bounds, `StaleStaysGone` and `NoSilentLoss`, for
any roster, heartbeats of any lifetime and clocks, if the limits are natural
numbers (`Limits`). `Current`, which holds whatever the clock does, says that a
member's route is the newest and shortest claim of it heard since the table last
forgot it, and that without a route none was heard. `Steady`, which holds until
the clock is set back, says that no time in the table is ahead of the clock and
that the direct limit is kept. `Overlay`:
plans are symmetric and audiences a partition for every roster of integers,
through `Ranks` (members numbered in order) and `Turns` (the arithmetic of the
ring), by which each plan is a statement about places. `Transport`: the order of
links has a first (`FirstLink`), so the choice is among the reported links and
the fastest of them.

`RelayTopology`: `FloodReachesEveryMember`, under `OrderedAssumption`,
`AnyOrderAssumption` and `ReunionsAssumption`, which give
even groups of up to `4 * MaxRelayHops - 4` members served in order (60, with the
16 hops of the code, which admits 50 members), any of them the origin, and groups
of up to `MaxRelayHops + 1` served in any order; the halves may meet again at any
time before the frame expires. That the frame reaches everybody once the queue is
empty needs that a copy is on its way over every edge from a member that has it to
one that has not (`Frontier`): then an empty queue leaves no such edge, and
`Connected` leaves nobody out. `Frontier` survives a step only if a member's first
copy is never dropped for its hops, and that is the argument:

- In any order, a copy has made no more hops than there are members to have
  passed it on (`InAnyOrder`).
- In order, the queue holds tasks of one round and the next (`InRounds`), where
  a hop takes a round and so does waiting for the reunion, which a copy does at
  most once. `Expected(m)` is the round by which `m` should have the frame: its
  distance over the ring and the chords, one more if the way leads through the
  other half. `Nearer` is the arithmetic: `Expected` is within the hop budget,
  and each member has a neighbour that expects the frame early enough to pass it
  on. `Frontier` bounds each copy by what its sender expects, and `InTime`
  follows: among the members still without the frame, one with the least
  `Expected` has a copy on its way that is due by then, and the copy served
  first is due no later, whoever it is for.

### Durable delivery

`DurableMeshProofs`. For any phones, links, objects, chunks, hop limit, drops,
crashes and policies: type correctness, `ShownOnce`, `ConfirmedIsShown`,
`ReleasedIsConfirmed`, and that the mesh implements `Delivery`. The
argument is one of evidence. A receipt stands for content that was shown and an
acknowledgement for a receipt the origin recorded, but between the phone that
makes one and the phone that records it lie links and the custody of relays, so
none of the properties is inductive. `MeshInv` says where evidence may be:

| Conjunct | Says |
|---|---|
| `TypeOK`, `EpochsInstalled` | types, and every store has a policy |
| `Backed` | each table of each store is backed by the history |
| `WireBacked` | so is each record on each link |
| `KeepsDelivered` | what was shown is remembered until it expires, which is what stops a second showing |
| `KeepsOutbox` | an unexpired object leaves the outbox only when its targets have confirmed it |

`Justified` is the middle of the proof: the stores a transaction may commit.
Each transaction of `SecureStore` has a lemma that it stays justified, and
`HandlerBacked` and `RestartBacked` turn a justified store into the invariant
after a whole handler, with its drains, or one cut off by a crash. For the
refinement, `Delivery`'s `sent` is the set of sealed objects and its other
variables are the history; `OneVisible` shows that a handler finalizes
one object at most, so that a step of the mesh is one step of `Delivery`.

Custody has an invariant of its own, `CarryInv`: what a relay holds is whole,
from another phone, within the hop limit and under one route (`Sound`); a frame
kept for the chunks to come passed the gate (`ForwardedSound`); and what is on a
link was not sent back where it came from. From it follow `CustodyWhole` and
`NeverReturned`, and with the transactions' effect on the custody of receipts
`ReceiptCustodyKept`.

The offers (`ReceiptsOffered`, `OutboxOffered`, `CustodyOffered`) are one
invariant, `AllOffered`: what a store owes a neighbour (`Due`) was put on every
session open to it. A transaction may only owe more if the handler's drains
offer it. `ReceiptsFit` and `OutboxFits`, hypotheses of the theorems about
receipts and outbox, say that at every time the queues have no more records than
one turn drains; a record of such a queue always has its turn (`FitsInTurn`).
The parameter `w` of `Due` names the queues for which this is assumed, none for
custody. Receipts are then always owed. The outbox is owed while everything the
phone ever sealed verifies under its present policy (`SealedNow`), since one
object that does not makes `outbox_record` give up (`MeshSealedOutboxOffered`).
Of the objects in custody the first is owed (`MeshFirstCustodyOffered`), while
no object that would come before it has expired: when one does, the next moves
up, and is offered at the next drain only. `OutboxOffered` and `CustodyOffered`
follow where there is one policy (`OneRoster`) and one object (`OneObject`);
`mesh_policy` and `mesh_queue` violate them beyond that. The other assumptions
are those of `SecureStore`, `RelayGate` and `DurableMesh` about their constants.

### Logical messages, policies, runtime

`EnqueueProofs`. `SequenceOnce`, `AcceptedIsKept` and `DeliveredIsShown`, for any
messages, rosters, lifetimes and limits under `EnqueueAssumption`. `StoreInv` is
what the tables say between transactions: objects of a message have disjoint
audiences and the expiry of its row (`Linked`, `Disjoint`), the row counts at
least what is committed and exactly that once the call was accepted (`Counted`),
an accepted message stays whole until it expires (`Complete`). `CallInv` is what
a call has written so far: the first n of its audiences. A crash leaves
`StoreInv` alone and ends the call, which is why both parts are needed.

`AuthorityProofs`. `OnePolicyPerEpoch`, `AuthorityLeads`, `ForkTakesHandoff` and
`EpochsAdvance`, for any phones and groups. All steps that write a policy go
through one lemma, `StoreStep`: what is written exists already, or is signed by
the phone itself for an epoch beyond its own; since nobody is ahead of its
authority, the second kind cannot meet another policy of that epoch.
`FounderUnlessHandedOver` (whoever signs for a group it did not found was handed
it in an earlier epoch) makes the fork property inductive.

`RuntimeProofs`. `ReceivedIsDurable` and `AcceptedIsDurable` for any commands and
arrivals whose expiry is a natural number, and `HistoryExact` for any ring size
and clocks. The receiver needs that results on their way are true
(`ResultsTrue`) and signed receipts kept until they expire. The sender needs in
addition that a token names one command for good (`TokensOnce`), across
restarts that count from 1 again. The ring needs that it ends at the sequence
number without a gap, and that the application is behind it by one event at most,
and then only while its last request is unanswered (`ClientInv`).

### Only model-checked

Liveness (`Settles`, `Releases`, `SendAnswered`), which is beyond the prover.

## 5. Not modelled

- Cryptographic primitives, sealing and manifests, canonical encodings: a record
  either verifies or does not, which the models take as given.
- The C entry points around the operations modelled here (argument checks and
  buffers), JNI and the generated bindings: conversion without state.
- BLE and Wi-Fi Aware mechanics (write queue, fragments, heartbeats, sockets):
  radio APIs; the links of `DurableMesh` stand for what they provide. The same
  holds for the policy exchange, whose records `Authority` delivers in any order.
- The iOS executor, which follows the Android one, and the legacy voice path.
- The Field SDK, which polls and shows the summaries `Enqueue` defines, and the
  application's screens.
- The session link reducer (`link.rs`), which only tests use, and the
  unauthenticated object path of the store, which only the synthetic harness
  calls.
- Times above `MAX_LOGICAL_TIME`, which the reducers refuse (`RelayCache::valid`):
  clocks and expiries stay below it.
- The transfer budget (`plan`), statistics and the simulator's codec exercises:
  computations without state of their own.

## 6. Plan

1. The record history of the Android executor as the sequence it is, shown to
   implement the link of `DurableMesh`.
2. The flood over odd rosters, which the simulator refuses and `neighbor_plan`
   admits: how far it reaches along the ring alone.
