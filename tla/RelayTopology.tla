---------------------------- MODULE RelayTopology ---------------------------
(***************************************************************************)
(* run_relay_topology_with_partition of crates/mesh-sim: one frame floods  *)
(* the planned overlay of a group, each member's RelayCache deciding       *)
(* whether to pass it on.  The simulator delivers in the order of its      *)
(* queue; radios need not, so a behaviour fixes at its start whether the   *)
(* queue is served in order.                                               *)
(***************************************************************************)
EXTENDS RelayGate, OverlayPlan

CONSTANTS
  OrderedSizes,    \* sizes of the groups served in order
  AnyOrderSizes,   \* sizes of the groups served in any order
  Origins,         \* the members that send
  Reunions         \* partition_until: when edges between the halves return

(* Groups the hop budget is meant for, reunited while the frame lives.     *)
ASSUME OrderedAssumption ==
  \A n \in OrderedSizes : n \in 4 .. 4 * MaxRelayHops - 4 /\ n % 2 = 0 /\ Origins \subseteq 0 .. n - 1
ASSUME AnyOrderAssumption == AnyOrderSizes \subseteq 1 .. MaxRelayHops + 1
ASSUME ReunionsAssumption == \A u \in Reunions : u \in Nat /\ u < 10000

VARIABLES
  group,      \* nodes, origin, partition_until and whether delivery is in order
  caches,     \* caches[m]: what member m's gate remembers
  queue,      \* tasks: a frame on its way from via to target, with its turn
  turn,       \* the next turn
  delivered   \* members whose gate forwarded the frame

topology == <<group, caches, queue, turn, delivered>>

Nodes == 0 .. group.nodes - 1
Half(m) == m < group.nodes \div 2

FirstFrame ==
  [origin |-> group.origin, id |-> 1, previous_hop |-> group.origin,
   hops |-> 0, hop_limit |-> MaxRelayHops, expires_at |-> 10000]

(* One task per target, in the order of the targets; turns only tell tasks *)
(* apart where the order matters.                                          *)
Tasks(targets, via, frame, at, first) ==
  {[target |-> t, via |-> via, frame |-> frame, at |-> at,
    turn |-> IF group.ordered THEN first + Rank(t, targets) ELSE 0] : t \in targets}

TopologyInit ==
  /\ group \in
       [nodes : OrderedSizes, origin : Origins, partition_until : Reunions, ordered : {TRUE}]
       \cup
       [nodes : AnyOrderSizes, origin : {0}, partition_until : {0}, ordered : {FALSE}]
  /\ caches = [m \in Nodes |-> NothingSeen]
  /\ queue = Tasks(Neighbors(group.origin, Nodes), group.origin, FirstFrame, 1, 0)
  /\ turn = Cardinality(queue)
  /\ delivered = {}

Served(task) == \A other \in queue : task.turn <= other.turn

Absent(task) == task.at < group.partition_until /\ Half(task.target) # Half(task.via)

(* A write over an absent edge stays in the sender's queue.                *)
Defer(task) ==
  /\ Absent(task)
  /\ queue' = (queue \ {task}) \cup {[task EXCEPT !.at = group.partition_until, !.turn = turn]}
  /\ turn' = turn + 1
  /\ UNCHANGED <<group, caches, delivered>>

(* The origin has the object already.                                      *)
Return(task) ==
  /\ ~Absent(task)
  /\ task.target = group.origin
  /\ queue' = queue \ {task}
  /\ UNCHANGED <<group, caches, turn, delivered>>

Arrive(task) ==
  LET me == task.target
      decision == Decision(caches[me], me, task.frame, task.via, task.at)
      next == Neighbors(me, Nodes) \ {task.via}
  IN  /\ ~Absent(task)
      /\ me # group.origin
      /\ caches' = [caches EXCEPT ![me] = SeenAfter(@, task.frame, decision, task.at)]
      /\ IF decision = "Forward"
         THEN /\ delivered' = delivered \cup {me}
              /\ queue' = (queue \ {task})
                          \cup Tasks(next, me, Forwarded(me, task.frame), task.at, turn)
              /\ turn' = IF group.ordered THEN turn + Cardinality(next) ELSE turn
         ELSE /\ queue' = queue \ {task}
              /\ UNCHANGED <<turn, delivered>>
      /\ UNCHANGED group

TopologyNext == \E task \in queue : Served(task) /\ (Defer(task) \/ Return(task) \/ Arrive(task))

TopologySpec == TopologyInit /\ [][TopologyNext]_topology

-----------------------------------------------------------------------------
(* When no copy is left on its way, every member but the origin has had    *)
(* the frame: "relay topology did not reach every member within hop        *)
(* budget" is never reported, with or without a partition, for any even    *)
(* roster served in order, and in any order where the group is no larger   *)
(* than the hop budget.                                                    *)
ReachesEveryMember == queue = {} => delivered = Nodes \ {group.origin}
=============================================================================
