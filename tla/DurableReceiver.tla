-------------------------- MODULE DurableReceiver ---------------------------
(***************************************************************************)
(* The authenticated-receive reducer (crates/mesh-runtime, reception.rs)   *)
(* between the transfer, which starts it for an object, and the native     *)
(* host, which executes its effects against the store.  As with the        *)
(* sender, a result may arrive late, twice, or at another incarnation.     *)
(***************************************************************************)
EXTENDS Integers, FiniteSets, SequencesExt

CONSTANTS
  Arriving,            \* objects addressed to this member, with their expiry
  MaxPendingReceives,  \* MAX_PENDING_RECEIVES
  MaxTokens,           \* bound on the tokens of one incarnation
  MaxIncarnations,     \* bound on the restarts of the reducer
  MaxRepeats,          \* bound on the results delivered twice
  MaxTime              \* bound on the clock

VARIABLES
  incarnation, next, pending,     \* DurableReceiver
  effects, callbacks, repeats,    \* the host, as in DurableSender
  stored,       \* objects of the store with all their chunks
  receipts,     \* auth_deliveries: objects and the receipts signed for them
  now,
  signed,       \* history: every receipt ever committed
  received      \* history: the Received events

reducer == <<incarnation, next, pending>>
host == <<effects, callbacks, repeats>>
store == <<stored, receipts>>
vars == <<reducer, host, store, now, signed, received>>

Put(table, key, value) ==
  [k \in DOMAIN table \cup {key} |-> IF k = key THEN value ELSE table[k]]
Drop(table, keys) == [k \in DOMAIN table \ keys |-> table[k]]

Init ==
  /\ incarnation = 1 /\ next = 1 /\ pending = [k \in {} |-> 0]
  /\ effects = <<>> /\ callbacks = {} /\ repeats = 0
  /\ stored = {} /\ receipts = {}
  /\ now = 0 /\ signed = {} /\ received = {}

Token == [incarnation |-> incarnation, sequence |-> next]

Locate(token, phases) ==
  {o \in DOMAIN pending : pending[o].token = token /\ pending[o].phase \in phases}

(* The phase in which each result is expected.                             *)
Phases(kind) ==
  CASE kind = "inspected" -> {"Inspecting"}
    [] kind = "verified"  -> {"Verifying"}
    [] kind = "committed" -> {"Committing"}
    [] OTHER              -> {"Inspecting", "Verifying", "Committing"}

(* The object enters a phase, and the effect of that phase goes out under  *)
(* a new token.                                                            *)
Enter(object, phase, effect) ==
  /\ next' = next + 1
  /\ pending' = Put(pending, object, [token |-> Token, phase |-> phase])
  /\ effects' = Append(effects, [kind |-> effect, token |-> Token, object |-> object])
  /\ UNCHANGED <<incarnation, received>>

Start(object) ==
  /\ object \notin DOMAIN pending
  /\ Cardinality(DOMAIN pending) < MaxPendingReceives
  /\ next < MaxTokens
  /\ Enter(object, "Inspecting", "Inspect")
  /\ UNCHANGED <<callbacks, repeats, store, now, signed>>

Received(object) ==
  /\ pending' = Drop(pending, {object})
  /\ received' = received \cup {object}
  /\ UNCHANGED <<incarnation, next, effects>>

Failed(object) ==
  /\ pending' = Drop(pending, {object})
  /\ UNCHANGED <<incarnation, next, effects, received>>

Ignored == UNCHANGED <<reducer, effects, received>>

(* inspected: a receipt found is the end of it, even after expiry.         *)
Inspected(object, c) ==
  IF ~c.found THEN Enter(object, "Verifying", "Verify")
  ELSE IF c.object = object THEN Received(object)
  ELSE Ignored

Verified(object, c) ==
  IF c.object = object THEN Enter(object, "Committing", "Commit") ELSE Ignored

Committed(object, c) == IF c.object = object THEN Received(object) ELSE Ignored

(* The host calls back; the result may be delivered again later.           *)
Callback(c) ==
  /\ \/ callbacks' = callbacks \ {c} /\ UNCHANGED repeats
     \/ repeats < MaxRepeats /\ repeats' = repeats + 1 /\ UNCHANGED callbacks
  /\ IF Locate(c.token, Phases(c.kind)) = {}
     THEN Ignored
     ELSE \E o \in Locate(c.token, Phases(c.kind)) :
            \/ c.kind = "inspected" /\ Inspected(o, c)
            \/ c.kind = "verified" /\ Verified(o, c)
            \/ c.kind = "committed" /\ Committed(o, c)
            \/ c.kind = "failed" /\ Failed(o)
  /\ UNCHANGED <<store, now, signed>>

-----------------------------------------------------------------------------
Result(e, kind, found) == [kind |-> kind, token |-> e.token, object |-> e.object, found |-> found]
HasReceipt(object) == \E r \in receipts : r.object = object
Live(object) == object.expires_at > now

(* Mutant: a receipt is signed although there is one.                      *)
FinalizeAgain(e) ==
  IF e.object \in stored /\ Live(e.object)
  THEN receipts' = receipts \cup {[object |-> e.object, by |-> e.token]}
  ELSE UNCHANGED receipts

(* finalize_received: an existing receipt is returned as it is; a new one  *)
(* needs the live object.                                                  *)
FinalizeReceived(e) ==
  IF e.object \in stored /\ ~HasReceipt(e.object) /\ Live(e.object)
  THEN receipts' = receipts \cup {[object |-> e.object, by |-> e.token]}
  ELSE UNCHANGED receipts

(* What the store answers, and an I/O failure in its stead, which may      *)
(* follow the transaction or prevent it.                                   *)
Execute(k) ==
  /\ \A j \in 1 .. k - 1 : effects[j].token.incarnation # effects[k].token.incarnation
  /\ effects' = RemoveAt(effects, k)
  /\ LET e == effects[k]
         done == \/ e.kind = "Inspect"
                 \/ e.kind = "Verify" /\ e.object \in stored /\ Live(e.object)
                 \/ e.kind = "Commit" /\ e.object \in stored /\ \E r \in receipts' : r.object = e.object
         result == CASE e.kind = "Inspect" -> Result(e, "inspected", HasReceipt(e.object))
                     [] e.kind = "Verify" -> Result(e, "verified", FALSE)
                     [] OTHER -> Result(e, "committed", FALSE)
     IN  /\ \/ e.kind = "Commit" /\ FinalizeReceived(e)
            \/ UNCHANGED receipts
         /\ callbacks' \in {callbacks \cup {r} : r \in {Result(e, "failed", FALSE)} \cup
                              IF done THEN {result} ELSE {}}
  /\ signed' = signed \cup receipts'
  /\ UNCHANGED <<reducer, repeats, stored, now, received>>

(* The last chunk of an object arrives.                                    *)
Store(object) ==
  /\ object \notin stored
  /\ Live(object)
  /\ stored' = stored \cup {object}
  /\ UNCHANGED <<reducer, host, receipts, now, signed, received>>

PruneExpired ==
  /\ stored' = {o \in stored : Live(o)}
  /\ receipts' = {r \in receipts : Live(r.object)}
  /\ UNCHANGED <<reducer, host, now, signed, received>>

(* The host replaces the reducer.  Its work in flight goes on.             *)
Restart ==
  /\ incarnation < MaxIncarnations
  /\ incarnation' = incarnation + 1
  /\ next' = 1
  /\ pending' = Drop(pending, DOMAIN pending)
  /\ UNCHANGED <<host, store, now, signed, received>>

Tick ==
  /\ now < MaxTime
  /\ now' = now + 1
  /\ UNCHANGED <<reducer, host, store, signed, received>>

Next ==
  \/ \E object \in Arriving : Start(object) \/ Store(object)
  \/ \E c \in callbacks : Callback(c)
  \/ \E k \in DOMAIN effects : Execute(k)
  \/ PruneExpired \/ Restart \/ Tick

Spec == Init /\ [][Next]_vars

-----------------------------------------------------------------------------
(* An object is reported as received only after a receipt for it was       *)
(* committed, and no object is ever given two receipts, although every     *)
(* step may be repeated by another incarnation: "A completed chunk         *)
(* transfer is never a delivery callback".                                 *)
ReceivedIsDurable ==
  /\ \A object \in received : \E r \in signed : r.object = object
  /\ \A r, s \in signed : r.object = s.object => r = s
=============================================================================
