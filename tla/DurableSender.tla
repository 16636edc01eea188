--------------------------- MODULE DurableSender ----------------------------
(***************************************************************************)
(* The durable-send reducer (crates/mesh-runtime, durable.rs) between the  *)
(* application, which starts commands, and the native host, which executes *)
(* one effect after another against the store and feeds the results back.  *)
(* A result may arrive late, twice, or after the reducer was replaced by a *)
(* new incarnation; the store may be pruned at any time.                   *)
(***************************************************************************)
EXTENDS Integers, FiniteSets, SequencesExt

CONSTANTS
  Commands,         \* what send requests say: operation, digest, expires_at
  MaxPendingSends,  \* MAX_PENDING_SENDS
  MaxOperations,    \* limits.operations of the store
  MaxTokens,        \* bound on the tokens of one incarnation
  MaxIncarnations,  \* bound on the restarts of the reducer
  MaxRepeats,       \* bound on the results delivered twice
  MaxTime           \* bound on the clock

VARIABLES
  incarnation, next_token, pending,  \* DurableSender
  effects,         \* effects to execute, in order
  callbacks,       \* results on their way back
  repeats,         \* results delivered so far that stay on their way
  operations,      \* the operations table of the store
  next_sequence,   \* meta.next_sequence
  now,
  committed,       \* history: objects committed, with operation and time
  accepted         \* history: the Accepted events

reducer == <<incarnation, next_token, pending>>
store == <<operations, next_sequence>>
host == <<effects, callbacks, repeats>>
vars == <<reducer, host, store, now, committed, accepted>>

None == [sequence |-> 0]

Put(table, key, value) ==
  [k \in DOMAIN table \cup {key} |-> IF k = key THEN value ELSE table[k]]
Drop(table, keys) == [k \in DOMAIN table \ keys |-> table[k]]

Init ==
  /\ incarnation = 1 /\ next_token = 1 /\ pending = [k \in {} |-> 0]
  /\ effects = <<>> /\ callbacks = {} /\ repeats = 0
  /\ operations = [k \in {} |-> 0] /\ next_sequence = 1
  /\ now = 0 /\ committed = {} /\ accepted = {}

Token == [incarnation |-> incarnation, sequence |-> next_token]

(* locate: the operation that waits for this result, as a set of at most   *)
(* one; any other result is a Conflict, which changes nothing.             *)
Locate(token, phases) ==
  {o \in DOMAIN pending : pending[o].token = token /\ pending[o].phase \in phases}

AnyPhase == {"Reserving", "Protecting", "Committing"}

(* start: a command whose operation is pending, and one beyond the limit,  *)
(* change nothing.                                                         *)
Start(command) ==
  /\ command.operation \notin DOMAIN pending
  /\ Cardinality(DOMAIN pending) < MaxPendingSends
  /\ next_token < MaxTokens
  /\ next_token' = next_token + 1
  /\ pending' = Put(pending, command.operation,
                    [token |-> Token, phase |-> "Reserving", command |-> command,
                     sequence |-> 0, object |-> None])
  /\ effects' = Append(effects,
       [kind |-> "Reserve", token |-> Token, command |-> command,
        create_if_missing |-> now < command.expires_at])
  /\ UNCHANGED <<incarnation, callbacks, repeats, store, now, committed, accepted>>

(* The pending send of o takes its next step, under a new token.           *)
Advance(o, entry, effect) ==
  /\ next_token' = next_token + 1
  /\ pending' = [pending EXCEPT ![o] = entry]
  /\ effects' = Append(effects, effect)
  /\ UNCHANGED <<incarnation, accepted>>

(* failed: the send is forgotten and the application asked to retry.       *)
Failed(o) ==
  /\ pending' = Drop(pending, {o})
  /\ UNCHANGED <<incarnation, next_token, effects, accepted>>

Accept(o, object) ==
  /\ pending' = Drop(pending, {o})
  /\ accepted' = accepted \cup
       {[operation |-> o, digest |-> pending[o].command.digest, object |-> object]}
  /\ UNCHANGED <<incarnation, next_token, effects>>

Expired(o) == now >= pending[o].command.expires_at

(* Mutant: an expired send is dropped without an answer to anybody.        *)
ReservedForgotten(o, c) ==
  IF c.object # None THEN Accept(o, c.object)
  ELSE IF Expired(o) THEN UNCHANGED <<reducer, effects, accepted>>
  ELSE Advance(o, [pending[o] EXCEPT !.token = Token, !.phase = "Protecting",
                                     !.sequence = c.sequence],
               [kind |-> "Protect", token |-> Token, command |-> pending[o].command,
                sequence |-> c.sequence])

(* reserved: an operation the store has committed before is accepted, even *)
(* after its expiry.                                                       *)
Reserved(o, c) ==
  IF c.object # None THEN Accept(o, c.object)
  ELSE IF Expired(o) THEN Failed(o)
  ELSE Advance(o, [pending[o] EXCEPT !.token = Token, !.phase = "Protecting",
                                     !.sequence = c.sequence],
               [kind |-> "Protect", token |-> Token, command |-> pending[o].command,
                sequence |-> c.sequence])

(* protected: the sealed message must be of this reservation.              *)
Protected(o, c) ==
  IF \/ c.object.sequence # pending[o].sequence
     \/ c.object.expires_at # pending[o].command.expires_at
  THEN UNCHANGED <<reducer, effects, accepted>>
  ELSE IF Expired(o) THEN Failed(o)
  ELSE Advance(o, [pending[o] EXCEPT !.token = Token, !.phase = "Committing",
                                     !.object = c.object],
               [kind |-> "Commit", token |-> Token, command |-> pending[o].command,
                object |-> c.object])

(* committed: only the object this send was sealed into.                   *)
Committed(o, c) ==
  IF pending[o].object = c.object THEN Accept(o, c.object)
  ELSE UNCHANGED <<reducer, effects, accepted>>

(* The host calls back; the result may be delivered again later.           *)
Callback(c) ==
  /\ \/ callbacks' = callbacks \ {c} /\ UNCHANGED repeats
     \/ /\ repeats < MaxRepeats
        /\ repeats' = repeats + 1
        /\ UNCHANGED callbacks
  /\ \/ c.kind = "reserved" /\ \E o \in Locate(c.token, {"Reserving"}) : Reserved(o, c)
     \/ c.kind = "protected" /\ \E o \in Locate(c.token, {"Protecting"}) : Protected(o, c)
     \/ c.kind = "committed" /\ \E o \in Locate(c.token, {"Committing"}) : Committed(o, c)
     \/ c.kind = "failed" /\ \E o \in Locate(c.token, AnyPhase) : Failed(o)
     \/ /\ Locate(c.token, CASE c.kind = "reserved" -> {"Reserving"}
                             [] c.kind = "protected" -> {"Protecting"}
                             [] c.kind = "committed" -> {"Committing"}
                             [] OTHER -> AnyPhase) = {}
        /\ UNCHANGED <<reducer, effects, accepted>>
  /\ UNCHANGED <<store, now, committed>>

-----------------------------------------------------------------------------
FailedResult(e) == [kind |-> "failed", token |-> e.token]

(* reserve, or lookup_operation for a command already expired.             *)
ReserveEffect(e) ==
  LET o == e.command.operation
      known == o \in DOMAIN operations
      fresh == /\ ~known /\ e.create_if_missing
               /\ Cardinality(DOMAIN operations) < MaxOperations
  IN  /\ IF fresh
         THEN /\ operations' = Put(operations, o, [digest |-> e.command.digest,
                                                   sequence |-> next_sequence, object |-> None])
              /\ next_sequence' = next_sequence + 1
         ELSE UNCHANGED store
      /\ callbacks' \in
           {callbacks \cup {r} : r \in {FailedResult(e)} \cup
              IF fresh \/ (known /\ operations[o].digest = e.command.digest)
              THEN {[kind |-> "reserved", token |-> e.token,
                     sequence |-> operations'[o].sequence, object |-> operations'[o].object]}
              ELSE {}}
      /\ UNCHANGED committed

(* seal_message: every sealing makes another object.                       *)
ProtectEffect(e) ==
  /\ \E r \in {FailedResult(e),
               [kind |-> "protected", token |-> e.token,
                object |-> [sequence |-> e.sequence, expires_at |-> e.command.expires_at,
                            salt |-> e.token]]} :
       callbacks' = callbacks \cup {r}
  /\ UNCHANGED <<store, committed>>

(* commit_sealed: hash and sequence of the reservation must agree.         *)
Matching(e) ==
  LET o == e.command.operation
  IN  /\ o \in DOMAIN operations
      /\ operations[o].digest = e.command.digest
      /\ operations[o].sequence = e.object.sequence

(* Mutant: the object an operation has is replaced.                        *)
CommitsAgain(e) == Matching(e) /\ e.object.expires_at > now

(* An operation keeps its first object.                                    *)
Commits(e) ==
  /\ Matching(e)
  /\ operations[e.command.operation].object = None
  /\ e.object.expires_at > now

CommitEffect(e) ==
  LET o == e.command.operation
  IN  /\ IF Commits(e)
         THEN /\ operations' = [operations EXCEPT ![o].object = e.object]
              /\ committed' = committed \cup
                   {[operation |-> o, digest |-> e.command.digest, object |-> e.object, at |-> now]}
         ELSE UNCHANGED <<operations, committed>>
      /\ callbacks' \in
           {callbacks \cup {r} : r \in {FailedResult(e)} \cup
              IF Commits(e) \/ (Matching(e) /\ operations[o].object = e.object)
              THEN {[kind |-> "committed", token |-> e.token, object |-> e.object]}
              ELSE {}}
      /\ UNCHANGED next_sequence

(* The host executes the next effect of an incarnation: it is serial, but  *)
(* the one of an older incarnation may be at work still.  An I/O failure   *)
(* is reported as failed, whether the transaction took place or not.       *)
Execute(k) ==
  /\ \A j \in 1 .. k - 1 : effects[j].token.incarnation # effects[k].token.incarnation
  /\ effects' = RemoveAt(effects, k)
  /\ LET e == effects[k]
     IN  \/ e.kind = "Reserve" /\ ReserveEffect(e)
         \/ e.kind = "Protect" /\ ProtectEffect(e)
         \/ e.kind = "Commit" /\ CommitEffect(e)
         \/ callbacks' = callbacks \cup {FailedResult(e)} /\ UNCHANGED <<store, committed>>
  /\ UNCHANGED <<reducer, repeats, now, accepted>>

(* prune_expired: operations of expired objects go, and so do all without  *)
(* an object, the one of a send in progress included.                      *)
PruneExpired ==
  /\ operations' = Drop(operations,
       {o \in DOMAIN operations :
          operations[o].object = None \/ operations[o].object.expires_at <= now})
  /\ UNCHANGED <<reducer, host, next_sequence, now, committed, accepted>>

(* The host replaces the reducer.  Its work in flight goes on.             *)
Restart ==
  /\ incarnation < MaxIncarnations
  /\ incarnation' = incarnation + 1
  /\ next_token' = 1
  /\ pending' = Drop(pending, DOMAIN pending)
  /\ UNCHANGED <<host, store, now, committed, accepted>>

Tick ==
  /\ now < MaxTime
  /\ now' = now + 1
  /\ UNCHANGED <<reducer, host, store, committed, accepted>>

Next ==
  \/ \E command \in Commands : Start(command)
  \/ \E c \in callbacks : Callback(c)
  \/ \E k \in DOMAIN effects : Execute(k)
  \/ PruneExpired \/ Restart \/ Tick

(* The host gets to every effect and every result.                         *)
Fairness ==
  /\ WF_vars(\E k \in DOMAIN effects : Execute(k))
  /\ WF_vars(\E c \in callbacks : Callback(c))

Spec == Init /\ [][Next]_vars /\ Fairness

-----------------------------------------------------------------------------
(* What the application is told was accepted is durable, under the very    *)
(* command that asked for it; and an operation never owns two objects that *)
(* are alive at the same time, although commands are retried after lost    *)
(* results, restarts and prunes: "Commit may be ambiguous on I/O failure.  *)
(* Retry MUST reuse the operation ID".                                     *)
AcceptedIsDurable ==
  /\ \A a \in accepted : \E c \in committed :
       c.operation = a.operation /\ c.digest = a.digest /\ c.object = a.object
  /\ \A c, d \in committed :
       (c.operation = d.operation /\ c # d) =>
         c.object.expires_at <= d.at \/ d.object.expires_at <= c.at

(* Every send that was taken gets its answer: no result that is refused,   *)
(* late or failed leaves it waiting in one of the few slots.               *)
SendAnswered ==
  \A command \in Commands :
    command.operation \in DOMAIN pending ~> command.operation \notin DOMAIN pending
=============================================================================
