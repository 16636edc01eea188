--------------------------- MODULE RuntimeProofs ----------------------------
(***************************************************************************)
(* The reducers of crates/mesh-runtime for any commands, objects, limits,  *)
(* restarts and repeated results, and the event ring for any size and any  *)
(* clock.  The three parts share no state.                                 *)
(***************************************************************************)
EXTENDS Runtime, FiniteSetTheorems, TLAPS

Tokens == [incarnation : Int, sequence : Int]

(* What is left of a sequence without one of its elements.                 *)
LEMMA Removed ==
  ASSUME NEW S, NEW s \in Seq(S), NEW k \in DOMAIN s
  PROVE  Recv!RemoveAt(s, k) \in Seq(S) /\ Send!RemoveAt(s, k) \in Seq(S)
  BY DEF Recv!RemoveAt, Send!RemoveAt

(* An effect added to the queue leaves a queue of effects.                 *)
LEMMA Appended ==
  ASSUME NEW S, NEW s \in Seq(S), NEW e \in S PROVE Append(s, e) \in Seq(S)
  OBVIOUS

-----------------------------------------------------------------------------
(* The receiver.  A receipt that was signed is in the store until its      *)
(* object expires, and a result that says there is a receipt tells the     *)
(* truth for ever, whoever hears it and when.                              *)
ReceiveEffects == [kind : {"Inspect", "Verify", "Commit"}, token : Tokens, object : Arriving]

ReceiverTyped ==
  /\ now \in Nat /\ incarnation \in Int /\ next_token \in Int
  /\ DOMAIN pending \subseteq Arriving
  /\ effects \in Seq(ReceiveEffects)
  /\ stored \subseteq Arriving
  /\ \A r \in signed : r.object \in Arriving

SignedKept ==
  /\ receipts \subseteq signed
  /\ \A r \in signed : r.object.expires_at > now => r \in receipts

ResultsTrue ==
  \A c \in callbacks : (c.kind = "committed" \/ (c.kind = "inspected" /\ c.found)) =>
    \E r \in signed : r.object = c.object

ReceiverInv == ReceiverTyped /\ SignedKept /\ ResultsTrue /\ ReceivedIsDurable

(* Steps of the reducer: no receipt is signed, time stands still.          *)
LEMMA ReceiverSteps ==
  ASSUME ReceiverInv, UNCHANGED <<receipts, signed, stored, now>>,
         incarnation' \in Int, next_token' \in Int, DOMAIN pending' \subseteq Arriving,
         effects' \in Seq(ReceiveEffects), callbacks' \subseteq callbacks,
         \A o \in received' \ received : \E r \in signed : r.object = o
  PROVE  ReceiverInv'
  BY DEF ReceiverInv, ReceiverTyped, SignedKept, ResultsTrue, ReceivedIsDurable, Recv!ReceivedIsDurable

(* What entering a phase of the receiver changes, and leaves alone.        *)
LEMMA EnterSteps ==
  ASSUME ReceiverInv, NEW o \in Arriving, NEW phase, NEW effect \in {"Inspect", "Verify", "Commit"},
         Recv!Enter(o, phase, effect)
  PROVE  /\ incarnation' \in Int /\ next_token' \in Int /\ DOMAIN pending' \subseteq Arriving
         /\ effects' \in Seq(ReceiveEffects) /\ received' = received
<1>1. [kind |-> effect, token |-> Recv!Token, object |-> o] \in ReceiveEffects
  BY DEF ReceiverInv, ReceiverTyped, ReceiveEffects, Tokens, Recv!Token
<1>2. effects' \in Seq(ReceiveEffects)
  BY <1>1, Appended DEF ReceiverInv, ReceiverTyped, Recv!Enter
<1>3. DOMAIN pending' = DOMAIN pending \cup {o}
  BY DEF Recv!Enter, Recv!Put
<1> QED BY <1>2, <1>3 DEF ReceiverInv, ReceiverTyped, Recv!Enter

(* A result reported to the receiver, expected or stale.                   *)
LEMMA ReceiverCallback ==
  ASSUME ReceiverInv, NEW c \in callbacks, Recv!Callback(c) PROVE ReceiverInv'
<1>1. UNCHANGED <<receipts, signed, stored, now>> /\ callbacks' \subseteq callbacks
  BY DEF Recv!Callback, Recv!store
<1>2. /\ incarnation \in Int /\ next_token \in Int /\ DOMAIN pending \subseteq Arriving
      /\ effects \in Seq(ReceiveEffects)
  BY DEF ReceiverInv, ReceiverTyped
<1>3. ASSUME Recv!Ignored PROVE ReceiverInv'
  BY <1>1, <1>2, <1>3, ReceiverSteps DEF Recv!Ignored, Recv!reducer
<1>4. ASSUME NEW o \in DOMAIN pending, NEW phase, NEW effect \in {"Inspect", "Verify", "Commit"},
             Recv!Enter(o, phase, effect)
      PROVE  ReceiverInv'
  BY <1>1, <1>2, <1>4, EnterSteps, ReceiverSteps
<1>5. ASSUME NEW o \in DOMAIN pending, Recv!Failed(o) PROVE ReceiverInv'
  <2>1. DOMAIN pending' \subseteq DOMAIN pending
    BY <1>5 DEF Recv!Failed, Recv!Drop
  <2> QED BY <1>1, <1>2, <1>5, <2>1, ReceiverSteps DEF Recv!Failed
<1>6. ASSUME NEW o \in DOMAIN pending, Recv!Received(o), c.object = o,
             c.kind = "committed" \/ (c.kind = "inspected" /\ c.found)
      PROVE  ReceiverInv'
  <2>1. DOMAIN pending' \subseteq DOMAIN pending
    BY <1>6 DEF Recv!Received, Recv!Drop
  <2>2. \E r \in signed : r.object = o
    BY <1>6 DEF ReceiverInv, ResultsTrue
  <2> QED BY <1>1, <1>2, <1>6, <2>1, <2>2, ReceiverSteps DEF Recv!Received
<1>7. \/ Recv!Ignored
      \/ \E o \in DOMAIN pending :
           \/ c.kind = "inspected" /\ Recv!Inspected(o, c)
           \/ c.kind = "verified" /\ Recv!Verified(o, c)
           \/ c.kind = "committed" /\ Recv!Committed(o, c)
           \/ c.kind = "failed" /\ Recv!Failed(o)
  BY DEF Recv!Callback, Recv!Locate
<1> QED BY <1>3, <1>4, <1>5, <1>6, <1>7 DEF Recv!Inspected, Recv!Verified, Recv!Committed

(* finalize_received signs only where no receipt was signed before: one    *)
(* that is gone from the store is of an expired object.                    *)
LEMMA ReceiverExecute ==
  ASSUME \A o \in Arriving : o.expires_at \in Nat,
         ReceiverInv, NEW k \in DOMAIN effects, Recv!Execute(k)
  PROVE  ReceiverInv'
<1> DEFINE e == effects[k]
<1> USE DEF ReceiverInv
<1>1. e \in ReceiveEffects /\ effects' \in Seq(ReceiveEffects)
  BY Removed DEF ReceiverTyped, Recv!Execute
<1>2. /\ UNCHANGED <<incarnation, next_token, pending, stored, now, received>>
      /\ signed' = signed \cup receipts'
  BY DEF Recv!Execute, Recv!reducer
<1>3. \/ receipts' = receipts
      \/ /\ ~Recv!HasReceipt(e.object) /\ Recv!Live(e.object)
         /\ receipts' = receipts \cup {[object |-> e.object, by |-> e.token]}
  BY DEF Recv!Execute, Recv!FinalizeReceived
<1>4. ReceiverTyped'
  <2>1. \A r \in receipts' : r.object \in Arriving
    BY <1>1, <1>3 DEF ReceiverTyped, SignedKept, ReceiveEffects
  <2> QED BY <1>1, <1>2, <2>1 DEF ReceiverTyped
<1>5. SignedKept'
  BY <1>2, <1>3 DEF SignedKept
<1>6. ReceivedIsDurable'
  <2>1. ASSUME Recv!Live(e.object), ~Recv!HasReceipt(e.object), NEW r \in signed
        PROVE  r.object # e.object
    BY <2>1 DEF SignedKept, Recv!Live, Recv!HasReceipt
  <2>2. CASE receipts' = receipts
    BY <1>2, <2>2 DEF ReceivedIsDurable, Recv!ReceivedIsDurable, SignedKept
  <2>3. CASE /\ ~Recv!HasReceipt(e.object) /\ Recv!Live(e.object)
             /\ receipts' = receipts \cup {[object |-> e.object, by |-> e.token]}
    <3> DEFINE new == [object |-> e.object, by |-> e.token]
    <3>1. new.object = e.object
      OBVIOUS
    <3> HIDE DEF new
    <3>2. signed' = signed \cup {new}
      BY <1>2, <2>3 DEF SignedKept, new
    <3> QED BY <1>2, <2>1, <2>3, <3>1, <3>2 DEF ReceivedIsDurable, Recv!ReceivedIsDurable
  <2> QED BY <1>3, <2>2, <2>3
<1>7. ResultsTrue'
  <2>1. PICK c : /\ callbacks' = callbacks \cup {c}
                 /\ \/ c = Recv!Result(e, "failed", FALSE)
                    \/ e.kind = "Inspect" /\ c = Recv!Result(e, "inspected", Recv!HasReceipt(e.object))
                    \/ c = Recv!Result(e, "verified", FALSE)
                    \/ c = Recv!Result(e, "committed", FALSE) /\ \E r \in receipts' : r.object = e.object
    BY <1>1 DEF Recv!Execute, ReceiveEffects
  <2>2. (c.kind = "committed" \/ (c.kind = "inspected" /\ c.found)) =>
          \E r \in signed' : r.object = c.object
    BY <1>2, <2>1 DEF Recv!Result, Recv!HasReceipt, SignedKept
  <2> QED BY <1>2, <2>1, <2>2 DEF ResultsTrue
<1> QED BY <1>4, <1>5, <1>6, <1>7

(* Every step of receiver, host and store keeps its invariant.             *)
LEMMA ReceiverNext ==
  ASSUME \A o \in Arriving : o.expires_at \in Nat, ReceiverInv, [Recv!Next]_(Recv!vars)
  PROVE  ReceiverInv'
<1>0. /\ incarnation \in Int /\ next_token \in Int /\ DOMAIN pending \subseteq Arriving
      /\ effects \in Seq(ReceiveEffects) /\ now \in Nat
  BY DEF ReceiverInv, ReceiverTyped
<1>1. CASE UNCHANGED Recv!vars
  BY <1>0, <1>1, ReceiverSteps DEF Recv!vars, Recv!reducer, Recv!host, Recv!store
<1>2. ASSUME NEW o \in Arriving, Recv!Start(o) PROVE ReceiverInv'
  BY <1>0, <1>2, EnterSteps, ReceiverSteps DEF Recv!Start, Recv!store
<1>3. ASSUME NEW o \in Arriving, Recv!Store(o) PROVE ReceiverInv'
  BY <1>3 DEF Recv!Store, Recv!reducer, Recv!host, ReceiverInv, ReceiverTyped, SignedKept,
              ResultsTrue, ReceivedIsDurable, Recv!ReceivedIsDurable
<1>4. CASE Recv!PruneExpired
  BY <1>4 DEF Recv!PruneExpired, Recv!Live, Recv!reducer, Recv!host, ReceiverInv, ReceiverTyped,
              SignedKept, ResultsTrue, ReceivedIsDurable, Recv!ReceivedIsDurable
<1>5. CASE Recv!Restart
  <2>1. DOMAIN pending' = {}
    BY <1>5 DEF Recv!Restart, Recv!Drop
  <2> QED BY <1>0, <1>5, <2>1, ReceiverSteps DEF Recv!Restart, Recv!host, Recv!store
<1>6. CASE Recv!Tick
  BY <1>6 DEF Recv!Tick, Recv!reducer, Recv!host, Recv!store, ReceiverInv, ReceiverTyped,
              SignedKept, ResultsTrue, ReceivedIsDurable, Recv!ReceivedIsDurable
<1> QED BY <1>1, <1>2, <1>3, <1>4, <1>5, <1>6, ReceiverCallback, ReceiverExecute DEF Recv!Next

(* reception.rs reports an object as received only on the word of the      *)
(* store that a receipt is committed, and finalize_received signs one      *)
(* receipt at most, for any repetition of results and any restart.         *)
THEOREM ReceiverIsDurable ==
  ASSUME \A o \in Arriving : o.expires_at \in Nat
  PROVE  Recv!Spec => []ReceivedIsDurable
<1>1. Recv!Init => ReceiverInv
  BY DEF Recv!Init, ReceiverInv, ReceiverTyped, SignedKept, ResultsTrue, ReceivedIsDurable, Recv!ReceivedIsDurable
<1>2. ReceiverInv /\ [Recv!Next]_(Recv!vars) => ReceiverInv'
  BY ReceiverNext
<1>3. ReceiverInv => ReceivedIsDurable
  BY DEF ReceiverInv
<1> QED BY <1>1, <1>2, <1>3, PTL DEF Recv!Spec

-----------------------------------------------------------------------------
(* The sender.  A token is used once, so that a result speaks about the    *)
(* command that is pending under its token; an operation keeps its object  *)
(* in the store until the object expires.                                  *)
Sealed == [sequence : Int, expires_at : Nat, salt : Tokens]
Entries ==
  [token : Tokens, phase : Send!AnyPhase, command : Commands, sequence : Int,
   object : Sealed \cup {Send!None}]
Operations ==
  [digest : {command.digest : command \in Commands}, sequence : Int, object : Sealed \cup {Send!None}]
SendEffects ==
  [kind : {"Reserve"}, token : Tokens, command : Commands, create_if_missing : BOOLEAN]
    \cup [kind : {"Protect"}, token : Tokens, command : Commands, sequence : Int]
    \cup [kind : {"Commit"}, token : Tokens, command : Commands, object : Sealed]

(* The token was drawn before.                                             *)
Drawn(t, i, n) ==
  /\ t \in Tokens
  /\ t.incarnation < i \/ (t.incarnation = i /\ t.sequence < n)
Issued(t) == Drawn(t, incarnation, next_token)

(* The operation committed this object under a command of this digest.     *)
Backed(o, digest, object) ==
  \E k \in committed : k.operation = o /\ k.digest = digest /\ k.object = object

SenderTyped ==
  /\ now \in Nat /\ incarnation \in Int /\ next_token \in Int /\ next_sequence \in Int
  /\ \A o \in DOMAIN pending : pending[o] \in Entries /\ pending[o].command.operation = o
  /\ effects \in Seq(SendEffects)
  /\ \A o \in DOMAIN operations : operations[o] \in Operations
  /\ \A k \in committed : k.object \in Sealed

TokensOnce ==
  /\ \A o \in DOMAIN pending : Issued(pending[o].token)
  /\ \A j \in DOMAIN effects :
       /\ Issued(effects[j].token)
       /\ \A o \in DOMAIN pending :
            pending[o].token = effects[j].token => pending[o].command = effects[j].command

CallbacksTrue ==
  \A c \in callbacks :
    /\ Issued(c.token)
    /\ c.kind = "reserved" => c.sequence \in Int
    /\ c.kind = "protected" => c.object \in Sealed
    /\ (c.kind = "committed" \/ (c.kind = "reserved" /\ c.object # Send!None)) =>
         \A o \in DOMAIN pending :
           pending[o].token = c.token => Backed(o, pending[o].command.digest, c.object)

OperationsKept ==
  /\ \A o \in DOMAIN operations :
       operations[o].object # Send!None => Backed(o, operations[o].digest, operations[o].object)
  /\ \A k \in committed : k.object.expires_at > now =>
       k.operation \in DOMAIN operations /\ operations[k.operation].object = k.object

SenderInv == SenderTyped /\ TokensOnce /\ CallbacksTrue /\ OperationsKept /\ AcceptedIsDurable

(* Steps of the reducer: what becomes pending does so under a new token,   *)
(* with the effect that carries its command.                               *)
LEMMA SenderSteps ==
  ASSUME SenderInv, UNCHANGED <<operations, next_sequence, now, committed>>,
         incarnation' \in Int, next_token' \in Int,
         \A t \in Tokens : Issued(t) => Drawn(t, incarnation', next_token'),
         \A o \in DOMAIN pending' :
           \/ o \in DOMAIN pending /\ pending'[o] = pending[o]
           \/ /\ pending'[o] \in Entries /\ pending'[o].command.operation = o
              /\ pending'[o].token = Send!Token /\ Drawn(pending'[o].token, incarnation', next_token'),
         \/ effects' = effects
         \/ \E e \in SendEffects :
              /\ effects' = Append(effects, e) /\ e.token = Send!Token /\ Drawn(e.token, incarnation', next_token')
              /\ \A o \in DOMAIN pending' :
                   pending'[o].token = Send!Token => pending'[o].command = e.command,
         callbacks' \subseteq callbacks,
         \A a \in accepted' \ accepted : Backed(a.operation, a.digest, a.object)
  PROVE  SenderInv'
<1> USE DEF SenderInv
<1>1. \A t : Issued(t) => t # Send!Token
  BY DEF Issued, Drawn, Send!Token, SenderTyped
<1>2. \A t : Issued(t) => Drawn(t, incarnation', next_token')
  BY DEF Issued, Drawn
<1>3. effects' \in Seq(SendEffects)
  BY Appended DEF SenderTyped
<1>4. SenderTyped'
  BY <1>3 DEF SenderTyped
<1>5. \A o \in DOMAIN pending' : Drawn(pending'[o].token, incarnation', next_token')
  BY <1>2 DEF TokensOnce
<1>6. ASSUME NEW o \in DOMAIN pending', NEW t, Issued(t), pending'[o].token = t
      PROVE  o \in DOMAIN pending /\ pending'[o] = pending[o]
  BY <1>1, <1>6
<1>7. ASSUME NEW j \in DOMAIN effects'
      PROVE  /\ Drawn(effects'[j].token, incarnation', next_token')
             /\ \A o \in DOMAIN pending' :
                  pending'[o].token = effects'[j].token => pending'[o].command = effects'[j].command
  <2>1. CASE j \in DOMAIN effects /\ effects'[j] = effects[j]
    BY <1>2, <1>6, <2>1 DEF TokensOnce
  <2>2. CASE ~(j \in DOMAIN effects /\ effects'[j] = effects[j])
    <3>1. PICK e \in SendEffects :
            /\ effects' = Append(effects, e) /\ e.token = Send!Token /\ Drawn(e.token, incarnation', next_token')
            /\ \A o \in DOMAIN pending' :
                 pending'[o].token = Send!Token => pending'[o].command = e.command
      BY <2>2
    <3>2. effects'[j] = e
      BY <2>2, <3>1 DEF SenderTyped
    <3> QED BY <3>1, <3>2
  <2> QED BY <2>1, <2>2
<1>8. TokensOnce'
  BY <1>5, <1>7 DEF TokensOnce, Issued
<1>9. CallbacksTrue'
  BY <1>2, <1>6 DEF CallbacksTrue, Backed, Issued
<1>10. OperationsKept' /\ AcceptedIsDurable'
  BY DEF OperationsKept, Backed, AcceptedIsDurable, Send!AcceptedIsDurable
<1> QED BY <1>4, <1>8, <1>9, <1>10

(* The next token of the sender was not issued before.                     *)
LEMMA TokenIsNew ==
  ASSUME SenderInv, incarnation' = incarnation, next_token' = next_token + 1
  PROVE  /\ Send!Token \in Tokens /\ Drawn(Send!Token, incarnation', next_token') /\ ~Issued(Send!Token)
         /\ \A t \in Tokens : Issued(t) => Drawn(t, incarnation', next_token')
<1>1. incarnation \in Int /\ next_token \in Int
  BY DEF SenderInv, SenderTyped
<1>2. Send!Token \in Tokens /\ ~Issued(Send!Token)
  BY <1>1 DEF Tokens, Issued, Drawn, Send!Token
<1>3. Drawn([incarnation |-> incarnation, sequence |-> next_token], incarnation', next_token')
  BY <1>1 DEF Tokens, Issued, Drawn
<1>4. \A t \in Tokens : Issued(t) => Drawn(t, incarnation', next_token')
  BY <1>1 DEF Tokens, Issued, Drawn
<1> QED BY <1>2, <1>3, <1>4 DEF Send!Token

(* A command is accepted into a slot, repeated or refused.                 *)
LEMMA SenderStart ==
  ASSUME SenderInv, NEW command \in Commands, Send!Start(command) PROVE SenderInv'
<1> DEFINE o == command.operation
           entry == [token |-> Send!Token, phase |-> "Reserving", command |-> command,
                     sequence |-> 0, object |-> Send!None]
           e == [kind |-> "Reserve", token |-> Send!Token, command |-> command,
                 create_if_missing |-> now < command.expires_at]
<1>1. /\ pending' = Send!Put(pending, o, entry) /\ effects' = Append(effects, e)
      /\ incarnation' = incarnation /\ next_token' = next_token + 1
      /\ UNCHANGED <<callbacks, operations, next_sequence, now, committed, accepted>>
  BY DEF Send!Start, Send!store
<1>2. /\ Send!Token \in Tokens /\ Drawn(Send!Token, incarnation', next_token')
      /\ \A t \in Tokens : Issued(t) => Drawn(t, incarnation', next_token')
  BY <1>1, TokenIsNew
<1>3. /\ entry \in Entries /\ entry.command.operation = o /\ entry.token = Send!Token
      /\ entry.command = command
  BY <1>2 DEF Entries, Send!AnyPhase
<1>4. e \in SendEffects /\ e.token = Send!Token /\ e.command = command
  BY <1>2 DEF SendEffects
<1> HIDE DEF entry, e
<1>5. \A p \in DOMAIN pending' :
        (p \in DOMAIN pending /\ pending'[p] = pending[p]) \/ (p = o /\ pending'[p] = entry)
  BY <1>1 DEF Send!Put
<1>6. \A p \in DOMAIN pending : pending[p].token # Send!Token
  BY <1>1, TokenIsNew DEF SenderInv, TokensOnce
<1>7. incarnation' \in Int /\ next_token' \in Int
  BY <1>1 DEF SenderInv, SenderTyped
<1> QED BY <1>1, <1>2, <1>3, <1>4, <1>5, <1>6, <1>7, SenderSteps

(* A pending operation moves on with a fresh token and its effect.         *)
LEMMA SenderAdvance ==
  ASSUME SenderInv, UNCHANGED <<operations, next_sequence, now, committed>>,
         callbacks' \subseteq callbacks,
         NEW o \in DOMAIN pending, NEW entry \in Entries, NEW e \in SendEffects,
         Send!Advance(o, entry, e), entry.token = Send!Token, entry.command = pending[o].command,
         e.token = Send!Token, e.command = pending[o].command
  PROVE  SenderInv'
<1>1. /\ pending' = [pending EXCEPT ![o] = entry] /\ effects' = Append(effects, e)
      /\ incarnation' = incarnation /\ next_token' = next_token + 1 /\ accepted' = accepted
  BY DEF Send!Advance
<1>2. /\ Send!Token \in Tokens /\ Drawn(Send!Token, incarnation', next_token')
      /\ \A t \in Tokens : Issued(t) => Drawn(t, incarnation', next_token')
  BY <1>1, TokenIsNew
<1>3. entry.command.operation = o
  BY DEF SenderInv, SenderTyped
<1>5. \A p \in DOMAIN pending' :
        (p \in DOMAIN pending /\ p # o /\ pending'[p] = pending[p]) \/ (p = o /\ pending'[p] = entry)
  BY <1>1
<1>6. \A p \in DOMAIN pending : pending[p].token # Send!Token
  BY <1>1, TokenIsNew DEF SenderInv, TokensOnce
<1>7. incarnation' \in Int /\ next_token' \in Int
  BY <1>1 DEF SenderInv, SenderTyped
<1> QED BY <1>1, <1>2, <1>3, <1>5, <1>6, <1>7, SenderSteps

(* A pending operation ends; what it reported accepted is durable.         *)
LEMMA SenderDrop ==
  ASSUME SenderInv, UNCHANGED <<incarnation, next_token, effects, operations, next_sequence, now, committed>>,
         callbacks' \subseteq callbacks, NEW gone, pending' = Send!Drop(pending, gone) \/ pending' = pending,
         \A a \in accepted' \ accepted : Backed(a.operation, a.digest, a.object)
  PROVE  SenderInv'
<1>1. \A o \in DOMAIN pending' : o \in DOMAIN pending /\ pending'[o] = pending[o]
  BY DEF Send!Drop
<1>2. \A t \in Tokens : Issued(t) => Drawn(t, incarnation', next_token')
  BY DEF Issued
<1>3. incarnation' \in Int /\ next_token' \in Int
  BY DEF SenderInv, SenderTyped
<1> QED BY <1>1, <1>2, <1>3, SenderSteps

(* A result reported to the sender, expected or stale.                     *)
LEMMA SenderCallback ==
  ASSUME SenderInv, NEW c \in callbacks, Send!Callback(c) PROVE SenderInv'
<1>1. UNCHANGED <<operations, next_sequence, now, committed>> /\ callbacks' \subseteq callbacks
  BY DEF Send!Callback, Send!store
<1>2. ASSUME UNCHANGED <<incarnation, next_token, pending, effects, accepted>> PROVE SenderInv'
  BY <1>1, <1>2, SenderDrop
<1>3. ASSUME NEW o \in DOMAIN pending, Send!Failed(o) PROVE SenderInv'
  BY <1>1, <1>3, SenderDrop DEF Send!Failed
<1>4. ASSUME NEW o \in DOMAIN pending, pending[o].token = c.token, Send!Accept(o, c.object),
             c.kind = "committed" \/ (c.kind = "reserved" /\ c.object # Send!None)
      PROVE  SenderInv'
  <2> DEFINE a == [operation |-> o, digest |-> pending[o].command.digest, object |-> c.object]
  <2>1. Backed(o, pending[o].command.digest, c.object)
    BY <1>4 DEF SenderInv, CallbacksTrue
  <2>2. a.operation = o /\ a.digest = pending[o].command.digest /\ a.object = c.object
    OBVIOUS
  <2> HIDE DEF a
  <2>3. accepted' = accepted \cup {a}
    BY <1>4 DEF Send!Accept, a
  <2> QED BY <1>1, <1>4, <2>1, <2>2, <2>3, SenderDrop DEF Send!Accept
<1>5. ASSUME NEW o \in DOMAIN pending PROVE pending[o] \in Entries /\ Send!Token \in Tokens
  BY DEF SenderInv, SenderTyped, Tokens, Send!Token
<1>6. ASSUME c.kind = "reserved", NEW o \in DOMAIN pending, pending[o].token = c.token,
             Send!Reserved(o, c)
      PROVE  SenderInv'
  <2> DEFINE entry == [pending[o] EXCEPT !.token = Send!Token, !.phase = "Protecting",
                                         !.sequence = c.sequence]
             e == [kind |-> "Protect", token |-> Send!Token, command |-> pending[o].command,
                   sequence |-> c.sequence]
  <2>1. \/ c.object # Send!None /\ Send!Accept(o, c.object)
        \/ Send!Failed(o) \/ Send!Advance(o, entry, e)
    BY <1>6 DEF Send!Reserved
  <2>2. c.sequence \in Int
    BY <1>6 DEF SenderInv, CallbacksTrue
  <2>3. entry \in Entries /\ entry.token = Send!Token /\ entry.command = pending[o].command
    BY <1>5, <2>2 DEF Entries, Send!AnyPhase
  <2>4. e \in SendEffects /\ e.token = Send!Token /\ e.command = pending[o].command
    BY <1>5, <2>2 DEF SendEffects, Entries
  <2> HIDE DEF entry, e
  <2> QED BY <1>1, <1>3, <1>4, <1>6, <2>1, <2>3, <2>4, SenderAdvance
<1>7. ASSUME c.kind = "protected", NEW o \in DOMAIN pending, Send!Protected(o, c) PROVE SenderInv'
  <2> DEFINE entry == [pending[o] EXCEPT !.token = Send!Token, !.phase = "Committing",
                                         !.object = c.object]
             e == [kind |-> "Commit", token |-> Send!Token, command |-> pending[o].command,
                   object |-> c.object]
  <2>1. \/ UNCHANGED <<incarnation, next_token, pending, effects, accepted>>
        \/ Send!Failed(o) \/ Send!Advance(o, entry, e)
    BY <1>7 DEF Send!Protected, Send!reducer
  <2>2. c.object \in Sealed
    BY <1>7 DEF SenderInv, CallbacksTrue
  <2>3. entry \in Entries /\ entry.token = Send!Token /\ entry.command = pending[o].command
    BY <1>5, <2>2 DEF Entries, Send!AnyPhase
  <2>4. e \in SendEffects /\ e.token = Send!Token /\ e.command = pending[o].command
    BY <1>5, <2>2 DEF SendEffects, Entries
  <2> HIDE DEF entry, e
  <2> QED BY <1>1, <1>2, <1>3, <2>1, <2>3, <2>4, SenderAdvance
<1>8. ASSUME c.kind = "committed", NEW o \in DOMAIN pending, pending[o].token = c.token,
             Send!Committed(o, c)
      PROVE  SenderInv'
  BY <1>2, <1>4, <1>8 DEF Send!Committed, Send!reducer
<1>9. \/ UNCHANGED <<incarnation, next_token, pending, effects, accepted>>
      \/ \E o \in DOMAIN pending : /\ pending[o].token = c.token
                                   /\ \/ c.kind = "reserved" /\ Send!Reserved(o, c)
                                      \/ c.kind = "protected" /\ Send!Protected(o, c)
                                      \/ c.kind = "committed" /\ Send!Committed(o, c)
                                      \/ c.kind = "failed" /\ Send!Failed(o)
  BY DEF Send!Callback, Send!Locate, Send!reducer
<1> QED BY <1>2, <1>3, <1>6, <1>7, <1>8, <1>9

(* The host answers the effect e: what it says is true of whatever is      *)
(* pending under the token of e, which is the command of e.                *)
LEMMA SenderAnswer ==
  ASSUME SenderInv, NEW k \in DOMAIN effects, effects' = Send!RemoveAt(effects, k),
         UNCHANGED <<incarnation, next_token, pending, now, accepted>>,
         NEW r, callbacks' = callbacks \cup {r}, r.token = effects[k].token,
         committed \subseteq committed', next_sequence' \in Int,
         r.kind = "reserved" => r.sequence \in Int,
         r.kind = "protected" => r.object \in Sealed,
         (r.kind = "committed" \/ (r.kind = "reserved" /\ r.object # Send!None)) =>
           \E c \in committed' : /\ c.operation = effects[k].command.operation
                                 /\ c.digest = effects[k].command.digest /\ c.object = r.object,
         \A c \in committed' : c.object \in Sealed,
         \A o \in DOMAIN operations' : operations'[o] \in Operations,
         OperationsKept',
         \A c, d \in committed' : (c.operation = d.operation /\ c # d) =>
           c.object.expires_at <= d.at \/ d.object.expires_at <= c.at
  PROVE  SenderInv'
<1> USE DEF SenderInv
<1>1. effects' \in Seq(SendEffects)
  BY Removed DEF SenderTyped
<1>2. \A j \in DOMAIN effects' : \E i \in DOMAIN effects : effects'[j] = effects[i]
  <2> DEFINE R == {effects[i] : i \in DOMAIN effects}
  <2>1. effects \in Seq(R)
    BY DEF SenderTyped
  <2> HIDE DEF R
  <2>2. effects' \in Seq(R)
    BY <2>1, Removed
  <2>3. \A j \in DOMAIN effects' : effects'[j] \in R
    BY <2>2
  <2> QED BY <2>3 DEF R
<1>3. SenderTyped'
  BY <1>1 DEF SenderTyped
<1>4. TokensOnce'
  BY <1>2 DEF TokensOnce, Issued
<1>5. \A o, digest, object : Backed(o, digest, object) => Backed(o, digest, object)'
  BY DEF Backed
<1>6. ASSUME NEW o \in DOMAIN pending, pending[o].token = r.token
      PROVE  pending[o].command = effects[k].command /\ effects[k].command.operation = o
  BY <1>6 DEF TokensOnce, SenderTyped
<1>7. Issued(r.token)
  BY DEF TokensOnce
<1>8. CallbacksTrue'
  BY <1>5, <1>6, <1>7 DEF CallbacksTrue, Backed, Issued
<1>9. AcceptedIsDurable'
  BY DEF AcceptedIsDurable, Send!AcceptedIsDurable
<1> QED BY <1>3, <1>4, <1>8, <1>9

(* The host carries out an effect against the store.                       *)
LEMMA SenderExecute ==
  ASSUME SenderInv, NEW k \in DOMAIN effects, Send!Execute(k),
         \A command \in Commands : command.expires_at \in Nat
  PROVE  SenderInv'
<1> DEFINE e == effects[k]
           o == e.command.operation
           failed == Send!FailedResult(e)
<1>1. /\ e \in SendEffects /\ effects' = Send!RemoveAt(effects, k)
      /\ UNCHANGED <<incarnation, next_token, pending, now, accepted>>
  BY DEF SenderInv, SenderTyped, Send!Execute, Send!reducer
<1>2. e.token \in Tokens /\ e.command \in Commands
  BY <1>1 DEF SendEffects
<1>3. /\ next_sequence \in Int /\ \A c \in committed : c.object \in Sealed
      /\ \A p \in DOMAIN operations : operations[p] \in Operations
      /\ OperationsKept
      /\ \A c, d \in committed : (c.operation = d.operation /\ c # d) =>
           c.object.expires_at <= d.at \/ d.object.expires_at <= c.at
  BY DEF SenderInv, SenderTyped, AcceptedIsDurable, Send!AcceptedIsDurable
<1>4. failed.token = e.token /\ failed.kind = "failed"
  BY DEF Send!FailedResult
<1> HIDE DEF failed
<1>5. ASSUME UNCHANGED <<operations, next_sequence, committed>>, NEW r, callbacks' = callbacks \cup {r},
             r.token = e.token, r.kind = "reserved" => r.sequence \in Int,
             r.kind = "protected" => r.object \in Sealed,
             (r.kind = "committed" \/ (r.kind = "reserved" /\ r.object # Send!None)) =>
               \E c \in committed : c.operation = o /\ c.digest = e.command.digest /\ c.object = r.object
      PROVE  SenderInv'
  <2>1. OperationsKept'
    BY <1>1, <1>3, <1>5 DEF OperationsKept, Backed
  <2> QED BY <1>1, <1>3, <1>5, <2>1, SenderAnswer
<1>6. CASE e.kind = "Reserve" /\ Send!ReserveEffect(e)
  <2> DEFINE known == o \in DOMAIN operations
             fresh == /\ ~known /\ e.create_if_missing
                      /\ Send!Cardinality(DOMAIN operations) < MaxOperations
             r == [kind |-> "reserved", token |-> e.token, sequence |-> operations'[o].sequence,
                   object |-> operations'[o].object]
  <2>1. /\ fresh => /\ operations' = Send!Put(operations, o, [digest |-> e.command.digest,
                                               sequence |-> next_sequence, object |-> Send!None])
                    /\ next_sequence' = next_sequence + 1
        /\ ~fresh => UNCHANGED <<operations, next_sequence>>
        /\ \/ callbacks' = callbacks \cup {failed}
           \/ /\ callbacks' = callbacks \cup {r}
              /\ fresh \/ (known /\ operations[o].digest = e.command.digest)
        /\ committed' = committed
    <3>1. /\ fresh => /\ operations' = Send!Put(operations, o, [digest |-> e.command.digest,
                                                 sequence |-> next_sequence, object |-> Send!None])
                      /\ next_sequence' = next_sequence + 1
          /\ ~fresh => UNCHANGED <<operations, next_sequence>>
          /\ committed' = committed
      BY <1>6 DEF Send!ReserveEffect, Send!store
    <3>2. callbacks' \in {callbacks \cup {x} : x \in {failed} \cup
            IF fresh \/ (known /\ operations[o].digest = e.command.digest) THEN {r} ELSE {}}
      BY <1>6 DEF Send!ReserveEffect, failed
    <3> HIDE DEF r, fresh, known
    <3> QED BY <3>1, <3>2
  <2>2. /\ r.kind = "reserved" /\ r.token = e.token /\ r.sequence = operations'[o].sequence
        /\ r.object = operations'[o].object
    OBVIOUS
  <2> HIDE DEF r
  <2>3. CASE ~fresh
    <3>1. CASE callbacks' = callbacks \cup {failed}
      BY <1>4, <1>5, <2>1, <2>3, <3>1
    <3>2. CASE callbacks' = callbacks \cup {r} /\ known /\ operations[o].digest = e.command.digest
      <4>1. r.sequence \in Int
        BY <1>3, <2>1, <2>2, <2>3, <3>2 DEF Operations
      <4>2. r.object # Send!None => Backed(o, e.command.digest, r.object)
        BY <1>3, <2>1, <2>2, <2>3, <3>2 DEF OperationsKept
      <4> QED BY <1>5, <2>1, <2>2, <2>3, <3>2, <4>1, <4>2 DEF Backed
    <3> QED BY <2>1, <2>3, <3>1, <3>2
  <2>4. CASE fresh
    <3> DEFINE row == [digest |-> e.command.digest, sequence |-> next_sequence, object |-> Send!None]
    <3>1. row \in Operations /\ row.sequence = next_sequence /\ row.object = Send!None
      BY <1>2, <1>3 DEF Operations
    <3>2. operations' = Send!Put(operations, o, row)
      BY <2>1, <2>4
    <3> HIDE DEF row
    <3>3. /\ DOMAIN operations' = DOMAIN operations \cup {o} /\ operations'[o] = row
          /\ \A p \in DOMAIN operations : operations'[p] = operations[p]
      BY <2>4, <3>2 DEF Send!Put
    <3>4. OperationsKept'
      BY <1>1, <1>3, <2>1, <2>4, <3>1, <3>3 DEF OperationsKept, Backed
    <3>5. /\ next_sequence' \in Int
          /\ \A p \in DOMAIN operations' : operations'[p] \in Operations
      BY <1>3, <2>1, <2>4, <3>1, <3>3
    <3>6. ASSUME NEW x \in {failed, r}, callbacks' = callbacks \cup {x} PROVE SenderInv'
      <4>1. x.token = e.token /\ x.kind \in {"failed", "reserved"}
        BY <1>4, <2>2
      <4>2. x.kind = "reserved" => x.sequence \in Int /\ x.object = Send!None
        BY <1>3, <1>4, <2>2, <3>1, <3>3
      <4> QED BY <1>1, <1>3, <2>1, <3>4, <3>5, <3>6, <4>1, <4>2, SenderAnswer
    <3> QED BY <2>1, <3>6
  <2> QED BY <2>3, <2>4
<1>7. CASE e.kind = "Protect" /\ Send!ProtectEffect(e)
  <2> DEFINE object == [sequence |-> e.sequence, expires_at |-> e.command.expires_at, salt |-> e.token]
             r == [kind |-> "protected", token |-> e.token, object |-> object]
  <2>1. /\ callbacks' = callbacks \cup {failed} \/ callbacks' = callbacks \cup {r}
        /\ UNCHANGED <<operations, next_sequence, committed>>
    BY <1>7 DEF Send!ProtectEffect, Send!store, failed
  <2>2. object \in Sealed
    BY <1>1, <1>2, <1>7 DEF Sealed, SendEffects
  <2> HIDE DEF object
  <2>3. r.kind = "protected" /\ r.token = e.token /\ r.object = object
    OBVIOUS
  <2> HIDE DEF r
  <2> QED BY <1>4, <1>5, <2>1, <2>2, <2>3
<1>8. CASE e.kind = "Commit" /\ Send!CommitEffect(e)
  <2> DEFINE r == [kind |-> "committed", token |-> e.token, object |-> e.object]
             new == [operation |-> o, digest |-> e.command.digest, object |-> e.object, at |-> now]
  <2>1. e.object \in Sealed
    BY <1>1, <1>8 DEF SendEffects
  <2>2. e.object # Send!None
    BY <2>1 DEF Sealed, Send!None
  <2>3. r.kind = "committed" /\ r.token = e.token /\ r.object = e.object
    OBVIOUS
  <2>4. new.operation = o /\ new.digest = e.command.digest /\ new.object = e.object /\ new.at = now
    OBVIOUS
  <2> HIDE DEF r, new
  <2>5. /\ Send!Commits(e) => /\ operations' = [operations EXCEPT ![o].object = e.object]
                              /\ committed' = committed \cup {new}
        /\ ~Send!Commits(e) => UNCHANGED <<operations, committed>>
        /\ next_sequence' = next_sequence
        /\ \/ callbacks' = callbacks \cup {failed}
           \/ /\ callbacks' = callbacks \cup {r}
              /\ Send!Commits(e) \/ (Send!Matching(e) /\ operations[o].object = e.object)
    BY <1>8 DEF Send!CommitEffect, failed, r, new
  <2>6. CASE ~Send!Commits(e)
    <3>1. CASE callbacks' = callbacks \cup {failed}
      BY <1>4, <1>5, <2>5, <2>6, <3>1
    <3>2. CASE callbacks' = callbacks \cup {r} /\ Send!Matching(e) /\ operations[o].object = e.object
      <4>1. Backed(o, e.command.digest, r.object)
        BY <1>3, <2>2, <2>3, <3>2 DEF OperationsKept, Send!Matching
      <4> QED BY <1>5, <2>3, <2>5, <2>6, <3>2, <4>1 DEF Backed
    <3> QED BY <2>5, <2>6, <3>1, <3>2
  <2>7. CASE Send!Commits(e)
    <3>1. /\ o \in DOMAIN operations /\ operations[o].object = Send!None
          /\ operations[o].digest = e.command.digest
      BY <2>7 DEF Send!Commits, Send!Matching
    <3>2. /\ DOMAIN operations' = DOMAIN operations
          /\ \A p \in DOMAIN operations \ {o} : operations'[p] = operations[p]
          /\ operations'[o].object = e.object /\ operations'[o].digest = operations[o].digest
          /\ operations'[o].sequence = operations[o].sequence
      BY <1>3, <2>5, <2>7, <3>1 DEF Operations
    <3>8. operations'[o] \in Operations
      BY <1>3, <2>1, <2>5, <2>7, <3>1 DEF Operations
    <3>3. committed' = committed \cup {new}
      BY <2>5, <2>7
    <3>4. \A c \in committed : c.operation = o => c.object.expires_at <= now
      BY <1>3, <3>1 DEF OperationsKept, Sealed, Send!None, SenderInv, SenderTyped
    <3>5. OperationsKept'
      <4>1. \A p \in DOMAIN operations' : operations'[p].object # Send!None =>
              \E c \in committed' : c.operation = p /\ c.digest = operations'[p].digest
                                    /\ c.object = operations'[p].object
        BY <1>3, <2>4, <3>1, <3>2, <3>3 DEF OperationsKept, Backed
      <4>2. \A c \in committed' : c.object.expires_at > now =>
              c.operation \in DOMAIN operations' /\ operations'[c.operation].object = c.object
        BY <1>3, <2>4, <3>1, <3>2, <3>3, <3>4 DEF OperationsKept, SenderInv, SenderTyped, Sealed
      <4> QED BY <1>1, <4>1, <4>2 DEF OperationsKept, Backed
    <3>6. /\ \A c \in committed' : c.object \in Sealed
          /\ \A p \in DOMAIN operations' : operations'[p] \in Operations
          /\ \A c, d \in committed' : (c.operation = d.operation /\ c # d) =>
               c.object.expires_at <= d.at \/ d.object.expires_at <= c.at
      BY <1>3, <2>1, <2>4, <3>1, <3>2, <3>3, <3>4, <3>8
    <3>7. ASSUME NEW x \in {failed, r}, callbacks' = callbacks \cup {x} PROVE SenderInv'
      <4>1. x.token = e.token /\ x.kind \in {"failed", "committed"}
        BY <1>4, <2>3
      <4>2. x.kind = "committed" => x.object = e.object
        BY <1>4, <2>3
      <4>3. /\ committed \subseteq committed' /\ new \in committed' /\ next_sequence' \in Int
        BY <1>3, <2>5, <3>3
      <4> QED BY <1>1, <2>4, <3>5, <3>6, <3>7, <4>1, <4>2, <4>3, SenderAnswer
    <3> QED BY <2>5, <3>7
  <2> QED BY <2>6, <2>7
<1>9. CASE callbacks' = callbacks \cup {failed} /\ UNCHANGED <<operations, next_sequence, committed>>
  BY <1>4, <1>5, <1>9
<1> QED BY <1>6, <1>7, <1>8, <1>9 DEF Send!Execute, Send!store, failed

(* Every step of sender, host and store keeps its invariant.               *)
LEMMA SenderNext ==
  ASSUME \A command \in Commands : command.expires_at \in Nat, SenderInv, [Send!Next]_(Send!vars)
  PROVE  SenderInv'
<1>1. CASE UNCHANGED Send!vars
  BY <1>1, SenderDrop DEF Send!vars, Send!reducer, Send!host, Send!store
<1>2. CASE Send!PruneExpired
  <2> DEFINE gone == {o \in DOMAIN operations :
                        operations[o].object = Send!None \/ operations[o].object.expires_at <= now}
  <2>1. /\ operations' = Send!Drop(operations, gone)
        /\ UNCHANGED <<incarnation, next_token, pending, effects, callbacks, next_sequence, now,
                       committed, accepted>>
    BY <1>2 DEF Send!PruneExpired, Send!reducer, Send!host
  <2>2. /\ DOMAIN operations' = DOMAIN operations \ gone
        /\ \A o \in DOMAIN operations' : operations'[o] = operations[o]
    BY <2>1 DEF Send!Drop
  <2>3. \A c \in committed : c.object.expires_at > now => c.operation \notin gone
    BY DEF SenderInv, SenderTyped, OperationsKept, Sealed, Send!None
  <2> HIDE DEF gone
  <2>4. SenderTyped'
    BY <2>1, <2>2 DEF SenderInv, SenderTyped
  <2>5. TokensOnce' /\ CallbacksTrue' /\ AcceptedIsDurable'
    BY <2>1 DEF SenderInv, TokensOnce, CallbacksTrue, Issued, Backed, AcceptedIsDurable, Send!AcceptedIsDurable
  <2>6. OperationsKept'
    <3>1. \A o \in DOMAIN operations' : o \in DOMAIN operations /\ operations'[o] = operations[o]
      BY <2>2
    <3>2. \A c \in committed : c.object.expires_at > now =>
            c.operation \in DOMAIN operations' /\ operations'[c.operation].object = c.object
      BY <2>2, <2>3 DEF SenderInv, OperationsKept
    <3> QED BY <2>1, <3>1, <3>2 DEF SenderInv, OperationsKept, Backed
  <2> QED BY <2>4, <2>5, <2>6 DEF SenderInv
<1>3. CASE Send!Restart
  <2>1. /\ incarnation' = incarnation + 1 /\ next_token' = 1 /\ DOMAIN pending' = {}
        /\ UNCHANGED <<effects, callbacks, operations, next_sequence, now, committed, accepted>>
    BY <1>3 DEF Send!Restart, Send!Drop, Send!host, Send!store
  <2>2. incarnation \in Int
    BY DEF SenderInv, SenderTyped
  <2>3. \A t \in Tokens : Issued(t) => Drawn(t, incarnation', next_token')
    BY <2>1, <2>2 DEF Issued, Drawn, Tokens
  <2> QED BY <2>1, <2>2, <2>3, SenderSteps
<1>4. CASE Send!Tick
  <2>1. /\ now' = now + 1
        /\ UNCHANGED <<incarnation, next_token, pending, effects, callbacks, operations,
                       next_sequence, committed, accepted>>
    BY <1>4 DEF Send!Tick, Send!reducer, Send!host, Send!store
  <2>2. SenderTyped' /\ TokensOnce' /\ CallbacksTrue' /\ AcceptedIsDurable'
    BY <2>1 DEF SenderInv, SenderTyped, TokensOnce, CallbacksTrue, Issued, Backed,
                AcceptedIsDurable, Send!AcceptedIsDurable
  <2>3. \A c \in committed : c.object.expires_at > now + 1 => c.object.expires_at > now
    BY DEF SenderInv, SenderTyped, Sealed
  <2>4. OperationsKept'
    BY <2>1, <2>3 DEF SenderInv, OperationsKept, Backed
  <2> QED BY <2>2, <2>4 DEF SenderInv
<1> QED BY <1>1, <1>2, <1>3, <1>4, SenderStart, SenderCallback, SenderExecute DEF Send!Next

(* durable.rs accepts a send only on the word of the store, under the      *)
(* token the command is pending with; commit_sealed keeps the first object *)
(* of an operation for as long as it lives.  So what the application is    *)
(* told was accepted is durable, and a retried operation never owns two    *)
(* live objects, for any repetition of results, restart and prune.         *)
THEOREM SenderIsDurable ==
  ASSUME \A command \in Commands : command.expires_at \in Nat
  PROVE  Send!Spec => []AcceptedIsDurable
<1>1. Send!Init => SenderInv
  BY DEF Send!Init, SenderInv, SenderTyped, TokensOnce, CallbacksTrue, OperationsKept,
         AcceptedIsDurable, Send!AcceptedIsDurable
<1>2. SenderInv /\ [Send!Next]_(Send!vars) => SenderInv'
  BY SenderNext
<1>3. SenderInv => AcceptedIsDurable
  BY DEF SenderInv
<1> QED BY <1>1, <1>2, <1>3, PTL DEF Send!Spec

-----------------------------------------------------------------------------
(* The event ring.  Requests grow with the sequence, and the ring is the   *)
(* end of it.                                                              *)
Recorded == [sequence : Nat \ {0}, request_id : Nat \ {0}]

(* The events kept are the last ones, without a gap.                       *)
EndsAt(kept, last) ==
  /\ kept \in Seq(Recorded)
  /\ Len(kept) <= last
  /\ \A k \in DOMAIN kept : kept[k].sequence = last - Len(kept) + k

Gapless(set) == \A e, f \in set : \A n \in e.sequence .. f.sequence : \E g \in set : g.sequence = n

RingInv ==
  /\ sequence \in Nat /\ last_request \in Nat
  /\ EndsAt(ring, sequence)
  /\ \A k \in DOMAIN ring : ring[k] \in executed
  /\ last_request # 0 => ring # <<>> /\ ring[Len(ring)].request_id = last_request
  /\ last_request # 0 => last_request \in 1 .. MaxCounter
  /\ executed \subseteq Recorded /\ IsFiniteSet(executed)
  /\ \A e \in executed : e.sequence <= sequence /\ e.request_id <= last_request
  /\ \A e, f \in executed :
       /\ e.sequence < f.sequence => e.request_id < f.request_id
       /\ e.sequence = f.sequence => e = f

(* The application has sent the last request and had no answer to it.      *)
Unanswered == request = last_request /\ request # 0

HasEvent(set, n) == \E e \in set : e.sequence = n

ClientInv ==
  /\ request \in Nat
  /\ snapshot \in Int /\ snapshot >= -1
  /\ snapshot = -1 => events = {}
  /\ snapshot >= 0 => snapshot = sequence \/ (snapshot = sequence - 1 /\ Unanswered)
  /\ events \subseteq executed /\ Gapless(events)
  /\ \A e \in events : e.sequence <= snapshot
  /\ events # {} =>
       HasEvent(events, snapshot)
       \/ (snapshot = sequence /\ Unanswered /\ HasEvent(events, sequence - 1))

(* What a subscriber is sent: all there is after its cursor, or a reset.   *)
LEMMA Subscribed ==
  ASSUME NEW last \in Nat, NEW kept, EndsAt(kept, last), NEW cursor \in 0 .. last
  PROVE  LET s == Subscribe(cursor, last, kept) IN
         /\ s.cursor = last
         /\ s.cursor_reset \in BOOLEAN
         /\ s.cursor_reset => s.events = {}
         /\ \A e \in s.events : e.sequence \in cursor + 1 .. last /\ \E k \in DOMAIN kept : e = kept[k]
         /\ ~s.cursor_reset => \A n \in cursor + 1 .. last : HasEvent(s.events, n)
         /\ cursor = last => ~s.cursor_reset /\ s.events = {}
<1> DEFINE oldest == IF kept = <<>> THEN last + 1 ELSE Head(kept).sequence
           reset == cursor > last \/ cursor + 1 < oldest
           sent == IF reset THEN {}
                   ELSE {kept[k] : k \in {j \in DOMAIN kept : kept[j].sequence > cursor}}
<1>1. Subscribe(cursor, last, kept) = [cursor |-> last, cursor_reset |-> reset, events |-> sent]
  BY DEF Subscribe
<1>2. /\ kept \in Seq(Recorded) /\ Len(kept) \in Nat /\ DOMAIN kept = 1 .. Len(kept)
      /\ Len(kept) <= last
      /\ \A k \in 1 .. Len(kept) : kept[k].sequence = last - Len(kept) + k
  BY DEF EndsAt
<1>3. oldest = last - Len(kept) + 1
  <2>1. CASE kept = <<>> BY <2>1
  <2>2. CASE kept # <<>>
    <3>1. Head(kept) = kept[1] /\ 1 \in 1 .. Len(kept) BY <1>2, <2>2
    <3> QED BY <1>2, <2>2, <3>1
  <2> QED BY <2>1, <2>2
<1>4. reset <=> cursor + 1 < last - Len(kept) + 1
  BY <1>2, <1>3
<1>5. \A e \in sent : e.sequence \in cursor + 1 .. last /\ \E k \in DOMAIN kept : e = kept[k]
  BY <1>2
<1>6. ~reset => \A n \in cursor + 1 .. last : HasEvent(sent, n)
  <2> SUFFICES ASSUME ~reset, NEW n \in cursor + 1 .. last PROVE HasEvent(sent, n)
    OBVIOUS
  <2>1. n - (last - Len(kept)) \in 1 .. Len(kept) BY <1>2, <1>4
  <2>5. n = last - Len(kept) + (n - (last - Len(kept))) BY <1>2
  <2>0. PICK k \in 1 .. Len(kept) : n = last - Len(kept) + k BY ONLY <2>1, <2>5
  <2>2. k \in DOMAIN kept /\ kept[k].sequence = n BY <1>2, <2>0
  <2>3. kept[k].sequence > cursor BY <2>2
  <2>4. kept[k] \in sent BY <2>2, <2>3
  <2> QED BY <2>2, <2>4 DEF HasEvent
<1>7. cursor = last => ~reset /\ sent = {}
  BY <1>2, <1>4
<1>8. reset \in BOOLEAN /\ (reset => sent = {})
  OBVIOUS
<1> HIDE DEF oldest, reset, sent
<1> QED BY <1>1, <1>5, <1>6, <1>7, <1>8

(* The list kept by _accept is the upper end of what it is made from.      *)
Trim(all) == {e \in all : Cardinality({f \in all : f.sequence >= e.sequence}) <= MaxEvents}

(* The ring drops its oldest events, so what stays has no gap and ends     *)
(* where it did.                                                           *)
LEMMA Trimmed ==
  ASSUME MaxEvents \in Nat \ {0}, NEW all, IsFiniteSet(all), all \subseteq Recorded,
         \A e, f \in all : e.sequence = f.sequence => e = f,
         Gapless(all), NEW last \in Int, \A e \in all : e.sequence <= last
  PROVE  /\ Trim(all) \subseteq all /\ Gapless(Trim(all))
         /\ HasEvent(all, last) => HasEvent(Trim(all), last)
         /\ \A n \in Int : (~HasEvent(all, last) /\ n = last - 1 /\ HasEvent(all, n)) => HasEvent(Trim(all), n)
<1> DEFINE Above(e) == {f \in all : f.sequence >= e.sequence}
<1>1. \A e \in all : IsFiniteSet(Above(e)) /\ Cardinality(Above(e)) \in Nat
  BY FS_Subset, FS_CardinalityType
<1>2. \A e \in all : e.sequence \in Nat
  BY DEF Recorded
<1>3. ASSUME NEW e \in Trim(all), NEW g \in all, g.sequence >= e.sequence PROVE g \in Trim(all)
  <2>0. e \in all BY DEF Trim
  <2>1. Above(g) \subseteq Above(e) BY <1>2, <1>3, <2>0
  <2>2. Cardinality(Above(g)) <= Cardinality(Above(e)) BY <1>1, <2>0, <2>1, FS_Subset
  <2>3. Cardinality(Above(e)) <= MaxEvents BY DEF Trim
  <2>4. Cardinality(Above(g)) <= MaxEvents BY <1>1, <2>0, <2>2, <2>3
  <2> QED BY <2>4 DEF Trim
<1>4. Trim(all) \subseteq all BY DEF Trim
<1>5. Gapless(Trim(all))
  <2> SUFFICES ASSUME NEW e \in Trim(all), NEW f \in Trim(all), NEW n \in e.sequence .. f.sequence
               PROVE  \E g \in Trim(all) : g.sequence = n
    BY DEF Gapless
  <2>1. PICK g \in all : g.sequence = n BY <1>4 DEF Gapless
  <2>2. g.sequence >= e.sequence BY <1>2, <1>4, <2>1
  <2> QED BY <1>3, <2>1, <2>2
<1>6. ASSUME NEW e \in all, \A f \in all : f.sequence <= e.sequence PROVE e \in Trim(all)
  <2>1. Above(e) = {e} BY <1>2, <1>6
  <2>2. Cardinality(Above(e)) = 1 BY <2>1, FS_Singleton
  <2> QED BY <2>2 DEF Trim
<1>7. HasEvent(all, last) => HasEvent(Trim(all), last)
  BY <1>2, <1>6 DEF HasEvent
<1>8. ASSUME NEW n \in Int, ~HasEvent(all, last), n = last - 1, HasEvent(all, n) PROVE HasEvent(Trim(all), n)
  <2>1. \A e \in all : e.sequence <= n BY <1>2, <1>8 DEF HasEvent
  <2> QED BY <1>6, <1>8, <2>1 DEF HasEvent
<1> QED BY <1>4, <1>5, <1>7, <1>8

(* The ids an application draws are positive, so an open request is never  *)
(* taken for none.                                                         *)
LEMMA DrawnId ==
  ASSUME RingInv, ClientInv, Clocks \subseteq Nat, NEW clock \in Clocks
  PROVE  NewRequest(clock) \in Nat \ {0}
<1>1. LastId \in Nat
  <2>1. CASE events = {} BY <2>1 DEF LastId
  <2>2. CASE events # {}
    <3>1. \A e \in events : e \in executed /\ e.sequence \in Nat /\ e.request_id \in Nat
      BY DEF RingInv, ClientInv, Recorded
    <3>2. PICK e \in events : \A f \in events : f.sequence <= e.sequence
      <4>1. CASE HasEvent(events, snapshot) BY <4>1 DEF ClientInv, HasEvent
      <4>2. CASE ~HasEvent(events, snapshot)
        <5>1. snapshot = sequence /\ HasEvent(events, sequence - 1) BY <2>2, <4>2 DEF ClientInv
        <5>2. \A f \in events : f.sequence <= sequence /\ f.sequence # sequence
          BY <4>2, <5>1 DEF ClientInv, HasEvent
        <5>3. \A f \in events : f.sequence <= sequence - 1 BY <3>1, <5>2 DEF RingInv
        <5> QED BY <5>1, <5>3 DEF HasEvent
      <4> QED BY <4>1, <4>2
    <3>3. \A f \in events : f.request_id <= e.request_id
      BY <3>1, <3>2 DEF RingInv
    <3> QED BY <2>2, <3>1, <3>3 DEF LastId
  <2> QED BY <2>1, <2>2
<1> QED BY <1>1 DEF NewRequest

(* A new request extends the end of the ring; any other leaves it alone.   *)
LEMMA RingStep ==
  ASSUME MaxEvents \in Nat \ {0}, RingInv, NEW id \in Nat \ {0}, VerifyBridge(id)
  PROVE  /\ RingInv'
         /\ Verdict(id) = "new" => id > last_request /\ sequence' = sequence + 1 /\ last_request' = id
         /\ Verdict(id) # "new" => UNCHANGED runtime
         /\ executed \subseteq executed'
<1>1. CASE Verdict(id) # "new"
  BY <1>1 DEF VerifyBridge, RingInv, EndsAt, runtime
<1>2. CASE Verdict(id) = "new"
  <2> DEFINE event == [sequence |-> sequence + 1, request_id |-> id]
             kept == IF Len(ring) = MaxEvents THEN Tail(ring) ELSE ring
  <2>1. /\ sequence' = sequence + 1 /\ last_request' = id
        /\ ring' = Append(kept, event) /\ executed' = executed \cup {event}
    BY <1>2 DEF VerifyBridge
  <2>2. id > last_request /\ id \in 1 .. MaxCounter
    BY <1>2 DEF Verdict, RingInv
  <2>3. sequence \in Nat /\ last_request \in Nat /\ ring \in Seq(Recorded) /\ Len(ring) \in Nat
        /\ Len(ring) <= sequence /\ DOMAIN ring = 1 .. Len(ring)
    BY DEF RingInv, EndsAt
  <2>4. /\ event \in Recorded /\ event.sequence = sequence + 1 /\ event.request_id = id
    <3>1. sequence \in Nat BY DEF RingInv
    <3>2. sequence + 1 \in Nat \ {0} BY <3>1
    <3> QED BY <3>2 DEF Recorded
  <2> HIDE DEF event
  <2>5. /\ kept \in Seq(Recorded) /\ Len(kept) <= sequence /\ Len(kept) \in Nat
        /\ \A k \in 1 .. Len(kept) : kept[k].sequence = sequence - Len(kept) + k /\ kept[k] \in executed
    <3>1. CASE Len(ring) # MaxEvents
      <4>1. kept = ring BY <3>1
      <4>2. \A k \in DOMAIN ring : ring[k].sequence = sequence - Len(ring) + k /\ ring[k] \in executed
        BY DEF RingInv, EndsAt
      <4>3. \A k \in 1 .. Len(ring) : ring[k].sequence = sequence - Len(ring) + k /\ ring[k] \in executed
        BY <2>3, <4>2, Zenon
      <4> HIDE DEF kept
      <4> QED BY <2>3, <4>1, <4>3, Zenon
    <3>2. CASE Len(ring) = MaxEvents
      <4>1. /\ Tail(ring) \in Seq(Recorded) /\ Len(Tail(ring)) = Len(ring) - 1
            /\ \A k \in 1 .. Len(ring) - 1 : Tail(ring)[k] = ring[k + 1]
        BY <2>3, <3>2
      <4>2. \A k \in 1 .. Len(ring) - 1 : k + 1 \in DOMAIN ring BY <2>3
      <4>3. \A k \in DOMAIN ring : ring[k].sequence = sequence - Len(ring) + k /\ ring[k] \in executed
        BY DEF RingInv, EndsAt
      <4>4. kept = Tail(ring) BY <3>2
      <4>5. \A k \in 1 .. Len(ring) - 1 : Tail(ring)[k].sequence = sequence - Len(ring) + (k + 1)
                                        /\ Tail(ring)[k] \in executed
        BY <4>1, <4>2, <4>3
      <4>6. \A k \in 1 .. Len(ring) - 1 :
              Tail(ring)[k].sequence = sequence - Len(Tail(ring)) + k /\ Tail(ring)[k] \in executed
        BY <2>3, <4>1, <4>5
      <4>7. Len(Tail(ring)) <= sequence /\ Len(Tail(ring)) \in Nat BY <2>3, <3>2, <4>1
      <4> QED BY <4>1, <4>4, <4>6, <4>7, Zenon
    <3> QED BY <3>1, <3>2, Zenon
  <2> HIDE DEF kept
  <2>6. /\ ring' \in Seq(Recorded) /\ Len(ring') = Len(kept) + 1 /\ ring'[Len(kept) + 1] = event
        /\ DOMAIN ring' = 1 .. Len(kept) + 1
        /\ \A k \in 1 .. Len(kept) : ring'[k] = kept[k]
    BY <2>1, <2>4, <2>5
  <2>16. ASSUME NEW k \in 1 .. Len(kept) + 1
         PROVE  ring'[k].sequence = (sequence + 1) - (Len(kept) + 1) + k
    <3>1. CASE k = Len(kept) + 1 BY <2>3, <2>4, <2>5, <2>6, <3>1
    <3>2. CASE k \in 1 .. Len(kept)
      <4>1. ring'[k].sequence = sequence - Len(kept) + k BY <2>5, <2>6, <3>2
      <4> QED BY <2>3, <2>5, <4>1
    <3> QED BY <2>5, <3>1, <3>2
  <2>17. \A k \in DOMAIN ring' : ring'[k].sequence = sequence' - Len(ring') + k
    BY <2>1, <2>6, <2>16
  <2>18. Len(ring') <= sequence' BY <2>1, <2>3, <2>5, <2>6
  <2>7. EndsAt(ring, sequence)'
    BY <2>6, <2>17, <2>18 DEF EndsAt
  <2>8. \A k \in DOMAIN ring' : ring'[k] \in executed'
    BY <2>1, <2>5, <2>6
  <2>9. IsFiniteSet(executed')
    BY <2>1, FS_AddElement DEF RingInv
  <2>10. \A e \in executed : e.sequence \in Nat /\ e.request_id \in Nat
                              /\ e.sequence <= sequence /\ e.request_id <= last_request
    BY DEF RingInv, Recorded
  <2>11. \A e \in executed' : e.sequence <= sequence' /\ e.request_id <= last_request'
    BY <2>1, <2>2, <2>3, <2>4, <2>10
  <2>12. \A e, f \in executed' : /\ e.sequence < f.sequence => e.request_id < f.request_id
                                 /\ e.sequence = f.sequence => e = f
    BY <2>1, <2>2, <2>3, <2>4, <2>10 DEF RingInv
  <2>13. ring' # <<>> /\ ring'[Len(ring')].request_id = last_request'
    BY <2>1, <2>4, <2>5, <2>6
  <2>14. executed' \subseteq Recorded /\ sequence' \in Nat /\ last_request' \in Nat
    BY <2>1, <2>3, <2>4 DEF RingInv
  <2>15. RingInv'
    BY <2>1, <2>2, <2>7, <2>8, <2>9, <2>11, <2>12, <2>13, <2>14 DEF RingInv, Recorded
  <2> QED BY <1>2, <2>1, <2>2, <2>15
<1> QED BY <1>1, <1>2

(* Whatever follows the end of a gapless list without a gap extends it.    *)
LEMMA Joined ==
  ASSUME NEW old, NEW new, old \subseteq Recorded, new \subseteq Recorded,
         NEW cursor \in Nat, NEW last \in Nat, cursor <= last,
         Gapless(old), \A e \in old : e.sequence <= cursor,
         old # {} => HasEvent(old, cursor),
         \A e \in new : e.sequence \in cursor + 1 .. last,
         \A n \in cursor + 1 .. last : HasEvent(new, n)
  PROVE  /\ Gapless(old \cup new)
         /\ \A e \in old \cup new : e.sequence <= last
         /\ old \cup new # {} => HasEvent(old \cup new, last)
<1>1. \A e \in old \cup new : e.sequence \in Nat BY DEF Recorded
<1>2. \A e \in old \cup new : e.sequence <= last BY <1>1
<1>3. Gapless(old \cup new)
  <2> SUFFICES ASSUME NEW e \in old \cup new, NEW f \in old \cup new, NEW n \in e.sequence .. f.sequence
               PROVE  HasEvent(old, n) \/ HasEvent(new, n)
    BY DEF Gapless, HasEvent
  <2>1. CASE n > cursor BY <1>1, <1>2, <2>1
  <2>2. CASE n <= cursor
    <3>1. e \in old /\ n \in e.sequence .. cursor BY <1>1, <2>2
    <3>2. PICK g \in old : g.sequence = cursor BY <3>1 DEF HasEvent
    <3> QED BY <3>1, <3>2 DEF Gapless, HasEvent
  <2> QED BY <1>1, <2>1, <2>2
<1>4. ASSUME old \cup new # {} PROVE HasEvent(old \cup new, last)
  <2>1. CASE cursor = last BY <1>4, <2>1 DEF HasEvent
  <2>2. CASE cursor # last
    <3>1. last \in cursor + 1 .. last BY <2>2
    <3> QED BY <3>1 DEF HasEvent
  <2> QED BY <2>1, <2>2
<1> QED BY <1>2, <1>3, <1>4

(* The application takes over a snapshot whose list reaches its cursor, or *)
(* lacks the one event it has an open request for.                         *)
LEMMA TakesOver ==
  ASSUME MaxEvents \in Nat \ {0}, RingInv', NEW all, all \subseteq executed', Gapless(all),
         \A e \in all : e.sequence <= sequence',
         all # {} => HasEvent(all, sequence') \/ (Unanswered' /\ HasEvent(all, sequence' - 1)),
         snapshot' = sequence', events' = Trim(all), request' \in Nat
  PROVE  ClientInv'
<1>1. /\ sequence' \in Nat /\ executed' \subseteq Recorded /\ IsFiniteSet(executed')
      /\ \A e, f \in executed' : e.sequence = f.sequence => e = f
  BY DEF RingInv, Recorded
<1>2. IsFiniteSet(all) BY <1>1, FS_Subset
<1>3. /\ Trim(all) \subseteq all /\ Gapless(Trim(all))
      /\ HasEvent(all, sequence') => HasEvent(Trim(all), sequence')
      /\ \A n \in Int : (~HasEvent(all, sequence') /\ n = sequence' - 1 /\ HasEvent(all, n))
                         => HasEvent(Trim(all), n)
  <2>1. all \subseteq Recorded /\ \A e, f \in all : e.sequence = f.sequence => e = f BY <1>1
  <2>2. sequence' \in Int BY <1>1
  <2> QED BY <1>2, <2>1, <2>2, Trimmed
<1>4. HasEvent(Trim(all), sequence')
      \/ (Unanswered' /\ HasEvent(Trim(all), sequence' - 1)) \/ Trim(all) = {}
  <2>1. CASE HasEvent(all, sequence') BY <1>3, <2>1
  <2>2. CASE all = {} BY <1>3, <2>2
  <2>3. CASE ~HasEvent(all, sequence') /\ all # {}
    <3>1. sequence' - 1 \in Int BY <1>1
    <3>2. HasEvent(all, sequence' - 1) /\ Unanswered' BY <2>3
    <3> QED BY <1>3, <2>3, <3>1, <3>2
  <2> QED BY <2>1, <2>2, <2>3
<1>5. Gapless(events)' BY <1>3 DEF Gapless
<1>6. (events # {} => HasEvent(events, snapshot)
        \/ (snapshot = sequence /\ Unanswered /\ HasEvent(events, sequence - 1)))'
  BY <1>4 DEF HasEvent
<1> QED BY <1>1, <1>3, <1>5, <1>6 DEF ClientInv

(* The ring's newest event is the one of the last request.                 *)
LEMMA LastEvent ==
  ASSUME RingInv, last_request # 0
  PROVE  /\ \E k \in DOMAIN ring : ring[k].request_id = last_request
         /\ \A e \in executed : e.request_id = last_request => e.sequence = sequence
<1>1. Len(ring) \in DOMAIN ring /\ ring[Len(ring)].request_id = last_request
  BY DEF RingInv, EndsAt
<1>2. ring[Len(ring)] \in executed /\ ring[Len(ring)].sequence = sequence
  BY <1>1 DEF RingInv, EndsAt
<1>3. \A e \in executed : e.sequence <= sequence /\ e.sequence \in Nat /\ e.request_id \in Nat
  BY DEF RingInv, Recorded
<1> QED BY <1>1, <1>2, <1>3 DEF RingInv

(* The application reads the ring.                                         *)
LEMMA RefreshStep ==
  ASSUME MaxEvents \in Nat \ {0}, RingInv, ClientInv, Refresh
  PROVE  RingInv' /\ ClientInv'
<1> DEFINE cursor == IF snapshot < 0 THEN 0 ELSE snapshot
           s == Subscribe(cursor, sequence, ring)
           all == (IF s.cursor_reset THEN {} ELSE events) \cup s.events
<1>1. /\ snapshot' = s.cursor /\ events' = Trim(all)
      /\ UNCHANGED <<sequence, last_request, ring, executed, request>>
  BY DEF Refresh, Accepted, Trim, runtime
<1>2. RingInv'
  BY <1>1 DEF RingInv, EndsAt
<1>3. cursor \in 0 .. sequence
  BY DEF RingInv, ClientInv
<1>4. /\ s.cursor = sequence /\ s.cursor_reset \in BOOLEAN /\ (s.cursor_reset => s.events = {})
      /\ \A e \in s.events : e.sequence \in cursor + 1 .. sequence /\ \E k \in DOMAIN ring : e = ring[k]
      /\ ~s.cursor_reset => \A n \in cursor + 1 .. sequence : HasEvent(s.events, n)
      /\ cursor = sequence => ~s.cursor_reset /\ s.events = {}
  BY <1>3, Subscribed DEF RingInv
<1>5. s.events \subseteq executed /\ all \subseteq executed
  BY <1>4 DEF RingInv, ClientInv
<1> HIDE DEF s
<1>6. Gapless(all) /\ (\A e \in all : e.sequence <= sequence)
      /\ (all # {} => HasEvent(all, sequence) \/ (Unanswered /\ HasEvent(all, sequence - 1)))
  <2>1. CASE s.cursor_reset
    <3>1. all = {} BY <1>4, <2>1
    <3> QED BY <3>1 DEF Gapless
  <2>2. CASE ~s.cursor_reset /\ (events # {} => HasEvent(events, cursor))
    <3>1. all = events \cup s.events BY <2>2
    <3>2. events \subseteq Recorded /\ s.events \subseteq Recorded BY <1>5 DEF RingInv, ClientInv
    <3>3. Gapless(events) /\ \A e \in events : e.sequence <= cursor BY DEF ClientInv
    <3>4. cursor \in Nat /\ sequence \in Nat /\ cursor <= sequence BY <1>3 DEF RingInv
    <3> HIDE DEF cursor, all
    <3>5. /\ \A e \in s.events : e.sequence \in cursor + 1 .. sequence
          /\ \A n \in cursor + 1 .. sequence : HasEvent(s.events, n)
      BY <1>4, <2>2
    <3>6. /\ Gapless(events \cup s.events)
          /\ \A e \in events \cup s.events : e.sequence <= sequence
          /\ events \cup s.events # {} => HasEvent(events \cup s.events, sequence)
      BY <2>2, <3>2, <3>3, <3>4, <3>5, Joined
    <3> QED BY <3>1, <3>6
  <2>3. CASE ~s.cursor_reset /\ events # {} /\ ~HasEvent(events, cursor)
    <3>1. snapshot >= 0 /\ cursor = snapshot BY <2>3 DEF ClientInv
    <3>2. cursor = sequence /\ Unanswered /\ HasEvent(events, sequence - 1) BY <2>3, <3>1 DEF ClientInv
    <3>3. all = events BY <1>4, <2>3, <3>2
    <3> QED BY <3>1, <3>2, <3>3 DEF ClientInv
  <2> QED BY <1>4, <2>1, <2>2, <2>3
<1>7. request' \in Nat /\ (Unanswered <=> Unanswered') BY <1>1 DEF ClientInv, Unanswered
<1> HIDE DEF all
<1>8. ClientInv'
  BY <1>1, <1>2, <1>4, <1>5, <1>6, <1>7, TakesOver
<1> QED BY <1>2, <1>8

(* A request nobody answered is still the ring's newest, so sending it     *)
(* again is answered and records nothing.                                  *)
LEMMA ResentIsRepeated ==
  ASSUME RingInv, Unanswered PROVE Verdict(request) = "repeated"
<1>1. request = last_request /\ last_request # 0 /\ last_request \in Nat
  BY DEF RingInv, Unanswered
<1>2. request <= last_request /\ \E k \in DOMAIN ring : ring[k].request_id = request
  BY <1>1, LastEvent
<1>3. request \in 1 .. MaxCounter BY <1>1 DEF RingInv
<1> QED BY <1>2, <1>3 DEF Verdict

(* A verification is recorded, and its answer reaches the application or   *)
(* is lost.                                                                *)
LEMMA VerifyStep ==
  ASSUME MaxEvents \in Nat \ {0}, Clocks \subseteq Nat, RingInv, ClientInv,
         NEW clock \in Clocks, Verify(clock)
  PROVE  RingInv' /\ ClientInv'
<1> DEFINE id == IF request = 0 THEN NewRequest(clock) ELSE request
           s == Subscribe(sequence, sequence', ring')
           all == (IF s.cursor_reset THEN {} ELSE events) \cup s.events
<1>1. id \in Nat \ {0} /\ (Unanswered => id = request)
  BY DrawnId DEF ClientInv, Unanswered
<1>2. VerifyBridge(id) /\ snapshot >= 0
  BY DEF Verify
<1>3. \/ request' = id /\ UNCHANGED <<snapshot, events>>
      \/ Verdict(id) = "stale" /\ request' = 0 /\ UNCHANGED <<snapshot, events>>
      \/ /\ Verdict(id) \in {"new", "repeated"} /\ snapshot' = s.cursor /\ events' = Trim(all)
         /\ request' = IF \A e \in events' : e.request_id # id THEN id ELSE 0
  BY DEF Verify, Accepted, Trim
<1>4. /\ RingInv'
      /\ Verdict(id) = "new" => id > last_request /\ sequence' = sequence + 1 /\ last_request' = id
      /\ Verdict(id) # "new" => UNCHANGED <<sequence, last_request, ring, executed>>
      /\ executed \subseteq executed'
  BY <1>1, <1>2, RingStep DEF runtime
<1>5. Unanswered => Verdict(id) = "repeated"
  BY <1>1, ResentIsRepeated
<1>6. ~Unanswered => snapshot = sequence /\ (events # {} => HasEvent(events, sequence))
  BY <1>2 DEF ClientInv
<1>7. sequence \in Nat /\ sequence' \in Nat /\ EndsAt(ring', sequence')
  BY <1>4 DEF RingInv, EndsAt
<1> HIDE DEF id
<1>8. CASE request' = id /\ UNCHANGED <<snapshot, events>>
  <2>1. CASE Verdict(id) = "new"
    <3>1. ~Unanswered /\ Unanswered' BY <1>1, <1>4, <1>5, <1>8, <2>1 DEF Unanswered
    <3>2. snapshot' = sequence' - 1 /\ (events' # {} => HasEvent(events', snapshot'))
      BY <1>4, <1>6, <1>7, <1>8, <2>1, <3>1
    <3> QED BY <1>1, <1>4, <1>8, <3>1, <3>2 DEF ClientInv, Gapless, HasEvent
  <2>2. CASE Verdict(id) # "new"
    <3>1. Unanswered => Unanswered' BY <1>1, <1>4, <1>8, <2>2 DEF Unanswered
    <3> QED BY <1>1, <1>4, <1>8, <2>2, <3>1 DEF ClientInv, Gapless, HasEvent
  <2> QED BY <2>1, <2>2
<1>9. CASE Verdict(id) = "stale" /\ request' = 0 /\ UNCHANGED <<snapshot, events>>
  <2>1. ~Unanswered BY <1>5, <1>9
  <2>2. UNCHANGED <<sequence, last_request, ring, executed>> BY <1>4, <1>9
  <2> QED BY <1>4, <1>6, <1>9, <2>1, <2>2 DEF ClientInv, Gapless, HasEvent
<1>10. CASE /\ Verdict(id) \in {"new", "repeated"} /\ snapshot' = s.cursor /\ events' = Trim(all)
            /\ request' = IF \A e \in events' : e.request_id # id THEN id ELSE 0
  <2>1. request' \in Nat BY <1>1, <1>10
  <2>2. sequence \in 0 .. sequence' BY <1>4, <1>7, <1>10
  <2>3. /\ s.cursor = sequence' /\ (s.cursor_reset => s.events = {})
        /\ \A e \in s.events : e.sequence \in sequence + 1 .. sequence' /\ \E k \in DOMAIN ring' : e = ring'[k]
        /\ ~s.cursor_reset => \A n \in sequence + 1 .. sequence' : HasEvent(s.events, n)
        /\ sequence = sequence' => ~s.cursor_reset /\ s.events = {}
    BY <1>7, <2>2, Subscribed
  <2>4. s.events \subseteq executed' /\ all \subseteq executed'
    BY <1>4, <2>3 DEF RingInv, ClientInv
  <2> HIDE DEF s
  <2>5. Gapless(all) /\ (\A e \in all : e.sequence <= sequence')
        /\ (all # {} => HasEvent(all, sequence') \/ (Unanswered' /\ HasEvent(all, sequence' - 1)))
    <3>1. CASE s.cursor_reset
      <4>1. all = {} BY <2>3, <3>1
      <4> QED BY <4>1 DEF Gapless
    <3>2. CASE ~s.cursor_reset /\ Verdict(id) = "new"
      <4>1. all = events \cup s.events BY <3>2
      <4>2. events \subseteq Recorded /\ s.events \subseteq Recorded
        BY <1>4, <2>4 DEF RingInv, ClientInv, Recorded
      <4>3. /\ Gapless(events) /\ \A e \in events : e.sequence <= sequence
            /\ events # {} => HasEvent(events, sequence)
        BY <1>5, <1>6, <3>2 DEF ClientInv
      <4>4. sequence <= sequence' BY <1>4, <1>7, <3>2
      <4>5. /\ \A e \in s.events : e.sequence \in sequence + 1 .. sequence'
            /\ \A n \in sequence + 1 .. sequence' : HasEvent(s.events, n)
        BY <2>3, <3>2
      <4>6. /\ Gapless(events \cup s.events)
            /\ \A e \in events \cup s.events : e.sequence <= sequence'
            /\ events \cup s.events # {} => HasEvent(events \cup s.events, sequence')
        BY <1>7, <4>2, <4>3, <4>4, <4>5, Joined
      <4> HIDE DEF all
      <4> QED BY <4>1, <4>6
    <3>3. CASE ~s.cursor_reset /\ Verdict(id) = "repeated"
      <4>1. UNCHANGED <<sequence, last_request, ring, executed>> BY <1>4, <3>3
      <4>2. all = events BY <2>3, <3>3, <4>1
      <4> HIDE DEF all
      <4>3. Gapless(all) /\ \A e \in all : e.sequence <= sequence'
        BY <4>1, <4>2 DEF ClientInv, RingInv
      <4>4. ASSUME all # {}, ~HasEvent(all, sequence')
            PROVE  Unanswered' /\ HasEvent(all, sequence' - 1)
        <5>1. Unanswered BY <1>6, <4>1, <4>2, <4>4
        <5>2. HasEvent(all, sequence' - 1) BY <1>2, <4>1, <4>2, <4>4 DEF ClientInv
        <5>3. id = last_request /\ last_request # 0 BY <1>1, <5>1 DEF Unanswered
        <5>4. \A e \in all : e.request_id # id
          BY <4>1, <4>2, <4>4, <5>3, LastEvent DEF ClientInv, HasEvent
        <5>5. \A e \in events' : e.request_id # id BY <1>10, <5>4 DEF Trim
        <5> QED BY <1>10, <4>1, <5>2, <5>3, <5>5 DEF Unanswered
      <4> QED BY <4>3, <4>4
    <3> QED BY <1>10, <3>1, <3>2, <3>3
  <2> HIDE DEF all
  <2> QED BY <1>4, <1>10, <2>1, <2>3, <2>4, <2>5, TakesOver
<1> QED BY <1>3, <1>4, <1>8, <1>9, <1>10

(* A lost answer is looked up in the ring.                                 *)
LEMMA RecoverStep ==
  ASSUME MaxEvents \in Nat \ {0}, RingInv, ClientInv, Recover
  PROVE  RingInv' /\ ClientInv'
<1> DEFINE s == Subscribe(0, sequence, ring)
           all == (IF s.cursor_reset THEN {} ELSE events) \cup s.events
<1>1. /\ UNCHANGED <<sequence, last_request, ring, executed>>
      /\ \/ UNCHANGED <<snapshot, events, request>>
         \/ snapshot' = s.cursor /\ events' = Trim(all) /\ request' = 0
  BY DEF Recover, Accepted, Trim, runtime
<1>2. RingInv' BY <1>1 DEF RingInv, EndsAt
<1>3. CASE UNCHANGED <<snapshot, events, request>>
  BY <1>1, <1>2, <1>3 DEF ClientInv, Unanswered, Gapless, HasEvent
<1>4. CASE snapshot' = s.cursor /\ events' = Trim(all) /\ request' = 0
  <2>1. sequence \in Nat /\ EndsAt(ring, sequence) /\ 0 \in 0 .. sequence BY DEF RingInv
  <2>2. /\ s.cursor = sequence /\ (s.cursor_reset => s.events = {})
        /\ \A e \in s.events : e.sequence \in 0 + 1 .. sequence /\ \E k \in DOMAIN ring : e = ring[k]
        /\ ~s.cursor_reset => \A n \in 0 + 1 .. sequence : HasEvent(s.events, n)
    BY <2>1, Subscribed
  <2>3. all \subseteq executed BY <2>2 DEF RingInv, ClientInv
  <2> HIDE DEF s
  <2>4. \A e \in all : e.sequence \in Nat \ {0} /\ e.sequence <= sequence
    BY <2>3 DEF RingInv, Recorded
  <2>5. \A e \in all, n \in 1 .. sequence : HasEvent(all, n)
    BY <2>2 DEF HasEvent
  <2> HIDE DEF all
  <2>6. Gapless(all)
    <3> SUFFICES ASSUME NEW e \in all, NEW f \in all, NEW n \in e.sequence .. f.sequence
                 PROVE  HasEvent(all, n)
      BY DEF Gapless, HasEvent
    <3>1. n \in 1 .. sequence BY <2>1, <2>4
    <3> QED BY <2>5, <3>1
  <2>7. ASSUME all # {} PROVE HasEvent(all, sequence)
    <3>1. PICK e \in all : TRUE BY <2>7
    <3>2. sequence \in 1 .. sequence BY <2>1, <2>4, <3>1
    <3> QED BY <2>5, <3>1, <3>2
  <2> QED BY <1>1, <1>2, <1>4, <2>2, <2>3, <2>4, <2>6, <2>7, TakesOver
<1> QED BY <1>1, <1>2, <1>3, <1>4

(* The list the application shows is a gapless piece of what the runtime   *)
(* recorded and no request is executed twice, whatever answers are lost,   *)
(* whenever the application is relaunched and whatever its clock reads.    *)
THEOREM HistoryIsExact ==
  ASSUME MaxEvents \in Nat \ {0}, Clocks \subseteq Nat
  PROVE  Spec => []HistoryExact
<1>1. Init => RingInv /\ ClientInv
  BY FS_EmptySet DEF Init, RingInv, ClientInv, EndsAt, Gapless, HasEvent, Recorded
<1>2. RingInv /\ ClientInv /\ [Next]_vars => RingInv' /\ ClientInv'
  <2> SUFFICES ASSUME RingInv, ClientInv, [Next]_vars PROVE RingInv' /\ ClientInv'
    OBVIOUS
  <2>1. CASE Relaunch
    BY <2>1 DEF Relaunch, runtime, RingInv, ClientInv, EndsAt, Gapless, HasEvent
  <2>2. CASE UNCHANGED vars
    BY <2>2 DEF vars, runtime, client, RingInv, ClientInv, EndsAt, Gapless, HasEvent, Unanswered
  <2> QED BY <2>1, <2>2, RefreshStep, VerifyStep, RecoverStep DEF Next
<1>3. RingInv /\ ClientInv => HistoryExact
  <2> SUFFICES ASSUME RingInv, ClientInv PROVE HistoryExact OBVIOUS
  <2>1. \A e, f \in executed : e.request_id = f.request_id => e = f
    <3>1. \A e \in executed : e.sequence \in Nat /\ e.request_id \in Nat BY DEF RingInv, Recorded
    <3> QED BY <3>1 DEF RingInv
  <2>2. (events # {} /\ request = 0) => \E e \in events : e.sequence = snapshot
    BY DEF ClientInv, Unanswered, HasEvent
  <2> QED BY <2>1, <2>2 DEF HistoryExact, ClientInv, Gapless
<1> QED BY <1>1, <1>2, <1>3, PTL DEF Spec
=============================================================================
