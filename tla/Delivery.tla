------------------------------ MODULE Delivery ------------------------------
(***************************************************************************)
(* What durable delivery promises of every object and every target,        *)
(* whatever phones, links and policies do in between: the content is shown *)
(* there at most once and only after it was sent, the author counts it as  *)
(* confirmed only then, and the recipient stops repeating its receipt only *)
(* after that.  No step is ever taken back.                                *)
(***************************************************************************)
EXTENDS Integers

CONSTANTS Nodes, Objects, Targets

VARIABLES
  sent,        \* objects their author committed to its outbox
  shows,       \* how often o was shown at n, by <<o, n>>
  confirmed,   \* <<o, n>>: the author recorded n's receipt
  released     \* <<o, n>>: n recorded the author's acknowledgement

vars == <<sent, shows, confirmed, released>>

Init ==
  /\ sent = {} /\ confirmed = {} /\ released = {}
  /\ shows = [p \in Objects \X Nodes |-> 0]

Send(o) ==
  /\ o \notin sent
  /\ sent' = sent \cup {o}
  /\ UNCHANGED <<shows, confirmed, released>>

Show(o, n) ==
  /\ o \in sent /\ n \in Targets[o] /\ shows[<<o, n>>] = 0
  /\ shows' = [shows EXCEPT ![<<o, n>>] = 1]
  /\ UNCHANGED <<sent, confirmed, released>>

Confirm(o, n) ==
  /\ shows[<<o, n>>] = 1 /\ <<o, n>> \notin confirmed
  /\ confirmed' = confirmed \cup {<<o, n>>}
  /\ UNCHANGED <<sent, shows, released>>

Release(o, n) ==
  /\ <<o, n>> \in confirmed \ released
  /\ released' = released \cup {<<o, n>>}
  /\ UNCHANGED <<sent, shows, confirmed>>

Next ==
  \E o \in Objects :
    \/ Send(o)
    \/ \E n \in Nodes : Show(o, n) \/ Confirm(o, n) \/ Release(o, n)

Spec == Init /\ [][Next]_vars
=============================================================================
