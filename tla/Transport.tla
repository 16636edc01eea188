----------------------------- MODULE Transport ------------------------------
(***************************************************************************)
(* select_transport of crates/mesh-replication over the life of one        *)
(* durable object: native adapters report and withdraw links, and every    *)
(* attempt to send the object chooses a bearer from the links reported,    *)
(* given the bearer of the attempt before.                                 *)
(***************************************************************************)
EXTENDS Integers

CONSTANTS
  Local,         \* this phone
  Peers,         \* members an adapter may report, numbers; Local is one of them
  Slots,         \* positions of the list of candidates
  MaxEta,        \* bound on eta_millis
  ReceivedFrom   \* the neighbour that supplied the object

VARIABLES
  candidates,  \* what the adapters report, by position
  current,     \* the bearer of the previous attempt, or NoChoice
  decision     \* the last TransportDecision, or "Error"

vars == <<candidates, current, decision>>

Kinds == {"WifiAware", "Bluetooth"}
TransportRank(kind) == IF kind = "WifiAware" THEN 0 ELSE 1

(* usable: authenticated and healthy.                                      *)
Candidate == [peer : Peers, transport : Kinds, usable : BOOLEAN, eta : 0 .. MaxEta]
NoCandidate == [peer |-> Local, transport |-> "Bluetooth", usable |-> FALSE, eta |-> -1]
NoChoice == [peer |-> Local, transport |-> "Bluetooth", eta |-> -1]

CandidateChoice(c) == [peer |-> c.peer, transport |-> c.transport, eta |-> c.eta]
SameLink(c, d) == c.peer = d.peer /\ c.transport = d.transport

(* Mutant: the previous hop is a candidate like any other.                 *)
EligibleAnyHop(list) == {i \in Slots : list[i].usable}

Eligible(list) == {i \in Slots : list[i].usable /\ list[i].peer # ReceivedFrom}

Invalid(list) ==
  \/ ReceivedFrom = Local
  \/ \E i \in Slots : list[i] # NoCandidate /\ list[i].peer = Local
  \/ \E i \in Eligible(list) : list[i].eta = 0
  \/ \E i, j \in Eligible(list) : i # j /\ SameLink(list[i], list[j])

Before(c, d) ==
  \/ c.eta < d.eta
  \/ c.eta = d.eta /\ TransportRank(c.transport) < TransportRank(d.transport)
  \/ c.eta = d.eta /\ c.transport = d.transport /\ c.peer < d.peer

Best(list) ==
  LET i == CHOOSE i \in Eligible(list) : \A j \in Eligible(list) \ {i} : Before(list[i], list[j])
  IN  CandidateChoice(list[i])

SelectTransport(last, list) ==
  IF Invalid(list) THEN [kind |-> "Error", from |-> NoChoice, to |-> NoChoice]
  ELSE IF Eligible(list) = {} THEN [kind |-> "NoRoute", from |-> NoChoice, to |-> NoChoice]
  ELSE IF \A i \in Eligible(list) : ~SameLink(list[i], last)
  THEN [kind |-> "Send", from |-> NoChoice, to |-> Best(list)]
  ELSE IF SameLink(last, Best(list)) THEN [kind |-> "Keep", from |-> NoChoice, to |-> Best(list)]
  ELSE [kind |-> "Switch", from |-> last, to |-> Best(list)]

Init ==
  /\ candidates = [i \in Slots |-> NoCandidate]
  /\ current = NoChoice
  /\ decision = [kind |-> "NoRoute", from |-> NoChoice, to |-> NoChoice]

(* A native adapter reports a link, or that it is gone.                    *)
Report(i, c) ==
  /\ candidates' = [candidates EXCEPT ![i] = c]
  /\ UNCHANGED <<current, decision>>

Attempt ==
  /\ decision' = SelectTransport(current, candidates)
  /\ current' = IF decision'.kind \in {"Error", "NoRoute"} THEN current ELSE decision'.to
  /\ UNCHANGED candidates

Next ==
  \/ \E i \in Slots, c \in Candidate \cup {NoCandidate} : Report(i, c)
  \/ Attempt

Spec == Init /\ [][Next]_vars

-----------------------------------------------------------------------------
(* An attempt never sends an object back to the neighbour it came from or  *)
(* over a link no adapter vouches for, takes the quickest link there is,   *)
(* abandons a bearer only while that bearer is still usable or after it    *)
(* was lost ("Switch is emitted only when both the old and new links are   *)
(* already authenticated and healthy"), and does not flap: repeated with   *)
(* the same facts it keeps its choice.                                     *)
SendsWell ==
  [][decision'.kind \in {"Send", "Keep", "Switch"} /\ current' = decision'.to
     /\ UNCHANGED candidates =>
       LET to == decision'.to
           links == {candidates[i] : i \in Slots}
           fit == {c \in links : c.usable /\ c.peer # ReceivedFrom}
       IN  /\ \E c \in fit : CandidateChoice(c) = to
           /\ \A c \in fit : to.eta <= c.eta
           /\ decision'.kind = "Switch" =>
                /\ decision'.from = current
                /\ ~SameLink(current, to)
                /\ \E c \in fit : SameLink(c, current)
           /\ SelectTransport(to, candidates).kind = "Keep"]_vars
=============================================================================
