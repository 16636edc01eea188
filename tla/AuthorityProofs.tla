-------------------------- MODULE AuthorityProofs ---------------------------
(***************************************************************************)
(* Group policy for any number of phones, groups, requests, handoffs and   *)
(* epochs: an authority signs one policy per epoch, nobody is ahead of it, *)
(* and rosters of one scope diverge only through a handoff.                *)
(***************************************************************************)
EXTENDS Authority, TLAPS

(* A policy that exists, unlike None, is a record with an epoch.           *)
IsPolicy(x) == x # None /\ x.epoch \in Nat /\ x.group \in Phones /\ x.authority \in Phones

PoliciesTyped ==
  /\ DOMAIN policy = Phones /\ policy = [p \in Phones |-> policy[p]]
  /\ \A x \in Policies : IsPolicy(x)
  /\ \A h \in handoffs : h.prior.epoch \in Nat

(* A policy signed by anybody but the founder of its group was made        *)
(* possible by a handoff of an earlier epoch of that group.                *)
FounderUnlessHandedOver ==
  \A x \in Policies :
    x.authority # x.group => \E h \in handoffs : h.prior.group = x.group /\ h.prior.epoch < x.epoch

AuthorityInv == PoliciesTyped /\ AuthorityLeads /\ OnePolicyPerEpoch /\ FounderUnlessHandedOver

(* What a step does to one store: it stays in its group and never goes     *)
(* back to an earlier epoch.                                               *)
Advances(p) ==
  policy[p] # None => /\ policy'[p] # None
                      /\ policy'[p].group = policy[p].group
                      /\ policy'[p].epoch >= policy[p].epoch

Step == AuthorityInv' /\ \A p \in Phones : Advances(p)

-----------------------------------------------------------------------------
(* Policy makes a policy with the fields it is given.                      *)
LEMMA PolicyIsPolicy ==
  ASSUME NEW g \in Phones, NEW a \in Phones, NEW e \in Nat, NEW m
  PROVE  /\ IsPolicy(Policy(g, a, e, m))
         /\ Policy(g, a, e, m).group = g /\ Policy(g, a, e, m).authority = a
         /\ Policy(g, a, e, m).epoch = e /\ Policy(g, a, e, m).members = m
<1> DEFINE x == Policy(g, a, e, m)
<1>1. "epoch" \in DOMAIN x /\ "epoch" \notin DOMAIN None
  BY DEF Policy, None
<1>2. x # None
  BY <1>1
<1> QED BY <1>2 DEF IsPolicy, Policy

(* The policies there are after a store took one over: those there were,   *)
(* and that one.                                                           *)
LEMMA PoliciesAfter ==
  ASSUME PoliciesTyped, NEW p \in Phones, NEW x, IsPolicy(x),
         policy' = [policy EXCEPT ![p] = x],
         published' = published \/ published' = published \cup {x}
  PROVE  /\ Policies' \subseteq Policies \cup {x}
         /\ DOMAIN policy' = Phones /\ policy' = [q \in Phones |-> policy'[q]]
         /\ policy'[p] = x /\ \A q \in Phones \ {p} : policy'[q] = policy[q]
  BY DEF PoliciesTyped, Policies

(* The argument for every step that writes to a store: what it writes is   *)
(* either a policy that exists already, or a new one signed by the phone   *)
(* itself for the epoch after its own.                                     *)
LEMMA StoreStep ==
  ASSUME AuthorityInv, NEW p \in Phones, NEW x, IsPolicy(x),
         policy' = [policy EXCEPT ![p] = x],
         published' = published \/ published' = published \cup {x},
         handoffs' = handoffs,
         policy[p] # None => x.group = policy[p].group /\ x.epoch >= policy[p].epoch,
         \/ x \in Policies
         \/ /\ x.authority = p /\ p \in x.members
            /\ policy[p] # None => x.epoch > policy[p].epoch
            /\ x.authority # x.group =>
                 \E h \in handoffs : h.prior.group = x.group /\ h.prior.epoch < x.epoch
  PROVE  Step
<1>1. /\ Policies' \subseteq Policies \cup {x}
      /\ DOMAIN policy' = Phones /\ policy' = [q \in Phones |-> policy'[q]]
      /\ policy'[p] = x /\ \A q \in Phones \ {p} : policy'[q] = policy[q]
  BY PoliciesAfter DEF AuthorityInv
<1>2. \A y \in Policies \cup {x} : IsPolicy(y)
  BY DEF AuthorityInv, PoliciesTyped
<1>3. PoliciesTyped'
  BY <1>1, <1>2 DEF AuthorityInv, PoliciesTyped, IsPolicy
<1>4. ASSUME NEW y \in Policies
      PROVE  /\ y.authority \in y.members
             /\ policy'[y.authority] # None
             /\ policy'[y.authority].group = y.group
             /\ policy'[y.authority].epoch >= y.epoch
  <2>1. /\ y.authority \in y.members /\ policy[y.authority] # None
        /\ policy[y.authority].group = y.group /\ policy[y.authority].epoch >= y.epoch
    BY DEF AuthorityInv, AuthorityLeads
  <2>2. y.authority \in Phones /\ y.epoch \in Nat
    BY <1>2 DEF IsPolicy
  <2>3. CASE y.authority = p
    <3>1. x.group = policy[p].group /\ x.epoch >= policy[p].epoch /\ x # None
      BY <2>1, <2>3 DEF IsPolicy
    <3>2. policy[p] \in Policies
      BY <2>1, <2>3 DEF Policies
    <3>3. policy[p].epoch \in Nat /\ x.epoch \in Nat
      BY <1>2, <3>2 DEF IsPolicy
    <3> QED BY <1>1, <2>1, <2>2, <2>3, <3>1, <3>3
  <2>4. CASE y.authority # p
    BY <1>1, <2>1, <2>2, <2>4
  <2> QED BY <2>3, <2>4
<1>5. ASSUME x \in Policies PROVE AuthorityInv'
  <2>1. Policies' \subseteq Policies
    BY <1>1, <1>5
  <2>2. AuthorityLeads'
    BY <1>4, <2>1 DEF AuthorityLeads
  <2>3. OnePolicyPerEpoch' /\ FounderUnlessHandedOver'
    BY <2>1 DEF AuthorityInv, OnePolicyPerEpoch, FounderUnlessHandedOver
  <2> QED BY <1>3, <2>2, <2>3 DEF AuthorityInv
<1>6. ASSUME x \notin Policies PROVE AuthorityInv'
  <2>1. /\ x.authority = p /\ p \in x.members
        /\ policy[p] # None => x.epoch > policy[p].epoch
        /\ x.authority # x.group =>
             \E h \in handoffs : h.prior.group = x.group /\ h.prior.epoch < x.epoch
    BY <1>6
  <2>2. AuthorityLeads'
    <3>1. /\ policy'[x.authority] # None /\ policy'[x.authority].group = x.group
          /\ policy'[x.authority].epoch >= x.epoch
      BY <1>1, <1>2, <2>1 DEF IsPolicy
    <3> QED BY <1>1, <1>4, <2>1, <3>1 DEF AuthorityLeads
  <2>3. ASSUME NEW y \in Policies PROVE ~(y.authority = x.authority /\ y.epoch = x.epoch)
    <3> SUFFICES ASSUME y.authority = p, y.epoch = x.epoch PROVE FALSE
      BY <2>1
    <3>1. policy[p] # None /\ policy[p].epoch >= y.epoch
      BY DEF AuthorityInv, AuthorityLeads
    <3>2. policy[p] \in Policies
      BY <3>1 DEF Policies
    <3>3. policy[p].epoch \in Nat /\ x.epoch \in Nat /\ y.epoch \in Nat
      BY <1>2, <3>2 DEF IsPolicy
    <3> QED BY <2>1, <3>1, <3>3
  <2>4. OnePolicyPerEpoch'
    BY <1>1, <2>3 DEF AuthorityInv, OnePolicyPerEpoch
  <2>5. FounderUnlessHandedOver'
    BY <1>1, <2>1 DEF AuthorityInv, FounderUnlessHandedOver
  <2> QED BY <1>3, <2>2, <2>4, <2>5 DEF AuthorityInv
<1>7. ASSUME NEW q \in Phones, policy[q] # None
      PROVE  /\ policy'[q] # None /\ policy'[q].group = policy[q].group
             /\ policy'[q].epoch >= policy[q].epoch
  <2>1. policy[q] \in Policies
    BY <1>7 DEF Policies
  <2>2. policy[q].epoch \in Nat /\ x # None
    BY <1>2, <2>1 DEF IsPolicy
  <2> QED BY <1>1, <1>7, <2>2
<1> QED BY <1>5, <1>6, <1>7 DEF Step, Advances

(* What a store may install keeps it in its group and never sends it back. *)
LEMMA InstallableAdvances ==
  ASSUME NEW p \in Phones, NEW x, NEW rotation, Installable(p, x, rotation), policy[p] # None,
         policy[p].epoch \in Nat, x.epoch \in Nat
  PROVE  x.group = policy[p].group /\ x.epoch >= policy[p].epoch
  BY DEF Installable

(* At the start there are no policies, so nothing to contradict.           *)
LEMMA InitAuthority == Init => AuthorityInv
<1> SUFFICES ASSUME Init PROVE AuthorityInv
  OBVIOUS
<1>1. Policies = {}
  BY DEF Init, Policies
<1>2. PoliciesTyped
  BY <1>1 DEF Init, PoliciesTyped
<1> QED BY <1>1, <1>2 DEF AuthorityInv, AuthorityLeads, OnePolicyPerEpoch, FounderUnlessHandedOver

(* Nothing is at stake where no store and no published policy changes.     *)
LEMMA SamePolicies ==
  ASSUME AuthorityInv, UNCHANGED policy, Policies' = Policies, handoffs \subseteq handoffs',
         \A h \in handoffs' : h.prior.epoch \in Nat
  PROVE  Step
<1>1. PoliciesTyped' /\ AuthorityLeads' /\ OnePolicyPerEpoch'
  BY DEF AuthorityInv, PoliciesTyped, AuthorityLeads, OnePolicyPerEpoch, IsPolicy
<1>2. FounderUnlessHandedOver'
  BY DEF AuthorityInv, FounderUnlessHandedOver
<1>3. \A p \in Phones : policy[p] # None => policy[p].epoch \in Nat
  BY DEF AuthorityInv, PoliciesTyped, Policies, IsPolicy
<1> QED BY <1>1, <1>2, <1>3 DEF Step, Advances, AuthorityInv

(* Each step keeps the invariant and moves epochs only forwards.           *)
LEMMA NextAuthority == AuthorityInv /\ [Next]_vars => Step
<1> SUFFICES ASSUME AuthorityInv, [Next]_vars PROVE Step
  OBVIOUS
<1>t. /\ \A x \in Policies : IsPolicy(x)
      /\ \A p \in Phones : policy[p] # None => policy[p] \in Policies
      /\ published \subseteq Policies
      /\ \A h \in handoffs : h.prior.epoch \in Nat
  BY DEF AuthorityInv, PoliciesTyped, Policies
<1>1. ASSUME NEW p \in Phones, CreateGroup(p) PROVE Step
  <2> DEFINE x == Policy(p, p, 1, {p})
  <2>1. /\ policy[p] = None /\ policy' = [policy EXCEPT ![p] = x]
        /\ published' = published /\ handoffs' = handoffs
    BY <1>1 DEF CreateGroup
  <2>2. /\ IsPolicy(x) /\ x.authority = p /\ x.group = p /\ x.members = {p}
    BY PolicyIsPolicy
  <2> HIDE DEF x
  <2> QED BY <2>1, <2>2, StoreStep
<1>2. ASSUME NEW p \in Phones, ExportPolicy(p) PROVE Step
  <2>1. /\ UNCHANGED policy /\ handoffs' = handoffs
        /\ published' = published \cup {policy[p]} /\ policy[p] # None
    BY <1>2 DEF ExportPolicy, Active
  <2>2. Policies' = Policies
    BY <2>1 DEF Policies
  <2> QED BY <1>t, <2>1, <2>2, SamePolicies
<1>3. ASSUME NEW p \in Phones, NEW bundle \in published, CreateRequest(p, bundle) PROVE Step
  <2>1. UNCHANGED policy /\ handoffs' = handoffs /\ Policies' = Policies
    BY <1>3 DEF CreateRequest, Policies
  <2> QED BY <1>t, <2>1, SamePolicies
<1>4. ASSUME NEW p \in Phones, NEW bundle \in published, InstallPolicy(p, bundle) PROVE Step
  <2>1. /\ policy' = [policy EXCEPT ![p] = bundle] /\ published' = published /\ handoffs' = handoffs
        /\ Installable(p, bundle, FALSE)
    BY <1>4 DEF InstallPolicy
  <2>2. IsPolicy(bundle) /\ bundle \in Policies
    BY <1>t
  <2>3. policy[p] # None => bundle.group = policy[p].group /\ bundle.epoch >= policy[p].epoch
    BY <1>t, <2>1, <2>2, InstallableAdvances DEF IsPolicy
  <2> QED BY <2>1, <2>2, <2>3, StoreStep
<1>5. ASSUME NEW p \in Phones, NEW request \in requests, IssueEnrollment(p, request) PROVE Step
  <2> DEFINE x == Enrolled(p, request.member)
  <2>1. /\ policy' = [policy EXCEPT ![p] = x] /\ published' = published \cup {x} /\ handoffs' = handoffs
        /\ policy[p] # None /\ policy[p].authority = p
    BY <1>5 DEF IssueEnrollment, Active
  <2>2. /\ policy[p] \in Policies /\ IsPolicy(policy[p])
    BY <1>t, <2>1
  <2>3. /\ IsPolicy(x) /\ x.authority = p /\ x.group = policy[p].group
        /\ x.epoch = policy[p].epoch + 1 /\ policy[p].members \subseteq x.members
    BY <2>1, <2>2, PolicyIsPolicy DEF Enrolled, IsPolicy
  <2>4. p \in x.members
    BY <2>1, <2>2, <2>3 DEF AuthorityInv, AuthorityLeads
  <2>5. x.epoch > policy[p].epoch /\ x.epoch >= policy[p].epoch
    BY <2>2, <2>3 DEF IsPolicy
  <2>6. x.authority # x.group =>
          \E h \in handoffs : h.prior.group = x.group /\ h.prior.epoch < x.epoch
    <3> SUFFICES ASSUME p # policy[p].group
                 PROVE  \E h \in handoffs : h.prior.group = x.group /\ h.prior.epoch < x.epoch
      BY <2>3
    <3>1. PICK h \in handoffs : h.prior.group = policy[p].group /\ h.prior.epoch < policy[p].epoch
      BY <2>1, <2>2 DEF AuthorityInv, FounderUnlessHandedOver
    <3>2. h.prior.epoch \in Nat /\ policy[p].epoch \in Nat
      BY <1>t, <2>2 DEF IsPolicy
    <3> HIDE DEF x
    <3> QED BY <2>3, <3>1, <3>2
  <2> HIDE DEF x
  <2> QED BY <2>1, <2>3, <2>4, <2>5, <2>6, StoreStep
<1>6. ASSUME NEW p \in Phones, NEW successor \in Phones, NEW valid_until \in HandoffExpiries,
             PrepareHandoff(p, successor, valid_until)
      PROVE  Step
  <2>1. UNCHANGED policy /\ handoffs \subseteq handoffs' /\ Policies' = Policies
    BY <1>6 DEF PrepareHandoff, Policies
  <2>2. \A h \in handoffs' : h.prior.epoch \in Nat
    <3>1. policy[p] # None
      BY <1>6 DEF PrepareHandoff, Active
    <3>2. policy[p].epoch \in Nat
      BY <1>t, <3>1 DEF IsPolicy
    <3>3. handoffs' = handoffs \cup
            {[prior |-> policy[p], next_authority |-> successor, valid_until |-> valid_until]}
      BY <1>6 DEF PrepareHandoff
    <3> QED BY <1>t, <3>2, <3>3
  <2> QED BY <2>1, <2>2, SamePolicies
<1>7. ASSUME NEW p \in Phones, NEW handoff \in handoffs, RotateAuthority(p, handoff) PROVE Step
  <2> DEFINE x == Policy(policy[p].group, p, policy[p].epoch + 1, policy[p].members)
  <2>1. /\ policy' = [policy EXCEPT ![p] = x] /\ published' = published \cup {x} /\ handoffs' = handoffs
        /\ policy[p] # None /\ p \in policy[p].members /\ handoff.prior = policy[p]
    BY <1>7 DEF RotateAuthority, Active, HandoffFor
  <2>2. IsPolicy(policy[p])
    BY <1>t, <2>1
  <2>3. /\ IsPolicy(x) /\ x.authority = p /\ x.group = policy[p].group
        /\ x.epoch = policy[p].epoch + 1 /\ x.members = policy[p].members
    BY <2>2, PolicyIsPolicy DEF IsPolicy
  <2>4. x.epoch > policy[p].epoch /\ x.epoch >= policy[p].epoch /\ policy[p].epoch < x.epoch
    BY <2>2, <2>3 DEF IsPolicy
  <2> HIDE DEF x
  <2> QED BY <2>1, <2>3, <2>4, StoreStep
<1>8. ASSUME NEW p \in Phones, NEW handoff \in handoffs, NEW bundle \in published,
             InstallRotatedPolicy(p, bundle, handoff)
      PROVE  Step
  <2>1. /\ policy' = [policy EXCEPT ![p] = bundle] /\ published' = published /\ handoffs' = handoffs
        /\ Installable(p, bundle, TRUE)
    BY <1>8 DEF InstallRotatedPolicy
  <2>2. IsPolicy(bundle) /\ bundle \in Policies
    BY <1>t
  <2>3. policy[p] # None => bundle.group = policy[p].group /\ bundle.epoch >= policy[p].epoch
    BY <1>t, <2>1, <2>2, InstallableAdvances DEF IsPolicy
  <2> QED BY <2>1, <2>2, <2>3, StoreStep
<1>9. CASE Tick \/ UNCHANGED vars
  <2>1. UNCHANGED policy /\ handoffs' = handoffs /\ Policies' = Policies
    BY <1>9 DEF Tick, vars, Policies
  <2> QED BY <1>t, <2>1, SamePolicies
<1> QED BY <1>1, <1>2, <1>3, <1>4, <1>5, <1>6, <1>7, <1>8, <1>9 DEF Next

-----------------------------------------------------------------------------
(* What every store of the group and every policy signed have in common,   *)
(* in every state: the invariant the results below are read off.           *)
THEOREM AuthorityInvariant == Spec => []AuthorityInv
<1>1. AuthorityInv /\ [Next]_vars => AuthorityInv'
  BY NextAuthority DEF Step
<1> QED BY <1>1, InitAuthority, PTL DEF Spec

(* Enrolment and rotation sign for the epoch after the one of the store of *)
(* the phone that signs (issue_enrollment, rotate_authority), and no       *)
(* installation takes a store back, so that no authority signs an epoch    *)
(* twice, wherever its policies travel and whoever was authority between.  *)
THEOREM OnePolicyForEachEpoch == Spec => []OnePolicyPerEpoch
<1>1. AuthorityInv => OnePolicyPerEpoch
  BY DEF AuthorityInv
<1> QED BY <1>1, AuthorityInvariant, PTL

(* The store of an authority is never behind a policy it has signed: a new *)
(* policy is installed before it is returned.                              *)
THEOREM AuthorityIsAhead == Spec => []AuthorityLeads
<1>1. AuthorityInv => AuthorityLeads
  BY DEF AuthorityInv
<1> QED BY <1>1, AuthorityInvariant, PTL

(* Two rosters for one group and epoch have different authorities, one of  *)
(* which is not the founder: it got there by a handoff of that group.      *)
THEOREM ForksTakeHandoff == Spec => []ForkTakesHandoff
<1>1. AuthorityInv => ForkTakesHandoff
  <2> SUFFICES ASSUME AuthorityInv, NEW x \in Policies, NEW y \in Policies,
                      x.group = y.group, x.epoch = y.epoch, x # y
               PROVE  \E h \in handoffs : h.prior.group = x.group /\ h.prior.epoch < x.epoch
    BY DEF ForkTakesHandoff
  <2>1. x.authority # y.authority
    BY DEF AuthorityInv, OnePolicyPerEpoch
  <2>2. x.authority # x.group \/ y.authority # y.group
    BY <2>1
  <2> QED BY <2>2 DEF AuthorityInv, FounderUnlessHandedOver
<1> QED BY <1>1, AuthorityInvariant, PTL

(* No store ever leaves its group or goes back to an earlier epoch, which  *)
(* is what install_policy_with_transition pins.                            *)
THEOREM EpochsAdvance == Spec => [][\A p \in Phones : Advances(p)]_vars
<1>1. AuthorityInv /\ [Next]_vars => [\A p \in Phones : Advances(p)]_vars
  BY NextAuthority DEF Step
<1> QED BY <1>1, AuthorityInvariant, PTL DEF Spec
=============================================================================
