----------------------------- MODULE Authority ------------------------------
(***************************************************************************)
(* Group policy across phones: founding a group, enrolling members,        *)
(* handing the authority over and installing what others publish           *)
(* (secure_store_* of crates/mesh-ffi-c over the policy tables of          *)
(* crates/mesh-store and the records of crates/mesh-protocol).  Policies,  *)
(* requests and handoffs are public records: once made they may reach any  *)
(* phone at any time, in any order, more than once or never.  A signature  *)
(* is the identity of the phone that made the record; a roster digest is   *)
(* the policy it is computed from.                                         *)
(***************************************************************************)
EXTENDS Integers, FiniteSets

CONSTANTS
  Phones,                \* phones, each with its own identity and store
  MaxGroupMembers,       \* MAX_GROUP_MEMBERS
  CertificateLifetime,   \* GROUP_CERTIFICATE_LIFETIME, scaled
  RequestLifetime,       \* ENROLLMENT_REQUEST_LIFETIME, scaled
  HandoffExpiries,       \* expiries a leader may put on a handoff
  MaxEpoch,              \* MAX_LOGICAL_TIME as the last epoch
  Founders,              \* phones that may found a group
  MaxRequests,           \* bound on the enrolment requests made
  MaxHandoffs,           \* bound on the handoffs made
  MaxTime                \* bound on the clock

VARIABLES
  policy,      \* the policy installed in each store, None before the first
  published,   \* every policy that left a phone
  requests,    \* enrolment requests
  handoffs,    \* authority handoffs
  now

vars == <<policy, published, requests, handoffs, now>>

None == [group |-> "none"]

Policy(group, authority, epoch, members) ==
  [group |-> group, authority |-> authority, epoch |-> epoch, members |-> members,
   valid_from |-> now, valid_until |-> now + CertificateLifetime]

(* VerifiedRoster::verify; issued certificates differ in nothing else.     *)
Valid(bundle) == bundle.valid_from <= now /\ now < bundle.valid_until

(* active_policy: an expired policy is an error, not the absence of one.   *)
Active(p) == policy[p] # None /\ Valid(policy[p])

Init ==
  /\ policy = [p \in Phones |-> None]
  /\ published = {} /\ requests = {} /\ handoffs = {}
  /\ now = 1

-----------------------------------------------------------------------------
(* install_policy_with_transition.                                         *)
(* Mutant: an older policy of the authority is accepted again.             *)
InstallableOlder(p, bundle, rotation) ==
  /\ Valid(bundle)
  /\ p \in bundle.members
  /\ policy[p] # None =>
       /\ bundle.authority # policy[p].authority =>
            rotation /\ bundle.epoch = policy[p].epoch + 1
       /\ bundle.group = policy[p].group

(* Mutant: the group is not pinned.                                        *)
InstallableElsewhere(p, bundle, rotation) ==
  /\ Valid(bundle)
  /\ p \in bundle.members
  /\ policy[p] # None => bundle.epoch > policy[p].epoch \/ bundle = policy[p]

(* Group and authority are pinned; an equal epoch needs an equal roster.   *)
Installable(p, bundle, rotation) ==
  /\ Valid(bundle)
  /\ p \in bundle.members
  /\ policy[p] # None =>
       /\ bundle.authority # policy[p].authority =>
            rotation /\ bundle.epoch = policy[p].epoch + 1
       /\ bundle.group = policy[p].group
       /\ bundle.epoch > policy[p].epoch \/ bundle = policy[p]

(* AuthorityHandoff::verify_for: signed by the authority of the very       *)
(* policy this phone has.                                                  *)
HandoffFor(handoff, prior) == now < handoff.valid_until /\ handoff.prior = prior

(* create_group, under a group identifier drawn at random.                 *)
CreateGroup(p) ==
  LET first == Policy(p, p, 1, {p})
  IN  /\ p \in Founders /\ policy[p] = None
      /\ Installable(p, first, FALSE)
      /\ policy' = [policy EXCEPT ![p] = first]
      /\ UNCHANGED <<published, requests, handoffs, now>>

ExportPolicy(p) ==
  /\ Active(p)
  /\ published' = published \cup {policy[p]}
  /\ UNCHANGED <<policy, requests, handoffs, now>>

(* create_enrollment_request_from_policy.                                  *)
CreateRequest(p, invitation) ==
  /\ Valid(invitation)
  /\ Cardinality(requests) < MaxRequests
  /\ requests' = requests \cup
       {[group |-> invitation.group, epoch |-> invitation.epoch, member |-> p,
         valid_from |-> now, valid_until |-> now + RequestLifetime]}
  /\ UNCHANGED <<policy, published, handoffs, now>>

(* The roster after an enrolment: every certificate is issued anew.        *)
Enrolled(p, member) ==
  Policy(policy[p].group, policy[p].authority, policy[p].epoch + 1, policy[p].members \cup {member})

(* issue_enrollment: the new policy is installed before it is returned.    *)
IssueEnrollment(p, request) ==
  /\ request.valid_from <= now /\ now < request.valid_until
  /\ Active(p)
  /\ policy[p].authority = p
  /\ request.group = policy[p].group /\ request.epoch = policy[p].epoch
  /\ request.member \notin policy[p].members
  /\ Cardinality(policy[p].members) < MaxGroupMembers
  /\ policy[p].epoch < MaxEpoch
  /\ Installable(p, Enrolled(p, request.member), FALSE)
  /\ policy' = [policy EXCEPT ![p] = Enrolled(p, request.member)]
  /\ published' = published \cup {Enrolled(p, request.member)}
  /\ UNCHANGED <<requests, handoffs, now>>

(* prepare_authority_handoff: nothing of it is remembered by this phone,   *)
(* which stays the authority of its policy.                                *)
PrepareHandoff(p, successor, valid_until) ==
  /\ valid_until > now
  /\ Cardinality(handoffs) < MaxHandoffs
  /\ Active(p)
  /\ policy[p].authority = p
  /\ successor \in policy[p].members \ {p}
  /\ handoffs' = handoffs \cup
       {[prior |-> policy[p], next_authority |-> successor, valid_until |-> valid_until]}
  /\ UNCHANGED <<policy, published, requests, now>>

(* rotate_authority, on the successor's phone.                             *)
RotateAuthority(p, handoff) ==
  LET next == Policy(policy[p].group, p, policy[p].epoch + 1, policy[p].members)
  IN  /\ handoff.next_authority = p
      /\ Active(p)
      /\ policy[p].epoch < MaxEpoch
      /\ p \in policy[p].members
      /\ HandoffFor(handoff, policy[p])
      /\ Installable(p, next, TRUE)
      /\ policy' = [policy EXCEPT ![p] = next]
      /\ published' = published \cup {next}
      /\ UNCHANGED <<requests, handoffs, now>>

InstallPolicy(p, bundle) ==
  /\ Installable(p, bundle, FALSE)
  /\ policy' = [policy EXCEPT ![p] = bundle]
  /\ UNCHANGED <<published, requests, handoffs, now>>

InstallRotatedPolicy(p, bundle, handoff) ==
  /\ Active(p)
  /\ HandoffFor(handoff, policy[p])
  /\ bundle.authority = handoff.next_authority
  /\ bundle.group = policy[p].group
  /\ bundle.epoch = policy[p].epoch + 1
  /\ Installable(p, bundle, TRUE)
  /\ policy' = [policy EXCEPT ![p] = bundle]
  /\ UNCHANGED <<published, requests, handoffs, now>>

Tick ==
  /\ now < MaxTime
  /\ now' = now + 1
  /\ UNCHANGED <<policy, published, requests, handoffs>>

Next ==
  \/ \E p \in Phones :
       \/ CreateGroup(p) \/ ExportPolicy(p)
       \/ \E bundle \in published : CreateRequest(p, bundle) \/ InstallPolicy(p, bundle)
       \/ \E request \in requests : IssueEnrollment(p, request)
       \/ \E successor \in Phones, valid_until \in HandoffExpiries :
            PrepareHandoff(p, successor, valid_until)
       \/ \E handoff \in handoffs :
            \/ RotateAuthority(p, handoff)
            \/ \E bundle \in published : InstallRotatedPolicy(p, bundle, handoff)
  \/ Tick

Spec == Init /\ [][Next]_vars

-----------------------------------------------------------------------------
Policies == published \cup {policy[p] : p \in {q \in Phones : policy[q] # None}}

(* An authority never signs two policies for one epoch of a group, however *)
(* the authority moved between phones and came back: members that agree on *)
(* authority and epoch agree on the roster and every key in it.            *)
OnePolicyPerEpoch ==
  \A x, y \in Policies :
    (x.group = y.group /\ x.authority = y.authority /\ x.epoch = y.epoch) => x = y

(* Nobody is ahead of the authority it follows: the authority's own store  *)
(* is in the group, at this epoch or a later one.                          *)
AuthorityLeads ==
  \A x \in Policies :
    /\ x.authority \in x.members
    /\ policy[x.authority] # None
    /\ policy[x.authority].group = x.group
    /\ policy[x.authority].epoch >= x.epoch

(* Two rosters for one scope, which is all that sessions compare, take a   *)
(* handoff: as long as an authority has signed none, every phone with the  *)
(* same group and epoch has the same roster.                               *)
ForkTakesHandoff ==
  \A x, y \in Policies :
    (x.group = y.group /\ x.epoch = y.epoch /\ x # y) =>
      \E h \in handoffs : h.prior.group = x.group /\ h.prior.epoch < x.epoch
=============================================================================
