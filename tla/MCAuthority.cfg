\* Two groups may be founded among three phones; up to three enrolment
\* requests and two handoffs, so that the authority can return; policies
\* expire within the run.
CONSTANTS
  Phones = {p1, p2, p3}
  Founders = {p1, p2}
  MaxGroupMembers = 3
  CertificateLifetime = 2
  RequestLifetime = 1
  HandoffExpiries = {2, 4}
  MaxEpoch = 4
  MaxTime = 3
  MaxRequests = 3
  MaxHandoffs = 2
SPECIFICATION Spec
INVARIANTS OnePolicyPerEpoch AuthorityLeads ForkTakesHandoff
SYMMETRY Interchangeable
CHECK_DEADLOCK FALSE
