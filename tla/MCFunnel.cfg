CONSTANTS
  h1 = h1
  m1 = m1
  None = None
  Heads <- MCHeads
  Sellers <- MCSellers
  Team <- MCTeam
  Leads = {l1}
  Bookings = {b1, b2}
  Contracts = {c1, c2}
  Requests = {r1, r2}
SPECIFICATION Spec
INVARIANTS
  LinksAreExact
PROPERTIES
  ConvertedLeadIsFinal
  LeadConversionIsOneShot
SYMMETRY Symmetry
