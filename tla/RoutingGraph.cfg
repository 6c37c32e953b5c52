CONSTANTS
  a = a
  b = b
  c = c
  physical = physical
  Nodes <- MCNodes
  EndpointIds <- MCEndpointIds
  RouteIds = {r1, r2, r3}
  ChannelCounts = {0, 1, 2}
  Loopback <- MCLoopback
  Offers <- MCOffers
SPECIFICATION Spec
SYMMETRY Symmetry
INVARIANTS
  RoutesFit
  NoFeedback
  CycleCheckExact
