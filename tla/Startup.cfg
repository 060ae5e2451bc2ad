SPECIFICATION StartFairSpec
CONSTANTS
  Hosts <- MCHosts
  Requests <- MCRequests
INVARIANTS
  StartsAsAsked
PROPERTIES
  NeverAsks
