SPECIFICATION Spec
CONSTANTS
  Registrations <- MCRegistrations
  Events <- MCEvents
  Depth = 2
  MaxSends = 5
  MaxCalls = 3
  MaxStack = 5
INVARIANTS TypeOK ChainInv SerialInv
PROPERTIES OrderedQueue Delivered
