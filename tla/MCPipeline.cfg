SPECIFICATION FairSpec
CONSTANTS
  Modulus = 7
  Mtvec = 3
  MuLatency = 4
  Starts <- MCStarts
PROPERTIES
  ImplementsIsa
  UserIsConfined
  KeepsExecuting
