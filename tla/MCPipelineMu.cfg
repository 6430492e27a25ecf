SPECIFICATION FairSpec
CONSTANTS
  Modulus = 7
  Mtvec = 3
  MuLatency = 4
  Starts <- MCLoadInHandler
PROPERTIES
  ImplementsIsa
