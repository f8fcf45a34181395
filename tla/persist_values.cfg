SPECIFICATION Spec
CONSTANTS
  Node = {1, 2, 3, 4}
  Inputs <- MCInputs
  MaxTop = 2
  Base = 1000
  Spread = 8192
  Serializers = {TRUE, FALSE}
  SerializeFails = TRUE
  MemoryFails = TRUE
INVARIANTS ExactFit SelfContained RoundTrip RefusedForCause
