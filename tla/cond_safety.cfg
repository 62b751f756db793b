CONSTANTS
  a = a
  b = b
  c = c
  s = s
  Waiting <- ThreeWaiting
  Signalling <- OneSignalling
  Cv = Cv
  None = None
  MaxCalls = 1
  MaxSignals = 2
SYMMETRY Symmetry
SPECIFICATION Spec
INVARIANTS NodesAlive WaitersBalanced WokenInOrder
