CONSTANTS
  a = a
  b = b
  c = c
  s = s
  Waiting <- TwoWaiting
  Signalling <- OneSignalling
  Cv = Cv
  None = None
  MaxCalls = 1
  MaxSignals = 2
SPECIFICATION Spec
INVARIANT WaitingListed
PROPERTIES SignaledReturns SignalReturns
