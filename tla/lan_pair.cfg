SPECIFICATION Spec
CONSTANTS
  a = a
  b = b
  c = c
  f = f
  g = g
  h = h
  near = near
  far = far
  None = None
  Transfer = {a, c}
  File = {f, g}
  Device <- MCDevice
  DeviceOf <- MCDeviceOf
  Message = {}
  Breaks = {"disk"}
  ReceivePin = FALSE
  QuickSaved = {far}
  Workers = 2
INVARIANTS SenderHonest FinishedMeansSaved Agreement
SYMMETRY FileSymmetry
CHECK_DEADLOCK FALSE
