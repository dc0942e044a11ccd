SPECIFICATION Spec
CONSTANTS
  a = a
  b = b
  c = c
  f = f
  g = g
  h = h
  near = near
  far = far
  None = None
  Transfer = {a, b}
  File = {f}
  Device <- MCDevice
  DeviceOf <- MCDeviceOf
  Message = {b}
  Breaks = {}
  ReceivePin = TRUE
  QuickSaved = {}
  Workers = 1
INVARIANT TypeOK
CHECK_DEADLOCK FALSE
