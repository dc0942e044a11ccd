SPECIFICATION Spec
CONSTANTS
  a = a
  b = b
  c = c
  f = f
  g = g
  h = h
  near = near
  far = far
  None = None
  Transfer = {a, c}
  File = {f}
  Device <- MCDevice
  DeviceOf <- MCDeviceOf
  Message = {}
  Breaks = {}
  ReceivePin = FALSE
  QuickSaved = {}
  Workers = 1
PROPERTY SessionNotReplaced
CHECK_DEADLOCK FALSE
