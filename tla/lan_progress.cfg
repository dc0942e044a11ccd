SPECIFICATION FairSpec
CONSTANTS
  a = a
  b = b
  c = c
  f = f
  g = g
  h = h
  near = near
  far = far
  None = None
  Transfer = {a}
  File = {f, g, h}
  Device <- MCDevice
  DeviceOf <- MCDeviceOf
  Message = {}
  Breaks = {"prepare", "upload", "disk"}
  ReceivePin = TRUE
  QuickSaved = {}
  Workers = 2
PROPERTY TransferEnds
CHECK_DEADLOCK FALSE
