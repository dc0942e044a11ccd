SPECIFICATION MachineSpec
CONSTANTS
  a = a
  b = b
  c = c
  f = f
  g = g
  h = h
  near = near
  far = far
  None = None
  Transfer = {a}
  File = {f}
  Device <- MCDevice
  DeviceOf <- MCDeviceOf
  Message = {}
  Breaks = {}
  ReceivePin = FALSE
  QuickSaved = {}
  Workers = 1
PROPERTY CancelReachesReceiver
CHECK_DEADLOCK FALSE
