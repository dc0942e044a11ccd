CONSTANTS c = c d = d e = e n = n n2 = n2
  Device = {c, d, e}
  NetworkOf <- TwoNetworks
  CertOf <- Certs
  NoCert = NoCert
  Configs <- ThreeConfigs
  Input <- Requests
  MaxCalls = 3
  Capacity = 2
SPECIFICATION FairSpec
INVARIANTS HttpTypeOK SameExchange FiledUnderKey InStep
PROPERTY CallEnds
CHECK_DEADLOCK FALSE
