SPECIFICATION FairSpec
CONSTANTS
  r1 = r1
  r2 = r2
  r3 = r3
  main = main
  other = other
  k1 = k1
  Requests = {r1, r2}
  Warehouses = {main, other}
  DefaultWarehouse = main
  InitialRows = {main}
  InitialOnHand <- OnHandAtMain
  Keys = {k1}
  NoKey = NoKey
  NoRequest = NoRequest
  Inputs <- KeyedInputs
PROPERTY InProgressIsTrue
