SPECIFICATION FairSpec
CONSTANTS
  clash = clash
  verge = verge
  runtime = runtime
  profiles = profiles
  patchVerge = patchVerge
  patchClash = patchClash
  savePorts = savePorts
  restoreProfile = restoreProfile
  Layers <- MCLayers
  Txs <- ThreeTxs
  Writers <- ApartWriter
  Order <- AllOrders
  WriterLayer <- ApartWriterLayer
INVARIANTS
  LayersAreOwned
PROPERTIES
  
  EveryTransactionSettles
CHECK_DEADLOCK FALSE
