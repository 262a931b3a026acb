CONSTANTS
  nvidia = nvidia
  k20 = k20
  m2070 = m2070
  intel = intel
  xeon = xeon
  altera = altera
  Types <- MCTypes
  Vendor <- MCVendor
  Worlds <- MCWorlds
  Unknown = Unknown
  Null = Null
SPECIFICATION Spec
INVARIANTS EmptyPlatformsTolerated
CHECK_DEADLOCK FALSE
