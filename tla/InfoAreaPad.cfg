SPECIFICATION Spec
CONSTANTS
  Exes <- XExes
  nAssigns <- XnAssigns
  dependsOn <- XdependsOn
  callee <- Xcallee
  areaOff = 10
  dataSize = 7
  areaAt = 100
  bssPad = 2
  bssSize = 6
  tail <- Xtail
  ptrAt <- XptrAt
  others <- Xothers
  Uninit <- XUninit
INVARIANT FileDisjoint
