SPECIFICATION TSpec
CONSTANTS
  Var <- XVar
  Fn <- XFn
  Mvfn <- XMvfn
  NoMvfn = "none"
  Callsite <- XCallsite
  Name <- XName
  Value <- XValue
  varName <- XvarName
  inData <- XinData
  width <- Xwidth
  fnName <- XfnName
  fnAt <- U_fnAt
  fnLen <- U_fnLen
  mvfns <- Xmvfns
  assigns <- Xassigns
  kind <- Xkind
  mvfnAt <- U_mvfnAt
  mvfnLen <- U_mvfnLen
  csFn <- XcsFn
  csAt <- U_csAt
  csLen <- XcsLen
  syms <- U_syms
  endsIn <- XendsIn
  Garbage = {3}
  TextSize <- U_TextSize
INVARIANT TrapOnlyDeadCode
