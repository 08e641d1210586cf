SPECIFICATION TSpec
CONSTANTS
  Var <- XVar
  Fn <- XFn
  Mvfn <- XMvfn
  NoMvfn = "none"
  Callsite <- XCallsite
  Name <- XName
  Value <- XValue
  varName <- XvarName
  inData <- XinData
  width <- Xwidth
  fnName <- XfnName
  fnAt <- E_fnAt
  fnLen <- E_fnLen
  mvfns <- Xmvfns
  assigns <- Xassigns
  kind <- Xkind
  mvfnAt <- E_mvfnAt
  mvfnLen <- E_mvfnLen
  csFn <- XcsFn
  csAt <- E_csAt
  csLen <- XcsLen
  syms <- E_syms
  endsIn <- XendsIn
  Garbage = {3}
  TextSize <- E_TextSize
INVARIANT KeptSitesAreCalls
