CONSTANTS
  Null = Null
  Unit <- MCUnit
  Nodes <- MCNodes
  Expr <- MCExpr
  OpConf <- MCOpConf
  Bars <- MCBars
  BarInfo <- MCBarInfo
  Procs = {p1, p2, me}
  Self = me
  ProcChoices <- MCProcChoices
  MaxTardy = 1
  Docs = {d1, d2}
  Elems = {body, fr, box}
  Page <- MCPage
  Windows <- MCWindows
  WinInfo <- MCWinInfo
  IeBars <- MCIeBars
  ScrollWindows <- MCScrollWindows
  Deltas <- MCDeltas
  Limits <- MCLimits
  p1 = p1
  p2 = p2
  me = me
  inner = inner
  outer = outer
  slider = slider
  stick = stick
  full = full
  wH = wH
  wV = wV
  cH = cH
  cV = cV
  sV = sV
  tH = tH
  eH = eH
  eV = eV
  fH = fH
  d1 = d1
  d2 = d2
  body = body
  fr = fr
  box = box
SPECIFICATION Spec
CHECK_DEADLOCK FALSE
INVARIANTS
  StartsFirstSupported
  LeavesNothing
  WndProcRestored
  TrackedPositionSeen
  IeReferences
  BarsInRange
  MovementAccounted
