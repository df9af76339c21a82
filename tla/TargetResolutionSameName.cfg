SPECIFICATION Spec
CONSTANTS
  p = p
  q = q
  a = a
  b = b
  d = d
  pN = pN
  qN = qN
  aN = aN
  bN = bN
  dN = dN
  nobody = nobody
  Fns = {p, q, a, b, d}
  Names = {pN, qN, aN, bN, dN, nobody}
  Projects <- MCProjects
  MaxRenders = 2
INVARIANT ReportedCycleIsReal
