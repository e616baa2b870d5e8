SPECIFICATION Spec
CONSTANTS
  Tasks = {t1, t2}
  NoTask = NoTask
  Names = {n1, n2}
  Root = Root
  Dents = {Root, d1, d2, d3}
  None = None
  Ops <- RaceOps
  AppendModes = {TRUE}
  LowerErrors = FALSE
  Isolated = FALSE
  MaxOps = 3
INVARIANTS ReplayReproduces
SYMMETRY Symmetry
\* the bound on operations ends every behaviour
CHECK_DEADLOCK FALSE
