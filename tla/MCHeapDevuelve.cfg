SPECIFICATION Spec
CONSTANTS
  Pids = {1, 2}
  Tam = 50
  CantPag = 1
  PagStack = 1
  MaxEsp = 60
  Marcos = 2
  Tamanos <- MCTamanos
  MaxVivos <- MCMaxVivos
INVARIANT DevueltaVacia
\* the programs end, and a page may be ruined
CHECK_DEADLOCK FALSE
