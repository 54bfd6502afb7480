SPECIFICATION Spec
CONSTANTS
  Caminos = {"a", "b"}
  CantBloques = 4
  TBloques = 2
  Pids = {1, 2}
  Permisos <- MCPermisos
  Posiciones <- MCPosiciones
  Tamanos <- MCTamanos
  MaxTap = 2
  MaxTag = 2
  MaxOps = 4
  MaxParadas = 1
PROPERTY AtencionTermina
INVARIANTS
  TypeOK
  BloqueDeUno
  BitmapExacto
  EscritoSeLee
  TablaGlobal
\* programs end, and a process may go down
CHECK_DEADLOCK FALSE
