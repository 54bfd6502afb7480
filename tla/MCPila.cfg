SPECIFICATION Spec
CONSTANTS
  Pids = {1, 2}
  Tam = 16
  EntradasCache = 3
  EntradasProceso = 2
  Textos <- MCTextos
  Combinaciones <- MCCombinaciones
  Largo = 6
  PagStack = 1
  MaxVueltas = 1
INVARIANTS
  TypeOK
  LeeLoAsignado
  MemoriaAlDia
  VariablesAparte
  ViajeEntero
\* programs end
CHECK_DEADLOCK FALSE
