CONSTANTS
  Pids <- MCPids
  Marcos = 7
  MarcosTabla = 1
  PagsCodigo <- MCPagsCodigo
  StackSize = 1
  PagsHeap <- MCPagsHeap
  MaxPag = 3
SPECIFICATION Spec
INVARIANTS TypeOK BusquedaCorrecta MarcosAlcanzan CuentaPaginas
PROPERTIES AtencionTermina ImplementaMapa
CHECK_DEADLOCK FALSE
