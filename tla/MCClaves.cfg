CONSTANTS
  Pids <- MCPids
  Marcos = 100
  MarcosTabla = 5
  PagsCodigo <- MCPagsCodigo
  StackSize = 2
  PagsHeap <- MCPagsHeap
  MaxPag = 11
SPECIFICATION Spec
INVARIANT CadaPaginaEnSuMarco
CHECK_DEADLOCK FALSE
