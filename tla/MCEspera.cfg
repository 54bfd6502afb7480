CONSTANTS
  c1 = c1
  c2 = c2
  mutex = mutex
  Nadie = Nadie
  Pids <- MCCuatro
  Cpus = {c1}
  Sems = {mutex}
  SemInit <- MCSemInit
  Grado = 4
  Algoritmo = "RR"
  Quantum = 3
  Guion <- MCGuionRetiene
SPECIFICATION Spec
INVARIANTS BloqueadosEsperan
CHECK_DEADLOCK FALSE
