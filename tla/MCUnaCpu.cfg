CONSTANTS
  c1 = c1
  c2 = c2
  mutex = mutex
  Nadie = Nadie
  Pids <- MCCuatro
  Cpus = {c1}
  Sems = {mutex}
  SemInit <- MCSemInit
  Grado = 2
  Algoritmo = "RR"
  Quantum = 3
  Guion <- MCGuion
SPECIFICATION Spec
INVARIANTS SinCaida
PROPERTIES Terminan
CHECK_DEADLOCK FALSE
