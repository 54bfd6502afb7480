CONSTANTS
  c1 = c1
  c2 = c2
  mutex = mutex
  Nadie = Nadie
  Pids <- MCTres
  Cpus = {c1, c2}
  Sems = {mutex}
  SemInit <- MCSemInit
  Grado = 2
  Algoritmo = "RR"
  Quantum = 3
  Guion <- MCGuion
SPECIFICATION Spec
INVARIANTS SinCaida
CHECK_DEADLOCK FALSE
