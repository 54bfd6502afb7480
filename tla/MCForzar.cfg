CONSTANTS
  c1 = c1
  c2 = c2
  s1 = s1
  Nadie = Nadie
  Pids <- MCPids
  Cpus = {c1, c2}
  Sems = {s1}
  SemInit <- MCSemInit
  Grado = 2
  Algoritmo = "RR"
  Quantum = 2
  Guion <- MCGuion
  Grados = {1, 2}
  Cid = 1
  MaxSucesos = 4
SPECIFICATION SpecForzar
SYMMETRY Simetria
INVARIANTS SinPerdidos GradoDesviado CaidaPorque MuerePorque
PROPERTY Permanecen
CHECK_DEADLOCK FALSE
