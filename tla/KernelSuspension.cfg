SPECIFICATION Spec
CONSTANTS
  Procs = {p1, p2, p3}
  CPUs = {c1}
  Sems = {s1}
  Nada = Nada
  GRADO = 2
  Algoritmos = {"SJF", "HRRN"}
  ValoresIni = {0}
  MaxOps = 1
  Tipos = {"IO"}
SYMMETRY Simetria
INVARIANTS
  CupoConservado
  IInv

CHECK_DEADLOCK FALSE
