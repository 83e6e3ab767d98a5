SPECIFICATION FairSpecMemoria
CONSTANTS
  Procs = {p1, p2}
  CPUs = {c1, c2}
  Sems = {s1}
  Nada = Nada
  GRADO = 2
  Algoritmos = {"SJF", "HRRN"}
  ValoresIni = {0}
  MaxOps = 1
  Tipos = {"MEMORIA"}
  OpsMemoria = {"PALABRA", "LECTURA"}
PROPERTIES
  ImplementaKernel
  FinAunqueCuelgue
  LlegadaAunqueCuelgue
  RelaySeContesta
CHECK_DEADLOCK FALSE
