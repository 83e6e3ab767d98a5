SPECIFICATION FairSpecDeadlock
CONSTANTS
  p1 = p1
  p2 = p2
  p3 = p3
  s1 = s1
  s2 = s2
  c1 = c1
  c2 = c2
  Procs = {p1, p2, p3}
  CPUs = {c1, c2}
  Sems = {s1, s2}
  Nada = Nada
  Ajeno = Ajeno
  GRADO = 3
  Algoritmos = {"SJF"}
  ValoresIni = {0}
  MaxOps = 4
  Tipos = {"INIT", "WAIT", "POST", "DESTROY"}
  Entornos <- MCEntornos
  Guiones <- MCGuiones
INVARIANTS
  SoloHuerfanos
  SemaforoAcotado
PROPERTY
  BarridoTermina
CHECK_DEADLOCK FALSE
