SPECIFICATION SpecMemoria
CONSTANTS
  Procs = {p1, p2}
  CPUs = {c1}
  Sems = {s1}
  Nada = Nada
  GRADO = 2
  Algoritmos = {"SJF"}
  ValoresIni = {0}
  MaxOps = 2
  Tipos = {"MEMORIA", "IO", "INIT", "WAIT", "POST", "DESTROY"}
  OpsMemoria = {"PALABRA", "LECTURA"}
SYMMETRY Simetria
INVARIANTS
  RespuestasDeMas
  FinEnOrden
  RespuestaPropia
  UnSoloLugar
  UnaRespuestaPorPedido
  ListaConcuerdaConEstado
CHECK_DEADLOCK FALSE
