SPECIFICATION Spec
CONSTANTS
  TAM = 32
  TIPO_ASIGNACION = "FIJA"
  MARCOS_POR_CARPINCHO = 2
  Tamanios = {3, 23}
  MaxPaginas = 3
INVARIANTS
  SinSolapes
CHECK_DEADLOCK FALSE
