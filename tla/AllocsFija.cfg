SPECIFICATION Spec
CONSTANTS
  TAM = 32
  TIPO_ASIGNACION = "FIJA"
  MARCOS_POR_CARPINCHO = 2
  Tamanios = {3, 23}
  MaxPaginas = 3
INVARIANTS
  TypeOK
  Embaldosado
  LibresSeparados
  CabeceraEnPaginas
  CopiaFiel
PROPERTIES
  PaginasJustas
  CupoDePaginas
CHECK_DEADLOCK FALSE
