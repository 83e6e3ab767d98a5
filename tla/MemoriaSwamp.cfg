SPECIFICATION Spec
CONSTANTS
  Carpinchos = {1, 2}
  MaxPaginas = 2
  Contenidos = {x, y}
  Enteros <- MCEnteros
  MARCOS = 2
  ENTRADAS = 2
  MARCOS_POR_CARPINCHO = 1
  TIPO_ASIGNACION = "DINAMICA"
  ALGORITMO_REEMPLAZO_MMU = "LRU"
  ALGORITMO_REEMPLAZO_TLB = "LRU"
  MaxReloj = 8
  Vacio = Vacio
  Roto = Roto
  Nada = Nada
  Cero = Cero
  Basura = Basura
  Peso <- MCPeso
  F = 1
  N = 2
  Maximo = 2
  Pisa = 0
  x = x
  y = y
INVARIANTS
  TlbCoherente
  SiempreContesta
  MuereLleno
PROPERTIES
  SwapIdeal
  
CHECK_DEADLOCK FALSE
