SPECIFICATION Spec
CONSTANTS
  Carpinchos = {1, 2}
  MaxPaginas = 2
  Contenidos = {x}
  Enteros <- MCEnteros
  MARCOS = 2
  ENTRADAS = 2
  MARCOS_POR_CARPINCHO = 1
  TIPO_ASIGNACION = "DINAMICA"
  ALGORITMO_REEMPLAZO_MMU = "M-CLOCK"
  ALGORITMO_REEMPLAZO_TLB = "FIFO"
  CapSwap = 4
  Compacta = TRUE
  MaxReloj = 0
  Vacio = Vacio
  Roto = Roto
  Nada = Nada
  x = x
  y = y
INVARIANTS
  UnMarcoPorPagina
CHECK_DEADLOCK FALSE
