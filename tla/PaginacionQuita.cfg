SPECIFICATION Spec
CONSTANTS
  Carpinchos = {1, 2}
  MaxPaginas = 2
  Contenidos = {x}
  Enteros <- MCEnteros
  MARCOS = 3
  ENTRADAS = 2
  MARCOS_POR_CARPINCHO = 2
  TIPO_ASIGNACION = "DINAMICA"
  ALGORITMO_REEMPLAZO_MMU = "M-CLOCK"
  ALGORITMO_REEMPLAZO_TLB = "FIFO"
  CapSwap = 1
  Compacta = TRUE
  MaxReloj = 0
  Vacio = Vacio
  Roto = Roto
  Nada = Nada
  x = x
  y = y
INVARIANTS
  TlbAlDia
  SinInconsistencias
CHECK_DEADLOCK FALSE
