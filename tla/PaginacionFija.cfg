SPECIFICATION Spec
CONSTANTS
  Carpinchos = {1, 2}
  MaxPaginas = 3
  Contenidos = {x}
  Enteros <- MCEnteros
  MARCOS = 3
  ENTRADAS = 2
  MARCOS_POR_CARPINCHO = 2
  TIPO_ASIGNACION = "FIJA"
  ALGORITMO_REEMPLAZO_MMU = "M-CLOCK"
  ALGORITMO_REEMPLAZO_TLB = "FIFO"
  CapSwap = 6
  Compacta = FALSE
  MaxReloj = 0
  Vacio = Vacio
  Roto = Roto
  Nada = Nada
  x = x
  y = y
INVARIANTS
  TypeOK
  
  CupoFija
  PunteroEnLista

  
CHECK_DEADLOCK FALSE
