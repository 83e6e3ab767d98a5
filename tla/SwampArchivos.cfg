SPECIFICATION Spec
CONSTANTS
  PIDs = {1, 2}
  Paginas = {0, 1}
  d1 = d1
  d2 = d2
  Datos = {d1, d2}
  Enteros <- MCEnteros
  Cero = Cero
  Basura = Basura
  Peso <- MCPeso
  Nada = Nada
  F = 2
  N = 2
  Maximo = 2
  Pisa = 1
  CasosMemoria = {"GLOBAL"}
  MinCuenta <- MCMenosUno
INVARIANTS
  MarcosDeRegistrados
CHECK_DEADLOCK FALSE
