SPECIFICATION Spec
CONSTANTS
  PIDs = {1, 2}
  Paginas = {0, 1}
  d1 = d1
  d2 = d2
  Datos = {d1, d2}
  Enteros <- MCEnteros
  Cero = Cero
  Basura = Basura
  Peso <- MCPeso
  Nada = Nada
  F = 1
  N = 3
  Maximo = 1
  Pisa = 0
  CasosMemoria = {"FIJA", "GLOBAL"}
  MinCuenta = 0
INVARIANTS
  TypeOK
  CuentaDeMarcos
  LeeLoEscrito
  CupoDelPrimero
PROPERTY PermisoVale
CHECK_DEADLOCK FALSE
