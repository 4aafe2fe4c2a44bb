SPECIFICATION Spec
CONSTANTS
  ProcesoTotales = 3
  quantumTotal = 2
  TicksPorQuantum = 2
  ModQuantum = 4
  ModListos = 4
  ModNumero = 3
  LimiteImprimir = 2
  Paginas = {p1, p2, p3}
  Nulo = Nulo
  Ordenes <- OrdenesShell
  MaxPid = 4
SYMMETRY SimetriaPaginas
INVARIANT TipoOK
INVARIANT UnSoloEjecutando
INVARIANT PidsUnicos
INVARIANT DatosPropios
INVARIANT FallaSoloTrasPanico
INVARIANT NadieTrasElFin
INVARIANT LlenadoEnOrden
INVARIANT ActualYPuntero
PROPERTY CuentaSigueATabla
PROPERTY SalidaLibera
CHECK_DEADLOCK TRUE
