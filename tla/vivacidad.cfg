SPECIFICATION SpecVivacidad
CONSTANTS
  ProcesoTotales = 4
  Tablas <- TodasLasTablas
  CuentasListos = {0, 1}
  total_paginas = 6
  BytesPorEntrada = 2
  EntradasPorPagina = 2
  Basura <- UnaBasura
  Regiones <- TodasLasRegiones
  Pids = {1}
  RanurasPlanif = 3
  quantumTotal = 2
  TicksPorQuantum = 1
  ModQuantum = 4
  ModListos = 4
  ModNumero = 4
  LimiteImprimir = 2
  Paginas = {p1, p2, p3}
  Nulo = Nulo
  Ordenes <- OrdenesSinFin
  MaxPid = 3
INVARIANT TipoOK
INVARIANT LoVistoNoSirve
INVARIANT TipoPagina
INVARIANT LoVistoEstaBloqueado
PROPERTY RefinaScheduler
PROPERTY DosVueltasBastan
PROPERTY Termina
PROPERTY RefinaSolicitar
PROPERTY TerminaPagina
PROPERTY SinInanicion
CHECK_DEADLOCK TRUE
