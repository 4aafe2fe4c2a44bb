SPECIFICATION FairSpec
CONSTANTS
  ProcesoTotales = 3
  quantumTotal = 2
  TicksPorQuantum = 1
  ModQuantum = 4
  ModListos = 4
  ModNumero = 4
  LimiteImprimir = 2
  Paginas = {p1, p2, p3}
  Nulo = Nulo
  Ordenes <- SoloImprimir100
  MaxPid = 3
PROPERTY Imprime1a100
