SPECIFICATION Spec
CONSTANTS
  ProcesoTotales = 3
  quantumTotal = 5
  TicksPorQuantum = 10
  ModQuantum = 256
  ModListos = 65536
  ModNumero = 65536
  LimiteImprimir = 100
  Paginas = {p1, p2, p3}
  Nulo = Nulo
  Ordenes <- OrdenesSinFin
  MaxPid = 3
SYMMETRY SimetriaPaginas
INVARIANT QuantumAcotado
