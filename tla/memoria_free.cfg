SPECIFICATION Spec
CONSTANTS
  total_paginas = 12
  BytesPorEntrada = 2
  EntradasPorPagina = 2
  Basura <- BasuraBinaria
  PaginasDelKernel = 1
  MaxPid = 3
INVARIANT FreeDiceLasDisponibles
