SPECIFICATION Spec
CONSTANTS
  total_paginas = 8
  BytesPorEntrada = 2
  EntradasPorPagina = 2
  Basura <- BasuraBinaria
  PaginasDelKernel = 1
  MaxPid = 4
INVARIANT UnaPaginaUnCliente
