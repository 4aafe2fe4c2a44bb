SPECIFICATION Spec
CONSTANTS
  TicksPorQuantum = 2
  CreacionesRun1 = 4
  Profundidad = 4
INVARIANT ComandoSinInterrupciones
