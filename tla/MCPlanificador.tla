--------------------------- MODULE MCPlanificador ---------------------------
(* Small instances of Planificador for TLC.                                 *)
EXTENDS Planificador, TLC

\* What the shell creates: crearProceso0, crearProceso1, crearProceso2.
OrdenesShell ==
  { [operacion |-> "infinito",    numero |-> 0, prioridad |-> 1],
    [operacion |-> "imprimir100", numero |-> 0, prioridad |-> 1],
    [operacion |-> "imprimir_0",  numero |-> 0, prioridad |-> 0] }

OrdenesSinFin ==
  { [operacion |-> "infinito",    numero |-> 0, prioridad |-> 1],
    [operacion |-> "imprimir_0",  numero |-> 2, prioridad |-> 0] }

SoloImprimir100 == { [operacion |-> "imprimir100", numero |-> 0, prioridad |-> 1] }

\* Pages are interchangeable: the specification never orders them.
SimetriaPaginas == Permutations(Paginas)
=============================================================================
