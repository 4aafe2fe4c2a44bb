---------------------------- MODULE MCVivacidad -----------------------------
(***************************************************************************)
(* What must come to an end, or to its turn, on small instances: the two   *)
(* searches that the kernel makes with the interrupts disabled, over every *)
(* small table, and the scheduler under a timer that does not stop.  The   *)
(* three share nothing: a behaviour is one of them, and the others rest.   *)
(***************************************************************************)
EXTENDS BuscarProceso, BuscarPagina

CONSTANTS
  RanurasPlanif,     \* slots of the scheduler's own instance
  quantumTotal, TicksPorQuantum, ModQuantum, ModListos, ModNumero, LimiteImprimir,
  Paginas, Nulo, Ordenes, MaxPid                                 \* of Planificador

VARIABLES
  explora,           \* which of the three this behaviour is
  procesos, cuentaListos, desde, elegido, proceso_colocar, pidDisponible,
  contador, quantum, paginas, evento_teclado, panicoPlanif, fallo

Planif == INSTANCE Planificador WITH
  ProcesoTotales <- RanurasPlanif, procesos_listos <- cuentaListos, actual <- desde,
  procesoActual <- elegido, panico <- panicoPlanif

varsPlanif == <<procesos, cuentaListos, desde, elegido, proceso_colocar, pidDisponible,
                contador, quantum, paginas, evento_teclado, panicoPlanif, fallo>>
varsTodas == <<explora, vars, varsPagina, varsPlanif>>

\* For the search of a process an entry is ready or it is not: one state stands
\* for the four that scheduler_RR passes over.
TodasLasTablas ==
  [0 .. (ProcesoTotales - 1) -> [estado : {"LISTO", "ESPERANDO"}, prioridad : {0, 1}]]

\* For the search of a page a page is blocked or not; the owner makes no difference.
Suelta == [estado |-> 0, pid |-> 0]
Tomada == [estado |-> 1, pid |-> 0]
UnaBasura == {Suelta}
TodasLasRegiones == [0 .. total_paginas -> {Suelta, Tomada}]

\* crearProceso0, which never ends, and a process of the other priority.
OrdenesSinFin ==
  { [operacion |-> "infinito",    numero |-> 0, prioridad |-> 1],
    [operacion |-> "imprimir_0",  numero |-> 2, prioridad |-> 0] }

-----------------------------------------------------------------------------
(* The parts at rest: a search that has returned, a table with nobody in it. *)

ProcesoQuieto ==
  /\ tabla = [s \in Ranuras |-> [estado |-> "ESPERANDO", prioridad |-> 0]]
  /\ procesos_listos = 0
  /\ actual = 0 /\ procesoActual = 0 /\ inicio = 0 /\ prioridad = 0
  /\ pc = "fin"

PaginaQuieta ==
  /\ region_memoria = [i \in 0 .. total_paginas |-> Suelta]
  /\ ultimo_pagina = 0 /\ panico = FALSE /\ pid \in Pids /\ primero = 0
  /\ pcPagina = "fin"

PlanifQuieto ==
  /\ procesos = [s \in 0 .. (RanurasPlanif - 1) |-> Planif!Vacia]
  /\ cuentaListos = 0 /\ desde = 0 /\ elegido = 0 /\ proceso_colocar = 0
  /\ pidDisponible = 1 /\ contador = 0 /\ quantum = 0
  /\ paginas = [p \in Paginas |-> [estado |-> 0, pid |-> 0, numero |-> 0]]
  /\ evento_teclado = FALSE /\ panicoPlanif = FALSE /\ fallo = FALSE

InitVivacidad ==
  \/ explora = "proceso" /\ Init /\ PaginaQuieta /\ PlanifQuieto
  \/ explora = "pagina" /\ ProcesoQuieto /\ InitPagina /\ PlanifQuieto
  \/ explora = "planif" /\ ProcesoQuieto /\ PaginaQuieta /\ Planif!Init

EnProceso(A) == explora = "proceso" /\ A /\ UNCHANGED <<explora, varsPagina, varsPlanif>>
EnPagina(A) == explora = "pagina" /\ A /\ UNCHANGED <<explora, vars, varsPlanif>>
EnPlanif(A) == explora = "planif" /\ A /\ UNCHANGED <<explora, vars, varsPagina>>

NextVivacidad == EnProceso(Next) \/ EnPagina(NextPagina) \/ EnPlanif(Planif!Next)

\* The fairness of each part: that of its own FairSpec.
SpecVivacidad ==
  /\ InitVivacidad /\ [][NextVivacidad]_varsTodas
  /\ WF_vars(EnProceso(Next))
  /\ WF_varsPagina(EnPagina(NextPagina))
  /\ WF_varsPlanif(EnPlanif(Planif!aumentar_timer))

-----------------------------------------------------------------------------
(* Correctness: that of BuscarProceso and BuscarPagina, and of Planificador: *)

\* A ready process is not passed over for ever.
SinInanicion == Planif!SinInanicion
=============================================================================
