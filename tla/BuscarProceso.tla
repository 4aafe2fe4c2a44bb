--------------------------- MODULE BuscarProceso ----------------------------
(***************************************************************************)
(* The loop of scheduler_RR (planificador.c:106-127), one iteration a      *)
(* step, for one call.  The timer interrupt calls it with the interrupts   *)
(* disabled, so the table does not change while it runs.                   *)
(***************************************************************************)
EXTENDS Integers

CONSTANTS
  ProcesoTotales,   \* slots of the process table
  Tablas,           \* the process tables the loop may find: estado and prioridad
  CuentasListos     \* the values procesos_listos may have

VARIABLES tabla, procesos_listos, actual, procesoActual, inicio, prioridad, pc

vars == <<tabla, procesos_listos, actual, procesoActual, inicio, prioridad, pc>>

\* What the callers of scheduler_RR may rely on: until the call returns they
\* see the old value of actual, and then the new one.
actualVisto == IF pc = "bucle" THEN inicio ELSE actual
Llamada == INSTANCE SchedulerRR WITH actual <- actualVisto

Ranuras == Llamada!Ranuras
SigRanuraDeDos(s) == Llamada!SigRanura(Llamada!SigRanura(s))    \* mutant: a slot is skipped
SigRanura(s) == Llamada!SigRanura(s)

ASSUME TablasDeProcesos ==
  Tablas \subseteq [Ranuras -> [estado : Llamada!Estados, prioridad : Llamada!Prioridades]]
ASSUME TotalesEsPositivo == ProcesoTotales \in Nat \ {0}

Init ==
  /\ tabla \in Tablas
  /\ procesos_listos \in CuentasListos
  /\ actual \in Ranuras
  /\ procesoActual = actual
  /\ inicio = actual
  /\ prioridad = 0
  /\ pc = "entrada"

NadaQueBuscar ==
  /\ pc = "entrada"
  /\ procesos_listos = 0
  /\ pc' = "fin"
  /\ UNCHANGED <<tabla, procesos_listos, actual, procesoActual, inicio, prioridad>>

EntrarEnElMismo ==                             \* mutant: the scan starts at actual itself
  /\ pc = "entrada"
  /\ procesos_listos # 0
  /\ inicio' = actual
  /\ prioridad' = 0
  /\ pc' = "bucle"
  /\ UNCHANGED <<tabla, procesos_listos, actual, procesoActual>>

Entrar ==
  /\ pc = "entrada"
  /\ procesos_listos # 0
  /\ inicio' = actual
  /\ prioridad' = 0
  /\ actual' = SigRanura(actual)
  /\ pc' = "bucle"
  /\ UNCHANGED <<tabla, procesos_listos, procesoActual>>

Sirve == tabla[actual].estado = "LISTO" /\ tabla[actual].prioridad = prioridad

AvanzarSinLimite ==                            \* mutant: the limit is not looked at
  /\ pc = "bucle"
  /\ ~Sirve
  /\ prioridad' = IF inicio = actual THEN prioridad + 1 ELSE prioridad
  /\ actual' = SigRanura(actual)
  /\ UNCHANGED <<tabla, procesos_listos, procesoActual, inicio, pc>>

AvanzarSinPrioridad ==                         \* mutant: prioridad++ is forgotten
  /\ pc = "bucle"
  /\ ~Sirve
  /\ ~(inicio = actual /\ prioridad = 1)
  /\ actual' = SigRanura(actual)
  /\ UNCHANGED <<tabla, procesos_listos, procesoActual, inicio, prioridad, pc>>

\* The slot does not do: the next one, in the second round after a full turn.
Avanzar ==
  /\ pc = "bucle"
  /\ ~Sirve
  /\ ~(inicio = actual /\ prioridad = 1)
  /\ prioridad' = IF inicio = actual THEN prioridad + 1 ELSE prioridad
  /\ actual' = SigRanura(actual)
  /\ UNCHANGED <<tabla, procesos_listos, procesoActual, inicio, pc>>

Rendirse ==
  /\ pc = "bucle"
  /\ ~Sirve
  /\ inicio = actual /\ prioridad = 1
  /\ pc' = "fin"
  /\ UNCHANGED <<tabla, procesos_listos, actual, procesoActual, inicio, prioridad>>

Encontrar ==
  /\ pc = "bucle"
  /\ Sirve
  /\ procesoActual' = actual
  /\ pc' = "fin"
  /\ UNCHANGED <<tabla, procesos_listos, actual, inicio, prioridad>>

Volver == pc = "fin" /\ UNCHANGED vars

Next == NadaQueBuscar \/ Entrar \/ Avanzar \/ Rendirse \/ Encontrar \/ Volver

Spec == Init /\ [][Next]_vars

\* The loop runs with the interrupts disabled: nothing suspends it.
FairSpec == Spec /\ WF_vars(Next)

-----------------------------------------------------------------------------
(* Correctness.                                                             *)

\* The index never leaves the table, whatever the loop meets.
TipoOK ==
  /\ tabla \in Tablas
  /\ procesos_listos \in CuentasListos
  /\ actual \in Ranuras
  /\ procesoActual \in Ranuras
  /\ inicio \in Ranuras
  /\ prioridad \in {0, 1}
  /\ pc \in {"entrada", "bucle", "fin"}

\* In the loop, everything between inicio and actual has been looked at for
\* this priority, and the round of priority 0 found nobody before that of 1.
LoVistoNoSirve ==
  pc = "bucle" =>
    /\ procesos_listos # 0
    /\ \A s \in Llamada!Candidatos(tabla, prioridad) :
         Llamada!Distancia(inicio, actual) <= Llamada!Distancia(inicio, s)
    /\ prioridad = 1 => Llamada!Candidatos(tabla, 0) = {}

\* The loop implements the step scheduler_RR of module SchedulerRR: the call
\* returns once, with the nearest ready process of the best priority, or with
\* actual and procesoActual as they were.
RefinaScheduler ==
  [][/\ pc # "fin" /\ pc' = "fin"
     /\ Llamada!scheduler_RR(tabla, procesos_listos)]_<<actualVisto, procesoActual, pc = "fin">>

\* How many iterations are left at most: two rounds of the table.
Restan ==
  CASE pc = "entrada" -> 2 * ProcesoTotales + 2
    [] pc = "bucle"   -> (2 - prioridad) * ProcesoTotales - Llamada!Distancia(inicio, actual) + 1
    [] OTHER          -> 0

\* The timer interrupt, which waits for the loop with the interrupts disabled,
\* is held up for a bounded time: every iteration uses up one of those left.
DosVueltasBastan == [][0 <= Restan' /\ Restan' < Restan]_vars

\* The search ends, whatever the table holds.
Termina == <>(pc = "fin")
=============================================================================
