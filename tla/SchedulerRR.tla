---------------------------- MODULE SchedulerRR -----------------------------
(***************************************************************************)
(* scheduler_RR of planificador.c as one step: which process the kernel    *)
(* runs next.  The slots of the process table form a circle; the search    *)
(* starts after the slot it stopped at the last time, goes round once for  *)
(* priority 0 and, when nobody of that priority is ready, once more for    *)
(* priority 1.                                                             *)
(*                                                                         *)
(* Planificador uses this step inside the timer interrupt.  BuscarProceso  *)
(* is the loop of the code, and implements it.                             *)
(***************************************************************************)
EXTENDS Integers

CONSTANT ProcesoTotales     \* slots of the process table (20)

ASSUME TotalesPositivo == ProcesoTotales \in Nat \ {0}

VARIABLES
  actual,           \* where the scheduler stopped scanning
  procesoActual     \* the slot the pointer procesoActual points to

Prioridades == {0, 1}            \* 0 = interactive, 1 = batch
Estados == {"NUEVO", "LISTO", "EJECUTANDO", "ESPERANDO", "TERMINADO"}
Ranuras == 0 .. (ProcesoTotales - 1)

\* A counter of mod values and its successor; (s + 1) % ProcesoTotales.
Mas1(x, mod) == IF x = mod - 1 THEN 0 ELSE x + 1
SigRanura(s) == Mas1(s, ProcesoTotales)

DistanciaDesdeCero(a, s) == s                  \* mutant: every scan starts at slot 0

\* Positions that the scan advances from a to s, where a itself is last.
Distancia(a, s) == IF s > a THEN s - a ELSE (s - a) + ProcesoTotales

Candidatos(tabla, pr) ==
  {s \in Ranuras : tabla[s].estado = "LISTO" /\ tabla[s].prioridad = pr}

Elegibles(tabla) ==
  IF Candidatos(tabla, 0) # {} THEN Candidatos(tabla, 0) ELSE Candidatos(tabla, 1)

MasCercano(conjunto, a) ==
  {s \in conjunto : \A t \in conjunto : Distancia(a, s) <= Distancia(a, t)}

scheduler_RR_Avanza(tabla, listos) ==          \* mutant: finding nobody moves actual on
  \/ /\ listos = 0 \/ Elegibles(tabla) = {}
     /\ actual' = SigRanura(actual)
     /\ UNCHANGED procesoActual
  \/ /\ listos # 0
     /\ \E s \in MasCercano(Elegibles(tabla), actual) :
          /\ actual' = s
          /\ procesoActual' = s

scheduler_RR(tabla, listos) ==
  \/ /\ listos = 0 \/ Elegibles(tabla) = {}
     /\ UNCHANGED <<actual, procesoActual>>
  \/ /\ listos # 0
     /\ \E s \in MasCercano(Elegibles(tabla), actual) :
          /\ actual' = s
          /\ procesoActual' = s
=============================================================================
