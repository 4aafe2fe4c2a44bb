------------------------ MODULE BuscarProceso_proofs ------------------------
(***************************************************************************)
(* Proofs about the loop of scheduler_RR, for every size of the table and  *)
(* whatever the table holds.                                               *)
(*                                                                         *)
(* The loop invariant says what the iterations already made have ruled     *)
(* out.  When the loop ends in a slot, nobody nearer does; when it gives   *)
(* up, it is back where it began and both rounds have found nobody: the    *)
(* call has made the step scheduler_RR.  The distance from inicio grows by *)
(* one each iteration, so two rounds are all it can take.                  *)
(***************************************************************************)
EXTENDS BuscarProceso, TLAPS

IInv == TipoOK /\ LoVistoNoSirve

-----------------------------------------------------------------------------
(* Going round the circle.                                                  *)

\* The next slot is a slot, and one position further from inicio unless the
\* turn is complete.
LEMMA Vuelta ==
  ASSUME NEW i \in Ranuras, NEW a \in Ranuras
  PROVE  /\ SigRanura(a) \in Ranuras
         /\ Llamada!Distancia(i, a) \in 1 .. ProcesoTotales
         /\ a # i => Llamada!Distancia(i, SigRanura(a)) = Llamada!Distancia(i, a) + 1
         /\ a = i => /\ Llamada!Distancia(i, a) = ProcesoTotales
                     /\ Llamada!Distancia(i, SigRanura(a)) = 1
BY TotalesEsPositivo
   DEF Ranuras, SigRanura, Llamada!Ranuras, Llamada!SigRanura, Llamada!Mas1, Llamada!Distancia

\* Two slots at the same distance are one.
LEMMA DistanciaInyectiva ==
  ASSUME NEW i \in Ranuras, NEW a \in Ranuras, NEW b \in Ranuras,
         Llamada!Distancia(i, a) = Llamada!Distancia(i, b)
  PROVE  a = b
BY TotalesEsPositivo DEF Ranuras, Llamada!Ranuras, Llamada!Distancia

\* A slot does exactly when it is a candidate of the priority of the round.
LEMMA SirveEsCandidato ==
  ASSUME TipoOK
  PROVE  Sirve <=> actual \in Llamada!Candidatos(tabla, prioridad)
BY DEF TipoOK, Sirve, Ranuras, Llamada!Candidatos

-----------------------------------------------------------------------------
\* The initial states satisfy the inductive invariant.
LEMMA InicioInvariante == Init => IInv
BY DEF Init, IInv, TipoOK, LoVistoNoSirve

\* Entering the loop establishes what the loop keeps.
LEMMA EntrarInvariante == ASSUME IInv, Entrar PROVE IInv'
<1>1. TipoOK'
  BY Vuelta DEF IInv, TipoOK, Entrar
<1>2. ASSUME NEW s \in Llamada!Candidatos(tabla', prioridad')
      PROVE  Llamada!Distancia(inicio', actual') <= Llamada!Distancia(inicio', s)
  <2>1. s \in Ranuras /\ inicio' \in Ranuras
    BY <1>1, <1>2 DEF TipoOK, Ranuras, Llamada!Candidatos
  <2>2. Llamada!Distancia(inicio', s) >= 1
    BY <2>1, Vuelta, TotalesEsPositivo
  <2>3. Llamada!Distancia(inicio', actual') = 1
    BY Vuelta DEF IInv, TipoOK, Entrar
  <2>4. Llamada!Distancia(inicio', s) \in Int
    BY <2>1, Vuelta
  <2>. QED
    BY <2>2, <2>3, <2>4
<1>. QED
  BY <1>1, <1>2 DEF IInv, LoVistoNoSirve, Entrar

\* Going on past what does not serve keeps what the loop has established.
LEMMA AvanzarInvariante == ASSUME IInv, Avanzar PROVE IInv'
<1> USE DEF IInv
<1>1. /\ pc = "bucle" /\ ~Sirve /\ ~(inicio = actual /\ prioridad = 1)
      /\ prioridad' = IF inicio = actual THEN prioridad + 1 ELSE prioridad
      /\ actual' = SigRanura(actual)
      /\ UNCHANGED <<tabla, procesos_listos, procesoActual, inicio, pc>>
  BY DEF Avanzar
<1>2. inicio \in Ranuras /\ actual \in Ranuras
  BY DEF TipoOK
<1>3. TipoOK'
  BY <1>1, <1>2, Vuelta DEF TipoOK
<1>4. \A s \in Llamada!Candidatos(tabla, prioridad) :
        /\ s \in Ranuras
        /\ Llamada!Distancia(inicio, s) \in 1 .. ProcesoTotales
        /\ Llamada!Distancia(inicio, actual) < Llamada!Distancia(inicio, s)
  <2> SUFFICES ASSUME NEW s \in Llamada!Candidatos(tabla, prioridad)
               PROVE  /\ s \in Ranuras
                      /\ Llamada!Distancia(inicio, s) \in 1 .. ProcesoTotales
                      /\ Llamada!Distancia(inicio, actual) < Llamada!Distancia(inicio, s)
    OBVIOUS
  <2>1. s \in Ranuras
    BY DEF Ranuras, Llamada!Candidatos
  <2>2. s # actual
    BY <1>1, SirveEsCandidato
  <2>3. Llamada!Distancia(inicio, actual) # Llamada!Distancia(inicio, s)
    BY <1>2, <2>1, <2>2, DistanciaInyectiva
  <2>4. Llamada!Distancia(inicio, actual) <= Llamada!Distancia(inicio, s)
    BY <1>1 DEF LoVistoNoSirve
  <2>5. /\ Llamada!Distancia(inicio, s) \in 1 .. ProcesoTotales
        /\ Llamada!Distancia(inicio, actual) \in 1 .. ProcesoTotales
    BY <1>2, <2>1, Vuelta
  <2>. QED
    BY <2>1, <2>3, <2>4, <2>5, TotalesEsPositivo
<1>5. CASE inicio = actual
  <2>1. Llamada!Distancia(inicio, actual) = ProcesoTotales
    BY <1>2, <1>5, Vuelta
  <2>2. Llamada!Candidatos(tabla, prioridad) = {}
    BY <1>4, <2>1, TotalesEsPositivo
  <2>3. prioridad = 0 /\ prioridad' = 1
    BY <1>1, <1>5 DEF TipoOK
  <2>4. Llamada!Distancia(inicio, actual') = 1
    BY <1>1, <1>2, <1>5, Vuelta
  <2>5. \A s \in Llamada!Candidatos(tabla, 1) : Llamada!Distancia(inicio, s) \in 1 .. ProcesoTotales
    BY <1>2, Vuelta DEF Ranuras, Llamada!Candidatos
  <2>6. \A s \in Llamada!Candidatos(tabla, 1) : 1 <= Llamada!Distancia(inicio, s)
    BY <2>5, TotalesEsPositivo
  <2>. QED
    BY <1>1, <1>3, <2>2, <2>3, <2>4, <2>6 DEF LoVistoNoSirve
<1>6. CASE inicio # actual
  <2>1. Llamada!Distancia(inicio, actual') = Llamada!Distancia(inicio, actual) + 1
    BY <1>1, <1>2, <1>6, Vuelta
  <2>2. Llamada!Distancia(inicio, actual) \in Int
    BY <1>2, Vuelta
  <2>3. \A s \in Llamada!Candidatos(tabla, prioridad) :
          Llamada!Distancia(inicio, actual') <= Llamada!Distancia(inicio, s)
    BY <1>4, <2>1, <2>2, TotalesEsPositivo
  <2>. QED
    BY <1>1, <1>3, <1>6, <2>3 DEF LoVistoNoSirve
<1>. QED
  BY <1>5, <1>6

\* Every step preserves the inductive invariant.
LEMMA PasoInvariante == ASSUME IInv, [Next]_vars PROVE IInv'
<1>1. CASE NadaQueBuscar
  BY <1>1 DEF IInv, TipoOK, LoVistoNoSirve, NadaQueBuscar
<1>2. CASE Entrar
  BY <1>2, EntrarInvariante
<1>3. CASE Avanzar
  BY <1>3, AvanzarInvariante
<1>4. CASE Rendirse
  BY <1>4 DEF IInv, TipoOK, LoVistoNoSirve, Rendirse
<1>5. CASE Encontrar
  BY <1>5 DEF IInv, TipoOK, LoVistoNoSirve, Encontrar
<1>6. CASE Volver \/ UNCHANGED vars
  BY <1>6 DEF IInv, TipoOK, LoVistoNoSirve, Volver, vars
<1>. QED
  BY <1>1, <1>2, <1>3, <1>4, <1>5, <1>6 DEF Next

\* What the loop has looked at holds nobody it should have taken.
THEOREM InvarianteDelBucle == Spec => []IInv
BY InicioInvariante, PasoInvariante, PTL DEF Spec

\* Type correctness: the loop never leaves the table.
THEOREM TipoCorrecto == Spec => []TipoOK
<1>1. IInv => TipoOK
  BY DEF IInv
<1>. QED
  BY <1>1, InvarianteDelBucle, PTL

\* The part of it that the result of the search rests on.
THEOREM LoVistoSeDescarta == Spec => []LoVistoNoSirve
<1>1. IInv => LoVistoNoSirve
  BY DEF IInv
<1>. QED
  BY <1>1, InvarianteDelBucle, PTL

-----------------------------------------------------------------------------
(* The loop makes the step of module SchedulerRR.                           *)

\* Leaving the loop at a slot chooses the nearest eligible one.
LEMMA EncontrarElige ==
  ASSUME IInv, Encontrar
  PROVE  Llamada!scheduler_RR(tabla, procesos_listos)
<1>1. /\ pc = "bucle" /\ Sirve /\ procesoActual' = actual /\ pc' = "fin"
      /\ UNCHANGED <<tabla, procesos_listos, actual, inicio, prioridad>>
  BY DEF Encontrar
<1>2. actualVisto = inicio /\ actualVisto' = actual
  BY <1>1 DEF actualVisto
<1>3. actual \in Llamada!Candidatos(tabla, prioridad)
  BY <1>1, SirveEsCandidato DEF IInv
<1>4. Llamada!Elegibles(tabla) = Llamada!Candidatos(tabla, prioridad)
  <2>1. prioridad = 0 \/ prioridad = 1
    BY DEF IInv, TipoOK
  <2>2. prioridad = 1 => Llamada!Candidatos(tabla, 0) = {}
    BY <1>1 DEF IInv, LoVistoNoSirve
  <2>. QED
    BY <1>3, <2>1, <2>2 DEF Llamada!Elegibles
<1>5. \A s \in Llamada!Candidatos(tabla, prioridad) :
        Llamada!Distancia(inicio, actual) <= Llamada!Distancia(inicio, s)
  BY <1>1 DEF IInv, LoVistoNoSirve
<1>6. actual \in Llamada!MasCercano(Llamada!Elegibles(tabla), actualVisto)
  BY <1>2, <1>3, <1>4, <1>5 DEF Llamada!MasCercano
<1>7. procesos_listos # 0
  BY <1>1 DEF IInv, LoVistoNoSirve
<1>. QED
  BY <1>1, <1>2, <1>6, <1>7 DEF Llamada!scheduler_RR

\* Leaving the loop empty-handed means that nobody is eligible.
LEMMA RendirseEsNadie ==
  ASSUME IInv, Rendirse
  PROVE  Llamada!scheduler_RR(tabla, procesos_listos)
<1>1. /\ pc = "bucle" /\ ~Sirve /\ inicio = actual /\ prioridad = 1 /\ pc' = "fin"
      /\ UNCHANGED <<actual, procesoActual, inicio>>
  BY DEF Rendirse
<1>2. inicio \in Ranuras /\ actual \in Ranuras
  BY DEF IInv, TipoOK
<1>3. Llamada!Candidatos(tabla, 1) = {}
  <2> SUFFICES ASSUME NEW s \in Llamada!Candidatos(tabla, 1) PROVE FALSE
    OBVIOUS
  <2>1. s \in Ranuras
    BY DEF Ranuras, Llamada!Candidatos
  <2>2. Llamada!Distancia(inicio, actual) <= Llamada!Distancia(inicio, s)
    BY <1>1 DEF IInv, LoVistoNoSirve
  <2>3. /\ Llamada!Distancia(inicio, actual) = ProcesoTotales
        /\ Llamada!Distancia(inicio, s) \in 1 .. ProcesoTotales
    BY <1>1, <1>2, <2>1, Vuelta
  <2>4. Llamada!Distancia(inicio, s) = Llamada!Distancia(inicio, actual)
    BY <2>2, <2>3, TotalesEsPositivo
  <2>5. s = actual
    BY <1>2, <2>1, <2>4, DistanciaInyectiva
  <2>. QED
    BY <1>1, <2>5, SirveEsCandidato DEF IInv
<1>4. Llamada!Elegibles(tabla) = {}
  BY <1>1, <1>3 DEF IInv, LoVistoNoSirve, Llamada!Elegibles
<1>5. actualVisto' = actualVisto
  BY <1>1 DEF actualVisto
<1>. QED
  BY <1>1, <1>4, <1>5 DEF Llamada!scheduler_RR

\* The search of the code is the step its callers see, for every table.
THEOREM ElBucleEsElPaso == Spec => RefinaScheduler
<1> DEFINE visto == <<actualVisto, procesoActual, pc = "fin">>
           Paso == /\ pc # "fin" /\ pc' = "fin"
                   /\ Llamada!scheduler_RR(tabla, procesos_listos)
<1>1. ASSUME IInv, [Next]_vars PROVE [Paso]_visto
  <2>1. CASE NadaQueBuscar
    BY <2>1 DEF NadaQueBuscar, Llamada!scheduler_RR, actualVisto
  <2>2. CASE Entrar
    BY <2>2 DEF Entrar, actualVisto
  <2>3. CASE Avanzar
    BY <2>3 DEF Avanzar, actualVisto
  <2>4. CASE Rendirse
    BY <1>1, <2>4, RendirseEsNadie DEF Rendirse
  <2>5. CASE Encontrar
    BY <1>1, <2>5, EncontrarElige DEF Encontrar
  <2>6. CASE Volver \/ UNCHANGED vars
    BY <2>6 DEF Volver, vars, actualVisto
  <2>. QED
    BY <1>1, <2>1, <2>2, <2>3, <2>4, <2>5, <2>6 DEF Next
<1>. QED
  BY <1>1, InvarianteDelBucle, PTL DEF Spec, RefinaScheduler

\* Every iteration uses up one of the at most 2 * ProcesoTotales + 2.
THEOREM ElBucleEsAcotado == Spec => DosVueltasBastan
<1>1. ASSUME IInv, [Next]_vars PROVE [0 <= Restan' /\ Restan' < Restan]_vars
  <2> USE TotalesEsPositivo
  <2>0. /\ inicio \in Ranuras /\ actual \in Ranuras /\ prioridad \in {0, 1}
        /\ Llamada!Distancia(inicio, actual) \in 1 .. ProcesoTotales
    BY <1>1, Vuelta DEF IInv, TipoOK
  <2>1. CASE NadaQueBuscar
    BY <2>1 DEF NadaQueBuscar, Restan
  <2>2. CASE Entrar
    <3>1. Llamada!Distancia(inicio', actual') = 1
      BY <2>0, <2>2, Vuelta DEF Entrar
    <3>. QED
      BY <2>2, <3>1 DEF Entrar, Restan
  <2>3. CASE Avanzar
    <3>1. CASE inicio = actual
      BY <2>0, <2>3, <3>1, Vuelta DEF Avanzar, Restan
    <3>2. CASE inicio # actual
      <4>1. Llamada!Distancia(inicio', actual') = Llamada!Distancia(inicio, actual) + 1
        BY <2>0, <2>3, <3>2, Vuelta DEF Avanzar
      <4>2. Llamada!Distancia(inicio', actual') \in 1 .. ProcesoTotales
        BY <2>0, <2>3, Vuelta DEF Avanzar
      <4>. QED
        BY <2>0, <2>3, <3>2, <4>1, <4>2 DEF Avanzar, Restan
    <3>. QED
      BY <3>1, <3>2
  <2>4. CASE Rendirse
    BY <2>0, <2>4 DEF Rendirse, Restan
  <2>5. CASE Encontrar
    BY <2>0, <2>5 DEF Encontrar, Restan
  <2>6. CASE Volver \/ UNCHANGED vars
    BY <2>6 DEF Volver
  <2>. QED
    BY <1>1, <2>1, <2>2, <2>3, <2>4, <2>5, <2>6 DEF Next
<1>. QED
  BY <1>1, InvarianteDelBucle, PTL DEF Spec, DosVueltasBastan
=============================================================================
