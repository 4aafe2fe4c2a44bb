------------------------ MODULE Planificador_proofs -------------------------
(***************************************************************************)
(* Proofs about module Planificador, for every size of the table, width of *)
(* the counters, set of pages and set of processes the shell can create.   *)
(*                                                                         *)
(* The four safety properties support one another: the page of a live      *)
(* process stays its own because a page changes hands only when it is free *)
(* or when the process whose pid it carries ends, and pids are unique; the *)
(* process that ends is the one procesoActual names.  So they are proved   *)
(* together, as the inductive invariant IInv.                              *)
(***************************************************************************)
EXTENDS Planificador, TLAPS, FiniteSetTheorems

IInv ==
  /\ TipoOK
  /\ UnSoloEjecutando
  /\ PidsUnicos
  /\ DatosPropios
  /\ FallaSoloTrasPanico
  /\ LlenadoEnOrden
  /\ ActualYPuntero

-----------------------------------------------------------------------------
(* The operators the actions are built from.                                *)

\* A counter that steps by one stays within its width.
LEMMA AnchoContador ==
  ASSUME NEW m \in Nat \ {0}, NEW x \in 0 .. (m - 1)
  PROVE  Mas1(x, m) \in 0 .. (m - 1) /\ Menos1(x, m) \in 0 .. (m - 1)
BY DEF Mas1, Menos1

\* What is left of a counter modulo its width is in range.
LEMMA RestoEnRango ==
  ASSUME NEW x \in Int, NEW m \in Nat \ {0}
  PROVE  x % m \in 0 .. (m - 1)
OBVIOUS

\* Running an operation leaves a number of the width of datos.numero.
LEMMA NumeroEnRango ==
  ASSUME NEW op \in Operaciones, NEW n \in 0 .. (ModNumero - 1)
  PROVE  NumeroTras(op, n) \in 0 .. (ModNumero - 1)
<1>1. Mas1(n, ModNumero) \in 0 .. (ModNumero - 1)
  BY AnchoContador, AnchosPositivos
<1>2. Menos1(n, ModNumero) \in 0 .. (ModNumero - 1)
  BY AnchoContador, AnchosPositivos
<1>3. 0 \in 0 .. (ModNumero - 1)
  BY AnchosPositivos
<1>. QED
  BY <1>1, <1>2, <1>3 DEF NumeroTras, Operaciones

\* liberar_pagina only ever clears the estado of a page of its caller.
LEMMA LiberarSoloLaPropia ==
  ASSUME NEW tabla \in [Paginas -> [estado : {0, 1}, pid : Nat, numero : 0 .. (ModNumero - 1)]],
         NEW p \in Paginas, NEW pid \in Nat
  PROVE  /\ LiberarPagina(tabla, p, pid)
              \in [Paginas -> [estado : {0, 1}, pid : Nat, numero : 0 .. (ModNumero - 1)]]
         /\ \A q \in Paginas :
              /\ LiberarPagina(tabla, p, pid)[q].pid = tabla[q].pid
              /\ tabla[q].pid # pid => LiberarPagina(tabla, p, pid)[q] = tabla[q]
BY DEF LiberarPagina

\* A free slot at proceso_colocar is the one agregarProceso takes.
LEMMA HuecoEsElPrimero ==
  ASSUME proceso_colocar \in Libres, NEW s \in Hueco
  PROVE  s = proceso_colocar
<1>1. s \in Ranuras /\ proceso_colocar \in Ranuras
  BY DEF Hueco, Libres
<1>2. (s - proceso_colocar) % ProcesoTotales <= (proceso_colocar - proceso_colocar) % ProcesoTotales
  BY DEF Hueco
<1>3. (s - proceso_colocar) % ProcesoTotales = 0
  BY <1>1, <1>2, TotalesPositivo DEF Ranuras
<1>. QED
  BY <1>1, <1>3, TotalesPositivo DEF Ranuras

\* scheduler_RR keeps the pointer and the index together, on a slot.
LEMMA SchedulerPuntero ==
  ASSUME NEW tabla \in [Ranuras -> Entrada], NEW listos,
         actual \in Ranuras, ActualYPuntero, scheduler_RR(tabla, listos)
  PROVE  actual' \in Ranuras /\ procesoActual' \in Ranuras /\ ActualYPuntero'
BY DEF scheduler_RR, MasCercano, Elegibles, Candidatos, ActualYPuntero

-----------------------------------------------------------------------------
\* The initial states satisfy the inductive invariant.
LEMMA InicioInvariante == Init => IInv
<1> SUFFICES ASSUME Init PROVE IInv
  OBVIOUS
<1>0. PICK p \in Paginas : Init!(p)
  BY DEF Init
<1>1. PICK delKernel \in SUBSET (Paginas \ {p}) : Init!(p)!(delKernel)
  BY <1>0
<1>2. 0 \in Ranuras /\ SigRanura(0) \in Ranuras
  BY TotalesPositivo DEF Ranuras, SigRanura, Mas1
<1>3. Vacia \in Entrada
  BY DEF Vacia, Entrada, Prioridades, Estados
<1>4. TipoOK
  <2>1. procesos \in [Ranuras -> Entrada]
    BY <1>1, <1>2, <1>3 DEF Entrada, Prioridades, Estados, Operaciones
  <2>2. paginas \in [Paginas -> [estado : {0, 1}, pid : Nat, numero : 0 .. (ModNumero - 1)]]
    BY <1>1, AnchosPositivos DEF Bloqueada
  <2>3. /\ procesos_listos \in 0 .. (ModListos - 1)
        /\ quantum \in 0 .. (ModQuantum - 1)
        /\ pidDisponible \in Nat \ {0}
    BY <1>1, TotalesPositivo, AnchosPositivos, LimitesEnRango
  <2>4. actual \in Ranuras /\ procesoActual \in Ranuras /\ proceso_colocar \in Ranuras
    BY <1>1, <1>2
  <2>5. /\ contador \in 0 .. (TicksPorQuantum - 1)
        /\ evento_teclado \in BOOLEAN /\ {panico, fallo} \subseteq BOOLEAN
    BY <1>1
  <2>. QED
    BY <2>1, <2>2, <2>3, <2>4, <2>5 DEF TipoOK
<1>8. AMedias = {}
  BY <1>1, <1>2 DEF AMedias, Vacia
<1>5. UnSoloEjecutando /\ PidsUnicos /\ ActualYPuntero /\ FallaSoloTrasPanico
  BY <1>1, <1>2, <1>8
  DEF UnSoloEjecutando, PidsUnicos, ActualYPuntero, FallaSoloTrasPanico, Vacia
<1>6. DatosPropios
  BY <1>1, <1>2 DEF DatosPropios, Vivos, EstaVivo, Vacia, Bloqueada, Operaciones
<1>7. LlenadoEnOrden
  BY <1>1, <1>2, <1>8, TotalesPositivo DEF LlenadoEnOrden, Vacia, SigRanura, Mas1, Ranuras
<1>. QED
  BY <1>4, <1>5, <1>6, <1>7 DEF IInv

-----------------------------------------------------------------------------
(* The shell's commands.                                                    *)

\* A creation takes a slot that is not live, a page nobody has and a pid of its own.
LEMMA ColocarInvariante ==
  ASSUME IInv, ~panico, NEW orden \in Ordenes, Colocar(orden)
  PROVE  IInv'
<1>1. PICK s \in Hueco, p \in PaginasLibres : Colocar(orden)!(s, p)
  BY DEF Colocar
<1>2. s \in Ranuras /\ ~EstaVivo(procesos[s]) /\ p \in Paginas /\ paginas[p].estado = 0
  BY DEF Hueco, Libres, EstaVivo, PaginasLibres
<1>3. orden.operacion \in Operaciones /\ orden.prioridad \in Prioridades
      /\ orden.numero \in 0 .. (ModNumero - 1)
  BY OrdenesDelShell
<1>11. AMedias = {} /\ AMedias' = {}
  <2>1. AMedias = {}
    BY DEF IInv, PidsUnicos
  <2>. QED
    BY <1>1, <1>2, <2>1
    DEF AMedias, IInv, TipoOK, PidsUnicos, SiguientePid, Entrada, NuevaEntrada
<1>4. TipoOK'
  <2>1. procesos' \in [Ranuras -> Entrada]
    BY <1>1, <1>2, <1>3 DEF IInv, TipoOK, Entrada, Estados, NuevaEntrada
  <2>2. paginas' \in [Paginas -> [estado : {0, 1}, pid : Nat, numero : 0 .. (ModNumero - 1)]]
    BY <1>1, <1>2, <1>3 DEF IInv, TipoOK, Bloqueada
  <2>3. SigRanura(s) \in Ranuras
    BY <1>2, TotalesPositivo, AnchoContador DEF SigRanura, Ranuras
  <2>4. Mas1(procesos_listos, ModListos) \in 0 .. (ModListos - 1)
    BY AnchoContador, AnchosPositivos DEF IInv, TipoOK
  <2>5. pidDisponible' \in Nat \ {0}
    BY <1>1 DEF SiguientePid, IInv, TipoOK
  <2>. QED
    BY <1>1, <2>1, <2>2, <2>3, <2>4, <2>5 DEF IInv, TipoOK
<1>5. UnSoloEjecutando'
  BY <1>1, <1>2 DEF IInv, TipoOK, UnSoloEjecutando, NuevaEntrada
<1>6. PidsUnicos'
  <2>1. \A t \in Ranuras : procesos[t].pid <= pidDisponible /\ procesos[t].pid # pidDisponible
    BY <1>11 DEF IInv, PidsUnicos, AMedias
  <2>. QED
    BY <1>1, <1>2, <1>11, <2>1
    DEF IInv, TipoOK, PidsUnicos, SiguientePid, Entrada, NuevaEntrada
<1>7. DatosPropios'
  BY <1>1, <1>2, <1>3, <1>11
  DEF IInv, TipoOK, DatosPropios, Vivos, EstaVivo, Bloqueada, NuevaEntrada
<1>8. ActualYPuntero' /\ FallaSoloTrasPanico'
  BY <1>1 DEF IInv, ActualYPuntero, FallaSoloTrasPanico
<1>9. LlenadoEnOrden'
  <2> SUFFICES ASSUME \E t \in Ranuras : procesos'[t].pid = 0
               PROVE  \A t \in Ranuras : procesos'[t].pid = 0 <=> t >= proceso_colocar'
    BY <1>11 DEF LlenadoEnOrden
  <2>1. /\ \A t \in Ranuras \ {s} : procesos'[t] = procesos[t]
        /\ procesos'[s].pid # 0
        /\ proceso_colocar' = SigRanura(s)
    BY <1>1, <1>2 DEF IInv, TipoOK, NuevaEntrada
  <2>2. \A t \in Ranuras : procesos[t].pid = 0 <=> t >= proceso_colocar
    BY <1>11, <2>1 DEF IInv, LlenadoEnOrden
  <2>3. proceso_colocar \in Libres
    BY <2>1, <2>2 DEF IInv, TipoOK, PidsUnicos, Libres, Ranuras
  <2>4. s = proceso_colocar
    BY <2>3, HuecoEsElPrimero
  <2>. QED
    BY <1>2, <2>1, <2>2, <2>4, TotalesPositivo DEF SigRanura, Mas1, Ranuras
<1>. QED
  BY <1>4, <1>5, <1>6, <1>7, <1>8, <1>9 DEF IInv

\* The panic half way through a creation leaves what the exceptions for it allow.
LEMMA SinMemoriaInvariante ==
  ASSUME IInv, ~panico, NEW orden \in Ordenes, SinMemoria(orden)
  PROVE  IInv'
<1>1. PICK s \in Hueco : SinMemoria(orden)!2!(s)
  BY DEF SinMemoria
<1>2. s \in Ranuras
  BY DEF Hueco, Libres
<1>3. orden.operacion \in Operaciones /\ orden.prioridad \in Prioridades
  BY OrdenesDelShell
<1>4. panico' = TRUE
      /\ UNCHANGED <<actual, pidDisponible, procesos_listos, procesoActual, contador,
                     quantum, paginas, evento_teclado, fallo>>
  BY DEF SinMemoria
<1>9. AMedias = {} /\ AMedias' = {s}
  <2>1. AMedias = {}
    BY DEF IInv, PidsUnicos
  <2>. QED
    BY <1>1, <1>2, <1>4, <2>1 DEF AMedias, IInv, TipoOK, Entrada
<1>5. TipoOK'
  <2> DEFINE e == [procesos[s] EXCEPT !.pid = pidDisponible, !.prioridad = orden.prioridad,
                                       !.estado = "LISTO", !.operacion = orden.operacion]
  <2>1. procesos[s] \in Entrada /\ pidDisponible \in Nat /\ "LISTO" \in Estados
    BY <1>2 DEF IInv, TipoOK, Estados
  <2>2. e \in Entrada
    BY <1>3, <2>1 DEF Entrada
  <2>3. procesos' = [procesos EXCEPT ![s] = e]
    BY <1>1, <1>2 DEF IInv, TipoOK
  <2>4. procesos' \in [Ranuras -> Entrada]
    BY <1>2, <2>2, <2>3 DEF IInv, TipoOK
  <2>5. proceso_colocar' \in Ranuras
    BY <1>1, <1>2
  <2>. QED
    BY <1>4, <2>4, <2>5 DEF IInv, TipoOK
<1>6. UnSoloEjecutando' /\ ActualYPuntero' /\ FallaSoloTrasPanico'
  BY <1>1, <1>2, <1>4
  DEF IInv, TipoOK, UnSoloEjecutando, ActualYPuntero, FallaSoloTrasPanico
<1>7. PidsUnicos'
  <2>1. \A t \in Ranuras : procesos[t].pid <= pidDisponible /\ procesos[t].pid # pidDisponible
    BY <1>9 DEF IInv, PidsUnicos, AMedias
  <2>. QED
    BY <1>1, <1>2, <1>4, <2>1 DEF IInv, TipoOK, PidsUnicos, Entrada
<1>10. DatosPropios'
  BY <1>1, <1>2, <1>3, <1>4, <1>9 DEF IInv, TipoOK, DatosPropios, Vivos, EstaVivo
<1>8. LlenadoEnOrden'
  <2> SUFFICES ASSUME \E t \in Ranuras : procesos'[t].pid = 0
               PROVE  \A t \in Ranuras :
                        procesos'[t].pid = 0 <=> t >= proceso_colocar' /\ t # s
    BY <1>1, <1>9 DEF LlenadoEnOrden
  <2>1. /\ \A t \in Ranuras \ {s} : procesos'[t] = procesos[t]
        /\ procesos'[s].pid # 0
        /\ proceso_colocar' = s
    BY <1>1, <1>2 DEF IInv, TipoOK
  <2>2. \A t \in Ranuras : procesos[t].pid = 0 <=> t >= proceso_colocar
    BY <1>9, <2>1 DEF IInv, LlenadoEnOrden
  <2>3. proceso_colocar \in Libres
    BY <2>1, <2>2 DEF IInv, TipoOK, PidsUnicos, Libres, Ranuras
  <2>4. s = proceso_colocar
    BY <2>3, HuecoEsElPrimero
  <2>. QED
    BY <1>2, <2>1, <2>2, <2>4 DEF Ranuras
<1>. QED
  BY <1>5, <1>6, <1>7, <1>8, <1>10 DEF IInv

\* A kill only takes entries away from the live ones.
LEMMA EliminarInvariante ==
  ASSUME IInv, ~panico, NEW pid \in 1 .. MaxPid, eliminarProceso(pid)
  PROVE  IInv'
<1>1. \A s \in Ranuras :
        /\ procesos'[s].pid = procesos[s].pid
        /\ procesos'[s].operacion = procesos[s].operacion
        /\ procesos'[s].datosProceso = procesos[s].datosProceso
        /\ \/ procesos'[s].estado = procesos[s].estado
           \/ procesos'[s].estado = "TERMINADO" /\ procesos[s].pid = pid
  BY DEF eliminarProceso, ConPid, IInv, TipoOK, Entrada
<1>2. procesos' \in [Ranuras -> Entrada]
  BY DEF eliminarProceso, IInv, TipoOK, Entrada, Estados
<1>3. procesos_listos' \in 0 .. (ModListos - 1)
  <2>1. IsFiniteSet(Ranuras)
    BY TotalesPositivo, FS_Interval DEF Ranuras
  <2>2. Cardinality(ConPid(pid)) \in Nat
    BY <2>1, FS_Subset, FS_CardinalityType DEF ConPid
  <2>3. procesos_listos - Cardinality(ConPid(pid)) \in Int
    BY <2>2 DEF IInv, TipoOK
  <2>. QED
    BY <2>3, RestoEnRango, AnchosPositivos DEF eliminarProceso
<1>4. UNCHANGED <<actual, proceso_colocar, pidDisponible, procesoActual, contador,
                  quantum, paginas, evento_teclado, panico, fallo>>
  BY DEF eliminarProceso
<1>10. AMedias' = AMedias
  BY <1>1, <1>4 DEF AMedias
<1>5. TipoOK'
  BY <1>2, <1>3, <1>4 DEF IInv, TipoOK
<1>6. UnSoloEjecutando' /\ ActualYPuntero' /\ FallaSoloTrasPanico'
  BY <1>1, <1>4 DEF IInv, UnSoloEjecutando, ActualYPuntero, FallaSoloTrasPanico
<1>9. PidsUnicos'
  <2>1. pid # 0
    OBVIOUS
  <2>. QED
    BY <1>1, <1>4, <1>10, <2>1 DEF IInv, PidsUnicos
<1>7. DatosPropios'
  BY <1>1, <1>4, <1>10 DEF IInv, DatosPropios, Vivos, EstaVivo
<1>8. LlenadoEnOrden'
  BY <1>1, <1>4, <1>10 DEF IInv, LlenadoEnOrden
<1>. QED
  BY <1>5, <1>6, <1>7, <1>8, <1>9 DEF IInv

-----------------------------------------------------------------------------
(* The paths of aumentar_timer.                                             *)

\* What a run of the operation of the current process does to the pages.
LEMMA OperarConservaPaginas ==
  ASSUME IInv, EstaListo(elActual), suPagina # Nulo
  PROVE  /\ suPagina \in Paginas
         /\ TrasOperar \in [Paginas -> [estado : {0, 1}, pid : Nat, numero : 0 .. (ModNumero - 1)]]
         /\ \A q \in Paginas : /\ TrasOperar[q].estado = paginas[q].estado
                             /\ TrasOperar[q].pid = paginas[q].pid
<1>1. procesoActual \in Vivos /\ elActual \in Entrada
  BY DEF IInv, TipoOK, Vivos, EstaVivo, EstaListo, elActual
<1>2. suPagina \in Paginas
  BY <1>1 DEF Entrada, suPagina
<1>3. elActual.operacion \in Operaciones
  BY <1>1 DEF IInv, DatosPropios, elActual
<1>4. NumeroTras(elActual.operacion, paginas[suPagina].numero) \in 0 .. (ModNumero - 1)
  BY <1>2, <1>3, NumeroEnRango DEF IInv, TipoOK
<1>5. TrasOperar = [paginas EXCEPT ![suPagina].numero =
                      NumeroTras(elActual.operacion, paginas[suPagina].numero)]
  BY <1>2 DEF TrasOperar, IInv, TipoOK
<1>. QED
  BY <1>2, <1>4, <1>5 DEF IInv, TipoOK

\* What changing the estado of the current process does to the table.
LEMMA CambiarEstado ==
  ASSUME IInv, NEW e \in Estados
  PROVE  /\ ConEstado(e) \in [Ranuras -> Entrada]
         /\ ConEstado(e)[procesoActual].estado = e
         /\ \A s \in Ranuras :
              /\ ConEstado(e)[s].pid = procesos[s].pid
              /\ ConEstado(e)[s].operacion = procesos[s].operacion
              /\ ConEstado(e)[s].datosProceso = procesos[s].datosProceso
              /\ s # procesoActual => ConEstado(e)[s] = procesos[s]
BY DEF ConEstado, IInv, TipoOK, Entrada

\* Every path counts the interrupt and leaves this part of the state alone.
LEMMA TicConserva ==
  ASSUME IInv, TicQuantum
  PROVE  /\ contador' \in 0 .. (TicksPorQuantum - 1)
         /\ UNCHANGED <<proceso_colocar, pidDisponible, panico>>
BY AnchoContador, AnchosPositivos DEF IInv, TipoOK, TicQuantum, Tic

\* A path that runs the current process and ends its turn: whatever estado e
\* the process is left in, the invariant is kept if it does not run on, if its
\* page stays its own while it lives, and if scheduler_RR moved the pointer.
LEMMA FinDeTurno ==
  ASSUME IInv, ejecutarProceso,
         NEW e \in {"LISTO", "ESPERANDO", "TERMINADO"}, procesos' = ConEstado(e),
         \/ paginas' = TrasOperar
         \/ e = "TERMINADO" /\ paginas' = LiberarPagina(TrasOperar, suPagina, elActual.pid),
         procesos_listos' \in 0 .. (ModListos - 1),
         quantum' \in 0 .. (ModQuantum - 1),
         actual' \in Ranuras, procesoActual' \in Ranuras, ActualYPuntero'
  PROVE  IInv'
<1>1. TicQuantum /\ EstaListo(elActual) /\ suPagina # Nulo /\ UNCHANGED fallo
      /\ evento_teclado' = (evento_teclado \/ elActual.operacion = "shell")
  BY DEF ejecutarProceso
<1>2. evento_teclado' \in BOOLEAN
  BY <1>1
<1>3. e \in Estados
  BY DEF Estados
<1>4. procesoActual \in Ranuras /\ elActual.pid \in Nat
  BY DEF IInv, TipoOK, Entrada, elActual
<1>5. /\ paginas' \in [Paginas -> [estado : {0, 1}, pid : Nat, numero : 0 .. (ModNumero - 1)]]
      /\ \A q \in Paginas :
           /\ paginas'[q].pid = paginas[q].pid
           /\ e # "TERMINADO" \/ paginas[q].pid # elActual.pid =>
                paginas'[q].estado = paginas[q].estado
  <2>1. /\ suPagina \in Paginas
        /\ TrasOperar \in [Paginas -> [estado : {0, 1}, pid : Nat, numero : 0 .. (ModNumero - 1)]]
        /\ \A q \in Paginas : /\ TrasOperar[q].estado = paginas[q].estado
                            /\ TrasOperar[q].pid = paginas[q].pid
    BY <1>1, OperarConservaPaginas
  <2>2. CASE paginas' = TrasOperar
    BY <2>1, <2>2
  <2>3. CASE e = "TERMINADO" /\ paginas' = LiberarPagina(TrasOperar, suPagina, elActual.pid)
    <3> DEFINE T == TrasOperar
    <3>1. /\ LiberarPagina(T, suPagina, elActual.pid)
               \in [Paginas -> [estado : {0, 1}, pid : Nat, numero : 0 .. (ModNumero - 1)]]
          /\ \A q \in Paginas :
              /\ LiberarPagina(T, suPagina, elActual.pid)[q].pid = T[q].pid
              /\ T[q].pid # elActual.pid => LiberarPagina(T, suPagina, elActual.pid)[q] = T[q]
      BY <1>4, <2>1, LiberarSoloLaPropia
    <3>. QED
      BY <2>1, <2>3, <3>1
  <2>. QED
    BY <2>2, <2>3
<1>11. AMedias' = AMedias
  BY <1>1, <1>3, CambiarEstado, TicConserva DEF AMedias
<1>6. TipoOK'
  <2>1. procesos' \in [Ranuras -> Entrada]
    BY <1>3, CambiarEstado
  <2>2. contador' \in 0 .. (TicksPorQuantum - 1)
        /\ UNCHANGED <<proceso_colocar, pidDisponible, panico>>
    BY <1>1, TicConserva
  <2>. QED
    BY <1>1, <1>2, <1>5, <2>1, <2>2 DEF IInv, TipoOK
<1>7. UnSoloEjecutando' /\ FallaSoloTrasPanico'
  BY <1>1, <1>3, CambiarEstado, TicConserva DEF IInv, UnSoloEjecutando, FallaSoloTrasPanico
<1>8. PidsUnicos'
  <2>1. procesos[procesoActual].pid # 0
    BY <1>1, <1>4 DEF IInv, PidsUnicos, EstaListo, elActual
  <2>. QED
    BY <1>1, <1>3, <1>11, <2>1, CambiarEstado, TicConserva DEF IInv, PidsUnicos
<1>9. DatosPropios'
  <2> SUFFICES ASSUME NEW s \in Ranuras, EstaVivo(procesos'[s])
               PROVE  /\ procesos'[s].operacion \in Operaciones
                      /\ s \notin AMedias =>
                           /\ procesos'[s].datosProceso \in Paginas
                           /\ paginas'[procesos'[s].datosProceso].estado = 1
                           /\ paginas'[procesos'[s].datosProceso].pid = procesos'[s].pid
    BY <1>11 DEF DatosPropios, Vivos
  <2>1. EstaVivo(procesos[s])
    <3>1. CASE s = procesoActual
      BY <1>1, <3>1 DEF EstaVivo, EstaListo, elActual
    <3>2. CASE s # procesoActual
      BY <1>3, <3>2, CambiarEstado
    <3>. QED
      BY <3>1, <3>2
  <2>2. /\ procesos[s].operacion \in Operaciones
        /\ s \notin AMedias =>
             /\ procesos[s].datosProceso \in Paginas
             /\ paginas[procesos[s].datosProceso].estado = 1
             /\ paginas[procesos[s].datosProceso].pid = procesos[s].pid
    BY <2>1 DEF IInv, DatosPropios, Vivos
  <2>3. /\ procesos'[s].operacion = procesos[s].operacion
        /\ procesos'[s].datosProceso = procesos[s].datosProceso
        /\ procesos'[s].pid = procesos[s].pid
    BY <1>3, CambiarEstado
  <2>4. CASE e # "TERMINADO"
    BY <1>5, <2>2, <2>3, <2>4
  <2>5. CASE e = "TERMINADO"
    <3>1. s # procesoActual
      BY <1>3, <2>5, CambiarEstado DEF EstaVivo
    <3>2. procesos[s].pid # elActual.pid
      BY <1>4, <2>1, <3>1 DEF IInv, PidsUnicos, elActual, EstaVivo
    <3>. QED
      BY <1>5, <2>2, <2>3, <3>2
  <2>. QED
    BY <2>4, <2>5
<1>10. LlenadoEnOrden'
  BY <1>1, <1>3, <1>11, CambiarEstado, TicConserva DEF IInv, LlenadoEnOrden
<1>. QED
  BY <1>6, <1>7, <1>8, <1>9, <1>10 DEF IInv

\* A path that leaves the current process EJECUTANDO, having run or not.
LEMMA SeguirEjecutando ==
  ASSUME IInv, TicQuantum, EstaListo(elActual), procesos' = ConEstado("EJECUTANDO"),
         paginas' \in [Paginas -> [estado : {0, 1}, pid : Nat, numero : 0 .. (ModNumero - 1)]],
         \A q \in Paginas : /\ paginas'[q].estado = paginas[q].estado
                           /\ paginas'[q].pid = paginas[q].pid,
         quantum' \in 0 .. (ModQuantum - 1),
         evento_teclado' \in BOOLEAN,
         fallo' = fallo \/ (fallo' = TRUE /\ panico),
         UNCHANGED <<procesos_listos, actual, procesoActual>>
  PROVE  IInv'
<1> USE DEF IInv
<1>1. "EJECUTANDO" \in Estados
  BY DEF Estados
<1>2. contador' \in 0 .. (TicksPorQuantum - 1)
      /\ UNCHANGED <<proceso_colocar, pidDisponible, panico>>
  BY TicConserva
<1>3. AMedias' = AMedias
  BY <1>1, <1>2, CambiarEstado DEF AMedias
<1>4. TipoOK'
  BY <1>1, <1>2, CambiarEstado DEF TipoOK
<1>5. UnSoloEjecutando' /\ ActualYPuntero' /\ FallaSoloTrasPanico'
  BY <1>1, <1>2, CambiarEstado DEF UnSoloEjecutando, ActualYPuntero, FallaSoloTrasPanico
<1>6. procesos[procesoActual].pid # 0 /\ EstaVivo(procesos[procesoActual])
  BY DEF TipoOK, PidsUnicos, EstaListo, EstaVivo, elActual
<1>7. PidsUnicos'
  BY <1>1, <1>2, <1>3, <1>6, CambiarEstado DEF PidsUnicos
<1>8. DatosPropios'
  BY <1>1, <1>3, <1>6, CambiarEstado DEF DatosPropios, Vivos
<1>9. LlenadoEnOrden'
  BY <1>1, <1>2, <1>3, CambiarEstado DEF LlenadoEnOrden
<1>. QED
  BY <1>4, <1>5, <1>7, <1>8, <1>9

\* The handler, path by path.
LEMMA TimerInvariante == ASSUME IInv, aumentar_timer PROVE IInv'
<1> USE DEF IInv
<1>2. /\ Mas1(quantum, ModQuantum) \in 0 .. (ModQuantum - 1)
      /\ 0 \in 0 .. (ModQuantum - 1)
      /\ Menos1(procesos_listos, ModListos) \in 0 .. (ModListos - 1)
  BY AnchoContador, AnchosPositivos DEF TipoOK
<1>3. CASE TicSinQuantum
  <2>1. contador' \in 0 .. (TicksPorQuantum - 1)
    BY <1>3, AnchoContador, AnchosPositivos DEF TicSinQuantum, Tic, TipoOK
  <2>. QED
    BY <1>3, <2>1 DEF TicSinQuantum, TipoOK, UnSoloEjecutando, PidsUnicos, DatosPropios,
       Vivos, ActualYPuntero, LlenadoEnOrden, AMedias, FallaSoloTrasPanico
<1>4. CASE QuantumSinActual
  <2>1. TicQuantum /\ ~EstaListo(elActual) /\ scheduler_RR(procesos, procesos_listos)
        /\ quantum' = Mas1(quantum, ModQuantum)
        /\ UNCHANGED <<procesos, procesos_listos, paginas, evento_teclado, fallo>>
    BY <1>4 DEF QuantumSinActual
  <2>2. /\ contador' \in 0 .. (TicksPorQuantum - 1)
        /\ UNCHANGED <<proceso_colocar, pidDisponible, panico>>
    BY <2>1, TicConserva
  <2>3. actual' \in Ranuras /\ procesoActual' \in Ranuras /\ ActualYPuntero'
    BY <2>1, SchedulerPuntero DEF TipoOK
  <2>4. TipoOK'
    BY <1>2, <2>1, <2>2, <2>3 DEF TipoOK
  <2>5. UnSoloEjecutando'
    BY <2>1 DEF UnSoloEjecutando, EstaListo, elActual
  <2>6. PidsUnicos' /\ DatosPropios' /\ LlenadoEnOrden' /\ FallaSoloTrasPanico'
    BY <2>1, <2>2
    DEF PidsUnicos, DatosPropios, Vivos, LlenadoEnOrden, AMedias, FallaSoloTrasPanico
  <2>. QED
    BY <2>3, <2>4, <2>5, <2>6
<1>5. CASE QuantumTermina
  <2>1. /\ ejecutarProceso /\ procesos' = ConEstado("TERMINADO")
        /\ paginas' = LiberarPagina(TrasOperar, suPagina, elActual.pid)
        /\ procesos_listos' = Menos1(procesos_listos, ModListos)
        /\ quantum' = 0 /\ scheduler_RR(procesos', procesos_listos')
    BY <1>5 DEF QuantumTermina, UnListoMenos
  <2>2. procesos' \in [Ranuras -> Entrada]
    BY <2>1, CambiarEstado DEF Estados
  <2>3. actual' \in Ranuras /\ procesoActual' \in Ranuras /\ ActualYPuntero'
    BY <2>1, <2>2, SchedulerPuntero DEF TipoOK
  <2>. QED
    BY <1>2, <2>1, <2>3, FinDeTurno
<1>6. CASE QuantumEspera
  <2>1. /\ ejecutarProceso /\ procesos' = ConEstado("ESPERANDO") /\ paginas' = TrasOperar
        /\ procesos_listos' = Menos1(procesos_listos, ModListos)
        /\ quantum' = Mas1(quantum, ModQuantum) /\ scheduler_RR(procesos', procesos_listos')
    BY <1>6 DEF QuantumEspera, UnListoMenos
  <2>2. procesos' \in [Ranuras -> Entrada]
    BY <2>1, CambiarEstado DEF Estados
  <2>3. actual' \in Ranuras /\ procesoActual' \in Ranuras /\ ActualYPuntero'
    BY <2>1, <2>2, SchedulerPuntero DEF TipoOK
  <2>. QED
    BY <1>2, <2>1, <2>3, FinDeTurno
<1>7. CASE QuantumExpropia
  <2>1. /\ ejecutarProceso /\ procesos' = ConEstado("LISTO") /\ paginas' = TrasOperar
        /\ procesos_listos' = procesos_listos
        /\ quantum' = 0 /\ scheduler_RR(procesos', procesos_listos)
    BY <1>7 DEF QuantumExpropia
  <2>2. procesos' \in [Ranuras -> Entrada]
    BY <2>1, CambiarEstado DEF Estados
  <2>3. actual' \in Ranuras /\ procesoActual' \in Ranuras /\ ActualYPuntero'
    BY <2>1, <2>2, SchedulerPuntero DEF TipoOK
  <2>4. procesos_listos' \in 0 .. (ModListos - 1)
    BY <2>1 DEF TipoOK
  <2>. QED
    BY <1>2, <2>1, <2>3, <2>4, FinDeTurno
<1>8. CASE QuantumSigue
  <2>1. /\ TicQuantum /\ EstaListo(elActual) /\ suPagina # Nulo /\ UNCHANGED fallo
        /\ evento_teclado' = (evento_teclado \/ elActual.operacion = "shell")
        /\ procesos' = ConEstado("EJECUTANDO") /\ paginas' = TrasOperar
        /\ quantum' = Mas1(quantum, ModQuantum)
        /\ UNCHANGED <<procesos_listos, actual, procesoActual>>
    BY <1>8 DEF QuantumSigue, ejecutarProceso
  <2>. QED
    BY <1>2, <2>1, OperarConservaPaginas, SeguirEjecutando DEF TipoOK
<1>9. CASE QuantumFalla
  <2>1. /\ TicQuantum /\ EstaListo(elActual) /\ suPagina = Nulo /\ fallo' = TRUE
        /\ procesos' = ConEstado("EJECUTANDO")
        /\ quantum' = Mas1(quantum, ModQuantum)
        /\ UNCHANGED <<actual, procesos_listos, procesoActual, paginas, evento_teclado>>
    BY <1>9 DEF QuantumFalla
  <2>2. panico
    <3>1. procesoActual \in Vivos
      BY <2>1 DEF TipoOK, Vivos, EstaVivo, EstaListo, elActual
    <3>2. procesoActual \in AMedias
      BY <2>1, <3>1, PaginasFinitas DEF DatosPropios, suPagina, elActual
    <3>. QED
      BY <3>2 DEF PidsUnicos
  <2>. QED
    BY <1>2, <2>1, <2>2, SeguirEjecutando DEF TipoOK
<1>. QED
  BY <1>3, <1>4, <1>5, <1>6, <1>7, <1>8, <1>9 DEF aumentar_timer

-----------------------------------------------------------------------------
\* A stuttering step preserves the inductive invariant.
LEMMA SinCambioInvariante == ASSUME IInv, UNCHANGED vars PROVE IInv'
BY DEF IInv, vars, TipoOK, UnSoloEjecutando, PidsUnicos, DatosPropios, Vivos,
   ActualYPuntero, LlenadoEnOrden, AMedias, FallaSoloTrasPanico

\* Every step preserves the inductive invariant.
LEMMA PasoInvariante == ASSUME IInv, [Next]_vars PROVE IInv'
<1>1. CASE aumentar_timer
  BY <1>1, TimerInvariante
<1>2. CASE Crear
  <2>1. PICK orden \in Ordenes : agregarProceso(orden)
    BY <1>2 DEF Crear
  <2>2. CASE NoSePuedeColocar
    BY <2>2, SinCambioInvariante DEF NoSePuedeColocar
  <2>3. CASE Colocar(orden)
    BY <1>2, <2>3, ColocarInvariante DEF Crear
  <2>4. CASE SinMemoria(orden)
    BY <1>2, <2>4, SinMemoriaInvariante DEF Crear
  <2>. QED
    BY <2>1, <2>2, <2>3, <2>4 DEF agregarProceso
<1>3. CASE Matar
  BY <1>3, EliminarInvariante DEF Matar
<1>4. CASE Detenido
  BY <1>4, SinCambioInvariante DEF Detenido
<1>5. CASE UNCHANGED vars
  BY <1>5, SinCambioInvariante
<1>. QED
  BY <1>1, <1>2, <1>3, <1>4, <1>5 DEF Next

\* IInv holds in every reachable state.
THEOREM InvarianteInductivo == Spec => []IInv
BY InicioInvariante, PasoInvariante, PTL DEF Spec

\* Type correctness, whatever the sizes.
THEOREM TipoCorrecto == Spec => []TipoOK
<1>1. IInv => TipoOK
  BY DEF IInv
<1>. QED
  BY <1>1, InvarianteInductivo, PTL

\* At most one process is EJECUTANDO, the one of procesoActual.
THEOREM UnSoloProcesoEjecutando == Spec => []UnSoloEjecutando
<1>1. IInv => UnSoloEjecutando
  BY DEF IInv
<1>. QED
  BY <1>1, InvarianteInductivo, PTL

\* Pids name processes: no two entries of the table share one.
THEOREM PidsSonUnicos == Spec => []PidsUnicos
<1>1. IInv => PidsUnicos
  BY DEF IInv
<1>. QED
  BY <1>1, InvarianteInductivo, PTL

\* A live process keeps the page it was given until it leaves the table.
THEOREM DatosSiemprePropios == Spec => []DatosPropios
<1>1. IInv => DatosPropios
  BY DEF IInv
<1>. QED
  BY <1>1, InvarianteInductivo, PTL

\* The listing of "ps" reaches every live process.
THEOREM ListaLosMuestraTodos == Spec => []NadieTrasElFin
<1>1. IInv => NadieTrasElFin
  <2> SUFFICES ASSUME IInv, NEW s \in Vivos, NEW t \in 0 .. s
               PROVE  procesos[t].pid # 0
    BY DEF NadieTrasElFin
  <2>1. s \in Ranuras /\ t \in Ranuras /\ procesos[s].pid # 0
    <3>1. s \in Ranuras /\ procesos[s].estado # "NUEVO"
      BY DEF Vivos, EstaVivo
    <3>2. t \in Ranuras
      BY <3>1, TotalesPositivo DEF Ranuras
    <3>. QED
      BY <3>1, <3>2 DEF IInv, PidsUnicos
  <2>2. proceso_colocar \in Ranuras
    BY DEF IInv, TipoOK
  <2>3. CASE \E r \in Ranuras : procesos[r].pid = 0
    <3>1. \A r \in Ranuras : procesos[r].pid = 0 <=> r >= proceso_colocar /\ r \notin AMedias
      BY <2>3 DEF IInv, LlenadoEnOrden
    <3>2. ~(s >= proceso_colocar) \/ s \in AMedias
      BY <2>1, <3>1
    <3>3. CASE ~(s >= proceso_colocar)
      BY <2>1, <2>2, <3>1, <3>3 DEF Ranuras
    <3>4. CASE s \in AMedias
      BY <2>1, <2>2, <3>1, <3>4 DEF IInv, LlenadoEnOrden, Ranuras
    <3>. QED
      BY <3>2, <3>3, <3>4
  <2>. QED
    BY <2>1, <2>3
<1>. QED
  BY <1>1, InvarianteInductivo, PTL

\* Slots are first used in order, whatever the number of slots.
THEOREM SeLlenaEnOrden == Spec => []LlenadoEnOrden
<1>1. IInv => LlenadoEnOrden
  BY DEF IInv
<1>. QED
  BY <1>1, InvarianteInductivo, PTL

\* Only a kernel that has panicked for want of memory runs a process that has no
\* data page.
THEOREM FallaSiHuboPanico == Spec => []FallaSoloTrasPanico
<1>1. IInv => FallaSoloTrasPanico
  BY DEF IInv
<1>. QED
  BY <1>1, InvarianteInductivo, PTL

\* Between handlers, the index of the scan and the pointer agree.
THEOREM ActualNombraElPuntero == Spec => []ActualYPuntero
<1>1. IInv => ActualYPuntero
  BY DEF IInv
<1>. QED
  BY <1>1, InvarianteInductivo, PTL

-----------------------------------------------------------------------------
(* What a step does to the entries that are ready or live.                  *)

\* A path of the timer that leaves the current process ready keeps the others.
LEMMA EstadoYListos ==
  ASSUME IInv, NEW e \in Estados, procesos' = ConEstado(e), EstaListo(elActual)
  PROVE  /\ procesoActual \in Listos
         /\ e \in {"LISTO", "EJECUTANDO"} => Listos' = Listos
         /\ e \notin {"LISTO", "EJECUTANDO"} => Listos' = Listos \ {procesoActual}
<1>1. procesoActual \in Ranuras
  BY DEF IInv, TipoOK
<1>2. procesoActual \in Listos
  BY <1>1 DEF Listos, elActual
<1>3. /\ procesos'[procesoActual].estado = e
      /\ \A s \in Ranuras : s # procesoActual => procesos'[s] = procesos[s]
  BY CambiarEstado
<1>4. EstaListo(procesos'[procesoActual]) <=> e \in {"LISTO", "EJECUTANDO"}
  BY <1>3 DEF EstaListo
<1>5. \A s \in Ranuras : s # procesoActual => (EstaListo(procesos'[s]) <=> EstaListo(procesos[s]))
  BY <1>3
<1>6. Listos' = {s \in Ranuras : EstaListo(procesos'[s])}
  BY DEF Listos, EstaListo
<1>. QED
  BY <1>1, <1>2, <1>4, <1>5, <1>6 DEF Listos

\* The timer leaves the ready as they are, or takes the current one from them
\* and from the counter.
LEMMA TimerListos ==
  ASSUME IInv, aumentar_timer
  PROVE  \/ Listos' = Listos /\ procesos_listos' = procesos_listos
         \/ /\ procesoActual \in Listos /\ Listos' = Listos \ {procesoActual}
            /\ procesos_listos' = Menos1(procesos_listos, ModListos)
<1>1. CASE UNCHANGED <<procesos, procesos_listos>>
  BY <1>1 DEF Listos
<1>2. CASE QuantumFalla
  BY <1>2, EstadoYListos DEF QuantumFalla, Estados
<1>3. CASE QuantumTermina
  BY <1>3, EstadoYListos DEF QuantumTermina, ejecutarProceso, UnListoMenos, Estados
<1>4. CASE QuantumEspera
  BY <1>4, EstadoYListos DEF QuantumEspera, ejecutarProceso, UnListoMenos, Estados
<1>5. CASE QuantumExpropia
  BY <1>5, EstadoYListos DEF QuantumExpropia, ejecutarProceso, Estados
<1>6. CASE QuantumSigue
  BY <1>6, EstadoYListos DEF QuantumSigue, ejecutarProceso, Estados
<1>. QED
  BY <1>1, <1>2, <1>3, <1>4, <1>5, <1>6 DEF aumentar_timer, TicSinQuantum, QuantumSinActual

\* A kill takes nobody from the ready, or the one that had the pid.
LEMMA MatarListos ==
  ASSUME IInv, NEW pid \in 1 .. MaxPid, eliminarProceso(pid)
  PROVE  \/ ConPid(pid) \subseteq Ranuras \ Listos
         \/ \E s \in Listos : /\ Listos' = Listos \ {s}
                               /\ procesos_listos' = (procesos_listos - 1) % ModListos
<1>1. ConPid(pid) \subseteq Ranuras
  BY DEF ConPid
<1> SUFFICES ASSUME NEW s \in ConPid(pid), s \in Listos
             PROVE  /\ Listos' = Listos \ {s}
                    /\ procesos_listos' = (procesos_listos - 1) % ModListos
  BY <1>1
<1>2. ConPid(pid) = {s}
  <2>1. pid # 0
    OBVIOUS
  <2>2. \A t \in ConPid(pid) : t = s
    BY <1>1, <2>1 DEF ConPid, IInv, PidsUnicos
  <2>. QED
    BY <2>2
<1>3. Cardinality(ConPid(pid)) = 1
  BY <1>2, FS_Singleton
<1>4. \A t \in Ranuras : procesos'[t] =
        IF t = s THEN [procesos[t] EXCEPT !.estado = "TERMINADO"] ELSE procesos[t]
  BY <1>2 DEF eliminarProceso
<1>5. s \in Ranuras /\ procesos[s] \in Entrada
  BY <1>1 DEF IInv, TipoOK
<1>6. ~EstaListo(procesos'[s])
  BY <1>4, <1>5 DEF EstaListo, Entrada
<1>7. \A t \in Ranuras : t # s => procesos'[t] = procesos[t]
  BY <1>4
<1>8. Listos' = {t \in Ranuras : EstaListo(procesos'[t])}
  BY DEF Listos, EstaListo
<1>9. Listos' = Listos \ {s}
  BY <1>5, <1>6, <1>7, <1>8 DEF Listos
<1>. QED
  BY <1>3, <1>9 DEF eliminarProceso

\* A creation adds the new entry to the ready and to the counter.
LEMMA ColocarListos ==
  ASSUME IInv, NEW orden \in Ordenes, Colocar(orden)
  PROVE  \E s \in Ranuras \ Listos : /\ Listos' = Listos \cup {s}
                                     /\ procesos_listos' = Mas1(procesos_listos, ModListos)
<1>1. PICK s \in Hueco, p \in PaginasLibres : Colocar(orden)!(s, p)
  BY DEF Colocar
<1>2. s \in Ranuras \ Listos
  BY DEF Hueco, Libres, Listos, EstaListo
<1>3. EstaListo(procesos'[s]) /\ \A t \in Ranuras : t # s => procesos'[t] = procesos[t]
  BY <1>1, <1>2 DEF NuevaEntrada, EstaListo, IInv, TipoOK
<1>4. Listos' = {t \in Ranuras : EstaListo(procesos'[t])}
  BY DEF Listos, EstaListo
<1>5. Listos' = Listos \cup {s}
  BY <1>2, <1>3, <1>4 DEF Listos
<1>. QED
  BY <1>1, <1>2, <1>5

\* A counter that wraps counts modulo its width.
LEMMA ModuloDelContador ==
  ASSUME NEW m \in Nat \ {0}, NEW x \in 0 .. (m - 1)
  PROVE  x % m = x /\ Mas1(x, m) = (x + 1) % m /\ Menos1(x, m) = (x - 1) % m
<1>1. \A y \in 0 .. (m - 1) : y % m = y
  OBVIOUS
<1>2. m % m = 0 /\ (-1) % m = m - 1
  OBVIOUS
<1>3. Mas1(x, m) = (x + 1) % m
  BY <1>1, <1>2 DEF Mas1
<1>4. Menos1(x, m) = (x - 1) % m
  BY <1>1, <1>2 DEF Menos1
<1>. QED
  BY <1>1, <1>3, <1>4

\* So the counter follows the table, for every table and width of the counter,
\* but in a kill of an entry that was not ready and in a panic.
LEMMA PasoCuenta ==
  ASSUME IInv, [Next]_vars
  PROVE  \/ MataNoListo
         \/ panico # panico'
         \/ procesos_listos' = (procesos_listos + Cardinality(Listos') - Cardinality(Listos))
                                 % ModListos
<1> DEFINE n == Cardinality(Listos)
           Bien == procesos_listos' = (procesos_listos + Cardinality(Listos') - n) % ModListos
<1>1. IsFiniteSet(Listos) /\ n \in Nat
  <2>1. IsFiniteSet(Ranuras)
    BY FS_Interval, TotalesPositivo DEF Ranuras
  <2>2. Listos \subseteq Ranuras
    BY DEF Listos
  <2>. QED
    BY <2>1, <2>2, FS_Subset, FS_CardinalityType
<1>2. ModListos \in Nat \ {0} /\ procesos_listos \in 0 .. (ModListos - 1)
  BY AnchosPositivos DEF IInv, TipoOK
<1>3. ASSUME Listos' = Listos, procesos_listos' = procesos_listos PROVE Bien
  <2>1. procesos_listos + n - n = procesos_listos
    BY <1>1, <1>2
  <2>. QED
    BY <1>2, <1>3, <2>1, ModuloDelContador
<1>4. ASSUME NEW s \in Listos, Listos' = Listos \ {s},
             procesos_listos' = (procesos_listos - 1) % ModListos
      PROVE  Bien
  <2>1. Cardinality(Listos') = n - 1
    BY <1>1, <1>4, FS_RemoveElement
  <2>2. procesos_listos + (n - 1) - n = procesos_listos - 1
    BY <1>1, <1>2
  <2>. QED
    BY <1>4, <2>1, <2>2
<1>5. CASE aumentar_timer
  <2>1. Menos1(procesos_listos, ModListos) = (procesos_listos - 1) % ModListos
    BY <1>2, ModuloDelContador
  <2>. QED
    BY <1>3, <1>4, <1>5, <2>1, TimerListos
<1>6. CASE Crear
  <2>1. PICK orden \in Ordenes : agregarProceso(orden)
    BY <1>6 DEF Crear
  <2>2. CASE UNCHANGED vars
    BY <1>3, <2>2 DEF vars, Listos
  <2>3. CASE Colocar(orden)
    <3>1. PICK s \in Ranuras \ Listos : /\ Listos' = Listos \cup {s}
                                        /\ procesos_listos' = Mas1(procesos_listos, ModListos)
      BY <2>3, ColocarListos
    <3>2. Cardinality(Listos') = n + 1
      BY <1>1, <3>1, FS_AddElement
    <3>3. procesos_listos + (n + 1) - n = procesos_listos + 1
      BY <1>1, <1>2
    <3>4. Mas1(procesos_listos, ModListos) = (procesos_listos + 1) % ModListos
      BY <1>2, ModuloDelContador
    <3>. QED
      BY <3>1, <3>2, <3>3, <3>4
  <2>4. CASE SinMemoria(orden)
    BY <1>6, <2>4 DEF Crear, SinMemoria
  <2>. QED
    BY <2>1, <2>2, <2>3, <2>4 DEF agregarProceso, NoSePuedeColocar
<1>7. CASE Matar
  <2>1. PICK pid \in 1 .. MaxPid : eliminarProceso(pid)
    BY <1>7 DEF Matar
  <2>. QED
    BY <1>4, <2>1, MatarListos DEF MataNoListo
<1>8. CASE UNCHANGED vars
  BY <1>3, <1>8 DEF vars, Listos
<1>. QED
  BY <1>5, <1>6, <1>7, <1>8 DEF Next, Detenido

\* Every step but a kill of a process that was not counted, and a panic, changes
\* procesos_listos by what the number of runnable entries changes, modulo its width.
THEOREM LaCuentaSigueALaTabla == Spec => CuentaSigueATabla
<1>1. IInv /\ [Next]_vars =>
        [\/ MataNoListo
         \/ panico # panico'
         \/ procesos_listos' = (procesos_listos + Cardinality(Listos') - Cardinality(Listos))
                                 % ModListos]_vars
  BY PasoCuenta
<1>. QED
  BY <1>1, InvarianteInductivo, PTL DEF Spec, CuentaSigueATabla

-----------------------------------------------------------------------------
(* The page of the process that ends.                                       *)

\* No page has the number of the process that comes next, so one left half
\* filled in by a panic, whose number is that, has none to free.
PaginasDeAntes == \A p \in Paginas : paginas[p].pid < pidDisponible

\* At the start the page of the shell is of its pid, and the rest of none.
LEMMA InicioPaginas == ASSUME Init PROVE PaginasDeAntes
<1>1. PICK p \in Paginas : Init!(p)
  BY DEF Init
<1>2. PICK delKernel \in SUBSET (Paginas \ {p}) : Init!(p)!(delKernel)
  BY <1>1
<1>. QED
  BY <1>2 DEF PaginasDeAntes, Bloqueada

\* The timer gives no page to anybody.
LEMMA TimerPaginas ==
  ASSUME IInv, aumentar_timer
  PROVE  pidDisponible' = pidDisponible /\ \A p \in Paginas : paginas'[p].pid = paginas[p].pid
<1>1. pidDisponible' = pidDisponible
  BY DEF aumentar_timer, TicSinQuantum, QuantumSinActual, QuantumFalla, QuantumTermina,
         QuantumEspera, QuantumExpropia, QuantumSigue, ejecutarProceso, TicQuantum
<1>2. CASE UNCHANGED paginas
  BY <1>1, <1>2
<1>3. CASE ejecutarProceso /\ paginas' = TrasOperar
  BY <1>1, <1>3, OperarConservaPaginas DEF ejecutarProceso
<1>4. CASE QuantumTermina
  <2>1. /\ EstaListo(elActual) /\ suPagina # Nulo
        /\ paginas' = LiberarPagina(TrasOperar, suPagina, elActual.pid)
    BY <1>4 DEF QuantumTermina, ejecutarProceso
  <2>2. elActual.pid \in Nat
    BY DEF IInv, TipoOK, Entrada, elActual
  <2>. QED
    BY <1>1, <2>1, <2>2, OperarConservaPaginas, LiberarSoloLaPropia
<1>. QED
  BY <1>2, <1>3, <1>4 DEF aumentar_timer, TicSinQuantum, QuantumSinActual, QuantumFalla,
         QuantumEspera, QuantumExpropia, QuantumSigue

\* A page is given under the pid that is being given out.
LEMMA PasoPaginas ==
  ASSUME IInv, PaginasDeAntes, [Next]_vars
  PROVE  PaginasDeAntes'
<1>1. CASE aumentar_timer
  BY <1>1, TimerPaginas DEF PaginasDeAntes
<1>2. CASE UNCHANGED <<paginas, pidDisponible>>
  BY <1>2 DEF PaginasDeAntes
<1>3. ASSUME NEW orden \in Ordenes, Colocar(orden) PROVE PaginasDeAntes'
  <2>1. PICK s \in Hueco, p \in PaginasLibres : Colocar(orden)!(s, p)
    BY <1>3 DEF Colocar
  <2>2. /\ paginas' = [paginas EXCEPT ![p] = Bloqueada(pidDisponible, orden.numero)]
        /\ pidDisponible' = pidDisponible + 1
    BY <2>1 DEF SiguientePid
  <2>3. pidDisponible \in Nat /\ \A q \in Paginas : paginas[q].pid \in Nat
    BY DEF IInv, TipoOK
  <2>4. \A q \in Paginas : paginas'[q].pid \in {pidDisponible, paginas[q].pid}
    BY <2>2 DEF IInv, TipoOK, Bloqueada
  <2>. QED
    BY <2>2, <2>3, <2>4 DEF PaginasDeAntes
<1>4. CASE Crear
  <2>1. PICK orden \in Ordenes : agregarProceso(orden)
    BY <1>4 DEF Crear
  <2>. QED
    BY <1>2, <1>3, <2>1 DEF agregarProceso, NoSePuedeColocar, SinMemoria, vars
<1>. QED
  BY <1>1, <1>2, <1>4 DEF Next, Matar, eliminarProceso, Detenido, vars

\* Whoever leaves the table at a tick is the process that has just ended.
LEMMA SoloSaleElActual ==
  ASSUME IInv, aumentar_timer, NEW s \in Vivos, ~EstaVivo(procesos'[s])
  PROVE  QuantumTermina /\ s = procesoActual
<1>1. s \in Ranuras /\ EstaVivo(procesos[s])
  BY DEF Vivos
<1>2. ASSUME NEW e \in Estados, procesos' = ConEstado(e)
      PROVE  s = procesoActual /\ e \notin {"LISTO", "EJECUTANDO", "ESPERANDO"}
  <2>1. s = procesoActual
    BY <1>1, <1>2, CambiarEstado
  <2>2. procesos'[s].estado = e
    BY <1>2, <2>1, CambiarEstado
  <2>. QED
    BY <2>1, <2>2 DEF EstaVivo
<1>3. ~(UNCHANGED procesos)
  BY <1>1
<1>4. ~QuantumFalla /\ ~QuantumEspera /\ ~QuantumExpropia /\ ~QuantumSigue
  BY <1>2 DEF QuantumFalla, QuantumEspera, QuantumExpropia, QuantumSigue, Estados
<1>5. QuantumTermina
  BY <1>3, <1>4 DEF aumentar_timer, TicSinQuantum, QuantumSinActual
<1>6. s = procesoActual
  BY <1>2, <1>5 DEF QuantumTermina, Estados
<1>. QED
  BY <1>5, <1>6

\* And it frees the page it had been given, and no other.
LEMMA TerminaLibera ==
  ASSUME IInv, PaginasDeAntes, QuantumTermina, procesoActual \in Vivos, NEW p \in Paginas
  PROVE  paginas'[p].estado =
           IF p = procesos[procesoActual].datosProceso /\ procesoActual \notin AMedias THEN 0
           ELSE paginas[p].estado
<1>1. /\ EstaListo(elActual) /\ suPagina # Nulo
      /\ paginas' = LiberarPagina(TrasOperar, suPagina, elActual.pid)
  BY DEF QuantumTermina, ejecutarProceso
<1>2. /\ suPagina \in Paginas
      /\ TrasOperar \in [Paginas -> [estado : {0, 1}, pid : Nat, numero : 0 .. (ModNumero - 1)]]
      /\ \A q \in Paginas : /\ TrasOperar[q].estado = paginas[q].estado
                            /\ TrasOperar[q].pid = paginas[q].pid
  BY <1>1, OperarConservaPaginas
<1>3. suPagina = procesos[procesoActual].datosProceso /\ elActual = procesos[procesoActual]
  BY DEF suPagina, elActual
<1>4. CASE procesoActual \in AMedias
  <2>1. elActual.pid = pidDisponible
    BY <1>3, <1>4 DEF AMedias
  <2>2. paginas[suPagina].pid # pidDisponible
    BY <1>2 DEF PaginasDeAntes, IInv, TipoOK
  <2>3. paginas' = TrasOperar
    BY <1>1, <1>2, <2>1, <2>2 DEF LiberarPagina
  <2>. QED
    BY <1>2, <1>4, <2>3
<1>5. CASE procesoActual \notin AMedias
  <2>1. paginas[suPagina].estado = 1 /\ paginas[suPagina].pid = elActual.pid
    BY <1>3, <1>5 DEF IInv, DatosPropios
  <2>2. paginas' = [TrasOperar EXCEPT ![suPagina].estado = 0]
    BY <1>1, <1>2, <2>1 DEF LiberarPagina
  <2>. QED
    BY <1>2, <1>3, <1>5, <2>2
<1>. QED
  BY <1>4, <1>5

\* An entry leaves the table by a kill, or at its end with its page freed.
LEMMA PasoSalida ==
  ASSUME IInv, PaginasDeAntes, [Next]_vars, NEW s \in Vivos, ~EstaVivo(procesos'[s])
  PROVE  \/ \E pid \in 1 .. MaxPid : eliminarProceso(pid)
         \/ \A p \in Paginas :
              paginas'[p].estado =
                IF p = procesos[s].datosProceso /\ s \notin AMedias THEN 0
                                                                   ELSE paginas[p].estado
<1>1. s \in Ranuras /\ EstaVivo(procesos[s])
  BY DEF Vivos
<1>2. CASE aumentar_timer
  BY <1>2, SoloSaleElActual, TerminaLibera
<1>3. CASE Crear
  <2>1. PICK orden \in Ordenes : agregarProceso(orden)
    BY <1>3 DEF Crear
  <2>2. CASE Colocar(orden)
    <3>1. PICK t \in Hueco, p \in PaginasLibres : Colocar(orden)!(t, p)
      BY <2>2 DEF Colocar
    <3>2. t # s
      BY <1>1, <3>1 DEF Hueco, Libres, EstaVivo
    <3>3. procesos'[s] = procesos[s]
      BY <1>1, <3>1, <3>2 DEF IInv, TipoOK
    <3>. QED
      BY <1>1, <3>3
  <2>3. CASE SinMemoria(orden)
    <3>1. PICK t \in Hueco : procesos' = [procesos EXCEPT ![t].pid = pidDisponible,
                                             ![t].prioridad = orden.prioridad,
                                             ![t].estado = "LISTO",
                                             ![t].operacion = orden.operacion]
      BY <2>3 DEF SinMemoria
    <3>2. t # s
      BY <1>1, <3>1 DEF Hueco, Libres, EstaVivo
    <3>3. procesos'[s] = procesos[s]
      BY <1>1, <3>1, <3>2 DEF IInv, TipoOK
    <3>. QED
      BY <1>1, <3>3
  <2>. QED
    BY <1>1, <2>1, <2>2, <2>3 DEF agregarProceso, NoSePuedeColocar, vars
<1>4. CASE Matar
  BY <1>4 DEF Matar
<1>5. CASE UNCHANGED vars
  BY <1>1, <1>5 DEF vars
<1>. QED
  BY <1>2, <1>3, <1>4, <1>5 DEF Next, Detenido

\* A process that leaves the table frees its page and only its page, unless it
\* leaves by kill, whatever the pages, the panics and the creations before.
THEOREM LaSalidaLibera == Spec => SalidaLibera
<1>1. IInv /\ PaginasDeAntes /\ [Next]_vars =>
        [\A s \in Vivos :
           ~EstaVivo(procesos'[s]) =>
             \/ \E pid \in 1 .. MaxPid : eliminarProceso(pid)
             \/ \A p \in Paginas :
                  paginas'[p].estado =
                    IF p = procesos[s].datosProceso /\ s \notin AMedias
                    THEN 0 ELSE paginas[p].estado]_vars
  BY PasoSalida
<1>2. Init => PaginasDeAntes
  BY InicioPaginas
<1>3. IInv /\ PaginasDeAntes /\ [Next]_vars => PaginasDeAntes'
  BY PasoPaginas
<1>. QED
  BY <1>1, <1>2, <1>3, InvarianteInductivo, PTL DEF Spec, SalidaLibera
-----------------------------------------------------------------------------
(* Why nobody is passed over for ever: a measure of how long an eligible    *)
(* process still waits.  First come the slots between the scan and it, then *)
(* the quanta left to the process that has the processor.                   *)

\* Quanta until the current process is preempted.  The test is for equality:
\* past quantumTotal the counter goes on until it has wrapped.
FaltaDelTurno ==
  IF quantum < quantumTotal THEN quantumTotal - 1 - quantum
                            ELSE ModQuantum + quantumTotal - 1 - quantum

\* The timer closes a quantum.
CierraQuantum == aumentar_timer /\ TicQuantum

\* What a quantum does for the process of slot s, which goes on waiting: it has
\* been run itself, it has been chosen, the scan has come nearer to it, or the
\* process before it has used up one of its quanta.
SeAcerca(s) ==
  \/ procesoActual = s /\ ejecutarProceso
  \/ actual' = s
  \/ Distancia(actual', s) < Distancia(actual, s)
  \/ actual' = actual /\ FaltaDelTurno' = FaltaDelTurno - 1

\* While a process is eligible every quantum brings its turn nearer, and no
\* other step (a creation, a kill, a tic) sends it back.
ElTurnoSeAcerca ==
  [][\A s \in Ranuras : Postergado(s) /\ Postergado(s)' =>
       IF CierraQuantum THEN SeAcerca(s) ELSE UNCHANGED <<actual, quantum>>]_vars

\* The measure is bounded: an eligible process waits for at most
\* ProcesoTotales * ModQuantum quanta.
EsperaAcotada ==
  /\ FaltaDelTurno \in 0 .. (ModQuantum - 1)
  /\ \A s \in Ranuras : Distancia(actual, s) \in 1 .. ProcesoTotales

\* Going round from a, whoever is not after t is nearer to t than a was.
LEMMA DistanciaDecrece ==
  ASSUME NEW a \in Ranuras, NEW b \in Ranuras, NEW t \in Ranuras,
         Distancia(a, b) <= Distancia(a, t)
  PROVE  b = t \/ Distancia(b, t) < Distancia(a, t)
BY TotalesPositivo DEF Distancia, Ranuras

\* The scan stops at the process waited for or before it.
LEMMA ElBarridoSeAcerca ==
  ASSUME actual \in Ranuras, NEW tabla \in [Ranuras -> Entrada], NEW listos,
         listos # 0, scheduler_RR(tabla, listos), NEW s \in Elegibles(tabla)
  PROVE  actual' = s \/ Distancia(actual', s) < Distancia(actual, s)
<1>1. actual' \in MasCercano(Elegibles(tabla), actual)
  BY DEF scheduler_RR
<1>2. /\ s \in Ranuras /\ actual' \in Ranuras
      /\ Distancia(actual, actual') <= Distancia(actual, s)
  BY <1>1 DEF MasCercano, Elegibles, Candidatos
<1>. QED
  BY <1>2, DistanciaDecrece

\* A quantum in which the current process runs on is one less of its turn.
LEMMA SigueUnoMenos ==
  ASSUME IInv, quantum' = Mas1(quantum, ModQuantum), Mas1(quantum, ModQuantum) # quantumTotal
  PROVE  FaltaDelTurno' = FaltaDelTurno - 1
<1>1. quantum \in 0 .. (ModQuantum - 1)
  BY DEF IInv, TipoOK
<1>. QED
  BY <1>1, AnchosPositivos, LimitesEnRango DEF FaltaDelTurno, Mas1

\* A quantum brings whoever goes on waiting nearer to its turn.
LEMMA QuantumSeAcerca ==
  ASSUME IInv, aumentar_timer, TicQuantum,
         NEW s \in Ranuras, Postergado(s), Postergado(s)'
  PROVE  SeAcerca(s)
<1>1. /\ procesos_listos # 0 /\ actual \in Ranuras /\ procesos \in [Ranuras -> Entrada]
      /\ ~fallo' /\ procesos_listos' # 0 /\ s \in Elegibles(procesos')
  BY DEF IInv, TipoOK, Postergado
<1>2. CASE QuantumSinActual
  <2>1. /\ scheduler_RR(procesos, procesos_listos) /\ procesos' = procesos
    BY <1>2 DEF QuantumSinActual
  <2>. QED
    BY <1>1, <2>1, ElBarridoSeAcerca DEF SeAcerca
<1>3. CASE QuantumTermina \/ QuantumEspera \/ QuantumExpropia
  <2>1. PICK e \in Estados : procesos' = ConEstado(e)
    BY <1>3 DEF QuantumTermina, QuantumEspera, QuantumExpropia, Estados
  <2>2. procesos' \in [Ranuras -> Entrada]
    BY <2>1, CambiarEstado
  <2>3. scheduler_RR(procesos', procesos_listos')
    BY <1>3 DEF QuantumTermina, QuantumEspera, QuantumExpropia
  <2>. QED
    BY <1>1, <2>2, <2>3, ElBarridoSeAcerca DEF SeAcerca
<1>4. CASE QuantumSigue
  BY <1>4, SigueUnoMenos DEF QuantumSigue, SeAcerca
<1>5. CASE QuantumFalla
  BY <1>1, <1>5 DEF QuantumFalla
<1>6. CASE TicSinQuantum
  BY <1>1, <1>6 DEF TicSinQuantum, TicQuantum
<1>. QED
  BY <1>2, <1>3, <1>4, <1>5, <1>6 DEF aumentar_timer

\* No other step moves the scan or counts a quantum.
LEMMA LoDemasNoMueve ==
  ASSUME [Next]_vars, ~CierraQuantum
  PROVE  UNCHANGED <<actual, quantum>>
<1>1. CASE aumentar_timer
  <2>1. TicSinQuantum
    BY <1>1 DEF CierraQuantum, aumentar_timer, QuantumSinActual, QuantumFalla, QuantumTermina,
       QuantumEspera, QuantumExpropia, QuantumSigue, ejecutarProceso
  <2>. QED
    BY <2>1 DEF TicSinQuantum
<1>2. CASE Crear
  BY <1>2 DEF Crear, agregarProceso, NoSePuedeColocar, Colocar, SinMemoria, vars
<1>3. CASE Matar
  BY <1>3 DEF Matar, eliminarProceso
<1>4. CASE Detenido \/ UNCHANGED vars
  BY <1>4 DEF Detenido, vars
<1>. QED
  BY <1>1, <1>2, <1>3, <1>4 DEF Next

\* The core of SinInanicion, without the fairness: while a process is eligible
\* every quantum brings it nearer to its turn, and nothing takes it back.
THEOREM LaEsperaDecrece == Spec => ElTurnoSeAcerca
<1>1. ASSUME IInv, [Next]_vars
      PROVE  \A s \in Ranuras : Postergado(s) /\ Postergado(s)' =>
               IF CierraQuantum THEN SeAcerca(s) ELSE UNCHANGED <<actual, quantum>>
  <2> SUFFICES ASSUME NEW s \in Ranuras, Postergado(s), Postergado(s)'
               PROVE  IF CierraQuantum THEN SeAcerca(s) ELSE UNCHANGED <<actual, quantum>>
    OBVIOUS
  <2>1. CASE CierraQuantum
    BY <1>1, <2>1, QuantumSeAcerca DEF CierraQuantum
  <2>2. CASE ~CierraQuantum
    BY <1>1, <2>2, LoDemasNoMueve
  <2>. QED
    BY <2>1, <2>2
<1>2. ASSUME IInv, [Next]_vars
      PROVE  [\A s \in Ranuras : Postergado(s) /\ Postergado(s)' =>
                IF CierraQuantum THEN SeAcerca(s) ELSE UNCHANGED <<actual, quantum>>]_vars
  BY <1>1, <1>2
<1>. QED
  BY <1>2, InvarianteInductivo, PTL DEF Spec, ElTurnoSeAcerca

\* What the wait is measured by has a floor and a ceiling.
THEOREM LaEsperaEsAcotada == Spec => []EsperaAcotada
<1>1. IInv => EsperaAcotada
  <2> SUFFICES ASSUME IInv PROVE EsperaAcotada
    OBVIOUS
  <2>1. quantum \in 0 .. (ModQuantum - 1) /\ actual \in Ranuras
    BY DEF IInv, TipoOK
  <2>2. FaltaDelTurno \in 0 .. (ModQuantum - 1)
    BY <2>1, AnchosPositivos, LimitesEnRango DEF FaltaDelTurno
  <2>3. \A s \in Ranuras : Distancia(actual, s) \in 1 .. ProcesoTotales
    BY <2>1, TotalesPositivo DEF Distancia, Ranuras
  <2>. QED
    BY <2>2, <2>3 DEF EsperaAcotada
<1>. QED
  BY <1>1, InvarianteInductivo, PTL
=============================================================================
