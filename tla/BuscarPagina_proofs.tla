------------------------ MODULE BuscarPagina_proofs -------------------------
(***************************************************************************)
(* Proofs about the loop of solicitar_pagina, for every number of pages    *)
(* and every page table.                                                   *)
(*                                                                         *)
(* The loop invariant says that the pages nearer than the one being looked *)
(* at are blocked.  So the first one found free is the nearest; and when   *)
(* the search is one short of a whole turn, the last page it could have    *)
(* taken has been looked at too.                                           *)
(***************************************************************************)
EXTENDS BuscarPagina, TLAPS

IInv == TipoPagina /\ LoVistoEstaBloqueado

D(u, i) == Tabla!DistanciaPagina(u, i)

-----------------------------------------------------------------------------
(* Going round the pages.                                                   *)

\* From the page u on, the pages that a search may reach are told apart by
\* their distance; there are total_paginas of them, and one more from 0.
LEMMA DistanciaDePaginas ==
  ASSUME NEW u \in Indices, NEW i \in Indices, i # 0 \/ u = 0
  PROVE  /\ D(u, i) \in 0 .. total_paginas
         /\ u # 0 => D(u, i) <= total_paginas - 1
         /\ \A j \in Indices : (j # 0 \/ u = 0) /\ D(u, j) = D(u, i) => j = i
BY HayPaginas DEF D, Indices, Tabla!Indices, Tabla!DistanciaPagina

\* What an available page is.
LEMMA Disponible ==
  ASSUME NEW i \in Tabla!Disponibles
  PROVE  /\ i \in Indices
         /\ region_memoria[i].estado = 0
         /\ i # 0 \/ ultimoVisto = 0
BY DEF Tabla!Disponibles, Indices

-----------------------------------------------------------------------------
\* The initial states satisfy the inductive invariant.
LEMMA InicioInvariante == InitPagina => IInv
BY RegionesDeInfo
   DEF InitPagina, IInv, TipoPagina, LoVistoEstaBloqueado, Indices, Tabla!Indices, Tabla!Info

\* Entering the loop establishes what the loop keeps.
LEMMA EntrarInvariante == ASSUME IInv, EntrarPagina PROVE IInv'
<1>1. /\ pcPagina' = "bucle" /\ UNCHANGED <<region_memoria, ultimo_pagina, panico, pid>>
      /\ ultimo_pagina \in Indices
      /\ primero' = IF ultimo_pagina = 0 THEN SinPrimero ELSE ultimo_pagina - 1
  BY DEF IInv, TipoPagina, EntrarPagina
<1>2. primero' + 1 = ultimo_pagina' /\ primero' < total_paginas
  BY <1>1, HayPaginas DEF SinPrimero, Indices, Tabla!Indices
<1>3. TipoPagina'
  BY <1>1, HayPaginas DEF IInv, TipoPagina, Indices, Tabla!Indices
<1>4. ultimoVisto' = ultimo_pagina'
  BY <1>1, <1>2 DEF ultimoVisto
<1>5. \A i \in Tabla!Disponibles' :
        D(primero' + 1, ultimo_pagina') <= D(primero' + 1, i)
  <2> SUFFICES ASSUME NEW i \in Tabla!Disponibles'
               PROVE  D(primero' + 1, ultimo_pagina') <= D(primero' + 1, i)
    OBVIOUS
  <2>1. i \in Indices /\ (i # 0 \/ ultimo_pagina' = 0)
    BY <1>4 DEF Tabla!Disponibles, Indices
  <2>2. D(ultimo_pagina', i) \in 0 .. total_paginas
    BY <1>1, <2>1, DistanciaDePaginas
  <2>3. D(ultimo_pagina', ultimo_pagina') = 0
    BY <1>1 DEF D, Tabla!DistanciaPagina, Indices, Tabla!Indices
  <2>. QED
    BY <1>2, <2>2, <2>3, HayPaginas
<1>6. ultimo_pagina' = 0 => primero' = SinPrimero
  BY <1>1
<1>. QED
  BY <1>2, <1>3, <1>5, <1>6 DEF IInv, LoVistoEstaBloqueado, D

\* Going on past what does not serve keeps what the loop has established.
LEMMA AvanzarInvariante == ASSUME IInv, AvanzarPagina PROVE IInv'
<1> USE DEF IInv
<1>1. /\ pcPagina = "bucle" /\ Bloqueada /\ Tope # primero
      /\ ultimo_pagina' = Tope + 1
      /\ UNCHANGED <<region_memoria, panico, pid, primero, pcPagina>>
  BY DEF AvanzarPagina
<1>2. /\ ultimo_pagina \in Indices /\ primero \in Indices \cup {SinPrimero}
      /\ primero < total_paginas
      /\ ultimo_pagina = 0 => primero = SinPrimero
  BY <1>1 DEF TipoPagina, LoVistoEstaBloqueado
<1>3. /\ primero + 1 \in Indices
      /\ ultimo_pagina # 0 \/ primero + 1 = 0
      /\ ultimo_pagina' \in Indices \ {0}
  BY <1>1, <1>2, HayPaginas DEF Tope, Indices, Tabla!Indices, SinPrimero
<1>4. TipoPagina'
  BY <1>1, <1>3 DEF TipoPagina
<1>5. ultimoVisto' = primero + 1 /\ ultimoVisto = primero + 1
  BY <1>1 DEF ultimoVisto
<1>6. Tabla!Disponibles' = Tabla!Disponibles
  BY <1>1, <1>5 DEF Tabla!Disponibles
<1>7. \A i \in Tabla!Disponibles : D(primero + 1, ultimo_pagina) < D(primero + 1, i)
  <2> SUFFICES ASSUME NEW i \in Tabla!Disponibles
               PROVE  D(primero + 1, ultimo_pagina) < D(primero + 1, i)
    OBVIOUS
  <2>1. i \in Indices /\ i # ultimo_pagina /\ (i # 0 \/ primero + 1 = 0)
    BY <1>1, <1>5, Disponible DEF Bloqueada
  <2>2. D(primero + 1, ultimo_pagina) # D(primero + 1, i)
    BY <1>2, <1>3, <2>1, DistanciaDePaginas
  <2>3. D(primero + 1, ultimo_pagina) <= D(primero + 1, i)
    BY <1>1 DEF LoVistoEstaBloqueado, D
  <2>4. /\ D(primero + 1, ultimo_pagina) \in 0 .. total_paginas
        /\ D(primero + 1, i) \in 0 .. total_paginas
    BY <1>2, <1>3, <2>1, DistanciaDePaginas
  <2>. QED
    BY <2>2, <2>3, <2>4, HayPaginas
<1>8. CASE primero + 1 = 0 /\ ultimo_pagina = total_paginas
  <2>1. D(primero + 1, ultimo_pagina) = total_paginas
    BY <1>8, HayPaginas DEF D, Tabla!DistanciaPagina
  <2>2. \A i \in Tabla!Disponibles : D(primero + 1, i) \in 0 .. total_paginas
    BY <1>3, <1>5, Disponible, DistanciaDePaginas
  <2>3. Tabla!Disponibles = {}
    BY <1>7, <2>1, <2>2, HayPaginas
  <2>. QED
    BY <1>1, <1>2, <1>3, <1>4, <1>6, <2>3 DEF LoVistoEstaBloqueado
<1>9. CASE ~(primero + 1 = 0 /\ ultimo_pagina = total_paginas)
  <2>1. D(primero + 1, ultimo_pagina') = D(primero + 1, ultimo_pagina) + 1
    BY <1>1, <1>2, <1>3, <1>9, HayPaginas
       DEF D, Tope, Indices, Tabla!Indices, Tabla!DistanciaPagina, SinPrimero
  <2>2. \A i \in Tabla!Disponibles : D(primero + 1, i) \in 0 .. total_paginas
    BY <1>3, <1>5, Disponible, DistanciaDePaginas
  <2>3. D(primero + 1, ultimo_pagina) \in 0 .. total_paginas
    BY <1>2, <1>3, DistanciaDePaginas
  <2>4. \A i \in Tabla!Disponibles : D(primero + 1, ultimo_pagina') <= D(primero + 1, i)
    BY <1>7, <2>1, <2>2, <2>3, HayPaginas
  <2>. QED
    BY <1>1, <1>2, <1>3, <1>4, <1>6, <2>4 DEF LoVistoEstaBloqueado, D
<1>. QED
  BY <1>8, <1>9

\* Every step preserves the inductive invariant.
LEMMA PasoInvariante == ASSUME IInv, [NextPagina]_varsPagina PROVE IInv'
<1>1. CASE EntrarPagina
  BY <1>1, EntrarInvariante
<1>2. CASE AvanzarPagina
  BY <1>2, AvanzarInvariante
<1>3. CASE Agotarse
  BY <1>3, HayPaginas
     DEF IInv, TipoPagina, LoVistoEstaBloqueado, Agotarse, Tope, Indices, Tabla!Indices
<1>4. CASE EncontrarPagina
  <2>1. Tabla!Concedida(pid) \in Tabla!Info
    BY DEF IInv, TipoPagina, Tabla!Concedida, Tabla!Info
  <2>. QED
    BY <1>4, <2>1 DEF IInv, TipoPagina, LoVistoEstaBloqueado, EncontrarPagina
<1>5. CASE VolverPagina \/ UNCHANGED varsPagina
  <2>1. UNCHANGED varsPagina
    BY <1>5 DEF VolverPagina
  <2>2. UNCHANGED Tabla!Disponibles
    BY <2>1 DEF varsPagina, Tabla!Disponibles, ultimoVisto
  <2>. QED
    BY <2>1, <2>2 DEF IInv, TipoPagina, LoVistoEstaBloqueado, varsPagina
<1>. QED
  BY <1>1, <1>2, <1>3, <1>4, <1>5 DEF NextPagina

\* The inductive invariant of the loop.
THEOREM InvarianteDelBucle == SpecPagina => []IInv
BY InicioInvariante, PasoInvariante, PTL DEF SpecPagina

\* Type correctness: the loop never leaves the entries that the search may read.
THEOREM TipoCorrecto == SpecPagina => []TipoPagina
<1>1. IInv => TipoPagina
  BY DEF IInv
<1>. QED
  BY <1>1, InvarianteDelBucle, PTL

\* The pages that a search leaves behind were blocked.
THEOREM LoVistoSeDescarta == SpecPagina => []LoVistoEstaBloqueado
<1>1. IInv => LoVistoEstaBloqueado
  BY DEF IInv
<1>. QED
  BY <1>1, InvarianteDelBucle, PTL

-----------------------------------------------------------------------------
(* The loop makes the step of module TablaPaginas.                          *)

\* Leaving the loop at a page grants the nearest one that is not blocked.
LEMMA EncontrarConcede ==
  ASSUME IInv, EncontrarPagina
  PROVE  Tabla!solicitar_pagina(pid)
<1>1. /\ pcPagina = "bucle" /\ ~Bloqueada /\ pcPagina' = "fin"
      /\ region_memoria' = [region_memoria EXCEPT ![ultimo_pagina] = Tabla!Concedida(pid)]
      /\ UNCHANGED <<ultimo_pagina, panico, pid, primero>>
  BY DEF EncontrarPagina
<1>2. ultimoVisto = primero + 1 /\ ultimoVisto' = ultimo_pagina
  BY <1>1 DEF ultimoVisto
<1>3. ultimo_pagina \in Tabla!Disponibles
  <2>1. ultimo_pagina \in Indices /\ region_memoria[ultimo_pagina].estado = 0
    BY <1>1 DEF IInv, TipoPagina, Bloqueada, Tabla!Info
  <2>2. ultimo_pagina # 0 \/ ultimoVisto = 0
    BY <1>1, <1>2 DEF IInv, LoVistoEstaBloqueado, SinPrimero
  <2>. QED
    BY <2>1, <2>2 DEF Tabla!Disponibles, Indices
<1>4. ultimo_pagina \in Tabla!Siguientes
  BY <1>1, <1>2, <1>3 DEF IInv, LoVistoEstaBloqueado, Tabla!Siguientes
<1>5. Tabla!Conceder(ultimo_pagina, pid)
  BY <1>1, <1>2 DEF Tabla!Conceder
<1>. QED
  BY <1>4, <1>5 DEF Tabla!solicitar_pagina

\* Leaving the loop by the panic means that no page is left to reach.
LEMMA AgotarseEsNoHay ==
  ASSUME IInv, Agotarse
  PROVE  Tabla!solicitar_pagina(pid)
<1>1. /\ pcPagina = "bucle" /\ Bloqueada /\ Tope = primero /\ pcPagina' = "fin"
      /\ ultimo_pagina' = Tope /\ panico' = TRUE
      /\ UNCHANGED <<region_memoria, pid, primero>>
  BY DEF Agotarse
<1>2. ultimoVisto = primero + 1 /\ ultimoVisto' = primero
  BY <1>1 DEF ultimoVisto
<1>3. /\ ultimo_pagina \in Indices /\ primero < total_paginas
      /\ ultimo_pagina = 0 => primero = SinPrimero
  BY <1>1 DEF IInv, TipoPagina, LoVistoEstaBloqueado
<1>4. primero \in Indices /\ primero + 1 \in Indices /\ primero + 1 # 0 /\ ultimo_pagina # 0
  BY <1>1, <1>3, HayPaginas DEF Tope, Indices, Tabla!Indices, SinPrimero
<1>5. D(primero + 1, ultimo_pagina) = total_paginas - 1
  BY <1>1, <1>3, <1>4, HayPaginas DEF D, Tope, Indices, Tabla!Indices, Tabla!DistanciaPagina
<1>6. Tabla!Disponibles = {}
  <2> SUFFICES ASSUME NEW i \in Tabla!Disponibles PROVE FALSE
    OBVIOUS
  <2>1. i \in Indices /\ i # ultimo_pagina /\ i # 0
    BY <1>1, <1>2, <1>4, Disponible DEF Bloqueada
  <2>2. D(primero + 1, ultimo_pagina) <= D(primero + 1, i)
    BY <1>1 DEF IInv, LoVistoEstaBloqueado, D
  <2>3. D(primero + 1, i) \in 0 .. total_paginas /\ D(primero + 1, i) <= total_paginas - 1
    BY <1>4, <2>1, DistanciaDePaginas
  <2>4. D(primero + 1, i) = D(primero + 1, ultimo_pagina)
    BY <1>5, <2>2, <2>3, HayPaginas
  <2>. QED
    BY <1>3, <1>4, <2>1, <2>4, DistanciaDePaginas
<1>7. ultimoVisto' = ultimoVisto - 1 /\ ultimoVisto # 0
  BY <1>2, <1>4 DEF Indices, Tabla!Indices
<1>. QED
  BY <1>1, <1>6, <1>7 DEF Tabla!NoHayMemoria, Tabla!solicitar_pagina

\* The search of the code is the step its callers see: it grants the next page
\* that is not blocked, and panics only when there is none.
THEOREM ElBucleEsElPaso == SpecPagina => RefinaSolicitar
<1> DEFINE visto == <<region_memoria, ultimoVisto, panico, pcPagina = "fin">>
           Paso == pcPagina # "fin" /\ pcPagina' = "fin" /\ Tabla!solicitar_pagina(pid)
<1>1. ASSUME IInv, [NextPagina]_varsPagina PROVE [Paso]_visto
  <2>1. CASE EntrarPagina
    <3>1. ultimoVisto' = ultimoVisto
      BY <1>1, <2>1 DEF IInv, TipoPagina, EntrarPagina, ultimoVisto, SinPrimero, Indices, Tabla!Indices
    <3>. QED
      BY <2>1, <3>1 DEF EntrarPagina
  <2>2. CASE AvanzarPagina
    BY <2>2 DEF AvanzarPagina, ultimoVisto
  <2>3. CASE Agotarse
    BY <1>1, <2>3, AgotarseEsNoHay DEF Agotarse
  <2>4. CASE EncontrarPagina
    BY <1>1, <2>4, EncontrarConcede DEF EncontrarPagina
  <2>5. CASE VolverPagina \/ UNCHANGED varsPagina
    BY <2>5 DEF VolverPagina, varsPagina, ultimoVisto
  <2>. QED
    BY <1>1, <2>1, <2>2, <2>3, <2>4, <2>5 DEF NextPagina
<1>. QED
  BY <1>1, InvarianteDelBucle, PTL DEF SpecPagina, RefinaSolicitar
-----------------------------------------------------------------------------
(* The loop ends, in the one form of it that needs no fairness: a variant.  *)

\* Positions that the search has gone on, from the page it began at.
Recorridas == D(primero + 1, ultimo_pagina)

\* An iteration that does not end the loop goes one position further round,
\* never past a whole turn, unless the search is the one that never ends.
VueltaAcotada ==
  [][pcPagina = "bucle" /\ pcPagina' = "bucle" /\ ~SinFin =>
       Recorridas' = Recorridas + 1 /\ Recorridas' <= total_paginas]_varsPagina

\* The search that began at index 0 with every page blocked is in the loop for
\* good: no step of it takes a page, and none reaches the panic.
NuncaSale == [][SinFin => SinFin']_varsPagina

\* Where a search may be: it has gone at most one whole turn, and all of it
\* only when it began at index 0 and looks at the last page.
LEMMA DondeEstaLaBusqueda ==
  ASSUME IInv, pcPagina = "bucle"
  PROVE  /\ primero + 1 \in Indices
         /\ ultimo_pagina \in Indices
         /\ ultimo_pagina # 0 \/ primero + 1 = 0
         /\ Recorridas \in 0 .. total_paginas
         /\ Recorridas = total_paginas =>
              primero = SinPrimero /\ ultimo_pagina = total_paginas
<1>1. /\ ultimo_pagina \in Indices /\ primero \in Indices \cup {SinPrimero}
      /\ primero < total_paginas
      /\ ultimo_pagina = 0 => primero = SinPrimero
  BY DEF IInv, TipoPagina, LoVistoEstaBloqueado
<1>2. primero + 1 \in Indices /\ (ultimo_pagina # 0 \/ primero + 1 = 0)
  BY <1>1, HayPaginas DEF Indices, Tabla!Indices, SinPrimero
<1>3. Recorridas \in 0 .. total_paginas
  BY <1>1, <1>2, DistanciaDePaginas DEF Recorridas
<1>4. Recorridas = total_paginas => primero = SinPrimero /\ ultimo_pagina = total_paginas
  BY <1>1, <1>2, HayPaginas
     DEF Recorridas, D, Tabla!DistanciaPagina, Indices, Tabla!Indices, SinPrimero
<1>. QED
  BY <1>1, <1>2, <1>3, <1>4

\* A search from index 0 that has come to the last page and goes on has found
\* every page blocked.
LEMMA UltimaSinNinguna ==
  ASSUME IInv, pcPagina = "bucle", Bloqueada,
         primero = SinPrimero, ultimo_pagina = total_paginas
  PROVE  SinFin
<1> SUFFICES ASSUME NEW i \in Indices, region_memoria[i].estado # 1 PROVE FALSE
  BY DEF SinFin
<1>1. ultimoVisto = 0 /\ primero + 1 = 0 /\ 0 \in Indices /\ ultimo_pagina \in Indices
  BY HayPaginas DEF IInv, TipoPagina, ultimoVisto, SinPrimero, Indices, Tabla!Indices
<1>2. region_memoria[i].estado = 0
  BY DEF IInv, TipoPagina, Tabla!Info, Indices
<1>3. i \in Tabla!Disponibles
  BY <1>1, <1>2 DEF Tabla!Disponibles, Indices
<1>4. D(0, ultimo_pagina) <= D(0, i)
  BY <1>1, <1>3 DEF IInv, LoVistoEstaBloqueado, D
<1>5. D(0, i) \in 0 .. total_paginas /\ D(0, ultimo_pagina) = total_paginas
  BY <1>1, DistanciaDePaginas, HayPaginas DEF D, Tabla!DistanciaPagina
<1>6. D(0, i) = D(0, ultimo_pagina)
  BY <1>4, <1>5, HayPaginas
<1>7. i = ultimo_pagina
  BY <1>1, <1>6, DistanciaDePaginas
<1>. QED
  BY <1>7 DEF Bloqueada

\* Going on moves one position further round, except past the last page.
LEMMA AvanzarUna ==
  ASSUME IInv, AvanzarPagina, ~SinFin
  PROVE  Recorridas' = Recorridas + 1 /\ Recorridas' <= total_paginas
<1>1. /\ pcPagina = "bucle" /\ Bloqueada /\ Tope # primero /\ pcPagina' = "bucle"
      /\ ultimo_pagina' = Tope + 1 /\ primero' = primero
  BY DEF AvanzarPagina
<1>2. /\ primero + 1 \in Indices /\ ultimo_pagina \in Indices
      /\ ultimo_pagina # 0 \/ primero + 1 = 0
  BY <1>1, DondeEstaLaBusqueda
<1>3. ~(primero + 1 = 0 /\ ultimo_pagina = total_paginas)
  <2>1. primero \in Int
    BY HayPaginas DEF IInv, TipoPagina, Indices, Tabla!Indices, SinPrimero
  <2>. QED
    BY <1>1, <2>1, UltimaSinNinguna DEF SinPrimero
<1>4. primero \in Int
  BY HayPaginas DEF IInv, TipoPagina, Indices, Tabla!Indices, SinPrimero
<1>5. D(primero + 1, Tope + 1) = D(primero + 1, ultimo_pagina) + 1
  BY <1>1, <1>2, <1>3, <1>4, HayPaginas
     DEF D, Tope, Indices, Tabla!Indices, Tabla!DistanciaPagina
<1>6. IInv'
  BY AvanzarInvariante
<1>7. Recorridas' \in 0 .. total_paginas
  <2>1. /\ primero' + 1 \in Indices /\ ultimo_pagina' \in Indices
        /\ ultimo_pagina' # 0 \/ primero' + 1 = 0
    BY <1>1, <1>2, <1>4, HayPaginas DEF Tope, Indices, Tabla!Indices
  <2>. QED
    BY <2>1, DistanciaDePaginas DEF Recorridas
<1>. QED
  BY <1>1, <1>5, <1>7, HayPaginas DEF Recorridas

\* Every other search ends within one turn of the pages: total_paginas is a
\* bound on its iterations, whatever the table and wherever it began.
THEOREM UnaVueltaBasta == SpecPagina => VueltaAcotada
<1>1. ASSUME IInv, [NextPagina]_varsPagina
      PROVE  [pcPagina = "bucle" /\ pcPagina' = "bucle" /\ ~SinFin =>
                Recorridas' = Recorridas + 1 /\ Recorridas' <= total_paginas]_varsPagina
  <2>1. CASE AvanzarPagina
    BY <1>1, <2>1, AvanzarUna
  <2>2. CASE EntrarPagina \/ Agotarse \/ EncontrarPagina
    BY <2>2 DEF EntrarPagina, Agotarse, EncontrarPagina
  <2>3. CASE VolverPagina \/ UNCHANGED varsPagina
    BY <2>3 DEF VolverPagina
  <2>. QED
    BY <1>1, <2>1, <2>2, <2>3 DEF NextPagina
<1>. QED
  BY <1>1, InvarianteDelBucle, PTL DEF SpecPagina, VueltaAcotada

\* The search that never ends really never does: with every page blocked,
\* primero = 2^64 - 1 is an index that the loop cannot come to.
THEOREM LaBusquedaSinFinNoSale == SpecPagina => NuncaSale
<1>1. ASSUME IInv, [NextPagina]_varsPagina PROVE [SinFin => SinFin']_varsPagina
  <2> SUFFICES ASSUME SinFin PROVE SinFin' \/ UNCHANGED varsPagina
    OBVIOUS
  <2>1. /\ pcPagina = "bucle" /\ primero = SinPrimero /\ ultimo_pagina \in Indices
        /\ \A i \in Indices : region_memoria[i].estado = 1
    BY <1>1 DEF SinFin, IInv, TipoPagina
  <2>2. Bloqueada /\ Tope # primero
    BY <2>1, HayPaginas DEF Bloqueada, Tope, SinPrimero, Indices, Tabla!Indices
  <2>3. CASE AvanzarPagina
    BY <2>1, <2>3 DEF AvanzarPagina, SinFin
  <2>4. CASE VolverPagina \/ UNCHANGED varsPagina
    BY <2>4 DEF VolverPagina
  <2>. QED
    BY <1>1, <2>1, <2>2, <2>3, <2>4 DEF NextPagina, EntrarPagina, Agotarse, EncontrarPagina
<1>. QED
  BY <1>1, InvarianteDelBucle, PTL DEF SpecPagina, NuncaSale
=============================================================================
