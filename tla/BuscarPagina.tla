---------------------------- MODULE BuscarPagina ----------------------------
(***************************************************************************)
(* The loop of solicitar_pagina (memoria.c:69-96), one iteration a step,   *)
(* for one call and any page table.  Every call runs with the interrupts   *)
(* disabled: the table does not change while the loop runs.  Names that    *)
(* module BuscarProceso has too end in Pagina: MCVivacidad extends both.   *)
(***************************************************************************)
EXTENDS Integers

CONSTANTS
  total_paginas, BytesPorEntrada, EntradasPorPagina, Basura,   \* as in TablaPaginas
  Regiones,         \* the page tables the loop may find
  Pids              \* the callers

ASSUME HayPaginas == total_paginas \in Nat \ {0}
ASSUME RegionesDeInfo ==
  /\ Regiones \subseteq [0 .. total_paginas -> [estado : {0, 1}, pid : Nat]]
  /\ Pids \subseteq Nat

VARIABLES region_memoria, ultimo_pagina, panico, pid, primero, pcPagina

varsPagina == <<region_memoria, ultimo_pagina, panico, pid, primero, pcPagina>>

\* 0 - 1 in a uint64_t is 2^64 - 1, an index that no page has.
SinPrimero == -1

\* What the callers of solicitar_pagina may rely on: until the call returns
\* they see the old value of ultimo_pagina, the one after primero.
ultimoVisto == IF pcPagina = "bucle" THEN primero + 1 ELSE ultimo_pagina
Tabla == INSTANCE TablaPaginas WITH ultimo_pagina <- ultimoVisto

Indices == Tabla!Indices

InitPagina ==
  /\ region_memoria \in Regiones
  /\ ultimo_pagina \in Indices
  /\ panico = FALSE
  /\ pid \in Pids
  /\ primero = SinPrimero
  /\ pcPagina = "entrada"

EntrarPagina ==
  /\ pcPagina = "entrada"
  /\ primero' = IF ultimo_pagina = 0 THEN SinPrimero ELSE ultimo_pagina - 1
  /\ pcPagina' = "bucle"
  /\ UNCHANGED <<region_memoria, ultimo_pagina, panico, pid>>

Bloqueada == region_memoria[ultimo_pagina].estado = 1

TopeAntes ==                                   \* mutant: the search turns a page early
  IF ultimo_pagina >= total_paginas - 1 THEN 0 ELSE ultimo_pagina

TopeSinVuelta == ultimo_pagina                 \* mutant: the search never turns

\* The index before the one the loop goes on to: 0 when it is past the end.
Tope == IF ultimo_pagina >= total_paginas THEN 0 ELSE ultimo_pagina

AvanzarSinFin ==                               \* mutant: primero is not looked at
  /\ pcPagina = "bucle"
  /\ Bloqueada
  /\ ultimo_pagina' = Tope + 1
  /\ UNCHANGED <<region_memoria, panico, pid, primero, pcPagina>>

AvanzarPagina ==
  /\ pcPagina = "bucle"
  /\ Bloqueada
  /\ Tope # primero
  /\ ultimo_pagina' = Tope + 1
  /\ UNCHANGED <<region_memoria, panico, pid, primero, pcPagina>>

Agotarse ==
  /\ pcPagina = "bucle"
  /\ Bloqueada
  /\ Tope = primero
  /\ ultimo_pagina' = Tope
  /\ panico' = TRUE
  /\ pcPagina' = "fin"
  /\ UNCHANGED <<region_memoria, pid, primero>>

EncontrarSinBloquear ==                        \* mutant: bloquear_pagina is forgotten
  /\ pcPagina = "bucle"
  /\ ~Bloqueada
  /\ region_memoria' = [region_memoria EXCEPT ![ultimo_pagina].pid = pid]
  /\ pcPagina' = "fin"
  /\ UNCHANGED <<ultimo_pagina, panico, pid, primero>>

EncontrarPagina ==
  /\ pcPagina = "bucle"
  /\ ~Bloqueada
  /\ region_memoria' = [region_memoria EXCEPT ![ultimo_pagina] = Tabla!Concedida(pid)]
  /\ pcPagina' = "fin"
  /\ UNCHANGED <<ultimo_pagina, panico, pid, primero>>

VolverPagina == pcPagina = "fin" /\ UNCHANGED varsPagina

NextPagina == EntrarPagina \/ AvanzarPagina \/ Agotarse \/ EncontrarPagina \/ VolverPagina

SpecPagina == InitPagina /\ [][NextPagina]_varsPagina

\* The loop runs with the interrupts disabled: nothing suspends it.
FairSpecPagina == SpecPagina /\ WF_varsPagina(NextPagina)

-----------------------------------------------------------------------------
(* Correctness.                                                             *)

\* The index never passes total_paginas, and the entries keep their form.
TipoPagina ==
  /\ region_memoria \in [Indices -> Tabla!Info]
  /\ ultimo_pagina \in Indices
  /\ panico \in BOOLEAN
  /\ pid \in Nat
  /\ primero \in Indices \cup {SinPrimero}
  /\ pcPagina \in {"entrada", "bucle", "fin"}

\* In the loop, every page nearer than the one being looked at is blocked.
\* (A search from index 0 comes back to pages it has seen when all are.)
LoVistoEstaBloqueado ==
  pcPagina = "bucle" =>
    /\ primero < total_paginas
    /\ ultimo_pagina = 0 => primero = SinPrimero
    /\ \A i \in Tabla!Disponibles :
         Tabla!DistanciaPagina(primero + 1, ultimo_pagina)
           <= Tabla!DistanciaPagina(primero + 1, i)

\* The loop implements the step solicitar_pagina of module TablaPaginas: it
\* grants the next page that is not blocked, and panics only when there is
\* none, one position short of a whole turn.
RefinaSolicitar ==
  [][/\ pcPagina # "fin" /\ pcPagina' = "fin"
     /\ Tabla!solicitar_pagina(pid)]_<<region_memoria, ultimoVisto, panico, pcPagina = "fin">>

\* The one search that never ends: no page is free and it began at index 0.
SinFin ==
  /\ pcPagina = "bucle" /\ primero = SinPrimero
  /\ \A i \in Indices : region_memoria[i].estado = 1

\* Every other search ends, with a page or with the panic.
TerminaPagina == <>(pcPagina = "fin" \/ SinFin)
=============================================================================
