---------------------------- MODULE MapaMemoria -----------------------------
(***************************************************************************)
(* The choice of the region where the kernel works: iniciar_memoria reads  *)
(* the memory map of the boot loader, one entry a step, through the        *)
(* accessors of bootservices.c.  The table of pages that starts on the     *)
(* region is in module Memoria.                                            *)
(***************************************************************************)
EXTENDS Integers, Sequences

CONSTANTS
  Mapas,         \* BOUND: the memory maps explored, sequences of entries
  TamPagina      \* 0x1000

CONSTANTS UTILIZABLE, MEMORIA_KERNEL, INUTILIZABLE   \* LIMINE_MEMMAP_*

VARIABLES
  entradas,             \* the map, or << >> out of iniciar_memoria
  i,                    \* the next entry; 0 before the search, Elegida after it
  memoria_total, memoria_disponible, memoria_kernel,
  memoria_trabajo,      \* the region chosen so far
  total_paginas

vars == <<entradas, i, memoria_total, memoria_disponible, memoria_kernel,
          memoria_trabajo, total_paginas>>
Elegida == -1
sumas == <<memoria_total, memoria_disponible, memoria_kernel>>

SinRegion == [base |-> 0, lenght |-> 0, type |-> INUTILIZABLE]

\* obtener_memoria_map_base, _longitud and _tipo.
Base(n) == entradas[n].base
Longitud(n) == entradas[n].length
Tipo(n) == entradas[n].type

EmpezarMapa ==
  /\ i = 0
  /\ \E mapa \in Mapas : entradas' = mapa
  /\ i' = 1
  /\ UNCHANGED <<sumas, memoria_trabajo, total_paginas>>

MayorOIgual(n) == Longitud(n) >= memoria_trabajo.lenght   \* mutant: the last of the largest
Mayor(n) == Longitud(n) > memoria_trabajo.lenght

LeerEntrada ==
  /\ i \in DOMAIN entradas
  /\ memoria_total' = memoria_total + Longitud(i)
  /\ \/ /\ Tipo(i) = UTILIZABLE
        /\ memoria_disponible' = memoria_disponible + Longitud(i)
        /\ memoria_trabajo' =
             IF Mayor(i) THEN [base |-> Base(i), lenght |-> Longitud(i), type |-> Tipo(i)]
             ELSE memoria_trabajo
        /\ UNCHANGED memoria_kernel
     \/ /\ Tipo(i) = MEMORIA_KERNEL
        /\ memoria_kernel' = memoria_kernel + Longitud(i)
        /\ UNCHANGED <<memoria_disponible, memoria_trabajo>>
     \/ /\ Tipo(i) \notin {UTILIZABLE, MEMORIA_KERNEL}
        /\ UNCHANGED <<memoria_disponible, memoria_kernel, memoria_trabajo>>
  /\ i' = i + 1
  /\ UNCHANGED <<entradas, total_paginas>>

\* The loop ends and the locals go; iniciar_paginas counts the pages.
CerrarMapa ==
  /\ entradas # <<>> /\ i > Len(entradas)
  /\ total_paginas' = memoria_trabajo.lenght \div TamPagina
  /\ entradas' = <<>> /\ i' = Elegida
  /\ memoria_total' = 0 /\ memoria_disponible' = 0 /\ memoria_kernel' = 0
  /\ UNCHANGED memoria_trabajo

Init ==
  /\ entradas = <<>> /\ i = 0
  /\ memoria_total = 0 /\ memoria_disponible = 0 /\ memoria_kernel = 0
  /\ memoria_trabajo = SinRegion
  /\ total_paginas = 0

Next == EmpezarMapa \/ LeerEntrada \/ CerrarMapa

-----------------------------------------------------------------------------
(* Correctness.                                                             *)

\* "buscar la memoria disponible mas grande utilizable" (memoria.c:188): the
\* region is, at every moment of the search, the first of the largest usable
\* entries read; without any, it has no pages.  And what is shown as available
\* and as the kernel's is part of the total.
Leidas == 1 .. (i - 1)
Utiles == {n \in Leidas : Tipo(n) = UTILIZABLE /\ Longitud(n) > 0}
RegionMayor ==
  entradas # <<>> =>
    /\ memoria_trabajo.lenght <= memoria_disponible
    /\ memoria_disponible + memoria_kernel <= memoria_total
    /\ IF Utiles = {} THEN memoria_trabajo = SinRegion
       ELSE \E n \in Utiles :
              /\ memoria_trabajo = [base |-> Base(n), lenght |-> Longitud(n), type |-> UTILIZABLE]
              /\ \A m \in Utiles : m < n => Longitud(m) < Longitud(n)
              /\ \A m \in Utiles : m > n => Longitud(m) <= Longitud(n)
=============================================================================
