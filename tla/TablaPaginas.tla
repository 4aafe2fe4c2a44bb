---------------------------- MODULE TablaPaginas ----------------------------
(***************************************************************************)
(* The page table of memoria.c and the operations on it, one step each:    *)
(* region_memoria has one entry per page of the working region, and lies   *)
(* in the first pages of that same region.                                 *)
(*                                                                         *)
(* A page is named by its index; normalizar and the address that           *)
(* solicitar_pagina returns are inverse to each other on the addresses the *)
(* kernel uses, which all come from solicitar_pagina.  The index           *)
(* total_paginas is one past the table: the search reads it all the same.  *)
(***************************************************************************)
EXTENDS Integers

CONSTANTS
  total_paginas,      \* pages of 0x1000 bytes in the region
  BytesPorEntrada,    \* sizeof(struct pagina_info) (8)
  EntradasPorPagina,  \* entries of the table that fit in a page (512)
  Basura              \* what an entry nobody has initialised may read as

BytesPorPagina == BytesPorEntrada * EntradasPorPagina
Indices == 0 .. total_paginas

\* struct pagina_info without its permissions, which nothing reads: no caller
\* of leer_pagina, escribir_pagina, set_usuario and set_demas exists.
Info == [estado : {0, 1}, pid : Nat]

ASSUME TotalPositivo == total_paginas \in Nat \ {0}
ASSUME TamanosPositivos ==
  BytesPorEntrada \in Nat \ {0} /\ EntradasPorPagina \in Nat \ {0}
ASSUME BasuraEsInfo == Basura \subseteq Info /\ Basura # {}

VARIABLES
  region_memoria,     \* index -> entry
  ultimo_pagina,      \* where the next search starts
  panico              \* kernel_panic: who asked for a page stays in it

-----------------------------------------------------------------------------
(* iniciar_paginas.  llenar_memoria clears total_paginas BYTES, and the     *)
(* loop reserves total_paginas / 0x1000 pages for the table.                *)

EntradasLimpias == total_paginas \div BytesPorEntrada
PaginasReservadas == total_paginas \div BytesPorPagina

Limpia == [estado |-> 0, pid |-> 0]

iniciar_paginas ==
  /\ \E resto \in [Indices -> Basura] :
       region_memoria = [i \in Indices |->
         LET e == IF i < EntradasLimpias THEN Limpia ELSE resto[i]
         IN  IF i < PaginasReservadas THEN [e EXCEPT !.estado = 1] ELSE e]
  /\ ultimo_pagina = IF PaginasReservadas = 0 THEN 0 ELSE PaginasReservadas - 1
  /\ panico = FALSE

-----------------------------------------------------------------------------
(* solicitar_pagina.  The search goes up from ultimo_pagina to the index    *)
(* total_paginas and on from 1; it takes the first page that is not blocked *)
(* and panics when it comes back to the one before ultimo_pagina.  Module   *)
(* BuscarPagina models the loop and shows that it finds this page.          *)

DistanciaPagina(u, i) == IF i >= u THEN i - u ELSE i - u + total_paginas

DisponiblesSinMirar ==                         \* mutant: estado is not looked at
  {i \in Indices : i # 0 \/ ultimo_pagina = 0}

Disponibles ==
  {i \in Indices : region_memoria[i].estado = 0 /\ (i # 0 \/ ultimo_pagina = 0)}

Siguientes ==
  {i \in Disponibles : \A j \in Disponibles :
     DistanciaPagina(ultimo_pagina, i) <= DistanciaPagina(ultimo_pagina, j)}

ConcedidaCruzada(pid) == [estado |-> pid, pid |-> 1]     \* mutant: the fields are swapped
Concedida(pid) == [estado |-> 1, pid |-> pid]

Conceder(p, pid) ==
  /\ region_memoria' = [region_memoria EXCEPT ![p] = Concedida(pid)]
  /\ ultimo_pagina' = p
  /\ UNCHANGED panico

\* With every page blocked the search ends in kernel_panic; only from index 0,
\* whose predecessor does not exist, it would go round for ever.
NoHayMemoria ==
  /\ Disponibles = {}
  /\ ultimo_pagina # 0
  /\ ultimo_pagina' = ultimo_pagina - 1
  /\ panico' = TRUE
  /\ UNCHANGED region_memoria

solicitar_pagina(pid) == NoHayMemoria \/ \E p \in Siguientes : Conceder(p, pid)

-----------------------------------------------------------------------------
(* liberar_pagina.  A page of another owner, or one that is not blocked, is *)
(* refused with a message.                                                  *)

liberar_paginaSinDesbloquear(p, pid) ==        \* mutant: desbloquear_pagina is forgotten
  UNCHANGED <<region_memoria, ultimo_pagina, panico>>

liberar_pagina(p, pid) ==
  /\ region_memoria' =
       IF region_memoria[p].pid = pid /\ region_memoria[p].estado = 1
       THEN [region_memoria EXCEPT ![p].estado = 0]
       ELSE region_memoria
  /\ UNCHANGED <<ultimo_pagina, panico>>
=============================================================================
