------------------------------ MODULE Memoria -------------------------------
(***************************************************************************)
(* The page table and those who hold its pages: the kernel itself, which   *)
(* asks for pages under pid 0 while it starts (timer, interrupt table,     *)
(* keyboard), and the processes, which get one page each and give it back  *)
(* when they end, or lose it when they are killed.                         *)
(*                                                                         *)
(* A panic stops whoever asked for the page: the start of the kernel, or   *)
(* the keyboard in the middle of a command.  In the second case the timer  *)
(* goes on, so the processes write and end, but none is created or killed  *)
(* any more.  (What becomes of the process whose page was refused is in    *)
(* module Planificador.)                                                   *)
(*                                                                         *)
(* The table lies in the region it describes, and the pages that           *)
(* iniciar_paginas reserves for it do not hold all of it.  Whoever writes  *)
(* on a page that holds part of the table leaves something else in those   *)
(* entries.                                                                *)
(***************************************************************************)
EXTENDS TablaPaginas, FiniteSets

CONSTANTS
  PaginasDelKernel,   \* requests under pid 0 (3)
  MaxPid              \* BOUND: the last pid given out

ASSUME CotasNaturales == PaginasDelKernel \in Nat /\ MaxPid \in Nat

VARIABLES
  siguiente,          \* the next client: those up to 0 are the kernel's, then the pids
  tiene,              \* the page whose address a client keeps and uses
  perdidas,           \* pages of killed processes
  enZona              \* history: every page given so far lies in the zone below

vars == <<region_memoria, ultimo_pagina, panico, siguiente, tiene, perdidas, enZona>>

Nada == -1
Primero == 1 - PaginasDelKernel
Clientes == Primero .. MaxPid
PidDe(c) == IF c > 0 THEN c ELSE 0

\* The pages whose entries nobody but memoria.c writes: those entries lie in
\* the reserved pages.
Zona == PaginasReservadas * EntradasPorPagina
ConPagina == {c \in Clientes : tiene[c] # Nada}

\* iniciar_planificador, iniciar_interrupciones and iniciar_teclado ask once
\* each, then agregarProceso once for each process.
Pedir ==
  /\ ~panico
  /\ siguiente \in Clientes
  /\ solicitar_pagina(PidDe(siguiente))
  /\ tiene' = IF panico' THEN tiene ELSE [tiene EXCEPT ![siguiente] = ultimo_pagina']
  /\ siguiente' = siguiente + 1
  /\ enZona' = (enZona /\ (panico' \/ ultimo_pagina' < Zona))
  /\ UNCHANGED perdidas

\* The entries that lie in a page of the region.
EntradasEn(p) ==
  {i \in Indices : p * EntradasPorPagina <= i /\ i < (p + 1) * EntradasPorPagina}

\* The kernel runs, and so do its processes.
Andando == ~panico \/ siguiente > 1

\* A client writes on its page: its datos, the timer count, the gates.
Escribir ==
  /\ Andando
  /\ \E c \in ConPagina : \E resto \in [EntradasEn(tiene[c]) -> Basura] :
       region_memoria' = [i \in Indices |->
         IF i \in EntradasEn(tiene[c]) THEN resto[i] ELSE region_memoria[i]]
  /\ UNCHANGED <<ultimo_pagina, panico, siguiente, tiene, perdidas, enZona>>

\* aumentar_timer, when the operation has ended.
Terminar ==
  /\ Andando
  /\ \E c \in ConPagina :
       /\ c > 0
       /\ liberar_pagina(tiene[c], c)
       /\ tiene' = [tiene EXCEPT ![c] = Nada]
  /\ UNCHANGED <<siguiente, perdidas, enZona>>

\* eliminarProceso: the process is never run again, its page stays blocked.
Matar ==
  /\ ~panico
  /\ \E c \in ConPagina :
       /\ c > 0
       /\ perdidas' = perdidas \cup {tiene[c]}
       /\ tiene' = [tiene EXCEPT ![c] = Nada]
  /\ UNCHANGED <<region_memoria, ultimo_pagina, panico, siguiente, enZona>>

Detenido == panico /\ UNCHANGED vars

SinBloquear(n) == Cardinality({i \in 0 .. (n - 1) : region_memoria[i].estado = 0})

\* How many pages "free" shows available: it looks at the first PaginasReservadas.
verMemoria == SinBloquear(PaginasReservadas)

Init ==
  /\ iniciar_paginas
  /\ siguiente = Primero
  /\ tiene = [c \in Clientes |-> Nada]
  /\ perdidas = {}
  /\ enZona = TRUE

Next == Pedir \/ Escribir \/ Terminar \/ Matar \/ Detenido

Spec == Init /\ [][Next]_vars

-----------------------------------------------------------------------------
(* Correctness.                                                             *)

\* Every entry keeps its form and every holder keeps a page of the table or none.
TipoOK ==
  /\ region_memoria \in [Indices -> Info]
  /\ ultimo_pagina \in Indices
  /\ panico \in BOOLEAN
  /\ siguiente \in Primero .. (MaxPid + 1)
  /\ tiene \in [Clientes -> Indices \cup {Nada}]
  /\ perdidas \subseteq Indices
  /\ enZona \in BOOLEAN

\* "0 libre, 1 = bloqueado" (memoria.h:26): a page that somebody keeps is
\* blocked, so nobody else is given it.
UnaPaginaUnCliente ==
  \A c, d \in ConPagina : tiene[c] = tiene[d] => c = d

\* It is so, and the page is blocked in its holder's name, as long as the
\* pages given lie in the zone.
SinDobleEntrega ==
  enZona =>
    /\ UnaPaginaUnCliente
    /\ \A c \in ConPagina : region_memoria[tiene[c]] = Concedida(PidDe(c))

\* In the zone, what is blocked is reserved for the table, held by a client or
\* lost by a kill: the end of a process leaks nothing, and no page of the
\* table is given away.
BloqueadasSonDeAlguien ==
  enZona =>
    /\ {i \in PaginasReservadas .. (Zona - 1) : region_memoria[i].estado = 1}
          = {tiene[c] : c \in ConPagina} \cup perdidas
    /\ \A i \in 0 .. (PaginasReservadas - 1) : region_memoria[i] = Concedida(0)

\* "free: estado de memoria" (shell.c:112), "%d/%d memoria disponible"
\* (memoria.c:178): free, which the user can write once the shell is a client,
\* shows how many pages of the region are not blocked.
FreeDiceLasDisponibles ==
  enZona /\ ~panico /\ siguiente > 1 => verMemoria = SinBloquear(total_paginas)
=============================================================================
