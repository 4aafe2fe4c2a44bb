---------------------------- MODULE Planificador ----------------------------
(***************************************************************************)
(* The process table, the timer and the round-robin scheduler of the       *)
(* kernel: planificador.c and proceso.c, with the data pages the scheduler *)
(* asks memoria.c for.                                                     *)
(*                                                                         *)
(* The state is the one of the running kernel, from the end of _start on.  *)
(* Two handlers change it: the timer interrupt (aumentar_timer) and the    *)
(* keyboard interrupt, which runs the commands of the shell.  Nothing else *)
(* changes the table between the first access of one of the operations     *)
(* below and its last, so it is one step; between two of them, also        *)
(* between the four agregarProceso calls of one "run1" command, the timer  *)
(* may run (agregarProceso ends in sti).  Why that is so, and the start of *)
(* the kernel, where it is not, is the subject of module Interrupciones.   *)
(*                                                                         *)
(* A kernel_panic in a creation ends the keyboard, not the kernel: it      *)
(* loops in the keyboard's handler with the interrupts enabled (printf_    *)
(* ends in sti), and the timer, which has priority, goes on running the    *)
(* processes, the one that was being created among them.                   *)
(***************************************************************************)
EXTENDS SchedulerRR, FiniteSets

CONSTANTS
  quantumTotal,     \* quanta a process may run before it is preempted (5)
  TicksPorQuantum,  \* timer interrupts that make one quantum (10)
  ModQuantum,       \* pit->quantum is a uint8_t:      2^8
  ModListos,        \* procesos_listos is a uint16_t:  2^16
  ModNumero,        \* datos.numero is a uint16_t:     2^16
  LimiteImprimir,   \* where procesoImprimir100 stops (100)
  Paginas,          \* the pages solicitar_pagina may hand to a process
  Nulo,             \* the null pointer
  Ordenes,          \* the processes the shell can create
  MaxPid            \* BOUND: the last pid a run gives out

Operaciones == {"shell", "imprimir100", "imprimir_0", "infinito"}

ASSUME AnchosPositivos ==
  /\ ModQuantum \in Nat \ {0}
  /\ ModListos \in Nat \ {0}
  /\ ModNumero \in Nat \ {0}
  /\ TicksPorQuantum \in Nat \ {0}
ASSUME LimitesEnRango ==
  /\ quantumTotal \in 1 .. (ModQuantum - 1)
  /\ LimiteImprimir \in 1 .. (ModNumero - 1)
  /\ ProcesoTotales < ModListos
ASSUME MaxPidPositivo == MaxPid \in Nat \ {0}
ASSUME PaginasFinitas == IsFiniteSet(Paginas) /\ Paginas # {} /\ Nulo \notin Paginas
ASSUME OrdenesDelShell ==
  Ordenes \subseteq [operacion : Operaciones \ {"shell"},
                     numero : 0 .. (ModNumero - 1),
                     prioridad : Prioridades]

VARIABLES
  procesos,         \* the table: slot -> entry
  proceso_colocar,  \* where agregarProceso starts looking for a slot
  pidDisponible,    \* the next pid
  procesos_listos,  \* how many processes the kernel believes ready
  contador,         \* pit->contador, modulo TicksPorQuantum
  quantum,          \* pit->quantum
  paginas,          \* the pages of the processes: page -> owner and contents
  evento_teclado,   \* the shell has enabled the keyboard
  panico,           \* kernel_panic in a command: the keyboard is gone for good
  fallo             \* Fallo_pagina in the timer's handler: so is everything else

vars == <<procesos, actual, proceso_colocar, pidDisponible, procesos_listos,
          procesoActual, contador, quantum, paginas, evento_teclado, panico, fallo>>

-----------------------------------------------------------------------------
(* Processes.  An entry is live from agregarProceso until it ends or is    *)
(* killed; it is ready while the scheduler may run it.                     *)

Menos1SinAncho(x, mod) == x - 1                \* mutant: counters have no width
Menos1(x, mod) == IF x = 0 THEN mod - 1 ELSE x - 1

Vacia == [pid |-> 0, prioridad |-> 0, estado |-> "NUEVO", operacion |-> Nulo,
          datosProceso |-> Nulo]

Entrada == [pid : Nat, prioridad : Prioridades, estado : Estados,
            operacion : Operaciones \cup {Nulo},
            datosProceso : Paginas \cup {Nulo}]

EstaVivo(e) == e.estado \in {"LISTO", "EJECUTANDO", "ESPERANDO"}
EstaListo(e) == e.estado \in {"LISTO", "EJECUTANDO"}
Vivos == {s \in Ranuras : EstaVivo(procesos[s])}
Listos == {s \in Ranuras : EstaListo(procesos[s])}
Libres == {s \in Ranuras : procesos[s].estado \in {"NUEVO", "TERMINADO"}}

\* The entry that a panic left half filled in holds a pid not given out yet.
AMedias == {s \in Ranuras : procesos[s].pid = pidDisponible}

\* The number a process leaves in its datos when its operation runs once ...
NumeroTras(operacion, n) ==
  CASE operacion = "shell"       -> 0
    [] operacion = "imprimir100" -> Mas1(n, ModNumero)
    [] operacion = "imprimir_0"  -> Menos1(n, ModNumero)
    [] operacion = "infinito"    -> Mas1(n, ModNumero)

\* ... and what it returns: 0 it has ended, 1 it waits, -1 it goes on.
Resultado(operacion, n) ==
  CASE operacion = "shell"       -> 1
    [] operacion = "imprimir100" -> IF NumeroTras(operacion, n) < LimiteImprimir THEN -1 ELSE 0
    [] operacion = "imprimir_0"  -> IF NumeroTras(operacion, n) > 0 THEN -1 ELSE 0
    [] operacion = "infinito"    -> -1

-----------------------------------------------------------------------------
(* Pages.  Which free page solicitar_pagina takes is left open here; module *)
(* Memoria models the scan that finds it.                                   *)

PaginasSinMirar == Paginas                     \* mutant: estado is not looked at
PaginasLibres == {p \in Paginas : paginas[p].estado = 0}

Bloqueada(pid, n) == [estado |-> 1, pid |-> pid, numero |-> n]

LiberarPaginaAjena(tabla, p, pid) ==           \* mutant: the owner test is inverted
  IF tabla[p].pid # pid /\ tabla[p].estado = 1
  THEN [tabla EXCEPT ![p].estado = 0]
  ELSE tabla

\* The table of pages after liberar_pagina(p, pid), refusals included.
LiberarPagina(tabla, p, pid) ==
  IF tabla[p].pid = pid /\ tabla[p].estado = 1
  THEN [tabla EXCEPT ![p].estado = 0]
  ELSE tabla

-----------------------------------------------------------------------------
(* agregarProceso: the first slot that is NUEVO or TERMINADO, going round   *)
(* from proceso_colocar.                                                    *)

HuecoTrasElPrimero ==                          \* mutant: a free slot is passed over
  {s \in Libres : \A t \in Libres : (s - SigRanura(proceso_colocar)) % ProcesoTotales
                                      <= (t - SigRanura(proceso_colocar)) % ProcesoTotales}

Hueco ==
  {s \in Libres : \A t \in Libres : (s - proceso_colocar) % ProcesoTotales
                                      <= (t - proceso_colocar) % ProcesoTotales}

NoSePuedeColocar == Libres = {} /\ UNCHANGED vars

MismoPid == pidDisponible                      \* mutant: pidDisponible++ is forgotten
SiguientePid == pidDisponible + 1

NuevaEntradaSinPagina(orden, p) ==             \* mutant: datosProceso is not assigned
  [pid |-> pidDisponible, prioridad |-> orden.prioridad, estado |-> "LISTO",
   operacion |-> orden.operacion, datosProceso |-> Nulo]
NuevaEntrada(orden, p) ==
  [pid |-> pidDisponible, prioridad |-> orden.prioridad, estado |-> "LISTO",
   operacion |-> orden.operacion, datosProceso |-> p]

Colocar(orden) ==
  \E s \in Hueco, p \in PaginasLibres :
    /\ procesos' = [procesos EXCEPT ![s] = NuevaEntrada(orden, p)]
    /\ paginas' = [paginas EXCEPT ![p] = Bloqueada(pidDisponible, orden.numero)]
    /\ proceso_colocar' = SigRanura(s)
    /\ procesos_listos' = Mas1(procesos_listos, ModListos)
    /\ pidDisponible' = SiguientePid
    /\ UNCHANGED <<actual, procesoActual, contador, quantum, evento_teclado, panico, fallo>>

\* solicitar_pagina panics with the slot half filled in: it is LISTO, and its
\* datosProceso is null or the page of whoever had the slot before.
SinMemoria(orden) ==
  /\ PaginasLibres = {}
  /\ \E s \in Hueco :
       /\ procesos' = [procesos EXCEPT ![s].pid = pidDisponible,
                                       ![s].prioridad = orden.prioridad,
                                       ![s].estado = "LISTO",
                                       ![s].operacion = orden.operacion]
       /\ proceso_colocar' = s
  /\ panico' = TRUE
  /\ UNCHANGED <<actual, pidDisponible, procesos_listos, procesoActual, contador,
                 quantum, paginas, evento_teclado, fallo>>

agregarProceso(orden) == NoSePuedeColocar \/ Colocar(orden) \/ SinMemoria(orden)

-----------------------------------------------------------------------------
(* eliminarProceso: every entry that holds the pid, whatever its state.     *)

ConPid(pid) == {s \in Ranuras : procesos[s].pid = pid}

eliminarProceso(pid) ==
  /\ procesos' = [s \in Ranuras |->
       IF s \in ConPid(pid) THEN [procesos[s] EXCEPT !.estado = "TERMINADO"]
                            ELSE procesos[s]]
  /\ procesos_listos' = (procesos_listos - Cardinality(ConPid(pid))) % ModListos
  /\ UNCHANGED <<actual, proceso_colocar, pidDisponible, procesoActual, contador,
                 quantum, paginas, evento_teclado, panico, fallo>>

-----------------------------------------------------------------------------
(* aumentar_timer, one action per path through it.                          *)

elActual == procesos[procesoActual]
suPagina == elActual.datosProceso
suResultado == Resultado(elActual.operacion, paginas[suPagina].numero)
ConEstadoSinListo(e) ==                        \* mutant: a preempted process is not reset
  [procesos EXCEPT ![procesoActual].estado = IF e = "LISTO" THEN "EJECUTANDO" ELSE e]
ConEstado(e) == [procesos EXCEPT ![procesoActual].estado = e]
TrasOperar ==
  [paginas EXCEPT ![suPagina].numero = NumeroTras(elActual.operacion, @)]

ListosIgual == UNCHANGED procesos_listos        \* mutant: procesos_listos-- is forgotten
UnListoMenos == procesos_listos' = Menos1(procesos_listos, ModListos)

\* The interrupt counts; every TicksPorQuantum-th one closes a quantum.
Tic == contador' = Mas1(contador, TicksPorQuantum)

TicSinQuantum ==
  /\ Tic
  /\ contador' # 0 \/ procesos_listos = 0
  /\ UNCHANGED <<procesos, actual, proceso_colocar, pidDisponible, procesos_listos,
                 procesoActual, quantum, paginas, evento_teclado, panico, fallo>>

TicQuantum ==
  /\ Tic
  /\ contador' = 0
  /\ procesos_listos # 0
  /\ UNCHANGED <<proceso_colocar, pidDisponible, panico>>

\* The process that held the processor can no longer run: look for another.
QuantumSinActual ==
  /\ TicQuantum
  /\ ~EstaListo(elActual)
  /\ quantum' = Mas1(quantum, ModQuantum)
  /\ scheduler_RR(procesos, procesos_listos)
  /\ UNCHANGED <<procesos, procesos_listos, paginas, evento_teclado, fallo>>

\* The operations write through datosProceso first of all; through a null
\* pointer, that is the end.
QuantumFalla ==
  /\ TicQuantum
  /\ EstaListo(elActual)
  /\ suPagina = Nulo
  /\ procesos' = ConEstado("EJECUTANDO")
  /\ quantum' = Mas1(quantum, ModQuantum)
  /\ fallo' = TRUE
  /\ UNCHANGED <<actual, procesos_listos, procesoActual, paginas, evento_teclado>>

\* ejecutarProceso: the current process runs its operation once.
ejecutarProceso ==
  /\ TicQuantum
  /\ EstaListo(elActual)
  /\ suPagina # Nulo
  /\ UNCHANGED fallo
  /\ evento_teclado' = (evento_teclado \/ elActual.operacion = "shell")

QuantumTermina ==
  /\ ejecutarProceso
  /\ suResultado = 0
  /\ procesos' = ConEstado("TERMINADO")
  /\ paginas' = LiberarPagina(TrasOperar, suPagina, elActual.pid)
  /\ UnListoMenos
  /\ quantum' = 0
  /\ scheduler_RR(procesos', procesos_listos')

QuantumEspera ==
  /\ ejecutarProceso
  /\ suResultado = 1
  /\ procesos' = ConEstado("ESPERANDO")
  /\ paginas' = TrasOperar
  /\ UnListoMenos
  /\ quantum' = Mas1(quantum, ModQuantum)
  /\ scheduler_RR(procesos', procesos_listos')

QuantumExpropia ==
  /\ ejecutarProceso
  /\ suResultado = -1
  /\ Mas1(quantum, ModQuantum) = quantumTotal
  /\ procesos' = ConEstado("LISTO")
  /\ paginas' = TrasOperar
  /\ quantum' = 0
  /\ scheduler_RR(procesos', procesos_listos)
  /\ UNCHANGED procesos_listos

QuantumSigue ==
  /\ ejecutarProceso
  /\ suResultado = -1
  /\ Mas1(quantum, ModQuantum) # quantumTotal
  /\ procesos' = ConEstado("EJECUTANDO")
  /\ paginas' = TrasOperar
  /\ quantum' = Mas1(quantum, ModQuantum)
  /\ UNCHANGED <<procesos_listos, actual, procesoActual>>

aumentar_timer ==
  /\ ~fallo
  /\ \/ TicSinQuantum
     \/ QuantumSinActual
     \/ QuantumFalla
     \/ QuantumTermina
     \/ QuantumEspera
     \/ QuantumExpropia
     \/ QuantumSigue

-----------------------------------------------------------------------------
(* The commands that reach the scheduler.  The keyboard delivers them once  *)
(* the shell has run; kill[0] is refused by the shell.                      *)

Crear ==
  /\ evento_teclado /\ ~panico
  /\ pidDisponible <= MaxPid
  /\ \E orden \in Ordenes : agregarProceso(orden)

Matar ==
  /\ evento_teclado /\ ~panico
  /\ \E pid \in 1 .. MaxPid : eliminarProceso(pid)

\* Fallo_pagina loops with the timer's request in service: nothing else runs.
Detenido == fallo /\ UNCHANGED vars

\* The state in which _start falls asleep: the shell is the only process and
\* the scheduler has chosen it.  The timer has been counting since sti.  The
\* kernel holds some of the pages; how many are left is up to the machine.
Init ==
  \E p \in Paginas : \E delKernel \in SUBSET (Paginas \ {p}) :
    /\ procesos = [s \in Ranuras |->
         IF s = 0 THEN [pid |-> 1, prioridad |-> 0, estado |-> "LISTO",
                        operacion |-> "shell", datosProceso |-> p]
                  ELSE Vacia]
    /\ actual = 0
    /\ proceso_colocar = SigRanura(0)
    /\ pidDisponible = 2
    /\ procesos_listos = 1
    /\ procesoActual = 0
    /\ contador \in 0 .. (TicksPorQuantum - 1)
    /\ quantum = 0
    /\ paginas = [q \in Paginas |->
         IF q = p THEN Bloqueada(1, 0)
         ELSE IF q \in delKernel THEN Bloqueada(0, 0)
              ELSE [estado |-> 0, pid |-> 0, numero |-> 0]]
    /\ evento_teclado = FALSE
    /\ panico = FALSE
    /\ fallo = FALSE

Next == aumentar_timer \/ Crear \/ Matar \/ Detenido

Spec == Init /\ [][Next]_vars

\* The timer never stops; the user owes nothing.
FairSpec == Spec /\ WF_vars(aumentar_timer)

-----------------------------------------------------------------------------
(* Correctness.                                                             *)

\* Every pointer stays in its table and every counter in its width, after wraps and
\* after a panic half way through a creation too.
TipoOK ==
  /\ procesos \in [Ranuras -> Entrada]
  /\ actual \in Ranuras
  /\ proceso_colocar \in Ranuras
  /\ pidDisponible \in Nat \ {0}
  /\ procesos_listos \in 0 .. (ModListos - 1)
  /\ procesoActual \in Ranuras
  /\ contador \in 0 .. (TicksPorQuantum - 1)
  /\ quantum \in 0 .. (ModQuantum - 1)
  /\ paginas \in [Paginas -> [estado : {0, 1}, pid : Nat, numero : 0 .. (ModNumero - 1)]]
  /\ evento_teclado \in BOOLEAN
  /\ {panico, fallo} \subseteq BOOLEAN

\* One processor: at most one entry says EJECUTANDO, and it is the one the
\* timer will run next (procesoActual), through kills and reuse of its slot.
UnSoloEjecutando ==
  \A s \in Ranuras : procesos[s].estado = "EJECUTANDO" => s = procesoActual

\* No two entries ever filled in hold the same pid, so kill[pid] and
\* liberar_pagina name one process.  The entry that a panic left half filled in
\* holds the next pid, which is nobody else's either.
PidsUnicos ==
  /\ \A s \in Ranuras : procesos[s].pid <= pidDisponible
  /\ AMedias # {} => panico
  /\ \A s \in Ranuras : procesos[s].estado # "NUEVO" => procesos[s].pid # 0
  /\ \A s, t \in Ranuras : procesos[s].pid = procesos[t].pid /\ procesos[s].pid # 0 => s = t

\* A live process has an operation to run, and the page it works on is blocked
\* and belongs to it: neither the end of another process nor a new process takes
\* it away, and a panic in a creation takes no other process's.  (The process left
\* half created may still end the kernel for all of them: FallaSoloTrasPanico.)
DatosPropios ==
  \A s \in Vivos :
    /\ procesos[s].operacion \in Operaciones
    /\ s \notin AMedias =>
         /\ procesos[s].datosProceso \in Paginas
         /\ paginas[procesos[s].datosProceso].estado = 1
         /\ paginas[procesos[s].datosProceso].pid = procesos[s].pid

\* Fallo_pagina is the end of a kernel that had run out of memory before: no
\* process is ever run without its page otherwise.
FallaSoloTrasPanico == fallo => panico

\* The slots are first filled in order, so that listaProcesos, which stops at
\* the first slot whose pid is 0, shows every live process.
NadieTrasElFin ==
  \A s \in Vivos : \A t \in 0 .. s : procesos[t].pid # 0

\* Why: until the table has been filled once, the slots never used are those
\* from proceso_colocar on (after it, when a panic left that one half filled in).
LlenadoEnOrden ==
  /\ AMedias \subseteq {proceso_colocar}
  /\ (\E s \in Ranuras : procesos[s].pid = 0) =>
       \A s \in Ranuras : procesos[s].pid = 0 <=> s >= proceso_colocar /\ s \notin AMedias

\* The pointer procesoActual and the index actual name the same entry between
\* handlers, so the next scan starts after the process that has just run.
ActualYPuntero == procesoActual = actual

\* procesos_listos follows the table: every step changes it by the number of
\* entries that became ready less those that stopped being so.  The exceptions
\* are the kill of an entry that was not ready (waiting, or dead already),
\* which eliminarProceso subtracts all the same, and the creation that panics.
MataNoListo ==
  \E pid \in 1 .. MaxPid : eliminarProceso(pid) /\ ConPid(pid) \subseteq Ranuras \ Listos
CuentaSigueATabla ==
  [][\/ MataNoListo
     \/ panico # panico'
     \/ procesos_listos' = (procesos_listos + Cardinality(Listos') - Cardinality(Listos))
                              % ModListos]_vars

\* A process that leaves the table frees its page, and only its page, unless
\* it leaves by kill: eliminarProceso frees nothing.  The process left half
\* filled in by a panic frees nothing when it ends: the page it has used is
\* somebody else's, and liberar_pagina refuses.
SalidaLibera ==
  [][\A s \in Vivos :
       ~EstaVivo(procesos'[s]) =>
         \/ \E pid \in 1 .. MaxPid : eliminarProceso(pid)
         \/ \A p \in Paginas :
              paginas'[p].estado =
                IF p = procesos[s].datosProceso /\ s \notin AMedias THEN 0
                                                                   ELSE paginas[p].estado]_vars

\* No starvation: a ready process that no ready process of better priority
\* holds back is not passed over for ever, whatever is created and killed,
\* while the counter procesos_listos lets the scheduler run at all.
Postergado(s) ==
  /\ ~fallo
  /\ procesos_listos # 0
  /\ s \in Elegibles(procesos)
SinInanicion == \A s \in Ranuras : []<>~Postergado(s)

\* planificador.h:5 "round robin Q=5": a process that is running is within its
\* quantumTotal quanta, the count at which it is preempted.
QuantumAcotado ==
  \A s \in Ranuras : procesos[s].estado = "EJECUTANDO" => quantum <= quantumTotal

\* shell.c:110 "crearProceso1[<mensaje>]: Imprime Mensaje de 1 - 100": a process
\* created to count up to LimiteImprimir gets there (or is itself killed), once
\* the user has stopped killing processes.
CuentaPendiente(s, pid) ==
  /\ procesos[s].pid = pid
  /\ procesos[s].operacion = "imprimir100"
  /\ EstaListo(procesos[s])
  /\ ~panico
Imprime1a100 ==
  <>[][~Matar]_vars =>
    \A s \in Ranuras, pid \in 1 .. MaxPid : []<>~CuentaPendiente(s, pid)

=============================================================================
