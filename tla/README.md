# dumpOS in TLA+

TLA+ modules for the kernel of `Sistema-Operativo-Final` (dumpOS), a small
x86-64 kernel booted by Limine: a round-robin scheduler driven by the timer
interrupt, a page allocator, a shell that runs inside the keyboard interrupt,
and a printf. TLC checks the modules on small instances; TLAPS proves the main
safety properties for every size of the tables and of the line buffer.

Paths below are relative to the directory `src/` of the repository.
Definitions keep the names of the code (Spanish) where TLA+ allows it.

## 1. Inventory

| Part | Code | State | Operations | Modelled in |
|---|---|---|---|---|
| Scheduler and process table | `planificador/planificador.c` | `procesos[20]`, `actual`, `procesoActual`, `proceso_colocar`, `pidDisponible`, `procesos_listos`, `pit->contador`, `pit->quantum` | `agregarProceso`, `eliminarProceso`, `scheduler_RR`, `ejecutarProceso`, `aumentar_timer`, `listaProcesos` | `SchedulerRR`, `BuscarProceso`, `Planificador` |
| Process bodies | `planificador/proceso.c` | `datos.numero` on the page of the process | `procesoImprimir100`, `procesoImprimir_0`, `procesoInfinto` | `Planificador` |
| Page allocator | `memoria/memoria.c` | `memoria_trabajo`, `region_memoria[]` (inside the region it describes), `ultimo_pagina`, `total_paginas` | `iniciar_memoria`, `iniciar_paginas`, `solicitar_pagina`, `liberar_pagina`, `verMemoria`; `leer_pagina`, `escribir_pagina`, `set_usuario`, `set_demas`, `ver_permisos` (no caller) | `MapaMemoria`, `TablaPaginas`, `BuscarPagina`, `Memoria` |
| Kernel start, interrupts | `kernel.c`, `io/*.c` | the interrupt flag, the 8259, the stack of active handlers | `_start`, `iniciar_interrupciones`, `remap_pic`, `Int_timer`, `Int_teclado`, `pic_end_master`, `Fallo_pagina` | `Interrupciones` |
| Shell | `shell/shell.c` | `cadena[256]`, `index` | `manejar_teclado`, `comandoBuscar` and its commands, `shell_comandos` | the line: `Shell`, `EditorLinea`; which command: `Comandos`; what it does: `Planificador`, `Interrupciones` |
| Keyboard | `entrada/teclado.c` | the shift flags, `evento_teclado` | `recibir_codigo`, `codigo_caracter`, `habilitar_teclado` | `Shell` |
| String helpers | `util/string.c` | two static buffers | `separar_cadena`, `convertir_a_entero`, `comparar_*`, `llenar_memoria` | `Comandos`, `Shell` |
| printf | `printf/*` | the output, the caller's buffer, the interrupt flag | `printf_` and five more over `_vsnprintf` | `Printf`; the flag: `Interrupciones` |
| Panic | `util/error.c` | a handler that never ends | `kernel_panic` | a state of `Interrupciones`, `Planificador`, `Memoria` |
| Boot services, Limine header | `bootloader/*` | the memory map | accessors | the map: `MapaMemoria` |

### How the parts interact

There is one processor and no context switch. A *process* is an entry of the
table with a function that the timer interrupt calls once per quantum and that
returns 0 (ended), 1 (waits) or -1 (goes on). Everything after the start runs in
one of two interrupt handlers:

    timer     Int_timer -> aumentar_timer -> operation of procesoActual
                                          -> liberar_pagina, scheduler_RR
    keyboard  Int_teclado -> recibir_codigo -> evento_teclado = manejar_teclado
                          -> comandoBuscar -> agregarProceso -> solicitar_pagina
                                           -> eliminarProceso, listaProcesos

The keyboard reaches the shell only after the timer has run the shell process,
which installs the callback and then waits for ever. Before all that `_start`
chooses the region of memory and takes the first pages. Everybody prints.

### What is hard here

* **Nested interrupts.** `printf_`, `agregarProceso` and `listaProcesos` end in
  `sti`, also when they are called with the interrupts disabled; `Int_timer`
  executes `sti` before its `iretq`. Handlers nest in commands and in each other,
  and `_start` itself runs `scheduler_RR` with the interrupts on.
* **A panic that stops only its caller.** `kernel_panic` prints, which enables the
  interrupts, and loops in the handler it was called from. A panic in a command
  takes the keyboard away for good; the timer, which has priority, goes on with
  what the command left half done.
* **Stale pointers.** `procesoActual` goes on pointing to a slot after its process
  has ended or been killed, and the slot may be reused before anybody looks.
* **Counters that only follow the table.** `procesos_listos` is kept by hand and
  decides whether anybody runs; `pit->quantum` is one counter for all processes
  and is compared with `==`.
* **Circular searches** with a first element, a wrap and a second round.
* **A table inside the memory it manages**, of which an eighth is reserved.
* **Partial failure**: `solicitar_pagina` panics in the middle of `agregarProceso`.
* **A buffer with a past**: Backspace moves the index and leaves the character;
  shift subtracts 32 from whatever the table gives, a 0 included.
* **Edges**: 32-bit pids that wrap, static buffers of 50 for lines of 255, fields of
  32 digits in printf, a limit of 0.

### What makes each part correct

* Scheduler: one process at most is `EJECUTANDO`; pids name one process; a live
  process owns its page; the listing reaches every process; the counter follows
  the table; nobody is passed over for ever; a quantum is bounded.
* Searches: they return what the one-step description says, and they end.
* Page allocator: a page has one holder, is blocked in that holder's name, and
  only kills lose pages.
* Start: the region of work is the largest usable one.
* Shell: what Enter runs is what the line holds (or, after an erasure, exactly the
  line and what is left of the erased characters); a command written as its usage
  says is recognised with its argument; kill ends whom it names.
* printf: numbers are read back, fields have their width, nothing is lost, nothing is
  written past the buffer.
* Interrupts: operations on the table do not overlap, every end-of-interrupt
  acknowledges its own request, and the kernel never sleeps with the interrupts off.

The hazards, each at its line with the properties that watch it, are in
`PROJECT.json`.

## 2. Modules

    SchedulerRR <--EXTENDS-- Planificador <-- MCPlanificador, Planificador_proofs
        ^ INSTANCE (refinement)
    BuscarProceso <-- BuscarProceso_proofs

    TablaPaginas <--EXTENDS-- Memoria <-- MCMemoria, Memoria_proofs
        ^ INSTANCE (refinement)
    BuscarPagina <-- BuscarPagina_proofs

    MCVivacidad --EXTENDS--> BuscarProceso, BuscarPagina; --INSTANCE--> Planificador

    Interrupciones <-- Interrupciones_proofs

    EditorLinea <--INSTANCE (refinement)-- Shell <--EXTENDS-- Comandos <--EXTENDS-- Consola <-- MCConsola
                                        MapaMemoria, Printf <--INSTANCE----------------+
    Shell_proofs <--EXTENDS-- Comandos_proofs <--EXTENDS-- Consola_proofs    (of Shell, Comandos, Consola)

**SchedulerRR** is `scheduler_RR` as one step: the nearest ready process of the
best ready priority, counted from `actual`. **BuscarProceso** is the loop of the
code, one iteration a step, for one call over any table; its property
`RefinaScheduler` says that the call, as its caller sees it (the index `actual`
changes at the return), is one step of SchedulerRR. `actualVisto` is the
refinement mapping.

**Planificador** is the scheduler with its two drivers. One action per path of
`aumentar_timer` (`TicSinQuantum`, `QuantumSinActual`, `QuantumTermina`,
`QuantumEspera`, `QuantumExpropia`, `QuantumSigue`), one per outcome of
`agregarProceso` (`Colocar`, `NoSePuedeColocar`, `SinMemoria`), and
`eliminarProceso`. `Crear` and `Matar` are the commands of the shell: `Crear`
makes one creation, so the timer may run between the four of `run1`. `Init` is the
state in which `_start` falls asleep, with any number of pages left to the processes. After a panic (`panico`) the commands are
gone and the timer goes on: the half-filled entry (`AMedias`) is `LISTO`, and when
its turn comes it either works on the page of the slot's previous process or ends
the kernel in `QuantumFalla` (`fallo`). Counters have their widths
(`ModQuantum`, `ModListos`, `ModNumero`), as constants. The page a creation gets is
any free one: which one is the subject of Memoria.

**TablaPaginas** is the page table with `iniciar_paginas`, `solicitar_pagina` and
`liberar_pagina` as single steps; **BuscarPagina** is the loop of
`solicitar_pagina` and implements its step (`ultimoVisto` is the mapping).
**Memoria** adds `verMemoria` and the holders of the pages (three requests of the kernel under
pid 0, then the processes), who end, are killed, and *write on their pages*
(`Escribir`): a page that holds entries of the table gets any value of `Basura` in
them. An index one past the table, which the search reads, is part of the state.
**MapaMemoria** comes before: the loop of `iniciar_memoria` over the boot loader's map.

**Interrupciones** is the machine below: `pila` is `_start` with the active
handlers on top, `rflagsIF` the interrupt flag, `pendientes` and `enServicio` the
8259. Of the process table it keeps what decides whether the timer touches it
(`hayListos` is `procesos_listos # 0`, `elegido` is `procesoActual # NULL`); its
updates by an operation are nondeterministic. A quantum is cut where its process prints:
`Aumentar` counts it, `Ejecutar` runs the process, which may enable the interrupts
(`Imprime`: a step that prints sets the flag), and `Actualizar` is the work on the table that
`aumentar_timer` does after that (`planificador.c:156-177`). The panic and the page fault are loops of the frame they happen in. The boot loader's masks, the
priority of the 8259, the interrupt gates and `iretq` are external. That a read
through a null pointer faults (page 0 is not mapped by Limine) is an assumption
about the boot loader.

**Shell** is the way of a key: `recibir_codigo`, the two shift keys, `codigo_caracter`
and `manejar_teclado` over the buffer and its index; `orden` is the string that the
last key gave to `comandoBuscar`. Characters are their codes, as the code computes
with them. The byte past the table, which the code 58 reads, is any of
`TrasLaTabla`. **EditorLinea** is what that amounts to for the user: a line, and the
*rest* of the erased characters that is still behind it. Enter runs both. The
mapping is `linea <- cadena[0 .. index-1]`, `restos <- ` what follows up to the 0.

**Comandos** is `comandoBuscar` with the helpers of `string.c`, on strings without their
final 0. The names are a constant, so that TLC can use short ones; what the
properties need of them is that they differ as the real ones do.

**Printf** is `_vsnprintf` with its sinks and the six functions over it, a directive a
step. A format is already cut into directives, each with its argument: a number,
a string, a character. The four widths of integers are moduli. The space is the
character `ESP`, the 0 is `NUL`.

**Consola** puts the last four side by side, as `_start` and the interrupts do: the map is
read, then keys arrive. As a call of printf depends on nothing else, calls are explored
once, beside the start, instead of at each place that prints.

### Why the steps of Planificador may be atomic

Not because the interrupts are disabled: a process that prints, or `kill`, enables them
in the middle of its operation, and the timer changes the entry's state, the page, the
counter and the choice only afterwards. What keeps the timer out of itself in that window is
its request, which is in service until the end of the handler, and it keeps the keyboard,
of lower priority, out too: in `Interrupciones` the frame that is at `actualizar` is in
the table with `rflagsIF` set, and TLC reaches it with both requests pending. Were
`pic_end_master` sent before (`AumentarReconocido`), two operations would overlap. Of
the commands, `agregarProceso` disables the interrupts and does not print before its last
access, and `eliminarProceso` prints after it has changed its entry.
`Interrupciones!ExclusionTabla` checks over every nesting, `_start` included, that two
operations on the table never overlap. The exception the code does have, `scheduler_RR`
of `_start`, is the finding `arranque` below; Planificador starts after it.

### Why the pages of Planificador are trustworthy

`Planificador!DatosPropios` speaks of a page table that nobody overwrites. In the
code that is so for the first `PaginasReservadas * EntradasPorPagina` pages (the
*zone*, an eighth of the region): `Memoria!SinDobleEntrega`. Past them it is
false: the finding `memoria_tabla`.

## 3. Runs

| Run | Shows | Bounds |
|---|---|---|
| `planif_seguridad` | the ten safety and action properties of Planificador | 3 slots, 3 pages, pids to 4, quantum 2 of 2 ticks, counters modulo 4 and `numero` modulo 3, all three kinds of process |
| `vivacidad` | three explorations side by side: the loop of `scheduler_RR` implements SchedulerRR and ends in two rounds; the loop of `solicitar_pagina` implements TablaPaginas and ends; `SinInanicion` under `FairSpec` | every table of 4 slots, every `actual`; every table of 6 pages, every starting index; 3 slots, pids to 3, one process that never ends |
| `planif_quantum` (violation) | a process runs past Q = 5 | the sizes of the source: quantum 5, 10 ticks, 8 and 16 bit counters |
| `planif_conteo` (violation) | a process `crearProceso1` never prints up to 100 | as the scheduler of `vivacidad`, only `crearProceso1` |
| `memoria` | no double grant, no leak but kills, in the zone, after a panic too | 12 pages, 2 entries a page, 2 bytes an entry: 3 reserved pages, a zone of 6 |
| `memoria_free` (violation) | `free` shows 0 while pages are free | the same |
| `memoria_tabla` (violation) | past the zone a page is given twice | 8 pages |
| `interrupciones` | exclusion on the table, EOI, awake when asleep | 4 handlers deep, quantum of 2 ticks, `run1` creates 4 |
| `comando_interrumpido` (violation) | the timer cuts in on a command | the same |
| `arranque` (violation) | the start reads through a null pointer | the same |
| `consola_partes` (violation) | a message that fits in the line does not fit in its part | as `consola`, lines of 7, parts of 3 |
| `consola` | the line buffer implements the editor; only what is typed runs; commands, arguments and pids are those written; the region is the largest; printf is read back, fills its fields and stays in its buffer | lines of 6 (buffer of 7), parts of 4, pids modulo 64, names of one or two characters, four sets of keys; maps of up to 3 entries; some thousands of calls of printf with NTOA buffers of 5 |

**Why the bounds are enough.** With three slots the shell occupies one, and the
other two are filled, killed, reused and full; pids up to 4 give three creations,
so a slot is reused and memory runs out (a killed process keeps its page, so three
pages end in the panic); initial states with one or two pages left make it happen in a
slot never used before, where the timer then fails. Counters modulo 3 and 4 wrap within a few steps, which is the
case of interest; quantum 2 makes both the limit and the step over it happen. The
searches are checked on *all* tables of their size and proved for every size. In
`memoria` the zone ends among the pages given, so both sides of it are reached.
Four nested handlers let the timer nest twice on each side of the keyboard.
In `consola` a line of six fills up, is erased and rewritten, and takes the longest
command with its bracket, an argument that passes the part buffer of 4, and a number
that wraps at 64. The four sessions separate what multiplies states: commands, both
shift keys, no shift keys, and the keys without a character. Maps of three
entries have two candidates and one that is not, in every order. Directives are
explored with every combination of flags on widths and precisions below, at and above
the buffer of 5; functions and limits, on formats of three elements.

`vivacidad` starts in one of three kinds of state, a search of processes, a search of pages or a
scheduler at work, and takes steps of that kind only (MCVivacidad): the explorations share a
run and nothing else. In `consola_partes` sizes are small in the order of the real ones: a part
(50) holds the longest name with its 0, the line (256) holds a message that the part does not.

**Named bounds.** `MaxPid` (the last pid given out) in Planificador and Memoria,
`Profundidad` (active handlers) in Interrupciones, `Sesiones` (the keys a user uses) in
Shell, `Mapas` in MapaMemoria, `Llamadas` in Printf, `RegionDeSesion` (the keys are
explored with one region) in Consola. Because of `MaxPid` the width of
`pidDisponible` (32 bits) is not reached; `pit->contador` (64 bits) is kept modulo
`TicksPorQuantum`, which 2^64 is not a multiple of: one quantum in 2^64 ticks is
short, and is not modelled.

**Fairness.** `FairSpec` of Planificador has `WF_vars(aumentar_timer)`: the timer is
programmed once and never stopped, and the kernel sleeps with the interrupts on
(`DuermeDespertable`). Nothing is assumed of the user, who may create and kill for
ever. The two loops have `WF_vars(Next)`: they run with the interrupts disabled or with
the timer's request in service, so nothing suspends them (the one of `_start` may be
interrupted, and goes on when the handler returns).

**Symmetry.** Pages are model values permuted in `planif_seguridad` and
`planif_quantum` (safety only); pids and slots are ordered by the code and are not.

## 4. What the violations say of the code

* `planif_quantum` - `pit->quantum == quantumTotal` is stepped over when the
  quantum that found the current process not runnable counted too
  (`planificador.c:147-153`); the process then runs until the `uint8_t` wraps.
* `planif_conteo` - `eliminarProceso` subtracts processes that were not counted
  (waiting or dead): `kill[1]` of the waiting shell makes the counter wrap, the next
  creation takes it to 0, and the timer runs nobody although a process is `LISTO`.
* `memoria_tabla` - `iniciar_paginas` reserves `total_paginas / 0x1000` pages for a
  table of 8 bytes an entry, and clears an eighth of it.
* `memoria_free` - the loop of `verMemoria` stops at `total_paginas / 0x1000`, the number of the
  reserved pages, all blocked: `free` prints `0/n memoria disponible` whatever is left.
* `consola_partes` - `separar_cadena` copies the message of `crearProceso1[<mensaje>]` into
  `temp2[50]` with no test of its length, and the line takes up to 255 characters. What
  happens after is not modelled: the modules keep the part whole, so what they say of an
  order (`OrdenReconocida`, `MataAlEscrito`) is about the code only while its parts fit.
* `comando_interrumpido` - the `sti` of `printf_`, `agregarProceso` and `listaProcesos`
  re-enables the interrupts inside the command that `shell.c:13` runs with them
  disabled. The table is not harmed (`ExclusionTabla`); what the shell and a process
  print may interleave, and the rows of `ps` are of different moments.
* `arranque` - `procesoActual` is null from `kernel.c:29` to the end of line 30 while the
  timer already counts and `procesos_listos` is 1.

More things the models carry without a finding, as no text promises the
contrary: what is erased is run all the same (`restos` of EditorLinea), and a full line can
be neither run nor erased; '*' of the keypad with shift is Enter, and a key without a
character writes one (`SoloLoTecleado` says what can be typed); `kill5` is a kill
without argument, refused, and `kill[-5]` kills 5; an integer on the left of its field loses the zeros of its
precision (`printf.c:231`), which is why `CampoCompleto` compares a field with the same
directive *on its side*; a panic in a command leaves the timer running; the search grants the page `total_paginas`, past the region, if the bit
it reads past the table is 0; and a search that starts at index 0 with every page
blocked never ends (`SinFin`, the exception of `BuscarPagina!TerminaPagina`).

## 5. Proofs

All theorems are for every value of the constants that satisfies the named
assumptions (`TotalesPositivo`, `AnchosPositivos`, `LimitesEnRango`, `PaginasFinitas`,
`OrdenesDelShell`, `TotalPositivo`, `TamanosPositivos`, `BufferConSitio`, ...), which TLC
evaluates in the runs. Those that say more than a size:

* `NombresDistintos`, `NombresSinCorchete` (Comandos): the names of the commands have no
  '[' and, up to it, no name that takes an argument begins another. They are the names of
  `shell.c`.
* `TiposDistintos` (Consola): the usable memory and the kernel's have different numbers in
  `limine.h:257`, `limine.h:263`. `LongitudesNaturales`: a length of the map is a `uint64_t`.
* `FormatosDados` (Consola): what the parser of formats and `va_arg` hand over: a
  conversion, flags, a width, at most a precision, a string for `%s`, a number for the
  conversions of integers; limits are of `size_t`, and a width of integer has some value.

**Planificador_proofs.** `IInv` is `TipoOK` with `UnSoloEjecutando`, `PidsUnicos`,
`DatosPropios`, `LlenadoEnOrden` and `ActualYPuntero`. None of these is inductive
alone: that a preempted entry is the only one running needs the pointer to name
it; that a page freed by an ending process is nobody else's needs unique pids;
that a new pid is new needs all pids below `pidDisponible`. `NadieTrasElFin`, what
`ps` relies on, follows from `LlenadoEnOrden`. One lemma per operation
(`ColocarInvariante`, `SinMemoriaInvariante`, `EliminarInvariante`,
`TimerInvariante`), and `FinDeTurno` for what the paths of the timer share.

A panic adds one entry with the pid that is still to be given; `AMedias` names it, and
`FallaSoloTrasPanico` holds because only that entry can lack a page.

The two action properties follow from `IInv` step by step. For
`LaCuentaSigueALaTabla`, a step moves at most two entries (the one that ran and the one
chosen), and `EstadoYListos` gives the number of runnable entries after the change of
one; modulo its width, `++` and `--` of the counter follow. For `LaSalidaLibera` one
fact more is needed, `PaginasDeAntes`: every page is in the name of a pid already given,
so the entry left half filled in, whose pid is still to be given, has no page to
free when it ends, and `liberar_pagina` refuses the one of the slot's previous process.

`LaEsperaDecrece` is what of `SinInanicion` can be proved: a measure of the wait of an
eligible process, first the slots between the scan and it (`Distancia`), then the quanta
left to the process that has the processor (`FaltaDelTurno`, which counts the wrap of the
`uint8_t` as the code does). Every quantum makes it smaller or runs the process
(`ElBarridoSeAcerca`, `SigueUnoMenos`), creations, kills and tics leave it alone, and
`LaEsperaEsAcotada` bounds it. So a process is passed over for at most `ProcesoTotales *
ModQuantum` quanta; that the quanta come is the fairness of the timer.

**Interrupciones_proofs.** The invariant describes the stack of handlers. `PilaBien`:
`_start` is at the bottom and nowhere else. `CerradosArriba`: a frame in the middle of a
step with the interrupts disabled, or at `actualizar`, is on top (`Arriba`). For the second the
flag says nothing, as its process may have enabled the interrupts; it is that the handler of the
timer has not acknowledged its request, so `Interrumpir` admits neither line. `NadieAntes`: until `_start` sleeps no process
is chosen and the keyboard has no callback, so the handlers that cut in on the search of
`_start` do not reach the table. These two are what
`ExclusionTabla` rests on: of two frames in the table the lower one is not on top, so it is
`_start` searching, and then the upper one cannot be there. `CadaEOIEsSuyo` is inductive
with them: the requests in service are those of the handlers that have not acknowledged.
A lemma says once what a step that changes only the frame on top must satisfy
(`CambioBase`); a step of the machine is then a case of it, a handler that enters, or one
that returns.

**BuscarProceso_proofs, BuscarPagina_proofs.** The loop invariant says that what is
nearer than the current index does not serve; the exits of the loop are then
exactly the disjuncts of the one-step description, which gives `ElBucleEsElPaso`,
the refinement. For the scheduler `ElBucleEsAcotado` adds a variant that every
iteration decreases, from `2 * ProcesoTotales + 2`: no interrupt
gets in meanwhile, so this bounds how long the timer waits. For the pages `UnaVueltaBasta`
says that an iteration goes one position further and stays within a turn, unless the search
is `SinFin` (`UltimaSinNinguna`: only then does one from index 0 go on from the last
page); and `LaBusquedaSinFinNoSale`, that this one is never left.

**Memoria_proofs.** The argument is about the zone. A page of the zone has its
entry in a reserved page; pages given to clients lie past the reserved ones, so
what a client writes falls on entries past the zone (`EscribirFueraDeZona`); and
`iniciar_paginas` clears at least the zone (`ZonaLimpia`, an inequality on
quotients). `IInv` then says that holders and lost pages are apart and are all
that is blocked. `enZona` is a history variable: once a page past the zone has
been given, nothing is claimed.

`LaMemoriaEsUnPozo` joins this module to Planificador, whose creations take any free page
of a set: with the pages of the zone for that set (`pozo`), a request is `PozoConcede` or,
with none free, `PozoSinMemoria`; the end of a process is `PozoLibera`, never the refusal of
`liberar_pagina`; and what clients write on their pages is a stutter.

**Shell_proofs.** `TipoOK` and `SinRestosViejos` are inductive together: the buffer is
characters up to a first 0 at or behind the index, and 0 from there on, because only
`NuevaLinea` shortens it and it clears everything. This gives the length of the string
that Enter runs and, action by action, the step of EditorLinea (`ImplementaEditor`): an
insertion overwrites the first of the rest, an erasure adds to it.

`SoloLoTecleado` needs only the types and that a shift flag is set by a key of the
set (`ShiftTecleado`).

**Comandos_proofs.** `separar_cadena` cuts at the first '[' and the first ']' after it, so of an
order written as its usage says the second part is the argument (`ParteEsArgumento`). For
`ReconoceLaOrden` the chain of comparisons must stop at the right name: `PrefijosComparables` (two prefixes of
one order are prefixes of one another) with `NombresDistintos` gives `UnSoloComando`. The first
place of a character is the minimum of a set, which exists because `<` is well founded
on the naturals.

`MataAQuienSeEscribe` needs what a recursive function computes. The induction theorems of
the library take an operator, which the provers cannot instantiate, so the induction is on
a *set* of naturals: `Induccion` follows from `HayMinimo` on the naturals that are missing,
and `Recursion` gives the function, digit by digit, whose defining equation the `CHOOSE`
of a recursive definition then satisfies. `ModuloPasa` (the remainder may be taken at
each digit or at the end) makes `Numero` the `Valor` modulo 2^32. The other half, that a kill
written with the number of a process is a kill of it, is then `ParteEsArgumento` and the chain.

**Consola_proofs.** `ConsolaEsShell`: what is not a step of the shell leaves it alone, so
all that is proved of the shell and its orders holds of the console (`LineaDeConsola`).

`EligeLaMayor`: `IInvMapa` relates the region chosen to the entries read so far; one lemma
says how the useful ones grow by an entry (`UtilesAlLeer`) and one that the first of
the largest remains so (`MayorAlLeer`).

`CamposCompletos` computes the length of what each function of `printf.c` produces,
from `_out_rev` up (`out_revLargo`, `CerosLargo`, `PonerSignoLargo`, `FormatoLargo`), and compares
it with and without the width. The proof of an earlier form of the property, which
compared a field on the left with its contents on the right, failed: with a negative width
and a precision wider than it the two differ, as the code ignores the precision on the left.
TLC shows it once such a width is among the bounds, and now one is.

`NoEscribeFuera`: between calls the memory is as it was, each element is written inside the
limit, and the closing 0 falls behind the text or in the last place; that the text
is finite (`PiezaTexto`) keeps the index a natural.

`EscribeTodo`: during a call there is a text already written, which with what is left of the
format makes the whole one, and index, console and buffer are those of that text
(`YaEscrito`). This is inductive because the text of a format begins with its first piece
(`FormatoPorPiezas`) and the console drops the 0s piece by piece (`SinCerosJuntos`), both
from one fact about `FlattenSeq`, that it goes over a concatenation (`AplanarJuntos`, by
the induction of Comandos_proofs).

`NumerosLegibles` is about two loops, the one of `_ntoa_long` that takes digits off a value
and the one with which the property reads them. `Vueltas` says what the first leaves: `q[k]`
after `k` turns, from the value to 0. The buffer then holds the digits of `q` and, behind
them, zeros, a prefix and a sign (`Numeral`); `_ntoa_format` keeps that form with each
character it adds (`NumeralConCeros`, `NumeralConUnoMas`, `NumeralConPrefijo`, `SignoAlFinal`), and
`_out_rev` turns it round between spaces (`out_revContenido`). Reading from the left, what
has been read before the digit `k` is `q[k]` (`VueltoSeLee`, by `Induccion`), and at the
end `q[0]`, the value. `HayLugar` in the property, which the lemmas carry as `CabeElSigno`,
leaves out the formats in which the code itself cuts a digit or a sign for lack of room in
its buffer.

**Only model-checked.** Liveness (`SinInanicion`, `Termina`, `TerminaPagina`): fairness and ENABLED are
out of the reach of TLAPS here. Their cores without fairness are the theorems
`LaEsperaDecrece`, `ElBucleEsAcotado` and `UnaVueltaBasta`. The other properties of the
passing runs are all theorems; what the seven violations show is left to TLC, which finds
the behaviours.

## 6. Not modelled

* `leer_pagina`, `escribir_pagina`, `set_usuario`, `set_demas`, `ver_permisos`,
  `procesollenarMemoria`, `deshabilitar_teclado`, `esperar_enter` (and its flag
  `enter_teclado`), `len`, `establecer_terminal`: no caller.
* `colocar_velocidad`, `set_offset`, `set_idt_handler` and the words that `remap_pic` sends:
  device and descriptor programming without state the kernel reads back. The divisor
  of the timer does not fit its 16 bits (`planificador.c:32`), so the timer is faster than
  asked for; the models count interrupts, not time.
* The text of messages and of processes (`mensaje`, `asignar_cadena`); `limpiar_pantalla`.
* Floating point in `printf.c` (`_ftoa`, `_etoa`): no format of the kernel asks for it. How a
  format is cut into directives: the cut is given, so a format that ends in '%', which
  reads past its end, is not explored.
* `limine.h`: declarations of a third party. Of the name and version of the boot loader,
  nothing is kept.
* Time: whether a quantum's work fits in a timer period. If it does not, timer
  handlers nest without limit at the `sti` of `Int_timer`; the source states no
  size for the stack.

## 7. Plan

Done: SchedulerRR, Planificador, BuscarProceso, TablaPaginas, BuscarPagina, Memoria,
Interrupciones, Shell with EditorLinea, Comandos, Printf, MapaMemoria and Consola, and
the proofs of section 5.

What is left:

1. Proofs: the step from the measures of section 5 to the liveness properties, with a prover
   that has fairness.
2. The cut of a format into directives, and floating point, if the kernel comes to use it.
3. The permissions of pages, once something calls them.
