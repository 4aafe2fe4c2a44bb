--------------------------- MODULE Interrupciones ---------------------------
(***************************************************************************)
(* One processor, two interrupt lines and the code they cut in on: the     *)
(* start of the kernel (_start), the timer interrupt (Int_timer) and the   *)
(* keyboard interrupt (Int_teclado), with the commands of the shell that   *)
(* the keyboard runs.                                                      *)
(*                                                                         *)
(* The state is who was interrupted by whom, the interrupt flag, and what  *)
(* the 8259 holds; of the process table it keeps only what decides whether *)
(* the timer touches it.  Module Planificador takes each operation on the  *)
(* table as one step: ExclusionTabla below is why it may.                  *)
(*                                                                         *)
(* printf_ begins with cli and ends with sti, whatever the flag was: a     *)
(* step below that prints leaves the interrupts enabled (Imprime).  This   *)
(* holds of kernel_panic and Fallo_pagina too: they print and then go      *)
(* round for ever with the interrupts enabled, so whoever has priority     *)
(* over what they interrupted goes on.                                     *)
(***************************************************************************)
EXTENDS Integers, Sequences, FiniteSets

CONSTANTS
  TicksPorQuantum,   \* timer interrupts that make one quantum (10)
  CreacionesRun1,    \* processes that the command run1 creates (4)
  Profundidad        \* BOUND: handlers active at the same time

ASSUME CotasPositivas ==
  /\ TicksPorQuantum \in Nat \ {0}
  /\ CreacionesRun1 \in Nat \ {0}
  /\ Profundidad \in Nat \ {0}

VARIABLES
  pila,              \* who runs: _start, and above it the active handlers
  rflagsIF,               \* the interrupt flag of the processor
  pendientes,        \* requests the 8259 has latched
  enServicio,        \* requests delivered and not acknowledged (EOI)
  desenmascarado,    \* the lines of the timer and the keyboard are open
  contador,          \* pit->contador, modulo TicksPorQuantum
  hayListos,         \* procesos_listos # 0
  elegido,           \* procesoActual is not NULL
  evento_teclado     \* the shell has enabled the keyboard

cpu == <<pila, rflagsIF>>
pic == <<pendientes, enServicio, desenmascarado>>
nucleo == <<contador, hayListos, elegido, evento_teclado>>
vars == <<cpu, pic, nucleo>>

Timer == 0           \* a lower number has priority in the 8259
Teclado == 1
Lineas == {Timer, Teclado}
Arranque == 2        \* _start: no line
Pasos == {"memoria", "habilitar", "interrupciones", "remapear", "restaurar",
          "desenmascarar", "abrirArranque",
          "agregar", "colocar", "abrir", "buscar", "elegir", "dormir",
          "aumentar", "operar", "actualizar", "recibir", "enter", "comando", "matar", "listar",
          "listando", "abrirComando", "eoi", "sti", "iret", "panico", "fallo"}

cima == pila[Len(pila)]
Ahora(quien, paso) == cima.hace = quien /\ cima.paso = paso
Ir(paso) == pila' = [pila EXCEPT ![Len(pila)].paso = paso]
Cli == rflagsIF' = FALSE
Sti == rflagsIF' = TRUE
Imprime == Sti

\* A message and a loop, in the handler (or _start) that called.
kernel_panic == Ir("panico") /\ Imprime /\ UNCHANGED <<pic, nucleo>>
Fallo_pagina == Ir("fallo") /\ Imprime

-----------------------------------------------------------------------------
(* _start.                                                                  *)

\* cli, iniciar_memoria, iniciar_planificador, which asks for a page: there may be none.
IniciarMemoria ==
  /\ Ahora(Arranque, "memoria")
  /\ \/ Ir("habilitar") /\ Imprime /\ UNCHANGED <<pic, nucleo>>
     \/ kernel_panic

HabilitarPronto ==
  /\ Ahora(Arranque, "habilitar")
  /\ Ir("interrupciones") /\ Sti
  /\ UNCHANGED <<pic, nucleo>>

\* iniciar_interrupciones: cli, a message, a page for the gates, and lidt.
IniciarInterrupciones ==
  /\ Ahora(Arranque, "interrupciones")
  /\ \/ Ir("remapear") /\ Imprime /\ UNCHANGED <<pic, nucleo>>
     \/ kernel_panic

\* remap_pic.  The first initialisation word clears the mask of the 8259; the
\* masks that were read before are written back at the end.
Remapear ==
  /\ Ahora(Arranque, "remapear")
  /\ Ir("restaurar")
  /\ desenmascarado' = TRUE
  /\ UNCHANGED <<rflagsIF, pendientes, enServicio, nucleo>>

RestaurarMascara ==
  /\ Ahora(Arranque, "restaurar")
  /\ Ir("desenmascarar")
  /\ desenmascarado' = FALSE
  /\ UNCHANGED <<rflagsIF, pendientes, enServicio, nucleo>>

\* The page of the timer's count is iniciar_planificador's; the keyboard asks
\* for its own.  The divisor of the hardware timer is not modelled.
iniciar_timer == contador' = 0
iniciar_teclado == evento_teclado' = FALSE

\* iniciar_timer; iniciar_teclado, which takes a page; the masks; a message.
Desenmascarar ==
  /\ Ahora(Arranque, "desenmascarar")
  /\ \/ /\ Ir("abrirArranque") /\ Imprime
        /\ desenmascarado' = TRUE
        /\ iniciar_timer
        /\ iniciar_teclado
        /\ UNCHANGED <<pendientes, enServicio, hayListos, elegido>>
     \/ kernel_panic

AbrirArranque ==
  /\ Ahora(Arranque, "abrirArranque")
  /\ Ir("agregar") /\ Sti
  /\ UNCHANGED <<pic, nucleo>>

\* scheduler_RR, called by _start with the interrupts enabled.
Buscar ==
  /\ Ahora(Arranque, "buscar")
  /\ Ir(IF hayListos THEN "elegir" ELSE "dormir")
  /\ UNCHANGED <<rflagsIF, pic, nucleo>>

Elegir ==
  /\ Ahora(Arranque, "elegir")
  /\ Ir("dormir")
  /\ elegido' = TRUE
  /\ UNCHANGED <<rflagsIF, pic, contador, hayListos, evento_teclado>>

-----------------------------------------------------------------------------
(* agregarProceso, called by _start once and by a command of the shell for  *)
(* each process it creates.                                                 *)

Agregadores == {Arranque, Teclado}

TrasAgregarDeMas ==                            \* mutant: one creation too many
  IF cima.hace = Arranque THEN "buscar"
  ELSE IF cima.quedan >= 0 THEN "agregar" ELSE "abrirComando"

TrasAgregar ==
  IF cima.hace = Arranque THEN "buscar"
  ELSE IF cima.quedan > 0 THEN "agregar" ELSE "abrirComando"

Entrar ==
  /\ \E q \in Agregadores : Ahora(q, "agregar")
  /\ pila' = [pila EXCEPT ![Len(pila)].paso = "colocar", ![Len(pila)].quedan = @ - 1]
  /\ Cli
  /\ UNCHANGED <<pic, nucleo>>

Colocar ==
  /\ \E q \in Agregadores : Ahora(q, "colocar")
  /\ Ir("abrir")
  /\ hayListos' = TRUE
  /\ UNCHANGED <<rflagsIF, pic, contador, elegido, evento_teclado>>

\* The table is full: the return skips the sti, after a message.
NoSePuedeColocar ==
  /\ Ahora(Teclado, "colocar")
  /\ Ir(TrasAgregar) /\ Imprime
  /\ UNCHANGED <<pic, nucleo>>

\* solicitar_pagina finds no page: the entry is left half filled in, LISTO.
SinMemoria == (\E q \in Agregadores : Ahora(q, "colocar")) /\ kernel_panic

AbrirSinSti ==                                 \* mutant: agregarProceso forgets its sti
  /\ \E q \in Agregadores : Ahora(q, "abrir")
  /\ Ir(TrasAgregar)
  /\ UNCHANGED <<rflagsIF, pic, nucleo>>

Abrir ==
  /\ \E q \in Agregadores : Ahora(q, "abrir")
  /\ Ir(TrasAgregar) /\ Sti
  /\ UNCHANGED <<pic, nucleo>>

-----------------------------------------------------------------------------
(* Int_timer.  aumentar_timer touches the process table when a quantum      *)
(* closes; the process it runs may be the shell, which enables the keyboard.*)

CierraQuantum == (contador + 1) % TicksPorQuantum = 0 /\ hayListos

TrasAumentar ==
  \/ ~CierraQuantum /\ Ir("eoi") /\ Cli
  \/ CierraQuantum /\ elegido /\ Ir("operar") /\ Cli
  \/ CierraQuantum /\ ~elegido /\ Fallo_pagina

AumentarReconocido ==                          \* mutant: pic_end_master comes before
  /\ Ahora(Timer, "aumentar")
  /\ contador' = (contador + 1) % TicksPorQuantum
  /\ enServicio' = enServicio \ {Timer}
  /\ UNCHANGED <<pendientes, desenmascarado, hayListos, elegido, evento_teclado>>
  /\ TrasAumentar

Aumentar ==
  /\ Ahora(Timer, "aumentar")
  /\ contador' = (contador + 1) % TicksPorQuantum
  /\ UNCHANGED <<pic, hayListos, elegido, evento_teclado>>
  /\ TrasAumentar

\* The process is neither LISTO nor EJECUTANDO: scheduler_RR and return.
Relevar ==
  /\ Ahora(Timer, "operar")
  /\ Ir("eoi")
  /\ UNCHANGED <<rflagsIF, pic, nucleo>>

\* ejecutarProceso: the entry is EJECUTANDO and the process runs, which prints,
\* unless it is procesoInfinto; the shell also asks for the keyboard.
Ejecutar ==
  /\ Ahora(Timer, "operar")
  /\ Ir("actualizar")
  /\ \/ UNCHANGED <<rflagsIF, evento_teclado>>
     \/ Imprime /\ evento_teclado' \in {evento_teclado, TRUE}
  /\ UNCHANGED <<pic, contador, hayListos, elegido>>

\* What the result asks for: the entry TERMINADO, ESPERANDO or LISTO, its page
\* freed (liberar_pagina prints when it refuses), procesos_listos, scheduler_RR.
\* After a print all of it runs with the interrupts enabled: it is the request
\* in service that keeps both lines out.
Actualizar ==
  /\ Ahora(Timer, "actualizar")
  /\ Ir("eoi")
  /\ UNCHANGED rflagsIF \/ Imprime
  /\ hayListos' \in BOOLEAN
  /\ UNCHANGED <<pic, contador, elegido, evento_teclado>>

\* The process chosen is the one whose creation ended in SinMemoria, and it has
\* no data page.
EjecutarSinDatos ==
  /\ Ahora(Timer, "operar")
  /\ \E i \in 1 .. Len(pila) : pila[i].hace = Teclado /\ pila[i].paso = "panico"
  /\ Fallo_pagina
  /\ UNCHANGED <<pic, nucleo>>

Habilitar ==
  /\ Ahora(Timer, "sti")
  /\ Ir("iret") /\ Sti
  /\ UNCHANGED <<pic, nucleo>>

-----------------------------------------------------------------------------
(* Int_teclado.  Only Enter runs a command, between a cli and a sti of      *)
(* manejar_teclado; the other keys change the line and nothing else here.   *)
(* Before iniciar_teclado the pointer teclado is null.                      *)

SinTeclado == pila[1].paso = "restaurar"

Recibir ==
  /\ Ahora(Teclado, "recibir")
  /\ \/ Ir("eoi") /\ UNCHANGED rflagsIF                     \* a shift, or nothing
     \/ evento_teclado /\ Ir("eoi") /\ Imprime              \* the echo of the key
     \/ evento_teclado /\ Ir("enter") /\ Imprime            \* the new line
     \/ SinTeclado /\ Fallo_pagina
  /\ UNCHANGED <<pic, nucleo>>

CerrarComando ==
  /\ Ahora(Teclado, "enter")
  /\ Ir("comando") /\ Cli
  /\ UNCHANGED <<pic, nucleo>>

\* comandoBuscar: create one or several, kill, list; or clear, which does not
\* print, or a message.
Comando ==
  /\ Ahora(Teclado, "comando")
  /\ \/ /\ \E n \in {1, CreacionesRun1} :
             pila' = [pila EXCEPT ![Len(pila)].paso = "agregar", ![Len(pila)].quedan = n]
        /\ UNCHANGED rflagsIF
     \/ \E paso \in {"matar", "listar", "abrirComando"} : Ir(paso) /\ UNCHANGED rflagsIF
     \/ Ir("abrirComando") /\ Imprime
  /\ UNCHANGED <<pic, nucleo>>

\* eliminarProceso, up to the message that follows the change of the entry.  The
\* rest of its loop reads pids, which the timer does not write.
Matar ==
  /\ Ahora(Teclado, "matar")
  /\ Ir("abrirComando") /\ Imprime
  /\ hayListos' \in BOOLEAN
  /\ UNCHANGED <<pic, contador, elegido, evento_teclado>>

\* listaProcesos has a cli and a sti of its own; its first message undoes the
\* cli, so the table changes under the listing.
Listar ==
  /\ Ahora(Teclado, "listar")
  /\ Ir("listando") /\ Imprime
  /\ UNCHANGED <<pic, nucleo>>

SeguirLista ==
  /\ Ahora(Teclado, "listando")
  /\ Ir("abrirComando") /\ Sti
  /\ UNCHANGED <<pic, nucleo>>

AbrirComando ==
  /\ Ahora(Teclado, "abrirComando")
  /\ Ir("eoi") /\ Sti
  /\ UNCHANGED <<pic, nucleo>>

-----------------------------------------------------------------------------
(* The end of both handlers: pic_end_master acknowledges the request of     *)
(* best priority in service, and iretq restores the flag of the interrupted.*)

FinSinEOI ==                                   \* mutant: pic_end_master is forgotten
  /\ \E q \in Lineas : Ahora(q, "eoi")
  /\ Ir(IF cima.hace = Timer THEN "sti" ELSE "iret")
  /\ UNCHANGED <<rflagsIF, pic, nucleo>>

pic_end_master ==
  /\ \E q \in Lineas : Ahora(q, "eoi")
  /\ Ir(IF cima.hace = Timer THEN "sti" ELSE "iret")
  /\ enServicio' = {q \in enServicio : \E r \in enServicio : r < q}
  /\ UNCHANGED <<rflagsIF, pendientes, desenmascarado, nucleo>>

Volver ==
  /\ \E q \in Lineas : Ahora(q, "iret")
  /\ pila' = SubSeq(pila, 1, Len(pila) - 1)
  /\ rflagsIF' = cima.guardado
  /\ UNCHANGED <<pic, nucleo>>

-----------------------------------------------------------------------------
(* The machine.  The boot loader leaves every line masked; the timer and    *)
(* the user ask when they like; the 8259 delivers what no request of the    *)
(* same or better priority in service holds back; the gates are interrupt   *)
(* gates, which clear the flag.                                             *)

Pedir(linea) ==
  /\ desenmascarado
  /\ pendientes' = pendientes \cup {linea}
  /\ pendientes' # pendientes
  /\ UNCHANGED <<cpu, enServicio, desenmascarado, nucleo>>

Interrumpir(linea) ==
  /\ rflagsIF /\ desenmascarado
  /\ linea \in pendientes
  /\ \A q \in enServicio \cup (pendientes \ {linea}) : linea < q
  /\ Len(pila) <= Profundidad
  /\ pila' = Append(pila, [hace |-> linea, guardado |-> rflagsIF, quedan |-> 0,
                           paso |-> IF linea = Timer THEN "aumentar" ELSE "recibir"])
  /\ Cli
  /\ pendientes' = pendientes \ {linea}
  /\ enServicio' = enServicio \cup {linea}
  /\ UNCHANGED <<desenmascarado, nucleo>>

\* The loops of kernel_panic and Fallo_pagina.
Detenido == cima.paso \in {"panico", "fallo"} /\ UNCHANGED vars

Init ==
  /\ pila = <<[hace |-> Arranque, guardado |-> FALSE, quedan |-> 1, paso |-> "memoria"]>>
  /\ rflagsIF = FALSE
  /\ pendientes = {} /\ enServicio = {}
  /\ desenmascarado = FALSE
  /\ contador = 0
  /\ hayListos = FALSE
  /\ elegido = FALSE
  /\ evento_teclado = FALSE

IniciarNucleo ==
  \/ IniciarMemoria \/ HabilitarPronto \/ IniciarInterrupciones \/ Remapear
  \/ RestaurarMascara \/ Desenmascarar \/ AbrirArranque \/ Buscar \/ Elegir
agregarProceso == Entrar \/ Colocar \/ NoSePuedeColocar \/ SinMemoria \/ Abrir
Int_timer ==
  Aumentar \/ Relevar \/ Ejecutar \/ EjecutarSinDatos \/ Actualizar \/ Habilitar
Int_teclado ==
  Recibir \/ CerrarComando \/ Comando \/ Matar \/ Listar \/ SeguirLista \/ AbrirComando
Fin == pic_end_master \/ Volver

Next ==
  \/ IniciarNucleo \/ agregarProceso \/ Int_timer \/ Int_teclado \/ Fin
  \/ \E linea \in Lineas : Pedir(linea) \/ Interrumpir(linea)
  \/ Detenido

Spec == Init /\ [][Next]_vars

-----------------------------------------------------------------------------
(* Correctness.                                                             *)

Marcos == [hace : Lineas \cup {Arranque}, guardado : BOOLEAN,
           quedan : 0 .. CreacionesRun1, paso : Pasos]

\* The state has its types; only _start is at the bottom.
TipoOK ==
  /\ pila \in Seq(Marcos) /\ Len(pila) \in 1 .. (Profundidad + 1)
  /\ \A i \in 1 .. Len(pila) : pila[i].hace = Arranque <=> i = 1
  /\ pendientes \subseteq Lineas /\ enServicio \subseteq Lineas
  /\ contador \in 0 .. (TicksPorQuantum - 1)
  /\ {rflagsIF, desenmascarado, hayListos, elegido, evento_teclado} \subseteq BOOLEAN

\* Whoever is between the first and the last access of an operation that changes
\* the process table is there alone: nobody it interrupted, and nobody who
\* interrupts it, is in one.  Two of those stretches run with the interrupts
\* enabled: scheduler_RR of _start, where the quantum that cuts in does not get to
\* the table, and what the timer changes after its process has printed
\* (planificador.c:157-173), where neither line is let in.
EnTabla(m) == m.paso \in {"colocar", "operar", "actualizar", "matar", "buscar", "elegir"}
ExclusionTabla ==
  Cardinality({i \in 1 .. Len(pila) : EnTabla(pila[i])}) <= 1

\* pic_end_master names no line, it acknowledges the best priority in service.
\* That is always its own: the requests in service are those of the handlers
\* that have not acknowledged theirs, and each of them has cut in on one of
\* worse priority.
PorReconocer == {i \in 2 .. Len(pila) : pila[i].paso \notin {"sti", "iret"}}
CadaEOIEsSuyo ==
  /\ enServicio = {pila[i].hace : i \in PorReconocer}
  /\ \A i, j \in PorReconocer : i < j => pila[j].hace < pila[i].hace

\* A kernel that sleeps can be woken: with no handler active, the flag is on
\* and no request is left in service, whatever commands were run, those that
\* leave agregarProceso without its sti included.
DuermeDespertable ==
  Len(pila) = 1 /\ cima.paso = "dormir" => rflagsIF /\ enServicio = {}

\* shell.c:13 "cli_asm(); //desactivar interrupciones": from there to the sti of
\* shell.c:19 nothing cuts in on the command.
ComandoSinInterrupciones ==
  \A i \in 2 .. (Len(pila) - 1) :
    pila[i].paso \notin {"comando", "agregar", "colocar", "abrir", "matar", "listar",
                         "listando", "abrirComando"}

\* kernel.c:30-31 "scheduler_RR(); // ejecutar", "descansar(); //dormir": no timer
\* interrupt ends the start of the kernel in Fallo_pagina.
ArranqueSinFallo ==
  cima.hace = Timer /\ cima.paso = "fallo" => pila[1].paso = "dormir"
=============================================================================
