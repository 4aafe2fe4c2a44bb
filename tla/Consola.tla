------------------------------ MODULE Consola -------------------------------
(***************************************************************************)
(* The kernel seen from its console: the start chooses the region of       *)
(* memory, showing what it finds with printf; then the shell takes keys.   *)
(* Each part is a module: MapaMemoria, Printf, and Shell with Comandos.    *)
(*                                                                         *)
(* A call of printf reads nothing of the rest of the kernel, and runs with *)
(* the interrupts disabled, so the calls are explored once, before the     *)
(* search, and not again at each place of the kernel that prints.          *)
(***************************************************************************)
EXTENDS Comandos

CONSTANTS
  Mapas, TamPagina, UTILIZABLE, MEMORIA_KERNEL, INUTILIZABLE,     \* of MapaMemoria
  Llamadas, NTOA, AnchoPuntero, Modulo, TopeSize, Celdas,         \* of Printf
  RegionDeSesion       \* BOUND: the region with which the keys are explored

ASSUME TiposDistintos == UTILIZABLE # MEMORIA_KERNEL
ASSUME LongitudesNaturales ==
  \A mapa \in Mapas : \A n \in DOMAIN mapa : mapa[n].length \in Nat

VARIABLES
  entradas, i, memoria_total, memoria_disponible, memoria_kernel, memoria_trabajo,
  total_paginas,
  llamada, resto, idx, bufer, consola, ret

Mapa == INSTANCE MapaMemoria
Impresion == INSTANCE Printf

\* A format is made of elements as va_arg and the parser of printf give them.
ASSUME FormatosDados ==
  /\ NTOA \in Nat \ {0} /\ AnchoPuntero \in Nat /\ TopeSize \in Nat \ {0} /\ Celdas \subseteq Nat
  /\ \A n \in DOMAIN Modulo : Modulo[n] \in Nat \ {0}
  /\ \A l \in Llamadas :
       /\ l.funcion \in {"printf_", "vprintf_", "fctprintf", "sprintf_", "snprintf_", "vsnprintf_"}
       /\ l.count \in 0 .. (TopeSize - 1)
       /\ l.formato \in Seq(ToSet(l.formato))
       /\ \A d \in ToSet(l.formato) :
            /\ d.conv \in Impresion!Enteras \cup {"c", "s", "p", "%", "literal", "otro"}
            /\ d \in [conv : {d.conv}, flags : SUBSET {"0", "-", "+", Impresion!ESP, "#"},
                      ancho : Int, prec : Seq(Int), longitud : DOMAIN Modulo, arg : {d.arg}]
            /\ d.conv \in Impresion!Enteras => d.arg \in Int
            /\ d.conv = "s" => d.arg \in Seq(STRING)

varsMapa == <<entradas, i, memoria_total, memoria_disponible, memoria_kernel,
              memoria_trabajo, total_paginas>>
varsImpresion == <<llamada, resto, idx, bufer, consola, ret>>
varsConsola == <<vars, varsMapa, varsImpresion>>

Arrancar == llamada = Impresion!SinLlamada /\ Mapa!Next /\ UNCHANGED <<vars, varsImpresion>>

\* The calls are explored with one of the sessions.
Imprimir ==
  /\ i = 0 /\ teclas = CHOOSE s \in Sesiones : TRUE
  /\ Impresion!Next
  /\ UNCHANGED <<vars, varsMapa>>

\* The keys are explored with one of the regions, the start of the shell with all.
Atender ==
  /\ i = Mapa!Elegida
  /\ memoria_trabajo = RegionDeSesion \/ shell_comandos
  /\ Next
  /\ UNCHANGED <<varsMapa, varsImpresion>>

InitConsola == Init /\ Mapa!Init /\ Impresion!Init

NextConsola == Arrancar \/ Imprimir \/ Atender

SpecConsola == InitConsola /\ [][NextConsola]_varsConsola

-----------------------------------------------------------------------------
(* Correctness of the parts, under their names.                             *)

\* The region of work is the first of the largest usable entries read.
RegionMayor == Mapa!RegionMayor

\* An integer is read back from what printf writes.
EnteroLegible == Impresion!EnteroLegible

\* A field of printf has the width asked for.
CampoCompleto == Impresion!CampoCompleto

\* A call writes nothing past its limit, and ends its text.
BuferDelimitado == Impresion!BuferDelimitado

\* A call writes its whole text, or what fits of it, and returns its length.
SalidaFiel == Impresion!SalidaFiel
=============================================================================
