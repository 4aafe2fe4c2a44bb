---------------------------- MODULE EditorLinea -----------------------------
(***************************************************************************)
(* What the line editor of the shell promises, which is less than it       *)
(* seems: a line is written, the last character of it may be erased, and   *)
(* Enter runs the line.  But an erased character is not forgotten until    *)
(* another is written in its place: what Enter runs is the line followed   *)
(* by what is left of the erased ones.  And a line that has reached the    *)
(* capacity is neither run nor erased any more.                            *)
(*                                                                         *)
(* Module Shell is the buffer and the index of the code, and implements it. *)
(***************************************************************************)
EXTENDS Integers, Sequences

CONSTANTS
  Capacidad,    \* characters a line can reach (MAX_CADENA - 1)
  Caracteres    \* what can be written

VARIABLES
  linea,        \* what the user sees after the prompt
  restos,       \* characters erased and not overwritten since
  orden         \* << >>, or << the line that this key has run >>

vars == <<linea, restos, orden>>

Abierta == Len(linea) < Capacidad

\* One more character: without it the line is what it was.
Escribir ==
  /\ Abierta
  /\ linea' # <<>> /\ linea'[Len(linea')] \in Caracteres
  /\ linea = SubSeq(linea', 1, Len(linea') - 1)
  /\ restos' = IF restos = <<>> THEN <<>> ELSE Tail(restos)
  /\ orden' = <<>>

Borrar ==
  /\ Abierta
  /\ linea # <<>>
  /\ linea' = SubSeq(linea, 1, Len(linea) - 1)
  /\ restos' = <<linea[Len(linea)]>> \o restos
  /\ orden' = <<>>

Ejecutar ==
  /\ Abierta
  /\ orden' = <<linea \o restos>>
  /\ linea' = <<>>
  /\ restos' = <<>>

\* Any other key.
NoHacer == orden' = <<>> /\ UNCHANGED <<linea, restos>>

Init == linea = <<>> /\ restos = <<>> /\ orden = <<>>
Next == Escribir \/ Borrar \/ Ejecutar \/ NoHacer
Spec == Init /\ [][Next]_vars
=============================================================================
