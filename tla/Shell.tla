------------------------------- MODULE Shell --------------------------------
(***************************************************************************)
(* From a scan code to the order that the shell runs: the keyboard         *)
(* (teclado.c) and the line editor of the shell (manejar_teclado).  Every  *)
(* step is one interrupt of the keyboard, or the run of the shell process  *)
(* by the timer, which installs the callback.                              *)
(*                                                                         *)
(* Characters are their codes: with shift held the code subtracts 32 from  *)
(* whatever the table holds.  What comandoBuscar makes of the order is in  *)
(* module Comandos; its effects on the processes are in Planificador.      *)
(***************************************************************************)
EXTENDS Integers, Sequences

CONSTANTS
  MAX_CADENA,    \* size of the line buffer (256)
  TrasLaTabla,   \* what the byte after ASCII_tabla may read as
  Sesiones       \* BOUND: the sets of keys a user uses in one session

ASSUME BufferConSitio == MAX_CADENA \in Nat \ {0, 1}
ASSUME BytesTrasLaTabla == TrasLaTabla \subseteq 0 .. 255 /\ TrasLaTabla # {}
ASSUME CodigosDeUnByte == \A s \in Sesiones : s \subseteq 0 .. 255

VARIABLES
  Izq_Shift_estado, Der_Shift_estado,
  evento_teclado,   \* the callback is manejar_teclado (or null)
  cadena,           \* the line buffer
  index,            \* how much of it is the line
  orden,            \* << >>, or << the string that this key gave to comandoBuscar >>
  teclas            \* the keys of this session

vars == <<Izq_Shift_estado, Der_Shift_estado, evento_teclado, cadena, index, orden, teclas>>
turnos == <<Izq_Shift_estado, Der_Shift_estado, evento_teclado, teclas>>

Space == 57
Izq_Shift == 42
Der_Shift == 54
Enter == 28
Backspace == 14
Soltar == 128          \* added to the code when a key is released

asciitabla == <<
  0, 0, 49, 50, 51, 52, 53, 54, 55, 56, 57, 48, 45, 61, 0, 0,
  113, 119, 101, 114, 116, 121, 117, 105, 111, 112, 91, 93, 0, 0, 97, 115,
  100, 102, 103, 104, 106, 107, 108, 59, 39, 96, 0, 92, 122, 120, 99, 118,
  98, 110, 109, 44, 46, 47, 0, 42, 0, 32 >>

Posiciones == 0 .. (MAX_CADENA - 1)
Vacia == [i \in Posiciones |-> 0]

-----------------------------------------------------------------------------
(* codigo_caracter: the characters that the key may give.  The test lets    *)
(* the code 58 through, one past the table.                                 *)

Mayuscula == Izq_Shift_estado = 1 \/ Der_Shift_estado = 1

EnTabla(codigo) ==
  IF codigo < Len(asciitabla) THEN {asciitabla[codigo + 1]} ELSE TrasLaTabla

codigo_caracterSinShift(codigo) ==             \* mutant: the shift is tested the wrong way
  IF codigo > 58 THEN {0}
  ELSE {(c - (IF Mayuscula THEN 0 ELSE 32)) % 256 : c \in EnTabla(codigo)}

codigo_caracter(codigo) ==
  IF codigo > 58 THEN {0}
  ELSE {(c - (IF Mayuscula THEN 32 ELSE 0)) % 256 : c \in EnTabla(codigo)}

-----------------------------------------------------------------------------
(* manejar_teclado.                                                         *)

\* The characters of a buffer up to its first 0, as a function of C reads them.
Cero(buffer) ==
  CHOOSE n \in Posiciones : buffer[n] = 0 /\ (\A i \in 0 .. (n - 1) : buffer[i] # 0)
Tramo(buffer, i, j) == [k \in 1 .. (j - i) |-> buffer[i + k - 1]]
Texto(buffer) == Tramo(buffer, 0, Cero(buffer))

CabeSinCero == index < MAX_CADENA              \* mutant: no place is kept for the 0
Cabe == index < MAX_CADENA - 1

BorradaSoloElInicio(buffer) ==                 \* mutant: llenar_memoria is forgotten
  [buffer EXCEPT ![0] = 0]
Borrada(buffer) == Vacia

NuevaLinea ==
  /\ Cabe
  /\ orden' = <<Texto(cadena)>>
  /\ index' = 0
  /\ cadena' = Borrada(cadena)

Retroceso ==
  /\ Cabe /\ index > 0
  /\ index' = index - 1
  /\ orden' = <<>>
  /\ UNCHANGED cadena

Insertar(caracter) ==
  /\ Cabe
  /\ cadena' = [cadena EXCEPT ![index] = caracter]
  /\ index' = index + 1
  /\ orden' = <<>>

Ignorar == orden' = <<>> /\ UNCHANGED <<cadena, index>>

\* The callback; the full line takes nothing, and the empty one no backspace.
manejar_teclado(caracter) ==
  \/ ~Cabe /\ Ignorar
  \/ caracter = 10 /\ NuevaLinea
  \/ caracter = 8 /\ Retroceso
  \/ caracter = 8 /\ index = 0 /\ Ignorar
  \/ caracter \notin {8, 10} /\ Insertar(caracter)

Evento(caracter) ==
  \/ evento_teclado /\ manejar_teclado(caracter)
  \/ ~evento_teclado /\ Ignorar

-----------------------------------------------------------------------------
(* recibir_codigo, what Int_teclado calls.                                  *)

DeShift == {Izq_Shift, Izq_Shift + Soltar, Der_Shift, Der_Shift + Soltar}

CambiarShift(codigo) ==
  /\ codigo \in DeShift
  /\ \/ codigo = Izq_Shift /\ Izq_Shift_estado' = 1 /\ UNCHANGED Der_Shift_estado
     \/ codigo = (Izq_Shift + Soltar) /\ Izq_Shift_estado' = 0 /\ UNCHANGED Der_Shift_estado
     \/ codigo = Der_Shift /\ Der_Shift_estado' = 1 /\ UNCHANGED Izq_Shift_estado
     \/ codigo = (Der_Shift + Soltar) /\ Der_Shift_estado' = 0 /\ UNCHANGED Izq_Shift_estado
  /\ Ignorar
  /\ UNCHANGED <<evento_teclado, teclas>>

\* The keys whose character does not come from the table.
Especial == [c \in {Space, Enter, Backspace} |->
               CASE c = Space -> 32 [] c = Enter -> 10 [] c = Backspace -> 8]

Tecla(codigo) ==
  /\ codigo \notin DeShift
  /\ \/ codigo \in DOMAIN Especial /\ Evento(Especial[codigo])
     \/ /\ codigo \notin DOMAIN Especial
        /\ \E caracter \in codigo_caracter(codigo) :
             \/ caracter # 0 /\ Evento(caracter)
             \/ caracter = 0 /\ Ignorar
  /\ UNCHANGED turnos

recibir_codigo(codigo) == CambiarShift(codigo) \/ Tecla(codigo)

\* shell_comandos, the operation of the shell process.
shell_comandos ==
  /\ evento_teclado' = TRUE
  /\ Ignorar
  /\ UNCHANGED <<Izq_Shift_estado, Der_Shift_estado, teclas>>

\* iniciar_teclado; the statics of manejar_teclado are all 0.
Init ==
  /\ Izq_Shift_estado = 0 /\ Der_Shift_estado = 0
  /\ evento_teclado = FALSE
  /\ cadena = Vacia
  /\ index = 0
  /\ orden = <<>>
  /\ teclas \in Sesiones

Next == shell_comandos \/ \E codigo \in teclas : recibir_codigo(codigo)

Spec == Init /\ [][Next]_vars

-----------------------------------------------------------------------------
(* Correctness.                                                             *)

\* The index stays on the buffer, and the buffer holds bytes.
TipoOK ==
  /\ Izq_Shift_estado \in {0, 1} /\ Der_Shift_estado \in {0, 1}
  /\ evento_teclado \in BOOLEAN
  /\ cadena \in [Posiciones -> 0 .. 255]
  /\ index \in Posiciones
  /\ teclas \in Sesiones

\* After the line and what is left of the erased characters there is nothing:
\* neither an older order nor a hole.  So what comandoBuscar would read ends in
\* the buffer at any moment.
SinRestosViejos ==
  \E n \in index .. (MAX_CADENA - 1) :
    /\ \A i \in 0 .. (n - 1) : cadena[i] # 0
    /\ \A i \in n .. (MAX_CADENA - 1) : cadena[i] = 0

\* The buffer and the index implement the line editor.
Editor == INSTANCE EditorLinea WITH
  Capacidad <- MAX_CADENA - 1,
  Caracteres <- 1 .. 255,
  linea <- Tramo(cadena, 0, index),
  restos <- Tramo(cadena, index, Cero(cadena))
RefinaEditor == Editor!Spec

\* Only the characters of the keys pressed get into the line, and only a
\* newline among them runs an order.  It does not take Enter: the '*' of the
\* keypad with a shift held is one (42 - 32), and so may be the code 58, whose
\* character lies past the table; and with shift a key without a character (0)
\* has one (224).
CaracterDe(tecla) ==
  CASE tecla \in DOMAIN Especial -> {Especial[tecla]}
    [] tecla \notin DOMAIN Especial /\ tecla \notin DeShift /\ tecla <= 58 -> EnTabla(tecla)
    [] OTHER -> {}
Tecleables ==
  (UNION {CaracterDe(t) : t \in teclas})
    \cup IF teclas \cap {Izq_Shift, Der_Shift} = {} THEN {}
         ELSE {(c - 32) % 256 : c \in UNION {CaracterDe(t) : t \in teclas \ DOMAIN Especial}}
SoloLoTecleado ==
  /\ \A i \in Posiciones : cadena[i] \in Tecleables \cup {0}
  /\ orden # <<>> => 10 \in Tecleables
=============================================================================
