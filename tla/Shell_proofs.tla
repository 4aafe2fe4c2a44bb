---------------------------- MODULE Shell_proofs -----------------------------
(***************************************************************************)
(* Proofs about the keyboard and the line editor, for every size of the    *)
(* buffer, whatever keys are pressed.  The inductive invariant says where  *)
(* the buffer ends: after the line and what is left of erased characters.  *)
(***************************************************************************)
EXTENDS Shell, SequenceTheorems, TLAPS

\* The characters before n are not 0, and the others are.
TerminaEn(buffer, n) ==
  /\ \A i \in 0 .. (n - 1) : buffer[i] # 0
  /\ \A i \in n .. (MAX_CADENA - 1) : buffer[i] = 0

IInv == TipoOK /\ SinRestosViejos

Bytes == 0 .. 255
Buffers == [Posiciones -> Bytes]

-----------------------------------------------------------------------------
(* The keyboard.                                                            *)

\* The table holds bytes.
LEMMA TablaDeBytes == Len(asciitabla) = 58 /\ \A i \in 1 .. 58 : asciitabla[i] \in Bytes
BY DEF asciitabla, Bytes

\* So does the table with the byte past it.
LEMMA EnTablaBytes ==
  ASSUME NEW codigo \in 0 .. 255, ~(codigo > 58)
  PROVE  EnTabla(codigo) \subseteq Bytes
<1>1. CASE codigo < Len(asciitabla)
  <2>1. codigo + 1 \in 1 .. 58
    BY <1>1, TablaDeBytes
  <2>. QED
    BY <1>1, <2>1, TablaDeBytes DEF EnTabla
<1>2. CASE ~(codigo < Len(asciitabla))
  BY <1>2, BytesTrasLaTabla DEF EnTabla, Bytes
<1>. QED
  BY <1>1, <1>2

\* A key gives bytes.
LEMMA CaracterByte ==
  ASSUME NEW codigo \in 0 .. 255, NEW c \in codigo_caracter(codigo)
  PROVE  c \in Bytes
<1>1. CASE codigo > 58
  BY <1>1 DEF codigo_caracter, Bytes
<1>2. CASE ~(codigo > 58)
  <2>1. EnTabla(codigo) \subseteq Bytes
    BY <1>2, EnTablaBytes
  <2>2. PICK d \in EnTabla(codigo) : c = (d - (IF Mayuscula THEN 32 ELSE 0)) % 256
    BY <1>2 DEF codigo_caracter
  <2>. QED
    BY <2>1, <2>2 DEF Bytes
<1>. QED
  BY <1>1, <1>2

\* What a step does to the line.
PasoDeLinea ==
  \/ NuevaLinea
  \/ Retroceso
  \/ \E c \in 1 .. 255 : Insertar(c)
  \/ Ignorar

\* The callback does one of the four things.
LEMMA EventoEsPaso ==
  ASSUME NEW c \in Bytes \ {0}, Evento(c)
  PROVE  PasoDeLinea
BY DEF Evento, manejar_teclado, PasoDeLinea, Bytes

\* So does every step, and what it does to the rest keeps its type.
LEMMA PasoEsDeLinea ==
  ASSUME TipoOK, Next
  PROVE  /\ PasoDeLinea
         /\ Izq_Shift_estado' \in {0, 1} /\ Der_Shift_estado' \in {0, 1}
         /\ evento_teclado' \in BOOLEAN
         /\ teclas' \in Sesiones
<1>1. CASE shell_comandos
  BY <1>1 DEF shell_comandos, PasoDeLinea, TipoOK
<1>2. ASSUME NEW codigo \in teclas, recibir_codigo(codigo)
      PROVE  /\ PasoDeLinea
             /\ Izq_Shift_estado' \in {0, 1} /\ Der_Shift_estado' \in {0, 1}
             /\ evento_teclado' \in BOOLEAN
             /\ teclas' \in Sesiones
  <2>1. CASE CambiarShift(codigo)
    BY <2>1 DEF CambiarShift, PasoDeLinea, TipoOK
  <2>2. CASE Tecla(codigo)
    <3>1. codigo \in 0 .. 255
      BY CodigosDeUnByte DEF TipoOK
    <3>2. UNCHANGED turnos
      BY <2>2 DEF Tecla
    <3>3. CASE codigo \in DOMAIN Especial /\ Evento(Especial[codigo])
      <4>1. Especial[codigo] \in Bytes \ {0}
        BY <3>3 DEF Especial, Space, Enter, Backspace, Bytes
      <4>. QED
        BY <3>2, <3>3, <4>1, EventoEsPaso DEF turnos, TipoOK
    <3>4. CASE \E c \in codigo_caracter(codigo) : c # 0 /\ Evento(c)
      <4>1. PICK c \in codigo_caracter(codigo) : c # 0 /\ Evento(c)
        BY <3>4
      <4>2. c \in Bytes \ {0}
        BY <3>1, <4>1, CaracterByte
      <4>. QED
        BY <3>2, <4>1, <4>2, EventoEsPaso DEF turnos, TipoOK
    <3>5. CASE Ignorar
      BY <3>2, <3>5 DEF PasoDeLinea, turnos, TipoOK
    <3>. QED
      BY <2>2, <3>3, <3>4, <3>5 DEF Tecla
  <2>. QED
    BY <1>2, <2>1, <2>2 DEF recibir_codigo
<1>. QED
  BY <1>1, <1>2 DEF Next

-----------------------------------------------------------------------------
(* The line.                                                                *)

\* The initial states satisfy the inductive invariant.
LEMMA InicioInvariante == Init => IInv
<1> SUFFICES ASSUME Init PROVE IInv
  OBVIOUS
<1>1. 0 \in Posiciones /\ cadena \in Buffers
  BY BufferConSitio DEF Init, Vacia, Posiciones, Buffers, Bytes
<1>2. TerminaEn(cadena, 0) /\ 0 \in index .. (MAX_CADENA - 1)
  BY BufferConSitio DEF Init, Vacia, Posiciones, TerminaEn
<1>. QED
  BY <1>1, <1>2 DEF Init, IInv, TipoOK, SinRestosViejos, TerminaEn, Buffers, Bytes

\* Where a line ends when a character is written at its place.
LEMMA InsertarTermina ==
  ASSUME IInv, NEW n \in index .. (MAX_CADENA - 1), TerminaEn(cadena, n),
         NEW c \in 1 .. 255, Insertar(c)
  PROVE  TerminaEn(cadena', IF n = index THEN n + 1 ELSE n)
<1>1. /\ cadena' = [cadena EXCEPT ![index] = c] /\ index' = index + 1
      /\ index < MAX_CADENA - 1 /\ index \in Posiciones /\ cadena \in Buffers
  BY DEF Insertar, Cabe, IInv, TipoOK, Buffers, Bytes
<1>2. cadena'[index] = c /\ \A i \in Posiciones \ {index} : cadena'[i] = cadena[i]
  BY <1>1 DEF Buffers
<1>. QED
  BY <1>1, <1>2, BufferConSitio DEF TerminaEn, Posiciones

\* A step of the line preserves the inductive invariant.
LEMMA PasoDeLineaInvariante ==
  ASSUME IInv, Next
  PROVE  IInv'
<1>1. PICK n \in index .. (MAX_CADENA - 1) : TerminaEn(cadena, n)
  BY DEF IInv, SinRestosViejos, TerminaEn
<1>2. index \in Posiciones /\ cadena \in Buffers /\ MAX_CADENA \in Nat
  BY BufferConSitio DEF IInv, TipoOK, Buffers, Bytes
<1>3. SUFFICES /\ cadena' \in Buffers /\ index' \in Posiciones
               /\ \E m \in index' .. (MAX_CADENA - 1) : TerminaEn(cadena', m)
  BY PasoEsDeLinea DEF IInv, TipoOK, SinRestosViejos, TerminaEn, Buffers, Bytes
<1>4. CASE NuevaLinea
  <2>1. cadena' = Vacia /\ index' = 0
    BY <1>4 DEF NuevaLinea, Borrada
  <2>2. TerminaEn(Vacia, 0) /\ Vacia \in Buffers /\ 0 \in Posiciones
    BY BufferConSitio DEF TerminaEn, Vacia, Posiciones, Buffers, Bytes
  <2>. QED
    BY <2>1, <2>2, BufferConSitio DEF Posiciones
<1>5. CASE Retroceso
  BY <1>1, <1>2, <1>5 DEF Retroceso, Posiciones
<1>6. ASSUME NEW c \in 1 .. 255, Insertar(c)
      PROVE  /\ cadena' \in Buffers /\ index' \in Posiciones
             /\ \E m \in index' .. (MAX_CADENA - 1) : TerminaEn(cadena', m)
  <2>1. TerminaEn(cadena', IF n = index THEN n + 1 ELSE n)
    BY <1>1, <1>6, InsertarTermina
  <2>2. cadena' \in Buffers /\ index' = index + 1 /\ index < MAX_CADENA - 1
    BY <1>2, <1>6 DEF Insertar, Cabe, Buffers, Bytes
  <2>. QED
    BY <1>1, <1>2, <2>1, <2>2 DEF Posiciones
<1>7. CASE Ignorar
  BY <1>1, <1>2, <1>7 DEF Ignorar
<1>. QED
  BY <1>4, <1>5, <1>6, <1>7, PasoEsDeLinea DEF IInv, PasoDeLinea

\* The inductive invariant holds in every reachable state.
THEOREM InvarianteInductivo == Spec => []IInv
<1>1. IInv /\ UNCHANGED vars => IInv'
  BY DEF IInv, vars, TipoOK, SinRestosViejos
<1>. QED
  BY <1>1, InicioInvariante, PasoDeLineaInvariante, PTL DEF Spec

\* Type correctness, whatever the size of the buffer and the keys.
THEOREM TipoCorrecto == Spec => []TipoOK
<1>1. IInv => TipoOK
  BY DEF IInv
<1>. QED
  BY <1>1, InvarianteInductivo, PTL

\* What follows the line and the erased characters is empty.
THEOREM LineaTerminada == Spec => []SinRestosViejos
<1>1. IInv => SinRestosViejos
  BY DEF IInv
<1>. QED
  BY <1>1, InvarianteInductivo, PTL

-----------------------------------------------------------------------------
(* What can be typed.                                                       *)

\* The shift can only be down in a session that uses one.
ShiftTecleado == Mayuscula => teclas \cap {Izq_Shift, Der_Shift} # {}

\* What the keyboard has given stays within what the keys of the session have.
IInvTecleado == TipoOK /\ SoloLoTecleado /\ ShiftTecleado

\* What a key that is not special puts in is the character of a key pressed.
LEMMA TeclaTecleada ==
  ASSUME TipoOK, ShiftTecleado, NEW codigo \in teclas, codigo \notin DeShift,
         codigo \notin DOMAIN Especial, NEW c \in codigo_caracter(codigo), c # 0
  PROVE  c \in Tecleables
<1>1. codigo \in 0 .. 255 /\ codigo \in Int
  BY CodigosDeUnByte DEF TipoOK
<1>2. codigo <= 58
  BY <1>1 DEF codigo_caracter
<1>3. CaracterDe(codigo) = EnTabla(codigo)
  BY <1>2 DEF CaracterDe
<1>4. PICK d \in EnTabla(codigo) : c = (d - (IF Mayuscula THEN 32 ELSE 0)) % 256
  BY <1>1, <1>2 DEF codigo_caracter
<1>5. d \in UNION {CaracterDe(t) : t \in teclas}
  BY <1>3, <1>4
<1>6. CASE Mayuscula
  <2>1. teclas \cap {Izq_Shift, Der_Shift} # {}
    BY <1>6 DEF ShiftTecleado
  <2>2. c = (d - 32) % 256
    BY <1>4, <1>6
  <2>3. d \in UNION {CaracterDe(t) : t \in teclas \ DOMAIN Especial}
    BY <1>3, <1>4
  <2>. QED
    BY <2>1, <2>2, <2>3 DEF Tecleables
<1>7. CASE ~Mayuscula
  <2>1. EnTabla(codigo) \subseteq Bytes
    BY <1>1, <1>2, EnTablaBytes
  <2>2. d \in 0 .. 255
    BY <1>4, <2>1 DEF Bytes
  <2>3. c = (d - 0) % 256
    BY <1>4, <1>7
  <2>4. d - 0 = d /\ d % 256 = d
    BY <2>2
  <2>5. c = d
    BY <2>3, <2>4
  <2>. QED
    BY <1>5, <2>5 DEF Tecleables
<1>. QED
  BY <1>6, <1>7

\* The callback, given a character that could be typed.
LEMMA EventoTecleado ==
  ASSUME TipoOK, SoloLoTecleado, NEW c \in Tecleables, c # 0, Evento(c),
         teclas' = teclas
  PROVE  SoloLoTecleado'
<1>1. Tecleables' = Tecleables
  BY DEF Tecleables, CaracterDe, EnTabla
<1>2. index \in Posiciones /\ cadena \in [Posiciones -> 0 .. 255]
  BY DEF TipoOK
<1>3. CASE Ignorar
  BY <1>1, <1>3 DEF Ignorar, SoloLoTecleado
<1>4. CASE c = 10 /\ NuevaLinea
  <2>1. cadena' = Vacia
    BY <1>4 DEF NuevaLinea, Borrada
  <2>. QED
    BY <1>1, <1>4, <2>1 DEF SoloLoTecleado, Vacia
<1>5. CASE Retroceso
  BY <1>1, <1>5 DEF Retroceso, SoloLoTecleado
<1>6. CASE Insertar(c)
  BY <1>1, <1>2, <1>6 DEF Insertar, SoloLoTecleado
<1>. QED
  BY <1>3, <1>4, <1>5, <1>6 DEF Evento, manejar_teclado

\* The initial states satisfy it, and every step preserves it.
LEMMA InicioTecleado == ASSUME Init PROVE IInvTecleado
<1>1. TipoOK
  BY InicioInvariante DEF IInv
<1>2. \A i \in Posiciones : cadena[i] = 0
  BY DEF Init, Vacia
<1>3. ~Mayuscula /\ orden = <<>>
  BY DEF Init, Mayuscula
<1>. QED
  BY <1>1, <1>2, <1>3 DEF IInvTecleado, SoloLoTecleado, ShiftTecleado

\* A key keeps it: what is written is what the key and the shift say.
LEMMA PasoTecleado ==
  ASSUME IInvTecleado, Next, TipoOK'
  PROVE  IInvTecleado'
<1>1. TipoOK /\ SoloLoTecleado /\ ShiftTecleado
  BY DEF IInvTecleado
<1>2. ASSUME Ignorar, teclas' = teclas PROVE SoloLoTecleado'
  <2>1. Tecleables' = Tecleables
    BY <1>2 DEF Tecleables, CaracterDe, EnTabla
  <2>. QED
    BY <1>1, <1>2, <2>1 DEF Ignorar, SoloLoTecleado
<1>3. CASE shell_comandos
  <2>1. SoloLoTecleado'
    BY <1>2, <1>3 DEF shell_comandos
  <2>2. ShiftTecleado'
    BY <1>1, <1>3 DEF shell_comandos, ShiftTecleado, Mayuscula
  <2>. QED
    BY <2>1, <2>2 DEF IInvTecleado
<1>4. ASSUME NEW codigo \in teclas, CambiarShift(codigo) PROVE IInvTecleado'
  <2>1. teclas' = teclas /\ Ignorar
    BY <1>4 DEF CambiarShift
  <2>2. SoloLoTecleado'
    BY <1>2, <2>1
  <2>3. ShiftTecleado'
    <3>1. CASE codigo \in {Izq_Shift, Der_Shift}
      BY <2>1, <3>1 DEF ShiftTecleado
    <3>2. CASE codigo \notin {Izq_Shift, Der_Shift}
      <4>1. \/ Izq_Shift_estado' = 0 /\ Der_Shift_estado' = Der_Shift_estado
            \/ Der_Shift_estado' = 0 /\ Izq_Shift_estado' = Izq_Shift_estado
        BY <1>4, <3>2 DEF CambiarShift
      <4>2. Mayuscula' => Mayuscula
        BY <4>1 DEF Mayuscula
      <4>. QED
        BY <1>1, <2>1, <4>2 DEF ShiftTecleado
    <3>. QED
      BY <3>1, <3>2
  <2>. QED
    BY <2>2, <2>3 DEF IInvTecleado
<1>5. ASSUME NEW codigo \in teclas, Tecla(codigo) PROVE IInvTecleado'
  <2>1. UNCHANGED turnos /\ codigo \notin DeShift
    BY <1>5 DEF Tecla
  <2>2. teclas' = teclas /\ (Mayuscula' <=> Mayuscula)
    BY <2>1 DEF turnos, Mayuscula
  <2>3. ShiftTecleado'
    BY <1>1, <2>2 DEF ShiftTecleado
  <2>4. CASE codigo \in DOMAIN Especial /\ Evento(Especial[codigo])
    <3>1. Especial[codigo] # 0 /\ CaracterDe(codigo) = {Especial[codigo]}
      BY <2>4 DEF CaracterDe, Especial, Space, Enter, Backspace
    <3>2. Especial[codigo] \in Tecleables
      BY <3>1 DEF Tecleables
    <3>3. SoloLoTecleado'
      BY <1>1, <2>2, <2>4, <3>1, <3>2, EventoTecleado
    <3>. QED
      BY <2>3, <3>3 DEF IInvTecleado
  <2>5. ASSUME codigo \notin DOMAIN Especial, NEW c \in codigo_caracter(codigo), c # 0, Evento(c)
        PROVE  IInvTecleado'
    <3>1. c \in Tecleables
      BY <1>1, <2>1, <2>5, TeclaTecleada
    <3>2. SoloLoTecleado'
      BY <1>1, <2>2, <2>5, <3>1, EventoTecleado
    <3>. QED
      BY <2>3, <3>2 DEF IInvTecleado
  <2>6. CASE Ignorar
    BY <1>2, <2>2, <2>3, <2>6 DEF IInvTecleado
  <2>. QED
    BY <1>5, <2>4, <2>5, <2>6 DEF Tecla
<1>. QED
  BY <1>3, <1>4, <1>5 DEF Next, recibir_codigo

\* Nothing gets into the line that no key pressed has, and no order runs without
\* a newline among the characters of those keys, whatever the keys and the byte
\* past the table.
THEOREM SoloSeEscribeLoTecleado == Spec => []SoloLoTecleado
<1>1. Init => IInvTecleado
  BY InicioTecleado
<1>2. IInvTecleado /\ TipoOK' /\ [Next]_vars => IInvTecleado'
  <2>1. ASSUME IInvTecleado, UNCHANGED vars PROVE SoloLoTecleado' /\ ShiftTecleado'
    <3>1. Tecleables' = Tecleables
      BY <2>1 DEF Tecleables, CaracterDe, EnTabla, vars
    <3>2. SoloLoTecleado'
      BY <2>1, <3>1 DEF IInvTecleado, SoloLoTecleado, vars
    <3>3. ShiftTecleado'
      BY <2>1 DEF IInvTecleado, ShiftTecleado, Mayuscula, vars
    <3>. QED
      BY <3>2, <3>3
  <2>. QED
    BY <2>1, PasoTecleado DEF IInvTecleado
<1>3. IInvTecleado => SoloLoTecleado
  BY DEF IInvTecleado
<1>. QED
  BY <1>1, <1>2, <1>3, TipoCorrecto, PTL DEF Spec

-----------------------------------------------------------------------------
(* The refinement: the buffer and its index implement the line editor.      *)

linea == Tramo(cadena, 0, index)
restos == Tramo(cadena, index, Cero(cadena))

\* A piece of a buffer is a sequence of its characters.
LEMMA TramoEsSecuencia ==
  ASSUME NEW b \in Buffers, NEW i \in Nat, NEW j \in Nat, i <= j, j < MAX_CADENA
  PROVE  /\ Tramo(b, i, j) \in Seq(Bytes)
         /\ Len(Tramo(b, i, j)) = j - i
         /\ \A k \in 1 .. (j - i) : Tramo(b, i, j)[k] = b[i + k - 1]
<1>1. j - i \in Nat /\ \A k \in 1 .. (j - i) : b[i + k - 1] \in Bytes
  BY BufferConSitio DEF Buffers, Posiciones
<1>2. Tramo(b, i, j) \in [1 .. (j - i) -> Bytes]
  BY <1>1 DEF Tramo
<1>. QED
  BY <1>1, <1>2 DEF Tramo

\* So is one from the beginning.
LEMMA TramoInicial ==
  ASSUME NEW b \in Buffers, NEW j \in Nat, j < MAX_CADENA
  PROVE  /\ Tramo(b, 0, j) \in Seq(Bytes)
         /\ Len(Tramo(b, 0, j)) = j
         /\ \A k \in 1 .. j : Tramo(b, 0, j)[k] = b[k - 1]
<1>1. \A k \in 1 .. j : b[k - 1] \in Bytes
  BY BufferConSitio DEF Buffers, Posiciones
<1>2. Tramo(b, 0, j) = [k \in 1 .. j |-> b[k - 1]]
  BY DEF Tramo
<1>. QED
  BY <1>1, <1>2

\* The place where a buffer ends is the one that Cero chooses.
LEMMA CeroEs ==
  ASSUME NEW b \in Buffers, NEW n \in Posiciones, TerminaEn(b, n)
  PROVE  Cero(b) = n
<1>1. b[n] = 0 /\ \A i \in 0 .. (n - 1) : b[i] # 0
  BY BufferConSitio DEF TerminaEn, Posiciones
<1>2. ASSUME NEW m \in Posiciones, b[m] = 0, \A i \in 0 .. (m - 1) : b[i] # 0
      PROVE  m = n
  BY <1>1, <1>2, BufferConSitio DEF Posiciones
<1>. QED
  BY <1>1, <1>2 DEF Cero

\* The buffer ends at n, and the line and its remains are two pieces up to n.
Situacion(n) ==
  /\ TerminaEn(cadena, n) /\ Cero(cadena) = n /\ n \in Posiciones
  /\ cadena \in Buffers /\ index \in Posiciones
  /\ Len(linea) = index
  /\ \A k \in 1 .. index : linea[k] = cadena[k - 1]

\* Every reachable state is so.
LEMMA LineaYRestos ==
  ASSUME IInv
  PROVE  \E n \in index .. (MAX_CADENA - 1) : Situacion(n)
<1>1. PICK n \in index .. (MAX_CADENA - 1) : TerminaEn(cadena, n)
  BY DEF IInv, SinRestosViejos, TerminaEn
<1>2. cadena \in Buffers /\ index \in Posiciones /\ n \in Posiciones /\ n \in Nat /\ index \in Nat
  BY BufferConSitio DEF IInv, TipoOK, Buffers, Bytes, Posiciones
<1>3. Cero(cadena) = n
  BY <1>1, <1>2, CeroEs
<1>4. n < MAX_CADENA /\ index < MAX_CADENA /\ index <= n
  BY <1>2, BufferConSitio DEF Posiciones
<1>5. Len(linea) = index /\ \A k \in 1 .. index : linea[k] = cadena[k - 1]
  BY <1>2, <1>4, TramoInicial DEF linea
<1>. QED
  BY <1>1, <1>2, <1>3, <1>5 DEF Situacion

\* With no characters left in a buffer, its pieces are empty.
LEMMA TramoVacio ==
  ASSUME NEW b \in Buffers, NEW i \in Nat, i < MAX_CADENA
  PROVE  Tramo(b, i, i) = <<>>
<1>1. Tramo(b, i, i) \in Seq(Bytes) /\ Len(Tramo(b, i, i)) = i - i
  BY TramoEsSecuencia
<1>. QED
  BY <1>1, EmptySeq

\* What is left of a piece without its last character.
LEMMA TramoCorto ==
  ASSUME NEW b \in Buffers, NEW d \in Buffers, NEW j \in Nat, j + 1 < MAX_CADENA,
         \A k \in 0 .. (j - 1) : b[k] = d[k]
  PROVE  Tramo(b, 0, j) = SubSeq(Tramo(d, 0, j + 1), 1, Len(Tramo(d, 0, j + 1)) - 1)
<1> DEFINE s == Tramo(b, 0, j)
           t == Tramo(d, 0, j + 1)
           u == SubSeq(t, 1, j)
<1>1. s \in Seq(Bytes) /\ Len(s) = j /\ \A k \in 1 .. j : s[k] = b[k - 1]
  BY BufferConSitio, TramoInicial
<1>2. t \in Seq(Bytes) /\ Len(t) = j + 1 /\ \A k \in 1 .. (j + 1) : t[k] = d[k - 1]
  <2>1. j + 1 \in Nat
    OBVIOUS
  <2>. QED
    BY <2>1, TramoInicial
<1> HIDE DEF s, t
<1>3. u \in Seq(Bytes) /\ Len(u) = j /\ \A k \in 1 .. j : u[k] = t[k]
  <2>1. \A k \in 1 .. j : t[k] \in Bytes
    BY <1>2
  <2>2. /\ u \in Seq(Bytes) /\ Len(u) = IF 1 <= j THEN j - 1 + 1 ELSE 0
        /\ \A k \in 1 .. (j - 1 + 1) : u[k] = t[1 + k - 1]
    BY <2>1, SubSeqProperties
  <2> HIDE DEF u
  <2>. QED
    BY <2>2
<1> HIDE DEF u
<1>4. ASSUME NEW k \in 1 .. Len(s) PROVE s[k] = u[k]
  <2>1. k \in 1 .. j /\ k \in 1 .. (j + 1) /\ k - 1 \in 0 .. (j - 1)
    BY <1>1
  <2>2. s[k] = b[k - 1] /\ u[k] = t[k] /\ t[k] = d[k - 1]
    BY <1>1, <1>2, <1>3, <2>1
  <2>. QED
    BY <2>1, <2>2
<1>5. s = u
  BY <1>1, <1>3, <1>4, SeqEqual
<1>6. Len(t) - 1 = j
  BY <1>2
<1>. QED
  BY <1>5, <1>6 DEF s, t, u

\* What is left of a piece without its first character.
LEMMA TramoCola ==
  ASSUME NEW b \in Buffers, NEW d \in Buffers, NEW i \in Nat, NEW j \in Nat,
         i < j, j < MAX_CADENA,
         \A k \in (i + 1) .. (j - 1) : b[k] = d[k]
  PROVE  Tramo(b, i, j) # <<>> /\ Tail(Tramo(b, i, j)) = Tramo(d, i + 1, j)
<1> DEFINE s == Tramo(b, i, j)
           t == Tramo(d, i + 1, j)
<1>1. s \in Seq(Bytes) /\ Len(s) = j - i /\ \A k \in 1 .. (j - i) : s[k] = b[i + k - 1]
  <2>1. i <= j
    OBVIOUS
  <2>. QED
    BY <2>1, TramoEsSecuencia
<1>2. /\ t \in Seq(Bytes) /\ Len(t) = j - (i + 1)
      /\ \A k \in 1 .. (j - (i + 1)) : t[k] = d[(i + 1) + k - 1]
  <2>1. i + 1 \in Nat /\ i + 1 <= j
    OBVIOUS
  <2>. QED
    BY <2>1, TramoEsSecuencia
<1> HIDE DEF s, t
<1>3. s # <<>>
  BY <1>1
<1>4. /\ Tail(s) \in Seq(Bytes) /\ Len(Tail(s)) = Len(s) - 1
      /\ \A k \in 1 .. Len(Tail(s)) : Tail(s)[k] = s[k + 1]
  BY <1>1, <1>3, HeadTailProperties
<1>5. ASSUME NEW k \in 1 .. Len(Tail(s)) PROVE Tail(s)[k] = t[k]
  <2>1. k + 1 \in 1 .. (j - i) /\ k \in 1 .. (j - (i + 1)) /\ i + k \in (i + 1) .. (j - 1)
    BY <1>1, <1>4
  <2>2. Tail(s)[k] = b[i + k] /\ t[k] = d[i + k]
    BY <1>1, <1>2, <1>4, <2>1
  <2>. QED
    BY <2>1, <2>2
<1>6. Len(Tail(s)) = Len(t)
  BY <1>1, <1>2, <1>4
<1>7. Tail(s) = t
  BY <1>2, <1>4, <1>5, <1>6, SeqEqual
<1>. QED
  BY <1>3, <1>7 DEF s, t

\* Two consecutive pieces make one.
LEMMA TramoUnido ==
  ASSUME NEW b \in Buffers, NEW h \in Nat, NEW i \in Nat, NEW j \in Nat,
         h <= i, i <= j, j < MAX_CADENA
  PROVE  Tramo(b, h, j) = Tramo(b, h, i) \o Tramo(b, i, j)
<1> DEFINE s == Tramo(b, h, i)
           t == Tramo(b, i, j)
           u == Tramo(b, h, j)
<1>1. s \in Seq(Bytes) /\ Len(s) = i - h /\ \A k \in 1 .. (i - h) : s[k] = b[h + k - 1]
  <2>1. i < MAX_CADENA
    BY BufferConSitio
  <2>. QED
    BY <2>1, TramoEsSecuencia
<1>2. t \in Seq(Bytes) /\ Len(t) = j - i /\ \A k \in 1 .. (j - i) : t[k] = b[i + k - 1]
  BY TramoEsSecuencia
<1>3. u \in Seq(Bytes) /\ Len(u) = j - h /\ \A k \in 1 .. (j - h) : u[k] = b[h + k - 1]
  <2>1. h <= j
    OBVIOUS
  <2>. QED
    BY <2>1, TramoEsSecuencia
<1> HIDE DEF s, t, u
<1>4. /\ s \o t \in Seq(Bytes) /\ Len(s \o t) = Len(s) + Len(t)
      /\ \A k \in 1 .. (Len(s) + Len(t)) :
           (s \o t)[k] = IF k <= Len(s) THEN s[k] ELSE t[k - Len(s)]
  BY <1>1, <1>2, ConcatProperties
<1>5. Len(u) = Len(s \o t)
  BY <1>1, <1>2, <1>3, <1>4
<1>6. ASSUME NEW k \in 1 .. Len(u) PROVE u[k] = (s \o t)[k]
  <2>1. k \in 1 .. (j - h) /\ k \in 1 .. (Len(s) + Len(t)) /\ u[k] = b[h + k - 1]
    BY <1>1, <1>2, <1>3
  <2>2. CASE k <= i - h
    <3>1. (s \o t)[k] = s[k] /\ k \in 1 .. (i - h)
      BY <1>1, <1>4, <2>1, <2>2
    <3>. QED
      BY <1>1, <2>1, <3>1
  <2>3. CASE ~(k <= i - h)
    <3>1. (s \o t)[k] = t[k - (i - h)] /\ k - (i - h) \in 1 .. (j - i)
      BY <1>1, <1>4, <2>1, <2>3
    <3>2. t[k - (i - h)] = b[i + (k - (i - h)) - 1]
      BY <1>2, <3>1
    <3>3. i + (k - (i - h)) - 1 = h + k - 1
      BY <2>1
    <3>. QED
      BY <2>1, <3>1, <3>2, <3>3
  <2>. QED
    BY <2>2, <2>3
<1>7. u = s \o t
  BY <1>3, <1>4, <1>5, <1>6, SeqEqual
<1>. QED
  BY <1>7 DEF s, t, u

\* The initial states of the shell are those of the editor.
LEMMA InicioRefina == ASSUME Init PROVE Editor!Init
<1>1. cadena \in Buffers /\ index = 0 /\ orden = <<>> /\ 0 \in Posiciones /\ 0 < MAX_CADENA
  BY BufferConSitio DEF Init, Vacia, Buffers, Posiciones, Bytes
<1>2. TerminaEn(cadena, 0)
  BY DEF Init, Vacia, TerminaEn, Posiciones
<1>3. Cero(cadena) = 0
  BY <1>1, <1>2, CeroEs
<1>. QED
  BY <1>1, <1>3, TramoVacio DEF Editor!Init

\* Writing a character.
LEMMA InsertarRefina ==
  ASSUME IInv, NEW c \in 1 .. 255, Insertar(c)
  PROVE  Editor!Escribir
<1>1. PICK n \in index .. (MAX_CADENA - 1) : Situacion(n)
  BY LineaYRestos
<1>2. /\ cadena' = [cadena EXCEPT ![index] = c] /\ index' = index + 1 /\ orden' = <<>>
      /\ index < MAX_CADENA - 1 /\ MAX_CADENA \in Nat /\ index \in Nat /\ n \in Nat
  BY <1>1, BufferConSitio DEF Situacion, Insertar, Cabe, Posiciones
<1>3. /\ cadena \in Buffers /\ cadena' \in Buffers /\ cadena'[index] = c
      /\ \A i \in Posiciones \ {index} : cadena'[i] = cadena[i]
  BY <1>1, <1>2 DEF Situacion, Buffers, Bytes
<1> DEFINE m == IF n = index THEN n + 1 ELSE n
<1>4. Cero(cadena') = m /\ m \in Nat /\ index + 1 \in Nat /\ index + 1 <= m /\ m < MAX_CADENA
  <2>1. TerminaEn(cadena', m)
    BY <1>1, InsertarTermina DEF Situacion
  <2>2. m \in Posiciones
    BY <1>1, <1>2 DEF Posiciones
  <2>. QED
    BY <1>1, <1>2, <1>3, <2>1, <2>2, CeroEs DEF Posiciones
<1> DEFINE nueva == Tramo(cadena', 0, index + 1)
<1>5. nueva # <<>> /\ nueva[Len(nueva)] = c
  <2>1. index + 1 < MAX_CADENA
    BY <1>2
  <2>2. Len(nueva) = index + 1 /\ \A k \in 1 .. (index + 1) : nueva[k] = cadena'[k - 1]
    BY <1>3, <1>4, <2>1, TramoInicial
  <2> HIDE DEF nueva
  <2>. QED
    BY <1>2, <1>3, <2>2
<1>6. linea = SubSeq(nueva, 1, Len(nueva) - 1)
  <2>1. index + 1 < MAX_CADENA /\ \A k \in 0 .. (index - 1) : cadena[k] = cadena'[k]
    BY <1>2, <1>3 DEF Posiciones
  <2>. QED
    BY <1>2, <1>3, <2>1, TramoCorto DEF linea
<1> DEFINE resto == Tramo(cadena', index + 1, m)
<1>7. resto = IF restos = <<>> THEN <<>> ELSE Tail(restos)
  <2>1. CASE n = index
    <3>1. restos = Tramo(cadena, index, index) /\ resto = Tramo(cadena', index + 1, index + 1)
      BY <1>1, <2>1 DEF Situacion, restos
    <3>2. index < MAX_CADENA /\ index + 1 < MAX_CADENA
      BY <1>2
    <3>3. Tramo(cadena, index, index) = <<>> /\ Tramo(cadena', index + 1, index + 1) = <<>>
      BY <1>2, <1>3, <1>4, <3>2, TramoVacio
    <3>. QED
      BY <3>1, <3>3
  <2>2. CASE n # index
    <3>1. restos = Tramo(cadena, index, n) /\ resto = Tramo(cadena', index + 1, n)
      BY <1>1, <2>2 DEF Situacion, restos
    <3>2. /\ index < n /\ n < MAX_CADENA
          /\ \A k \in (index + 1) .. (n - 1) : cadena[k] = cadena'[k]
      BY <1>1, <1>2, <1>3, <2>2 DEF Posiciones
    <3>3. /\ Tramo(cadena, index, n) # <<>>
          /\ Tail(Tramo(cadena, index, n)) = Tramo(cadena', index + 1, n)
      <4>1. cadena \in Buffers /\ cadena' \in Buffers /\ index \in Nat /\ n \in Nat
        BY <1>2, <1>3
      <4> HIDE DEF m, nueva, resto
      <4>. QED
        BY <3>2, <4>1, TramoCola
    <3>. QED
      BY <3>1, <3>3
  <2>. QED
    BY <2>1, <2>2
<1>8. Len(linea) < MAX_CADENA - 1
  BY <1>1, <1>2 DEF Situacion
<1> HIDE DEF m, nueva, resto
<1>. QED
  BY <1>2, <1>4, <1>5, <1>6, <1>7, <1>8
     DEF Editor!Escribir, Editor!Abierta, linea, restos, nueva, resto

\* Erasing a character.
LEMMA RetrocesoRefina ==
  ASSUME IInv, Retroceso
  PROVE  Editor!Borrar
<1>1. PICK n \in index .. (MAX_CADENA - 1) : Situacion(n)
  BY LineaYRestos
<1>2. /\ cadena' = cadena /\ index' = index - 1 /\ orden' = <<>>
      /\ index < MAX_CADENA - 1 /\ MAX_CADENA \in Nat /\ index \in Nat \ {0} /\ n \in Nat
      /\ index - 1 \in Nat /\ (index - 1) + 1 = index /\ n < MAX_CADENA
      /\ cadena \in Buffers
  BY <1>1, BufferConSitio DEF Situacion, Retroceso, Cabe, Posiciones
<1>3. Tramo(cadena, 0, index - 1) = SubSeq(linea, 1, Len(linea) - 1)
  <2>1. (index - 1) + 1 < MAX_CADENA
    BY <1>2
  <2>2. Tramo(cadena, 0, index - 1)
          = SubSeq(Tramo(cadena, 0, (index - 1) + 1), 1, Len(Tramo(cadena, 0, (index - 1) + 1)) - 1)
    BY <1>2, <2>1, TramoCorto
  <2>. QED
    BY <1>2, <2>2 DEF linea
<1>4. Tramo(cadena, index - 1, n) = <<linea[Len(linea)]>> \o restos
  <2>1. linea[Len(linea)] = cadena[index - 1]
    BY <1>1, <1>2 DEF Situacion
  <2>2. index - 1 <= index /\ index <= n
    BY <1>1, <1>2
  <2>3. Tramo(cadena, index - 1, n) = Tramo(cadena, index - 1, index) \o Tramo(cadena, index, n)
    BY <1>2, <2>2, TramoUnido
  <2>4. Tramo(cadena, index - 1, index) = <<cadena[index - 1]>>
    <3>1. Tramo(cadena, index - 1, index) = [k \in 1 .. 1 |-> cadena[index - 1]]
      BY <1>2 DEF Tramo
    <3>2. cadena[index - 1] \in Bytes
      BY <1>2 DEF Buffers, Posiciones
    <3>. QED
      BY <3>1, <3>2
  <2>. QED
    BY <1>1, <2>1, <2>3, <2>4 DEF Situacion, restos
<1>5. linea # <<>> /\ Len(linea) < MAX_CADENA - 1
  BY <1>1, <1>2, EmptySeq DEF Situacion
<1>6. Cero(cadena) = n
  BY <1>1 DEF Situacion
<1>. QED
  BY <1>2, <1>3, <1>4, <1>5, <1>6
     DEF Editor!Borrar, Editor!Abierta, linea, restos

\* Running the line.
LEMMA NuevaLineaRefina ==
  ASSUME IInv, NuevaLinea
  PROVE  Editor!Ejecutar
<1>1. PICK n \in index .. (MAX_CADENA - 1) : Situacion(n)
  BY LineaYRestos
<1>2. /\ cadena' = Vacia /\ index' = 0 /\ orden' = <<Tramo(cadena, 0, n)>>
      /\ index < MAX_CADENA - 1 /\ MAX_CADENA \in Nat /\ index \in Nat /\ n \in Nat
      /\ 0 < MAX_CADENA /\ n < MAX_CADENA /\ 0 <= index /\ index <= n
      /\ cadena \in Buffers
  BY <1>1, BufferConSitio DEF Situacion, NuevaLinea, Cabe, Borrada, Texto, Posiciones
<1>3. Tramo(cadena, 0, n) = linea \o restos
  <2>1. Tramo(cadena, 0, n) = Tramo(cadena, 0, index) \o Tramo(cadena, index, n)
    <3>1. cadena \in Buffers /\ 0 \in Nat /\ index \in Nat /\ n \in Nat
      BY <1>2
    <3>2. 0 <= index /\ index <= n /\ n < MAX_CADENA
      BY <1>2
    <3>. QED
      BY <3>1, <3>2, TramoUnido
  <2>. QED
    BY <1>1, <2>1 DEF Situacion, linea, restos
<1>4. Tramo(Vacia, 0, 0) = <<>> /\ Tramo(Vacia, 0, Cero(Vacia)) = <<>>
  <2>1. Vacia \in Buffers /\ TerminaEn(Vacia, 0) /\ 0 \in Posiciones
    BY <1>2 DEF Vacia, Buffers, TerminaEn, Posiciones, Bytes
  <2>2. Cero(Vacia) = 0
    BY <2>1, CeroEs
  <2>. QED
    BY <1>2, <2>1, <2>2, TramoVacio
<1>5. Len(linea) < MAX_CADENA - 1
  BY <1>1, <1>2 DEF Situacion
<1>. QED
  BY <1>2, <1>3, <1>4, <1>5 DEF Editor!Ejecutar, Editor!Abierta, linea, restos

\* Every step of the shell is a step of the editor.
LEMMA PasoRefina ==
  ASSUME IInv, Next
  PROVE  Editor!Next
<1>1. IInv' /\ PasoDeLinea
  BY PasoDeLineaInvariante, PasoEsDeLinea DEF IInv
<1>2. CASE NuevaLinea
  BY <1>2, NuevaLineaRefina DEF Editor!Next
<1>3. CASE Retroceso
  BY <1>3, RetrocesoRefina DEF Editor!Next
<1>4. ASSUME NEW c \in 1 .. 255, Insertar(c) PROVE Editor!Next
  BY <1>4, InsertarRefina DEF Editor!Next
<1>5. CASE Ignorar
  BY <1>5 DEF Ignorar, Editor!Next, Editor!NoHacer, Tramo, Cero
<1>. QED
  BY <1>1, <1>2, <1>3, <1>4, <1>5 DEF PasoDeLinea

\* The buffer and the index implement the line editor, whatever their size:
\* what Enter runs is the line and then what is left of the erased characters.
THEOREM ImplementaEditor == Spec => RefinaEditor
<1>1. Init => Editor!Init
  BY InicioRefina
<1>2. IInv /\ [Next]_vars => [Editor!Next]_(Editor!vars)
  <2>1. IInv /\ Next => Editor!Next
    BY PasoRefina
  <2>2. UNCHANGED vars => UNCHANGED Editor!vars
    BY DEF vars, Editor!vars, Tramo, Cero
  <2>. QED
    BY <2>1, <2>2
<1>. QED
  BY <1>1, <1>2, InvarianteInductivo, PTL DEF Spec, RefinaEditor, Editor!Spec
=============================================================================
