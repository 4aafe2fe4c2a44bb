------------------------------- MODULE Printf -------------------------------
(***************************************************************************)
(* The kernel's printf (printf.c) without the floating point directives,   *)
(* which nothing in the kernel uses.  A format is a sequence of literal    *)
(* characters and directives, already told apart; a directive carries the  *)
(* argument that va_arg gives it, and the width and precision of a '*'.    *)
(* Characters are one-character strings, NUL, and ESP for the space.       *)
(*                                                                         *)
(* printf_ runs with the interrupts disabled, so a call is never seen half *)
(* done: one step of this module is one element of the format.             *)
(***************************************************************************)
EXTENDS Integers, SequencesExt, FiniteSetsExt

CONSTANTS
  Llamadas,       \* BOUND: the calls explored
  NTOA,           \* PRINTF_NTOA_BUFFER_SIZE (32)
  AnchoPuntero,   \* sizeof(void*) * 2
  Modulo,         \* how many values a "hh", "h", "int" and "l" have
  TopeSize,       \* values of a size_t
  Celdas          \* the cells of memory where a buffer lies: 0 .. n

VARIABLES
  llamada,   \* the call, or SinLlamada
  resto,     \* what is left of its format
  idx,
  bufer,     \* the caller's memory, Celdas to characters
  consola,   \* what _putchar, or the function of fctprintf, has received
  ret        \* what the call returns, or Ninguno before

vars == <<llamada, resto, idx, bufer, consola, ret>>

NUL == "NUL"
ESP == "ESP"
SinLlamada == [funcion |-> "ninguna"]
Ninguno == -1

-----------------------------------------------------------------------------
(* What a directive asks for.                                               *)

Enteras == {"d", "i", "u", "x", "X", "o", "b"}
ConSigno == {"d", "i"}

\* Flags: "0", "-", "+", ESP, "#", a "." for FLAGS_PRECISION, a "U" for uppercase.
Banderas(d) ==
  d.flags \cup (IF d.ancho < 0 THEN {"-"} ELSE {}) \cup (IF d.prec # <<>> THEN {"."} ELSE {})
Ancho(d) == IF d.ancho < 0 THEN -d.ancho ELSE d.ancho
Precision(d) == IF d.prec # <<>> THEN Max({d.prec[1], 0}) ELSE 0

\* The flags that an integer conversion looks at.
BanderasEntero(d) ==
  (Banderas(d) \cup (IF d.conv = "X" THEN {"U"} ELSE {}))
    \ ((IF d.conv \in ConSigno THEN {} ELSE {"+", ESP})
         \cup (IF d.conv \in {"d", "i", "u"} THEN {"#"} ELSE {})
         \cup (IF "." \in Banderas(d) THEN {"0"} ELSE {}))
Base(d) ==
  CASE d.conv \in {"x", "X"} -> 16 [] d.conv = "o" -> 8 [] d.conv = "b" -> 2 [] OTHER -> 10

\* The value that va_arg takes out of the argument: the low bits that the
\* length names, as signed or not.
Valor(d) ==
  LET m == Modulo[d.longitud]
      bajo == d.arg % m
  IN  IF d.conv \in ConSigno /\ bajo >= m \div 2 THEN bajo - m ELSE bajo

-----------------------------------------------------------------------------
(* Integers.  A number is built backwards in a buffer of NTOA characters.   *)

Repetir(c, n) == [i \in 1 .. Max({n, 0}) |-> c]
CifrasMinusculas == <<"0", "1", "2", "3", "4", "5", "6", "7", "8", "9",
                      "a", "b", "c", "d", "e", "f">>
CifrasMayusculas == <<"0", "1", "2", "3", "4", "5", "6", "7", "8", "9",
                      "A", "B", "C", "D", "E", "F">>

\* _out_rev.
out_rev(buf, width, flags) ==
  LET hueco == Repetir(ESP, width - Len(buf))
  IN  (IF flags \cap {"-", "0"} = {} THEN hueco ELSE <<>>)
        \o Reverse(buf) \o (IF "-" \in flags THEN hueco ELSE <<>>)

Agregar(buf, c) == IF Len(buf) < NTOA THEN Append(buf, c) ELSE buf
Ceros(buf, n) == buf \o Repetir("0", Min({n, NTOA}) - Len(buf))

\* With a field of zeros, the sign takes one place of it.
LugarDelSignoNinguno(negative, flags) == 0          \* mutant: the sign takes no place
LugarDelSigno(negative, flags) ==
  IF "0" \in flags /\ (negative \/ flags \cap {"+", ESP} # {}) THEN 1 ELSE 0

\* Under '#', a number that just fills its field gives up digits for the prefix.
Prefijo(buf, base, prec, width, flags) ==
  LET sobran == IF "." \notin flags /\ Len(buf) \in {prec, width}
                  THEN Min({Len(buf), IF base = 16 THEN 2 ELSE 1}) ELSE 0
      queda == SubSeq(buf, 1, Len(buf) - sobran)
      letra == CASE base = 16 -> Agregar(queda, IF "U" \in flags THEN "X" ELSE "x")
                 [] base = 2 -> Agregar(queda, "b")
                 [] OTHER -> queda
  IN  IF "#" \in flags THEN Agregar(letra, "0") ELSE buf

PonerSigno(buf, negative, flags) ==
  CASE negative -> Agregar(buf, "-")
    [] ~negative /\ "+" \in flags -> Agregar(buf, "+")
    [] ~negative /\ "+" \notin flags /\ ESP \in flags -> Agregar(buf, ESP)
    [] OTHER -> buf

\* _ntoa_format.
ntoa_format(buf, negative, base, prec, width, flags) ==
  LET izquierda == "-" \in flags
      w == IF izquierda \/ width = 0 THEN width ELSE width - LugarDelSigno(negative, flags)
      conPrec == IF izquierda THEN buf ELSE Ceros(buf, prec)
      conCeros == IF ~izquierda /\ "0" \in flags THEN Ceros(conPrec, w) ELSE conPrec
      conPrefijo == Prefijo(conCeros, base, prec, w, flags)
      conSigno == PonerSigno(conPrefijo, negative, flags)
  IN  out_rev(conSigno, w, flags)

\* What is left of a value after each turn of the loop that takes its digits.
Dividido(value, base) ==
  LET queda[n \in 0 .. NTOA] == IF n = 0 THEN value ELSE queda[n - 1] \div base
  IN  queda

\* Its digits, the lowest first, as many as the buffer takes.
Cuantas(value, base) == Min({NTOA} \cup {n \in 1 .. NTOA : Dividido(value, base)[n] = 0})
Cifras(flags) == IF "U" \in flags THEN CifrasMayusculas ELSE CifrasMinusculas
Digitos(value, base, flags) ==
  [i \in 1 .. Cuantas(value, base) |->
    Cifras(flags)[(Dividido(value, base)[i - 1] % base) + 1]]

\* _ntoa_long; _ntoa_long_long is the same for a wider type.
ntoa_long(value, negative, base, prec, width, flags) ==
  LET buf == IF value = 0 /\ "." \in flags THEN <<>> ELSE Digitos(value, base, flags)
  IN  ntoa_format(buf, negative, base, prec, width, IF value = 0 THEN flags \ {"#"} ELSE flags)
ntoa_long_long(value, negative, base, prec, width, flags) ==
  ntoa_long(value, negative, base, prec, width, flags)

MagnitudSinCambio(v) == v                            \* mutant: a negative value is not negated
Magnitud(v) == IF v > 0 THEN v ELSE 0 - v

Entero(d) ==
  LET v == Valor(d)
      ntoa(value, negative) ==
        IF d.longitud = "ll"
          THEN ntoa_long_long(value, negative, Base(d), Precision(d), Ancho(d), BanderasEntero(d))
          ELSE ntoa_long(value, negative, Base(d), Precision(d), Ancho(d), BanderasEntero(d))
  IN  ntoa(Magnitud(v), v < 0)

-----------------------------------------------------------------------------
(* The other directives.                                                    *)

EnCampo(texto, d) ==
  LET hueco == Repetir(ESP, Ancho(d) - Len(texto))
  IN  IF "-" \in Banderas(d) THEN texto \o hueco ELSE hueco \o texto

\* _strnlen_s, and the loop of 's', stop at the precision if there is one.
strnlen_s(str, d) == IF "." \in Banderas(d) THEN Min({Len(str), Precision(d)}) ELSE Len(str)
Texto(d) == EnCampo(SubSeq(d.arg, 1, strnlen_s(d.arg, d)), d)

Caracter(d) == EnCampo(<<d.arg>>, d)

Puntero(d) ==
  ntoa_long_long(d.arg % Modulo["ll"], FALSE, 16, Precision(d), AnchoPuntero,
                 Banderas(d) \cup {"0", "U"})

\* What an element of the format writes.
Pieza(d) ==
  CASE d.conv \in Enteras -> Entero(d)
    [] d.conv = "c" -> Caracter(d)
    [] d.conv = "s" -> Texto(d)
    [] d.conv = "p" -> Puntero(d)
    [] d.conv = "%" -> <<"%">>
    [] d.conv \in {"literal", "otro"} -> <<d.arg>>

-----------------------------------------------------------------------------
(* The sinks, and the call.                                                 *)

\* The functions of the interface: which sink each gives to _vsnprintf, and the
\* limit.  Without a buffer the sink is _out_null.
Interfaz(l) ==
  CASE l.funcion \in {"printf_", "vprintf_"} -> [sink |-> "_out_char", maxlen |-> TopeSize - 1]
    [] l.funcion = "fctprintf" -> [sink |-> "_out_fct", maxlen |-> TopeSize - 1]
    [] l.funcion = "sprintf_" -> [sink |-> "_out_buffer", maxlen |-> TopeSize - 1]
    [] l.funcion \in {"snprintf_", "vsnprintf_"} -> [sink |-> "_out_buffer", maxlen |-> l.count]
Sumidero(l) == IF l.buffer THEN Interfaz(l).sink ELSE "_out_null"
maxlen == Interfaz(llamada).maxlen

EntraInclusive(i) == i <= maxlen                     \* mutant: one place too far
Entra(i) == i < maxlen

\* The console and the function get each character but the 0s.
SinCeros(texto) == FlattenSeq([k \in DOMAIN texto |-> IF texto[k] = NUL THEN <<>> ELSE <<texto[k]>>])

\* The text is given to the sink, its first character with this index.
Out(texto, desde) ==
  /\ bufer' = [i \in Celdas |->
       IF Sumidero(llamada) = "_out_buffer" /\ i - desde + 1 \in DOMAIN texto /\ Entra(i)
         THEN texto[i - desde + 1] ELSE bufer[i]]
  /\ consola' = IF Sumidero(llamada) \in {"_out_char", "_out_fct"}
                  THEN consola \o SinCeros(texto) ELSE consola

Llamar ==
  /\ llamada = SinLlamada
  /\ \E l \in Llamadas : llamada' = l /\ resto' = l.formato
  /\ UNCHANGED <<idx, bufer, consola, ret>>

EscribirElemento ==
  /\ llamada # SinLlamada /\ resto # <<>>
  /\ LET pieza == Pieza(Head(resto))
     IN  Out(pieza, idx) /\ idx' = idx + Len(pieza)
  /\ resto' = Tail(resto)
  /\ UNCHANGED <<llamada, ret>>

\* The 0 at the end; with a limit of 0, maxlen - 1 wraps round.
LugarDelCeroSiCabe == idx                            \* mutant: no 0 in a full buffer
LugarDelCero == IF idx < maxlen THEN idx ELSE (maxlen - 1) % TopeSize
Terminar ==
  /\ llamada # SinLlamada /\ resto = <<>> /\ ret = Ninguno
  /\ Out(<<NUL>>, LugarDelCero)
  /\ ret' = idx
  /\ UNCHANGED <<llamada, resto, idx>>

\* The caller goes on, and forgets the call.
Volver ==
  /\ ret # Ninguno
  /\ llamada' = SinLlamada /\ resto' = <<>> /\ idx' = 0 /\ ret' = Ninguno
  /\ bufer' = [i \in Celdas |-> "viejo"] /\ consola' = <<>>

Init ==
  /\ llamada = SinLlamada /\ resto = <<>> /\ idx = 0 /\ ret = Ninguno
  /\ bufer = [i \in Celdas |-> "viejo"] /\ consola = <<>>

Next == Llamar \/ EscribirElemento \/ Terminar \/ Volver

Spec == Init /\ [][Next]_vars

-----------------------------------------------------------------------------
(* Correctness.                                                             *)

\* The directives of the element to be written now.
PorEscribir == IF resto = <<>> THEN {} ELSE {Head(resto)}

\* The number that a reader finds in a text: its digits, and a '-' before them.
EsCifra(c, n) == c \in {CifrasMinusculas[n + 1], CifrasMayusculas[n + 1]}
Leido(texto, base) ==
  LET leido[k \in 0 .. Len(texto)] ==
        IF k = 0 THEN 0
        ELSE IF \E n \in 0 .. (base - 1) : EsCifra(texto[k], n)
          THEN base * leido[k - 1] + (CHOOSE n \in 0 .. (base - 1) : EsCifra(texto[k], n))
        ELSE leido[k - 1]
      absoluto == leido[Len(texto)]
  IN  IF "-" \in ToSet(texto) THEN -absoluto ELSE absoluto

\* There is room for the digits, the zeros asked for, the prefix and the sign.
HayLugar(d) ==
  LET v == Valor(d)
      value == IF v < 0 THEN -v ELSE v
      n == Cuantas(value, Base(d))
      flags == BanderasEntero(d)
      prefijo == IF "#" \in flags THEN 2 ELSE 1
  IN  /\ Precision(d) <= NTOA - prefijo
      /\ Dividido(value, Base(d))[NTOA - prefijo] = 0
      /\ "0" \in flags => Ancho(d) <= NTOA
      /\ "#" \in flags /\ "." \notin flags =>
           Ancho(d) \notin n .. (n + (IF Base(d) = 16 THEN 1 ELSE 0))

\* The reader of an integer finds the value of the argument, whatever flags,
\* width and precision: neither padding nor sign nor the buffer of NTOA
\* characters changes it, as long as there is room; and the spaces are only
\* outside the number, whose '-' is its first character.  (Under '#', a number
\* that fills its field is cut: printf.c:245.)
EnteroLegible ==
  \A d \in PorEscribir :
    d.conv \in Enteras /\ HayLugar(d) =>
      \E pieza \in {Pieza(d)} :
        /\ Leido(pieza, Base(d)) = Valor(d)
        /\ \E desde \in 1 .. (Len(pieza) + 1), hasta \in 0 .. Len(pieza) :
             /\ {k \in DOMAIN pieza : pieza[k] # ESP} = desde .. hasta
             /\ Valor(d) < 0 => desde <= hasta /\ pieza[desde] = "-"

\* A field is as wide as asked, or as its contents if they are wider; only
\* zeros cannot fill more than NTOA characters.  The contents are what the same
\* directive writes without a width, on the same side: an integer on the left
\* does not get the zeros of its precision (printf.c:231).
SinAncho(d) ==
  [d EXCEPT !.ancho = 0, !.flags = d.flags \cup (IF d.ancho < 0 THEN {"-"} ELSE {})]
CampoCompleto ==
  \A d \in PorEscribir :
    /\ d.conv \in Enteras \cup {"c", "s"}
    /\ d.conv \in Enteras =>
         /\ "#" \notin BanderasEntero(d)
         /\ {"0", "-"} \cap BanderasEntero(d) = {"0"} => Ancho(d) <= NTOA
    => Len(Pieza(d)) = Max({Ancho(d), Len(Pieza(SinAncho(d)))})

\* Nothing is written but in the buffer of a function that has one, and below its
\* limit; and when the call returns, the text there has its 0.
BuferDelimitado ==
  /\ \A c \in Celdas : bufer[c] # "viejo" =>
       llamada # SinLlamada /\ Sumidero(llamada) = "_out_buffer" /\ c < maxlen
  /\ ret # Ninguno /\ Sumidero(llamada) = "_out_buffer" /\ maxlen > 0 =>
       \A c \in Celdas : c = (IF ret < maxlen THEN ret ELSE maxlen - 1) => bufer[c] = NUL

\* What a call writes: the console gets every character but the 0s; a buffer of
\* count characters gets the first count - 1, and a 0, and nothing is written
\* past it; and the call returns the length of the whole text.
Completo(l) == FlattenSeq([i \in DOMAIN l.formato |-> Pieza(l.formato[i])])
SalidaFiel ==
  ret # Ninguno =>
    LET texto == Completo(llamada)
        n == Len(texto)
        fin == Min({n, maxlen - 1})
        enBufer == [i \in Celdas |->
          IF i < fin THEN texto[i + 1] ELSE IF i = fin THEN NUL ELSE "viejo"]
    IN  /\ ret = n
        /\ bufer = IF Sumidero(llamada) = "_out_buffer" THEN enBufer
                   ELSE [i \in Celdas |-> "viejo"]
        /\ consola = IF Sumidero(llamada) \in {"_out_char", "_out_fct"}
                     THEN SinCeros(texto) ELSE <<>>
=============================================================================
