------------------------------ MODULE Comandos ------------------------------
(***************************************************************************)
(* What the shell makes of an order: the comparisons and conversions of    *)
(* string.c and the search of the command (comandoBuscar).  Strings are    *)
(* sequences of character codes without the final 0.  What the commands do *)
(* to the processes is in module Planificador.                             *)
(***************************************************************************)
EXTENDS Shell, SequencesExt, FiniteSetsExt

CONSTANTS
  Nombre,     \* the names, a function of Exactos \cup ConCorchete to strings; a name
              \* of ConCorchete is written in the code with its '[', here without it
  TamParte,   \* size of the static buffers of separar_cadena (50)
  Modulo32    \* values of a uint32_t (2^32)

Exactos == {"clear", "ps", "free", "run1", "crearProceso0", "help"}
ConCorchete == {"crearProceso2", "crearProceso1", "kill"}

ASSUME NombresDados == DOMAIN Nombre = Exactos \cup ConCorchete
ASSUME NombresSinCorchete ==
  \A c \in DOMAIN Nombre :
    Nombre[c] \in Seq(1 .. 255) /\ (c \in ConCorchete => 91 \notin ToSet(Nombre[c]))
ASSUME NombresDistintos ==
  \A a, b \in DOMAIN Nombre :
    a # b => IF a \in ConCorchete THEN ~IsPrefix(Nombre[a], Nombre[b]) ELSE Nombre[a] # Nombre[b]
ASSUME ParteConSitio == TamParte \in Nat \ {0} /\ Modulo32 \in Nat \ {0}

Abre == 91       \* '['
Cierra == 93     \* ']'
Menos == 45
Cifras == 48 .. 57

-----------------------------------------------------------------------------
(* string.c.                                                                *)

\* Place of the first c of s from i on, or of the final 0.
Lugar(s, c, i) ==
  LET lugares == {k \in i .. Len(s) : s[k] = c}
  IN  IF lugares = {} THEN Len(s) + 1 ELSE Min(lugares)

comparar_cadenas(cadena1, cadena2) == cadena1 = cadena2

\* It answers as soon as the name reaches its '[': what follows in the other
\* string is not looked at.
comparar_subcadenasEntera(cadena1, cadena2) ==     \* mutant: the whole string is compared
  IsPrefix(Append(cadena1, Abre), cadena2) /\ Last(cadena2) = Cierra
comparar_subcadenas(cadena1, cadena2) == IsPrefix(cadena1, cadena2)

\* The two strings left in temp1 and temp2, and the last index written in each, that
\* of the 0.  Nothing in the code compares that index with TamParte: past it the
\* characters are written over another variable, while here the part is kept whole.
separar_cadena(texto) ==
  LET abre == Lugar(texto, Abre, 1)
      cierra == Min({Lugar(texto, Cierra, abre + 1), Len(texto) + 1})
      parte1 == SubSeq(texto, 1, abre - 1)
      parte2 == SubSeq(texto, abre + 1, cierra - 1)
  IN  [parte1 |-> parte1, parte2 |-> parte2,
       indice1 |-> Len(parte1), indice2 |-> Len(parte2)]

\* The digits one after another, in 32 bits.
Numero(cifras) ==
  LET numero[i \in 0 .. Len(cifras)] ==
        IF i = 0 THEN 0 ELSE (numero[i - 1] * 10 + (cifras[i] - 48)) % Modulo32
  IN  numero[Len(cifras)]

\* A leading '-' is dropped, and a character that is no digit makes it 0.
convertir_a_enteroSinVuelta(str) ==                \* mutant: it stops at a non-digit instead
  LET cifras == IF str # <<>> /\ str[1] = Menos THEN Tail(str) ELSE str
      cuantas == IF \A i \in DOMAIN cifras : cifras[i] \in Cifras THEN Len(cifras)
                 ELSE Min({i \in DOMAIN cifras : cifras[i] \notin Cifras}) - 1
  IN  Numero(SubSeq(cifras, 1, cuantas))
convertir_a_entero(str) ==
  LET cifras == IF str # <<>> /\ str[1] = Menos THEN Tail(str) ELSE str
  IN  IF \E i \in DOMAIN cifras : cifras[i] \notin Cifras THEN 0 ELSE Numero(cifras)

-----------------------------------------------------------------------------
(* comandoBuscar: the first command of the chain whose test holds, with its *)
(* argument; "?" when there is none, and "restringido" for a kill of pid 0. *)

Cadena == <<"clear", "ps", "free", "run1", "crearProceso2", "crearProceso1",
            "crearProceso0", "kill", "help">>

Acepta(comando, texto) ==
  IF comando \in ConCorchete THEN comparar_subcadenas(Nombre[comando], texto)
  ELSE comparar_cadenas(Nombre[comando], texto)

comandoBuscar(texto) ==
  LET aceptan == {i \in DOMAIN Cadena : Acepta(Cadena[i], texto)}
      comando == Cadena[Min(aceptan)]
      parte2 == separar_cadena(texto).parte2
      pid == convertir_a_entero(parte2)
  IN  CASE aceptan = {} -> <<"?">>
        [] aceptan # {} /\ comando \in Exactos -> <<comando>>
        [] aceptan # {} /\ comando \in {"crearProceso1", "crearProceso2"} -> <<comando, parte2>>
        [] aceptan # {} /\ comando = "kill" -> IF pid = 0 THEN <<"restringido">> ELSE <<comando, pid>>

-----------------------------------------------------------------------------
(* Correctness.  orden is << >> or << the string that Enter runs >>.        *)

\* A creation whose usage is "crearProceso1[<mensaje>]: Imprime Mensaje de 1 - 100"
\* (shell.c:110, and 111 for crearProceso2) prints the message typed, so the message of
\* every line that the editor takes has its place, and its 0, in the buffer of
\* separar_cadena.  The code does not see to it.
MensajeCabe ==
  \A i \in DOMAIN orden : \A comando \in {"crearProceso1", "crearProceso2"} :
    IsPrefix(Append(Nombre[comando], Abre), orden[i]) =>
      LET partes == separar_cadena(orden[i])
      IN  partes.indice1 < TamParte /\ partes.indice2 < TamParte

\* The usage that "help" prints: a name, '[', an argument, ']'.
Escrita(comando, argumento) == Nombre[comando] \o <<Abre>> \o argumento \o <<Cierra>>

\* A command written as its usage says, whatever follows the ']', is recognised
\* with the argument written; and each other name is its own command.
OrdenReconocida ==
  \A i \in DOMAIN orden :
    /\ \A comando \in {"crearProceso1", "crearProceso2"} :
         \A j \in 0 .. Len(orden[i]) :
           LET argumento == SubSeq(orden[i], Len(Nombre[comando]) + 2, j)
           IN  Cierra \notin ToSet(argumento) /\ IsPrefix(Escrita(comando, argumento), orden[i])
                 => comandoBuscar(orden[i]) = <<comando, argumento>>
    /\ \A comando \in Exactos : orden[i] = Nombre[comando] => comandoBuscar(orden[i]) = <<comando>>

\* The value of a string of digits.
Valor(cifras) ==
  LET valor[i \in 0 .. Len(cifras)] ==
        IF i = 0 THEN 0 ELSE 10 * valor[i - 1] + (cifras[i] - 48)
  IN  valor[Len(cifras)]

\* kill asks to end a process only for an argument of digits with or without a
\* minus: the process of that number, modulo 2^32, and never the kernel's.  And it
\* does ask, when it is written as its usage says with the number of a process.
MataAlEscrito ==
  \A i \in DOMAIN orden :
    /\ LET r == comandoBuscar(orden[i])
           argumento == separar_cadena(orden[i]).parte2
           cifras == IF argumento # <<>> /\ argumento[1] = Menos THEN Tail(argumento)
                     ELSE argumento
       IN  r[1] = "kill" =>
             /\ ToSet(cifras) \subseteq Cifras
             /\ r[2] = Valor(cifras) % Modulo32 /\ r[2] # 0
    /\ \A j \in 0 .. Len(orden[i]) :
         LET cifras == SubSeq(orden[i], Len(Nombre["kill"]) + 2, j)
         IN  ToSet(cifras) \subseteq Cifras /\ IsPrefix(Escrita("kill", cifras), orden[i])
               => LET pid == Valor(cifras) % Modulo32
                  IN  pid # 0 => comandoBuscar(orden[i]) = <<"kill", pid>>
=============================================================================
