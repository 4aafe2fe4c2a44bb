----------------------------- MODULE MCConsola ------------------------------
(* A small instance of Consola for TLC.                                     *)
EXTENDS Consola, TLC

\* Short names over the keys 'k', '[', '1' and '-', as different as the real
\* ones: kill and the two bracket commands of processes differ from one another
\* before the bracket, and crearProceso0 is like them but has none.
NombresCortos == [
  kill |-> <<107>>, crearProceso1 |-> <<49, 49>>, crearProceso2 |-> <<49, 107>>,
  crearProceso0 |-> <<49, 45>>, clear |-> <<45>>, ps |-> <<45, 107>>, free |-> <<45, 49>>,
  run1 |-> <<91>>, help |-> <<93>>]

\* What the user presses: 'k', '[', '1', ']' and '-' for the commands; 'k' and
\* the '*' of the keypad with both shifts, and without; the space and the keys
\* that have no character, one of them past the table and one beyond.
TeclasOrdenes == {37, 26, 2, 27, 12, Enter, Backspace}
TeclasConShift == {37, 55, Izq_Shift, Izq_Shift + Soltar, Der_Shift, Der_Shift + Soltar,
                   Backspace}
TeclasSinShift == {37, 55, 1, Backspace}
TeclasSinCaracter == {Space, 1, 58, 88, Izq_Shift, Izq_Shift + Soltar, Enter, Backspace}
CuatroSesiones == {TeclasOrdenes, TeclasConShift, TeclasSinShift, TeclasSinCaracter}

\* The byte past the table: nothing, a backspace or a newline.
CualquierByte == {0, 8, 10}

\* Maps of up to three entries, with some usable memory.
Entrada == [type : {UTILIZABLE, MEMORIA_KERNEL, INUTILIZABLE}, length : {0, 4, 8}, base : {16}]
EnSuLugar(mapa) == [n \in DOMAIN mapa |-> [mapa[n] EXCEPT !.base = 16 * n]]
MapasCortos ==
  {EnSuLugar(m) : m \in {m \in UNION {[1 .. n -> Entrada] : n \in 1 .. 3} :
     \E n \in DOMAIN m : m[n].type = UTILIZABLE /\ m[n].length > 0}}
PrimeraRegion == [base |-> 16, lenght |-> 8, type |-> UTILIZABLE]

-----------------------------------------------------------------------------
(* Calls of printf.                                                         *)

Modulos == "hh" :> 8 @@ "h" :> 16 @@ "" :> 32 @@ "l" :> 256 @@ "ll" :> 256

Directiva(convs, flags, anchos, precs, longitudes, args) ==
  [conv : convs, flags : SUBSET flags, ancho : anchos, prec : precs,
   longitud : longitudes, arg : args]

Precs == {<<>>, <<0>>, <<3>>, <<-1>>}
DirectivasConSigno ==
  Directiva({"d"}, {"0", "-", "+", "ESP"}, {0, 4, 7, -2}, Precs,
            {"", "hh", "ll"}, {0, -3, 120})
DirectivasSinSigno ==
  Directiva({"u", "x", "o", "b"}, {"0", "-", "#"}, {0, 3, 5}, {<<>>, <<3>>},
            {"", "h", "l"}, {0, 27, 200})
DeTexto == Directiva({"s"}, {"-"}, {0, 3, -3}, {<<>>, <<0>>, <<2>>}, {""}, {<<>>, <<"a", "b", "c", "d">>})
DeCaracter == Directiva({"c"}, {"-"}, {0, 3}, {<<>>}, {""}, {"a", "NUL"})
Otras == Directiva({"p", "X", "i"}, {"0"}, {0}, {<<>>, <<3>>}, {"ll"}, {27})
           \cup Directiva({"%", "otro"}, {}, {0}, {<<>>}, {""}, {"y"})

Literal == [conv |-> "literal", flags |-> {}, ancho |-> 0, prec |-> <<>>, longitud |-> "",
            arg |-> "L"]

\* Every directive alone on the console; and short formats to every function.
A_printf(d) == [funcion |-> "printf_", buffer |-> TRUE, count |-> 0, formato |-> <<d>>]
ConBuferPropio == {"printf_", "vprintf_", "fctprintf"}     \* never without a buffer
Funciones == ConBuferPropio \cup {"sprintf_", "snprintf_", "vsnprintf_"}
LlamadasCortas ==
  {A_printf(d) : d \in DirectivasConSigno \cup DirectivasSinSigno}
    \cup {[funcion |-> f, buffer |-> b \/ f \in ConBuferPropio, count |-> n,
           formato |-> <<Literal, d, Literal>>] :
            f \in Funciones, b \in BOOLEAN, n \in {0, 3},
            d \in DeTexto \cup DeCaracter \cup Otras}
CeldasCortas == 0 .. 15
=============================================================================
