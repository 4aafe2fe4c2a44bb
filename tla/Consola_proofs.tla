--------------------------- MODULE Consola_proofs ----------------------------
(***************************************************************************)
(* Proofs about the start and the console as one system: the console is a  *)
(* shell all the time, so what Shell_proofs and Comandos_proofs say of the *)
(* keyboard, the line and the orders holds of it; the region of memory     *)
(* that the start has chosen, for every memory map; and what a call of     *)
(* printf does to its fields and to the memory of its caller.              *)
(***************************************************************************)
EXTENDS Consola, Comandos_proofs

-----------------------------------------------------------------------------
(* The console is a shell.                                                  *)

\* The start and printf leave the shell alone; every other step is one of it.
THEOREM ConsolaEsShell == SpecConsola => Spec
<1>1. InitConsola => Init
  BY DEF InitConsola
<1>2. [NextConsola]_varsConsola => [Next]_vars
  BY DEF NextConsola, Arrancar, Imprimir, Atender, varsConsola
<1>. QED
  BY <1>1, <1>2, PTL DEF SpecConsola, Spec

\* So the line of the console is well typed and ends where it should, and holds
\* what was typed; a command is found with its argument, and kill ends whom it
\* names; and the console implements the line editor.
THEOREM LineaDeConsola ==
  SpecConsola =>
    /\ [](/\ TipoOK /\ SinRestosViejos /\ SoloLoTecleado
          /\ OrdenReconocida /\ MataAlEscrito)
    /\ RefinaEditor
<1>1. Spec => RefinaEditor
  BY ImplementaEditor
<1>. QED
  BY <1>1, ConsolaEsShell, TipoCorrecto, LineaTerminada, SoloSeEscribeLoTecleado,
     ReconoceLaOrden, MataAQuienSeEscribe, PTL

-----------------------------------------------------------------------------
(* The choice of the region.                                                *)

\* The entries read are entries of the map, and the sums and the largest length
\* are of them.  Before the search nothing is read.
TiposMapa ==
  /\ i \in Int
  /\ memoria_total \in Nat /\ memoria_disponible \in Nat /\ memoria_kernel \in Nat
  /\ memoria_trabajo.lenght \in Nat
LeidasDelMapa ==
  entradas # <<>> =>
    /\ \A n \in DOMAIN entradas : Mapa!Longitud(n) \in Nat
    /\ Mapa!Leidas \subseteq DOMAIN entradas
    /\ i \in Nat \ {0}
AntesDelMapa ==
  i = 0 =>
    /\ memoria_total = 0 /\ memoria_disponible = 0 /\ memoria_kernel = 0
    /\ memoria_trabajo = Mapa!SinRegion
IInvMapa == TiposMapa /\ LeidasDelMapa /\ AntesDelMapa /\ RegionMayor

\* Before the search nothing is read and no region chosen.
LEMMA InicioMapa == ASSUME Mapa!Init PROVE IInvMapa
BY DEF Mapa!Init, IInvMapa, TiposMapa, LeidasDelMapa, AntesDelMapa, RegionMayor,
       Mapa!RegionMayor, Mapa!SinRegion

\* The search starts with a map and its sums at 0.
LEMMA EmpezarInvariante ==
  ASSUME IInvMapa, Mapa!EmpezarMapa
  PROVE  IInvMapa'
<1>1. i = 0 /\ i' = 1 /\ entradas' \in Mapas
  BY DEF Mapa!EmpezarMapa
<1>2. UNCHANGED <<memoria_total, memoria_disponible, memoria_kernel, memoria_trabajo>>
  BY DEF Mapa!EmpezarMapa, Mapa!sumas
<1>3. memoria_total = 0 /\ memoria_disponible = 0 /\ memoria_kernel = 0
      /\ memoria_trabajo = Mapa!SinRegion
  BY <1>1 DEF IInvMapa, AntesDelMapa
<1>4. Mapa!Leidas' = {} /\ Mapa!Utiles' = {}
  BY <1>1 DEF Mapa!Leidas, Mapa!Utiles
<1>5. memoria_trabajo.lenght = 0
  BY <1>3 DEF Mapa!SinRegion
<1>6. TiposMapa' /\ AntesDelMapa'
  BY <1>1, <1>2, <1>3, <1>5 DEF TiposMapa, AntesDelMapa
<1>7. LeidasDelMapa'
  BY <1>1, <1>4, LongitudesNaturales DEF LeidasDelMapa, Mapa!Longitud
<1>8. RegionMayor'
  BY <1>2, <1>3, <1>4, <1>5 DEF RegionMayor, Mapa!RegionMayor, Mapa!SinRegion
<1>. QED
  BY <1>6, <1>7, <1>8 DEF IInvMapa

\* Its end forgets the map and keeps the region.
LEMMA CerrarInvariante ==
  ASSUME IInvMapa, Mapa!CerrarMapa
  PROVE  IInvMapa'
<1>1. /\ entradas' = <<>> /\ i' = -1 /\ UNCHANGED memoria_trabajo
      /\ memoria_total' = 0 /\ memoria_disponible' = 0 /\ memoria_kernel' = 0
  BY DEF Mapa!CerrarMapa, Mapa!Elegida
<1>. QED
  BY <1>1 DEF IInvMapa, TiposMapa, LeidasDelMapa, AntesDelMapa, RegionMayor, Mapa!RegionMayor

\* Reading an entry adds it to the useful ones, when it is.
LEMMA UtilesAlLeer ==
  ASSUME IInvMapa, Mapa!LeerEntrada
  PROVE  /\ i \in Nat \ {0} /\ i' = i + 1 /\ entradas' = entradas /\ entradas # <<>>
         /\ Mapa!Longitud(i) \in Nat
         /\ \A n \in Mapa!Utiles : n \in Nat /\ n < i /\ Mapa!Longitud(n) \in Nat \ {0}
         /\ Mapa!Leidas' = Mapa!Leidas \cup {i}
         /\ Mapa!Utiles' = Mapa!Utiles \cup
              (IF Mapa!Tipo(i) = UTILIZABLE /\ Mapa!Longitud(i) > 0 THEN {i} ELSE {})
<1>1. i \in DOMAIN entradas /\ i' = i + 1 /\ entradas' = entradas
  BY DEF Mapa!LeerEntrada
<1>2. entradas # <<>>
  BY <1>1
<1>3. i \in Nat \ {0} /\ \A n \in DOMAIN entradas : Mapa!Longitud(n) \in Nat
  BY <1>2 DEF IInvMapa, LeidasDelMapa
<1>4. Mapa!Leidas \subseteq DOMAIN entradas
  BY <1>2 DEF IInvMapa, LeidasDelMapa
<1>5. Mapa!Leidas' = Mapa!Leidas \cup {i}
  BY <1>1, <1>3 DEF Mapa!Leidas
<1>6. \A n : Mapa!Tipo(n)' = Mapa!Tipo(n) /\ Mapa!Longitud(n)' = Mapa!Longitud(n)
  BY <1>1 DEF Mapa!Tipo, Mapa!Longitud
<1>7. \A n \in Mapa!Utiles : n \in Nat /\ n < i /\ Mapa!Longitud(n) \in Nat \ {0}
  BY <1>3, <1>4 DEF Mapa!Utiles, Mapa!Leidas
<1>8. Mapa!Utiles' = Mapa!Utiles \cup
        (IF Mapa!Tipo(i) = UTILIZABLE /\ Mapa!Longitud(i) > 0 THEN {i} ELSE {})
  BY <1>5, <1>6 DEF Mapa!Utiles
<1>. QED
  BY <1>1, <1>2, <1>3, <1>5, <1>7, <1>8

\* It changes the region only for a larger one, so never when it is not useful.
LEMMA RegionAlLeer ==
  ASSUME IInvMapa, Mapa!LeerEntrada
  PROVE  /\ memoria_trabajo'.lenght \in Nat
         /\ \/ /\ Mapa!Tipo(i) = UTILIZABLE /\ Mapa!Mayor(i)
               /\ memoria_trabajo' = [base |-> Mapa!Base(i), lenght |-> Mapa!Longitud(i),
                                      type |-> UTILIZABLE]
            \/ /\ Mapa!Tipo(i) = UTILIZABLE => ~Mapa!Mayor(i)
               /\ memoria_trabajo' = memoria_trabajo
<1>1. Mapa!Longitud(i) \in Nat /\ memoria_trabajo.lenght \in Nat
  BY UtilesAlLeer DEF IInvMapa, TiposMapa
<1>2. CASE Mapa!Tipo(i) = UTILIZABLE /\ Mapa!Mayor(i)
  <2>1. memoria_trabajo' = [base |-> Mapa!Base(i), lenght |-> Mapa!Longitud(i),
                            type |-> UTILIZABLE]
    BY <1>2, TiposDistintos DEF Mapa!LeerEntrada
  <2>. QED
    BY <1>1, <1>2, <2>1
<1>3. CASE ~(Mapa!Tipo(i) = UTILIZABLE /\ Mapa!Mayor(i))
  <2>1. memoria_trabajo' = memoria_trabajo
    BY <1>3 DEF Mapa!LeerEntrada
  <2>. QED
    BY <1>1, <1>3, <2>1
<1>. QED
  BY <1>2, <1>3

\* The three sums.
LEMMA SumasAlLeer ==
  ASSUME IInvMapa, Mapa!LeerEntrada
  PROVE  /\ memoria_total' \in Nat /\ memoria_disponible' \in Nat /\ memoria_kernel' \in Nat
         /\ memoria_disponible' + memoria_kernel' <= memoria_total'
         /\ memoria_trabajo'.lenght <= memoria_disponible'
<1>1. Mapa!Longitud(i) \in Nat /\ entradas # <<>>
  BY UtilesAlLeer
<1>2. /\ memoria_total \in Nat /\ memoria_disponible \in Nat /\ memoria_kernel \in Nat
      /\ memoria_trabajo.lenght \in Nat
  BY DEF IInvMapa, TiposMapa
<1>3. /\ memoria_trabajo.lenght <= memoria_disponible
      /\ memoria_disponible + memoria_kernel <= memoria_total
  BY <1>1 DEF IInvMapa, RegionMayor, Mapa!RegionMayor
<1>4. memoria_total' = memoria_total + Mapa!Longitud(i)
  BY DEF Mapa!LeerEntrada
<1>5. CASE /\ Mapa!Tipo(i) = UTILIZABLE
           /\ memoria_disponible' = memoria_disponible + Mapa!Longitud(i)
           /\ UNCHANGED memoria_kernel
  <2>1. memoria_trabajo'.lenght \in {memoria_trabajo.lenght, Mapa!Longitud(i)}
    BY RegionAlLeer
  <2>. QED
    BY <1>1, <1>2, <1>3, <1>4, <1>5, <2>1
<1>6. CASE /\ memoria_kernel' \in {memoria_kernel, memoria_kernel + Mapa!Longitud(i)}
           /\ UNCHANGED <<memoria_disponible, memoria_trabajo>>
  BY <1>1, <1>2, <1>3, <1>4, <1>6
<1>. QED
  BY <1>5, <1>6 DEF Mapa!LeerEntrada

\* The region is then the first of the largest of one entry more.
LEMMA MayorAlLeer ==
  ASSUME IInvMapa, Mapa!LeerEntrada
  PROVE  IF Mapa!Utiles' = {} THEN memoria_trabajo' = Mapa!SinRegion
         ELSE \E n \in Mapa!Utiles' :
                /\ memoria_trabajo' = [base |-> Mapa!Base(n), lenght |-> Mapa!Longitud(n),
                                       type |-> UTILIZABLE]
                /\ \A m \in Mapa!Utiles' : m < n => Mapa!Longitud(m) < Mapa!Longitud(n)
                /\ \A m \in Mapa!Utiles' : m > n => Mapa!Longitud(m) <= Mapa!Longitud(n)
<1> DEFINE U == Mapa!Utiles
           V == Mapa!Utiles'
           L(n) == Mapa!Longitud(n)
           Es(trabajo, n) == trabajo = [base |-> Mapa!Base(n), lenght |-> L(n), type |-> UTILIZABLE]
           Primera(S, n) == /\ \A m \in S : m < n => L(m) < L(n)
                            /\ \A m \in S : m > n => L(m) <= L(n)
<1>1. V = U \cup (IF Mapa!Tipo(i) = UTILIZABLE /\ L(i) > 0 THEN {i} ELSE {})
  BY UtilesAlLeer
<1>2. /\ i \in Nat /\ L(i) \in Nat
      /\ \A n \in U : n \in Nat /\ n < i /\ L(n) \in Nat \ {0}
  BY UtilesAlLeer
<1>3. entradas # <<>>
  BY UtilesAlLeer
<1>4. IF U = {} THEN memoria_trabajo = Mapa!SinRegion
      ELSE \E n \in U : Es(memoria_trabajo, n) /\ Primera(U, n)
  BY <1>3 DEF IInvMapa, RegionMayor, Mapa!RegionMayor
<1>5. Mapa!Mayor(i) <=> L(i) > memoria_trabajo.lenght
  BY DEF Mapa!Mayor
<1>6. Mapa!SinRegion.lenght = 0
  BY DEF Mapa!SinRegion
<1>7. SUFFICES IF V = {} THEN memoria_trabajo' = Mapa!SinRegion
               ELSE \E n \in V : Es(memoria_trabajo', n) /\ Primera(V, n)
  OBVIOUS
<1>8. CASE Mapa!Tipo(i) = UTILIZABLE /\ Mapa!Mayor(i) /\ Es(memoria_trabajo', i)
  <2>1. memoria_trabajo.lenght \in Nat
    BY DEF IInvMapa, TiposMapa
  <2>2. L(i) > 0 /\ V = U \cup {i}
    BY <1>1, <1>2, <1>5, <1>8, <2>1
  <2>3. \A m \in U : L(m) < L(i)
    <3>1. CASE U = {}
      BY <3>1
    <3>2. CASE U # {}
      <4>1. PICK n \in U : Es(memoria_trabajo, n) /\ Primera(U, n)
        BY <1>4, <3>2
      <4>2. L(i) > L(n)
        BY <1>5, <1>8, <4>1
      <4>3. \A m \in U : L(m) <= L(n)
        BY <1>2, <4>1
      <4>. QED
        BY <1>2, <4>2, <4>3
    <3>. QED
      BY <3>1, <3>2
  <2>4. Primera(V, i)
    BY <1>2, <2>2, <2>3
  <2>. QED
    BY <1>8, <2>2, <2>4
<1>9. CASE (Mapa!Tipo(i) = UTILIZABLE => ~Mapa!Mayor(i)) /\ memoria_trabajo' = memoria_trabajo
  <2>1. CASE U = {}
    <3>1. memoria_trabajo = Mapa!SinRegion
      BY <1>4, <2>1
    <3>2. V = {}
      BY <1>1, <1>2, <1>5, <1>6, <1>9, <2>1, <3>1
    <3>. QED
      BY <1>9, <3>1, <3>2
  <2>2. CASE U # {}
    <3>1. PICK n \in U : Es(memoria_trabajo, n) /\ Primera(U, n)
      BY <1>4, <2>2
    <3>2. Mapa!Tipo(i) = UTILIZABLE => L(i) <= L(n)
      BY <1>2, <1>5, <1>9, <3>1
    <3>3. n \in V /\ Primera(V, n)
      BY <1>1, <1>2, <3>1, <3>2
    <3>. QED
      BY <1>9, <3>1, <3>3
  <2>. QED
    BY <2>1, <2>2
<1>. QED
  BY <1>8, <1>9, RegionAlLeer

\* Each entry read keeps the invariant of the search.
LEMMA LeerInvariante ==
  ASSUME IInvMapa, Mapa!LeerEntrada
  PROVE  IInvMapa'
<1>1. /\ i \in Nat \ {0} /\ i' = i + 1 /\ entradas' = entradas /\ entradas # <<>>
      /\ Mapa!Leidas' = Mapa!Leidas \cup {i} /\ i \in DOMAIN entradas
  BY UtilesAlLeer DEF Mapa!LeerEntrada
<1>2. \A n : /\ Mapa!Longitud(n)' = Mapa!Longitud(n) /\ Mapa!Base(n)' = Mapa!Base(n)
  BY <1>1 DEF Mapa!Longitud, Mapa!Base
<1>3. TiposMapa'
  BY <1>1, RegionAlLeer, SumasAlLeer DEF TiposMapa
<1>4. LeidasDelMapa'
  BY <1>1, <1>2 DEF IInvMapa, LeidasDelMapa
<1>5. AntesDelMapa'
  BY <1>1 DEF AntesDelMapa
<1>6. RegionMayor'
  BY <1>2, SumasAlLeer, MayorAlLeer DEF RegionMayor, Mapa!RegionMayor, Mapa!SinRegion
<1>. QED
  BY <1>3, <1>4, <1>5, <1>6 DEF IInvMapa

\* The inductive invariant, on the steps of the whole console.
THEOREM InvarianteMapa == SpecConsola => []IInvMapa
<1>1. InitConsola => IInvMapa
  BY InicioMapa DEF InitConsola
<1>2. IInvMapa /\ UNCHANGED varsMapa => IInvMapa'
  BY DEF varsMapa, IInvMapa, TiposMapa, LeidasDelMapa, AntesDelMapa, RegionMayor,
         Mapa!RegionMayor, Mapa!Leidas, Mapa!Utiles, Mapa!Longitud, Mapa!Tipo, Mapa!Base,
         Mapa!SinRegion
<1>3. IInvMapa /\ Mapa!Next => IInvMapa'
  BY EmpezarInvariante, LeerInvariante, CerrarInvariante DEF Mapa!Next
<1>4. [NextConsola]_varsConsola => Mapa!Next \/ UNCHANGED varsMapa
  BY DEF NextConsola, Arrancar, Imprimir, Atender, varsConsola
<1>. QED
  BY <1>1, <1>2, <1>3, <1>4, PTL DEF SpecConsola

\* The region of work is at every moment of the search the first of the largest
\* usable entries read, whatever the map says and however long it is.
THEOREM EligeLaMayor == SpecConsola => []RegionMayor
<1>1. IInvMapa => RegionMayor
  BY DEF IInvMapa
<1>. QED
  BY <1>1, InvarianteMapa, PTL
-----------------------------------------------------------------------------
(* The fields of printf: how long is what it writes.                        *)

\* The elements of all the formats.
Elementos == UNION {ToSet(l.formato) : l \in Llamadas}

\* Formats are made of them, and they are as the assumption says.
LEMMA ElementosDados ==
  /\ \A l \in Llamadas : l.formato \in Seq(Elementos)
  /\ \A d \in Elementos :
       /\ d.conv \in Impresion!Enteras \cup {"c", "s", "p", "%", "literal", "otro"}
       /\ d \in [conv : {d.conv}, flags : SUBSET {"0", "-", "+", Impresion!ESP, "#"},
                 ancho : Int, prec : Seq(Int), longitud : DOMAIN Modulo, arg : {d.arg}]
       /\ d.conv \in Impresion!Enteras => d.arg \in Int
       /\ d.conv = "s" => d.arg \in Seq(STRING)
<1>1. ASSUME NEW l \in Llamadas
      PROVE  l.formato \in Seq(Elementos)
  <2> DEFINE S == ToSet(l.formato)
  <2>1. l.formato \in Seq(S) /\ S \subseteq Elementos
    BY FormatosDados DEF Elementos
  <2> HIDE DEF S
  <2>. QED
    BY <2>1
<1>2. ASSUME NEW d \in Elementos
      PROVE  \E l \in Llamadas : d \in ToSet(l.formato)
  BY DEF Elementos
<1>. QED
  BY <1>1, <1>2, FormatosDados

\* A text is a sequence, of whatever characters.
EsTexto(texto) == \E S : texto \in Seq(S)

ElMayor(a, b) == IF a >= b THEN a ELSE b
ElMenor(a, b) == IF a <= b THEN a ELSE b

\* Max and Min of two numbers.
LEMMA MayorMenor ==
  ASSUME NEW a \in Int, NEW b \in Int
  PROVE  Impresion!Max({a, b}) = ElMayor(a, b) /\ Impresion!Min({a, b}) = ElMenor(a, b)
<1>1. Impresion!Max({a, b}) = ElMayor(a, b)
  <2> DEFINE m == Impresion!Max({a, b})
  <2>1. \E x \in {a, b} : \A y \in {a, b} : x >= y
    OBVIOUS
  <2>2. m \in {a, b} /\ \A y \in {a, b} : m >= y
    BY <2>1 DEF Impresion!Max
  <2> HIDE DEF m
  <2>. QED
    BY <2>2 DEF m, ElMayor
<1>2. Impresion!Min({a, b}) = ElMenor(a, b)
  <2> DEFINE m == Impresion!Min({a, b})
  <2>1. \E x \in {a, b} : \A y \in {a, b} : x <= y
    OBVIOUS
  <2>2. m \in {a, b} /\ \A y \in {a, b} : m <= y
    BY <2>1 DEF Impresion!Min
  <2> HIDE DEF m
  <2>. QED
    BY <2>2 DEF m, ElMenor
<1>. QED
  BY <1>1, <1>2

\* A padding is as long as asked, or empty.
LEMMA RepetirLargo ==
  ASSUME NEW S, NEW c \in S, NEW n \in Int
  PROVE  Impresion!Repetir(c, n) \in Seq(S) /\ Len(Impresion!Repetir(c, n)) = ElMayor(n, 0)
<1>1. Impresion!Max({n, 0}) = ElMayor(n, 0) /\ ElMayor(n, 0) \in Nat
  BY MayorMenor, 0 \in Int DEF ElMayor
<1>2. Impresion!Repetir(c, n) = [j \in 1 .. ElMayor(n, 0) |-> c]
  BY <1>1 DEF Impresion!Repetir
<1>3. \A k \in Nat : [j \in 1 .. k |-> c] \in Seq(S) /\ Len([j \in 1 .. k |-> c]) = k
  OBVIOUS
<1>. QED
  BY <1>1, <1>2, <1>3

\* Zeros take a number up to the width, and never past the buffer.
LEMMA CerosLargo ==
  ASSUME NEW S, "0" \in S, NEW buf \in Seq(S), NEW n \in Nat
  PROVE  /\ Impresion!Ceros(buf, n) \in Seq(S)
         /\ Len(Impresion!Ceros(buf, n)) = ElMayor(Len(buf), ElMenor(n, NTOA))
<1> DEFINE falta == ElMenor(n, NTOA) - Len(buf)
           ceros == Impresion!Repetir("0", falta)
<1>1. NTOA \in Nat /\ Len(buf) \in Nat
  BY FormatosDados
<1>2. Impresion!Min({n, NTOA}) = ElMenor(n, NTOA) /\ falta \in Int
  <2>1. Impresion!Min({n, NTOA}) = ElMenor(n, NTOA)
    BY <1>1, n \in Int, NTOA \in Int, MayorMenor
  <2>2. falta \in Int
    BY <1>1 DEF ElMenor
  <2>. QED
    BY <2>1, <2>2
<1>3. ceros \in Seq(S) /\ Len(ceros) = ElMayor(falta, 0)
  BY <1>2, RepetirLargo
<1>4. Impresion!Ceros(buf, n) = buf \o ceros
  BY <1>2 DEF Impresion!Ceros
<1> HIDE DEF ceros
<1>5. buf \o ceros \in Seq(S) /\ Len(buf \o ceros) = Len(buf) + Len(ceros)
  BY <1>3
<1>. QED
  BY <1>1, <1>2, <1>3, <1>4, <1>5 DEF ElMayor, ElMenor

\* One more character, if the buffer has a place.
LEMMA AgregarLargo ==
  ASSUME NEW S, NEW c \in S, NEW buf \in Seq(S)
  PROVE  /\ Impresion!Agregar(buf, c) \in Seq(S)
         /\ Len(Impresion!Agregar(buf, c)) = IF Len(buf) < NTOA THEN Len(buf) + 1 ELSE Len(buf)
BY DEF Impresion!Agregar

\* _out_rev fills the field with spaces, unless it is already full of zeros.
LEMMA out_revLargo ==
  ASSUME NEW S, Impresion!ESP \in S, NEW buf \in Seq(S), NEW width \in Int, NEW flags
  PROVE  /\ Impresion!out_rev(buf, width, flags) \in Seq(S)
         /\ Len(Impresion!out_rev(buf, width, flags)) =
              IF "0" \in flags /\ "-" \notin flags THEN Len(buf) ELSE ElMayor(Len(buf), width)
<1> DEFINE hueco == Impresion!Repetir(Impresion!ESP, width - Len(buf))
           vuelta == Impresion!Reverse(buf)
           antes == IF flags \cap {"-", "0"} = {} THEN hueco ELSE <<>>
           despues == IF "-" \in flags THEN hueco ELSE <<>>
<1>1. Len(buf) \in Nat
  OBVIOUS
<1>2. hueco \in Seq(S) /\ Len(hueco) = ElMayor(width - Len(buf), 0)
  <2>1. width - Len(buf) \in Int
    BY <1>1
  <2>. QED
    BY <2>1, RepetirLargo
<1>3. vuelta \in Seq(S) /\ Len(vuelta) = Len(buf)
  BY DEF Impresion!Reverse
<1>4. Impresion!out_rev(buf, width, flags) = (antes \o vuelta) \o despues
  BY DEF Impresion!out_rev
<1> HIDE DEF hueco, vuelta
<1>5. /\ antes \in Seq(S) /\ despues \in Seq(S)
      /\ Len(antes) = (IF "-" \in flags \/ "0" \in flags THEN 0 ELSE Len(hueco))
      /\ Len(despues) = (IF "-" \in flags THEN Len(hueco) ELSE 0)
  BY <1>2
<1> HIDE DEF antes, despues
<1>6. antes \o vuelta \in Seq(S) /\ Len(antes \o vuelta) = Len(antes) + Len(vuelta)
  BY <1>3, <1>5
<1> DEFINE medio == antes \o vuelta
<1>7. medio \o despues \in Seq(S) /\ Len(medio \o despues) = Len(medio) + Len(despues)
  <2> HIDE DEF medio
  <2>1. medio \in Seq(S)
    BY <1>6 DEF medio
  <2>2. despues \in Seq(S)
    BY <1>5
  <2>. QED
    BY <2>1, <2>2, ConcatProperties
<1>8. Len(Impresion!out_rev(buf, width, flags)) = Len(antes) + Len(buf) + Len(despues)
  BY <1>3, <1>4, <1>6, <1>7
<1>9. Len(Impresion!out_rev(buf, width, flags)) =
        IF "0" \in flags /\ "-" \notin flags THEN Len(buf) ELSE Len(buf) + Len(hueco)
  <2>1. Len(hueco) \in Nat
    BY <1>2
  <2>2. Len(antes) = (IF "-" \in flags \/ "0" \in flags THEN 0 ELSE Len(hueco))
    BY <1>5
  <2>3. Len(despues) = (IF "-" \in flags THEN Len(hueco) ELSE 0)
    BY <1>5
  <2>4. CASE "-" \in flags
    BY <1>1, <1>8, <2>1, <2>2, <2>3, <2>4
  <2>5. CASE "-" \notin flags /\ "0" \in flags
    BY <1>1, <1>8, <2>1, <2>2, <2>3, <2>5
  <2>6. CASE "-" \notin flags /\ "0" \notin flags
    BY <1>1, <1>8, <2>1, <2>2, <2>3, <2>6
  <2>. QED
    BY <2>4, <2>5, <2>6
<1>10. Len(buf) + Len(hueco) = ElMayor(Len(buf), width)
  BY <1>1, <1>2 DEF ElMayor
<1>. QED
  BY <1>4, <1>7, <1>9, <1>10

\* The sign takes a place, if there is one left.
LEMMA PonerSignoLargo ==
  ASSUME NEW S, "-" \in S, "+" \in S, Impresion!ESP \in S, NEW buf \in Seq(S),
         NEW negative, NEW flags
  PROVE  /\ Impresion!PonerSigno(buf, negative, flags) \in Seq(S)
         /\ Len(Impresion!PonerSigno(buf, negative, flags)) =
              IF Len(buf) < NTOA /\ (negative \/ "+" \in flags \/ Impresion!ESP \in flags)
                THEN Len(buf) + 1 ELSE Len(buf)
<1> DEFINE firmado == Impresion!PonerSigno(buf, negative, flags)
<1>1. CASE negative
  <2>1. firmado = Impresion!Agregar(buf, "-")
    BY <1>1 DEF Impresion!PonerSigno
  <2>. QED
    BY <1>1, <2>1, AgregarLargo
<1>2. CASE ~negative /\ "+" \in flags
  <2>1. firmado = Impresion!Agregar(buf, "+")
    BY <1>2 DEF Impresion!PonerSigno
  <2>2. /\ Impresion!Agregar(buf, "+") \in Seq(S)
        /\ Len(Impresion!Agregar(buf, "+")) = IF Len(buf) < NTOA THEN Len(buf) + 1 ELSE Len(buf)
    BY "+" \in S, AgregarLargo
  <2>. QED
    BY <1>2, <2>1, <2>2
<1>3. CASE ~negative /\ "+" \notin flags /\ Impresion!ESP \in flags
  <2>1. firmado = Impresion!Agregar(buf, Impresion!ESP)
    BY <1>3 DEF Impresion!PonerSigno
  <2>. QED
    BY <1>3, <2>1, AgregarLargo
<1>4. CASE ~negative /\ "+" \notin flags /\ Impresion!ESP \notin flags
  <2>1. firmado = buf
    BY <1>4 DEF Impresion!PonerSigno
  <2>. QED
    BY <1>4, <2>1
<1>. QED
  BY <1>1, <1>2, <1>3, <1>4

\* Without '#', an integer on the right is its digits, the zeros of the precision
\* and of the width, the sign and the spaces; on the left it has no zeros.  Its
\* length is this, when it has n digits.
LargoEntero(n, negative, prec, width, flags) ==
  LET signo == IF negative \/ "+" \in flags \/ Impresion!ESP \in flags THEN 1 ELSE 0
      firmado(m) == IF m < NTOA THEN m + signo ELSE m
      conPrec == ElMayor(n, ElMenor(prec, NTOA))
  IN  IF "-" \in flags THEN ElMayor(firmado(n), width)
      ELSE IF "0" \in flags
        THEN firmado(ElMayor(conPrec, ElMenor(IF width = 0 THEN 0 ELSE width - signo, NTOA)))
      ELSE ElMayor(firmado(conPrec), width)

\* _ntoa_format writes that many characters.
LEMMA FormatoLargo ==
  ASSUME NEW S, "0" \in S, "-" \in S, "+" \in S, Impresion!ESP \in S, NEW buf \in Seq(S),
         NEW negative, NEW base, NEW prec \in Nat, NEW width \in Nat, NEW flags,
         "#" \notin flags
  PROVE  Len(Impresion!ntoa_format(buf, negative, base, prec, width, flags)) =
           LargoEntero(Len(buf), negative, prec, width, flags)
<1> DEFINE haySigno == negative \/ "+" \in flags \/ Impresion!ESP \in flags
           signo == IF haySigno THEN 1 ELSE 0
           firmado(n) == IF n < NTOA THEN n + signo ELSE n
           izquierda == "-" \in flags
           lugar == Impresion!LugarDelSigno(negative, flags)
           w == IF izquierda \/ width = 0 THEN width ELSE width - lugar
           conPrec == IF izquierda THEN buf ELSE Impresion!Ceros(buf, prec)
           conCeros == IF ~izquierda /\ "0" \in flags THEN Impresion!Ceros(conPrec, w)
                       ELSE conPrec
           conSigno == Impresion!PonerSigno(conCeros, negative, flags)
<1>1. Impresion!Prefijo(conCeros, base, prec, w, flags) = conCeros
  BY DEF Impresion!Prefijo
<1>2. Impresion!ntoa_format(buf, negative, base, prec, width, flags)
        = Impresion!out_rev(conSigno, w, flags)
  BY <1>1 DEF Impresion!ntoa_format
<1>3. lugar = (IF "0" \in flags THEN signo ELSE 0)
  BY DEF Impresion!LugarDelSigno
<1>4. lugar \in {0, 1} /\ signo \in {0, 1} /\ w \in Int /\ (width = 0 => w = 0)
  BY <1>3
<1>5. w \in Nat
  BY <1>4
<1>6. /\ conPrec \in Seq(S)
      /\ Len(conPrec) = IF izquierda THEN Len(buf) ELSE ElMayor(Len(buf), ElMenor(prec, NTOA))
  BY CerosLargo
<1> HIDE DEF conPrec, w, lugar
<1>7. /\ conCeros \in Seq(S)
      /\ Len(conCeros) = IF ~izquierda /\ "0" \in flags
                           THEN ElMayor(Len(conPrec), ElMenor(w, NTOA)) ELSE Len(conPrec)
  BY <1>5, <1>6, CerosLargo
<1> HIDE DEF conCeros
<1>8. conSigno \in Seq(S) /\ Len(conSigno) = firmado(Len(conCeros))
  <2>1. NTOA \in Nat /\ Len(conCeros) \in Nat
    BY <1>7, FormatosDados
  <2>2. /\ conSigno \in Seq(S)
        /\ Len(conSigno) = IF Len(conCeros) < NTOA /\ haySigno
                             THEN Len(conCeros) + 1 ELSE Len(conCeros)
    BY <1>7, PonerSignoLargo
  <2>. QED
    BY <2>1, <2>2
<1> HIDE DEF conSigno, signo
<1>9. Len(Impresion!out_rev(conSigno, w, flags)) =
        IF "0" \in flags /\ ~izquierda THEN Len(conSigno) ELSE ElMayor(Len(conSigno), w)
  BY <1>5, <1>8, out_revLargo
<1>10. CASE izquierda
  <2>1. w = width
    BY <1>10 DEF w
  <2>. QED
    BY <1>2, <1>6, <1>7, <1>8, <1>9, <1>10, <2>1 DEF signo, LargoEntero
<1>11. CASE ~izquierda /\ "0" \in flags
  <2>1. w = IF width = 0 THEN 0 ELSE width - signo
    BY <1>3, <1>11 DEF w
  <2>. QED
    BY <1>2, <1>6, <1>7, <1>8, <1>9, <1>11, <2>1 DEF signo, LargoEntero
<1>12. CASE ~izquierda /\ "0" \notin flags
  <2>1. w = width
    BY <1>3, <1>12 DEF w
  <2>. QED
    BY <1>2, <1>6, <1>7, <1>8, <1>9, <1>12, <2>1 DEF signo, LargoEntero
<1>. QED
  BY <1>10, <1>11, <1>12

\* So the width is what the contents, which are the same without it, lack.
LEMMA FormatoEnCampo ==
  ASSUME NEW S, "0" \in S, "-" \in S, "+" \in S, Impresion!ESP \in S, NEW buf \in Seq(S),
         NEW negative, NEW base, NEW prec \in Nat, NEW width \in Nat, NEW flags,
         "#" \notin flags,
         "0" \in flags /\ "-" \notin flags => width <= NTOA /\ prec = 0
  PROVE  /\ Len(Impresion!ntoa_format(buf, negative, base, prec, width, flags)) =
              ElMayor(width, Len(Impresion!ntoa_format(buf, negative, base, prec, 0, flags)))
         /\ Len(Impresion!ntoa_format(buf, negative, base, prec, 0, flags)) \in Nat
<1> DEFINE haySigno == negative \/ "+" \in flags \/ Impresion!ESP \in flags
           signo == IF haySigno THEN 1 ELSE 0
           firmado(n) == IF n < NTOA THEN n + signo ELSE n
           w(ancho) == IF ancho = 0 THEN 0 ELSE ancho - signo
           largo(ancho) == Len(Impresion!ntoa_format(buf, negative, base, prec, ancho, flags))
<1>1. NTOA \in Nat \ {0} /\ Len(buf) \in Nat /\ signo \in {0, 1}
  BY FormatosDados
<1>2. \A ancho \in Nat : largo(ancho) = LargoEntero(Len(buf), negative, prec, ancho, flags)
  BY FormatoLargo
<1>. HIDE DEF largo
<1>3. \A ancho \in Nat : largo(ancho) =
        IF "-" \in flags THEN ElMayor(firmado(Len(buf)), ancho)
        ELSE IF "0" \in flags
          THEN firmado(ElMayor(ElMayor(Len(buf), ElMenor(prec, NTOA)), ElMenor(w(ancho), NTOA)))
        ELSE ElMayor(firmado(ElMayor(Len(buf), ElMenor(prec, NTOA))), ancho)
  BY <1>2 DEF LargoEntero
<1> HIDE DEF largo, signo
<1>0. SUFFICES largo(width) = ElMayor(width, largo(0)) /\ largo(0) \in Nat
  BY DEF largo
<1>4. 0 \in Nat
  OBVIOUS
<1>5. CASE "-" \in flags
  <2>1. largo(width) = ElMayor(firmado(Len(buf)), width) /\ largo(0) = ElMayor(firmado(Len(buf)), 0)
    BY <1>3, <1>4, <1>5
  <2>. QED
    BY <1>1, <2>1 DEF ElMayor
<1>6. CASE "-" \notin flags /\ "0" \in flags
  <2> DEFINE n == ElMayor(Len(buf), ElMenor(prec, NTOA))
  <2>1. /\ largo(width) = firmado(ElMayor(n, ElMenor(w(width), NTOA)))
        /\ largo(0) = firmado(ElMayor(n, ElMenor(w(0), NTOA)))
    BY <1>3, <1>4, <1>6
  <2>2. n = Len(buf) /\ width <= NTOA
    BY <1>1, <1>6 DEF ElMayor, ElMenor
  <2> HIDE DEF n
  <2>. QED
    BY <1>1, <2>1, <2>2 DEF ElMayor, ElMenor
<1>7. CASE "-" \notin flags /\ "0" \notin flags
  <2> DEFINE n == ElMayor(Len(buf), ElMenor(prec, NTOA))
  <2>1. largo(width) = ElMayor(firmado(n), width) /\ largo(0) = ElMayor(firmado(n), 0)
    BY <1>3, <1>4, <1>7
  <2>2. n \in Nat
    BY <1>1 DEF ElMayor, ElMenor
  <2> HIDE DEF n
  <2>. QED
    BY <1>1, <2>1, <2>2 DEF ElMayor
<1>. QED
  BY <1>5, <1>6, <1>7

\* A text in its field.
LEMMA EnCampoLargo ==
  ASSUME NEW S, Impresion!ESP \in S, NEW texto \in Seq(S), NEW d, Impresion!Ancho(d) \in Nat
  PROVE  /\ Impresion!EnCampo(texto, d) \in Seq(S)
         /\ Len(Impresion!EnCampo(texto, d)) = ElMayor(Impresion!Ancho(d), Len(texto))
<1> DEFINE hueco == Impresion!Repetir(Impresion!ESP, Impresion!Ancho(d) - Len(texto))
<1>1. Len(texto) \in Nat /\ Impresion!Ancho(d) - Len(texto) \in Int
  OBVIOUS
<1>2. hueco \in Seq(S) /\ Len(hueco) = ElMayor(Impresion!Ancho(d) - Len(texto), 0)
  BY <1>1, RepetirLargo
<1>3. Impresion!EnCampo(texto, d) \in {texto \o hueco, hueco \o texto}
  BY DEF Impresion!EnCampo
<1> HIDE DEF hueco
<1>4. /\ texto \o hueco \in Seq(S) /\ Len(texto \o hueco) = Len(texto) + Len(hueco)
      /\ hueco \o texto \in Seq(S) /\ Len(hueco \o texto) = Len(texto) + Len(hueco)
  BY <1>2
<1>5. /\ Impresion!EnCampo(texto, d) \in Seq(S)
      /\ Len(Impresion!EnCampo(texto, d)) = Len(texto) + Len(hueco)
  BY <1>3, <1>4
<1>. QED
  BY <1>1, <1>2, <1>5 DEF ElMayor

\* The digits of a value, whatever it is, are a text of at most NTOA characters.
LEMMA DigitosTexto ==
  ASSUME NEW value, NEW base, NEW flags
  PROVE  \E S : /\ "0" \in S /\ "-" \in S /\ "+" \in S /\ Impresion!ESP \in S
                 /\ "x" \in S /\ "X" \in S /\ "b" \in S
                 /\ Impresion!Digitos(value, base, flags) \in Seq(S)
<1> DEFINE bastan == {NTOA} \cup {n \in 1 .. NTOA : Impresion!Dividido(value, base)[n] = 0}
           k == Impresion!Cuantas(value, base)
           digitos == Impresion!Digitos(value, base, flags)
           S == {digitos[j] : j \in 1 .. k} \cup {"0", "-", "+", Impresion!ESP, "x", "X", "b"}
<1>1. bastan \in SUBSET Nat /\ bastan # {}
  BY FormatosDados
<1>2. Impresion!Min(bastan) = Min(bastan)
  BY DEF Impresion!Min, Min
<1>3. k = Impresion!Min(bastan)
  BY DEF Impresion!Cuantas
<1> HIDE DEF bastan, k
<1>4. Min(bastan) \in bastan
  BY <1>1, HayMinimo
<1>5. k \in Nat
  BY <1>1, <1>2, <1>3, <1>4
<1>6. DOMAIN digitos = 1 .. k /\ digitos = [j \in 1 .. k |-> digitos[j]]
  BY DEF Impresion!Digitos, k
<1> HIDE DEF digitos
<1>7. digitos \in [1 .. k -> S]
  BY <1>6
<1> HIDE DEF S
<1>8. digitos \in Seq(S)
  BY <1>5, <1>7
<1>. QED
  BY <1>8 DEF S, digitos

\* The same directive without its width.
LEMMA SinAnchoEs ==
  ASSUME NEW d \in Elementos
  PROVE  LET e == Impresion!SinAncho(d)
         IN  /\ e.conv = d.conv /\ e.arg = d.arg /\ e.longitud = d.longitud /\ e.prec = d.prec
             /\ Impresion!Ancho(e) = 0
             /\ Impresion!Banderas(e) = Impresion!Banderas(d)
<1> DEFINE e == Impresion!SinAncho(d)
<1>1. /\ d \in [conv : {d.conv}, flags : SUBSET {"0", "-", "+", Impresion!ESP, "#"},
                ancho : Int, prec : Seq(Int), longitud : DOMAIN Modulo, arg : {d.arg}]
  BY ElementosDados
<1>2. /\ e.conv = d.conv /\ e.arg = d.arg /\ e.longitud = d.longitud /\ e.prec = d.prec
      /\ e.ancho = 0
      /\ e.flags = d.flags \cup (IF d.ancho < 0 THEN {"-"} ELSE {})
  BY <1>1 DEF Impresion!SinAncho
<1> HIDE DEF e
<1>3. Impresion!Ancho(e) = 0
  BY <1>2 DEF Impresion!Ancho
<1>4. Impresion!Banderas(e) = Impresion!Banderas(d)
  BY <1>2 DEF Impresion!Banderas
<1>. QED
  BY <1>2, <1>3, <1>4 DEF e

\* Width and precision are naturals, whatever the format gives.
LEMMA AnchoNatural ==
  ASSUME NEW d \in Elementos
  PROVE  Impresion!Ancho(d) \in Nat /\ Impresion!Precision(d) \in Nat
<1>1. d.ancho \in Int /\ d.prec \in Seq(Int)
  BY ElementosDados
<1>2. Impresion!Ancho(d) \in Nat
  BY <1>1 DEF Impresion!Ancho
<1>3. CASE d.prec = <<>>
  BY <1>2, <1>3 DEF Impresion!Precision
<1>4. CASE d.prec # <<>>
  <2>1. d.prec[1] \in Int
    BY <1>1, <1>4
  <2>2. Impresion!Max({d.prec[1], 0}) = ElMayor(d.prec[1], 0)
    BY <2>1, 0 \in Int, MayorMenor
  <2>. QED
    BY <1>2, <1>4, <2>1, <2>2 DEF Impresion!Precision, ElMayor
<1>. QED
  BY <1>3, <1>4

\* An integer without prefix fills its field, and no more than that.
LEMMA EnteroEnCampo ==
  ASSUME NEW d \in Elementos, d.conv \in Impresion!Enteras,
         "#" \notin Impresion!BanderasEntero(d),
         {"0", "-"} \cap Impresion!BanderasEntero(d) = {"0"} => Impresion!Ancho(d) <= NTOA
  PROVE  /\ Len(Impresion!Entero(d)) =
              ElMayor(Impresion!Ancho(d), Len(Impresion!Entero(Impresion!SinAncho(d))))
         /\ Len(Impresion!Entero(Impresion!SinAncho(d))) \in Nat
<1> DEFINE e == Impresion!SinAncho(d)
           flags == Impresion!BanderasEntero(d)
           v == Impresion!Valor(d)
           prec == Impresion!Precision(d)
           base == Impresion!Base(d)
           buf == IF Impresion!Magnitud(v) = 0 /\ "." \in flags THEN <<>>
                  ELSE Impresion!Digitos(Impresion!Magnitud(v), base, flags)
<1>1. /\ e.conv = d.conv /\ e.arg = d.arg /\ e.longitud = d.longitud /\ e.prec = d.prec
      /\ Impresion!Ancho(e) = 0
      /\ Impresion!Banderas(e) = Impresion!Banderas(d)
  BY SinAnchoEs
<1> HIDE DEF e
<1>2. Impresion!BanderasEntero(e) = flags
  BY <1>1 DEF Impresion!BanderasEntero
<1>3. Impresion!Valor(e) = v /\ Impresion!Precision(e) = prec /\ Impresion!Base(e) = base
  BY <1>1 DEF Impresion!Valor, Impresion!Precision, Impresion!Base
<1>4. Impresion!Ancho(d) \in Nat /\ prec \in Nat
  BY AnchoNatural
<1>5. "0" \in flags /\ "-" \notin flags => prec = 0
  BY DEF Impresion!BanderasEntero, Impresion!Banderas, Impresion!Precision
<1>6. flags \ {"#"} = flags
  OBVIOUS
<1>7. \A f \in {d, e} :
        Impresion!Entero(f) =
          Impresion!ntoa_format(buf, v < 0, base, prec, Impresion!Ancho(f), flags)
  <2> SUFFICES ASSUME NEW f \in {d, e}
               PROVE  Impresion!Entero(f) =
                        Impresion!ntoa_format(buf, v < 0, base, prec, Impresion!Ancho(f), flags)
    OBVIOUS
  <2>1. /\ Impresion!Valor(f) = v /\ Impresion!Precision(f) = prec
        /\ Impresion!Base(f) = base /\ Impresion!BanderasEntero(f) = flags
    BY <1>2, <1>3
  <2> HIDE DEF v, prec, base, flags
  <2>2. Impresion!Entero(f) =
          Impresion!ntoa_long(Impresion!Magnitud(v), v < 0, base, prec, Impresion!Ancho(f), flags)
    BY <2>1 DEF Impresion!Entero, Impresion!ntoa_long_long
  <2>3. (IF Impresion!Magnitud(v) = 0 THEN flags \ {"#"} ELSE flags) = flags
    BY <1>6
  <2>. QED
    BY <2>2, <2>3 DEF Impresion!ntoa_long
<1>8. PICK S : /\ "0" \in S /\ "-" \in S /\ "+" \in S /\ Impresion!ESP \in S
               /\ Impresion!Digitos(Impresion!Magnitud(v), base, flags) \in Seq(S)
  BY DigitosTexto
<1>9. buf \in Seq(S)
  BY <1>8
<1>10. "0" \in flags /\ "-" \notin flags => Impresion!Ancho(d) <= NTOA /\ prec = 0
  BY <1>5
<1> HIDE DEF buf, v, prec, base, flags
<1>11. "#" \notin flags
  BY DEF flags
<1>12. /\ Len(Impresion!ntoa_format(buf, v < 0, base, prec, Impresion!Ancho(d), flags)) =
            ElMayor(Impresion!Ancho(d), Len(Impresion!ntoa_format(buf, v < 0, base, prec, 0, flags)))
       /\ Len(Impresion!ntoa_format(buf, v < 0, base, prec, 0, flags)) \in Nat
  BY <1>4, <1>8, <1>9, <1>10, <1>11, FormatoEnCampo
<1>. QED
  BY <1>1, <1>7, <1>12 DEF e

\* So do a string and a character.
LEMMA TextoEnCampo ==
  ASSUME NEW d \in Elementos, d.conv \in {"c", "s"}
  PROVE  /\ Len(Impresion!Pieza(d)) =
              ElMayor(Impresion!Ancho(d), Len(Impresion!Pieza(Impresion!SinAncho(d))))
         /\ Len(Impresion!Pieza(Impresion!SinAncho(d))) \in Nat
         /\ EsTexto(Impresion!Pieza(d))
<1> DEFINE e == Impresion!SinAncho(d)
           texto == IF d.conv = "c" THEN <<d.arg>>
                    ELSE SubSeq(d.arg, 1, Impresion!strnlen_s(d.arg, d))
           S == {texto[j] : j \in 1 .. Len(texto)} \cup {Impresion!ESP}
<1>1. /\ e.conv = d.conv /\ e.arg = d.arg /\ e.longitud = d.longitud /\ e.prec = d.prec
      /\ Impresion!Ancho(e) = 0
      /\ Impresion!Banderas(e) = Impresion!Banderas(d)
  BY SinAnchoEs
<1> HIDE DEF e
<1>2. Impresion!Precision(e) = Impresion!Precision(d)
  BY <1>1 DEF Impresion!Precision
<1>3. Impresion!strnlen_s(e.arg, e) = Impresion!strnlen_s(d.arg, d)
  BY <1>1, <1>2 DEF Impresion!strnlen_s
<1>4. \A f \in {d, e} : Impresion!Pieza(f) = Impresion!EnCampo(texto, f)
  <2>1. CASE d.conv = "c"
    BY <1>1, <2>1 DEF Impresion!Pieza, Impresion!Caracter, Impresion!Enteras
  <2>2. CASE d.conv = "s"
    BY <1>1, <1>3, <2>2 DEF Impresion!Pieza, Impresion!Texto, Impresion!Enteras
  <2>. QED
    BY <2>1, <2>2
<1>5. \E T : texto \in Seq(T)
  <2>1. CASE d.conv = "c"
    <3>1. texto \in Seq({d.arg})
      BY <2>1
    <3>. QED
      BY <3>1
  <2>2. CASE d.conv = "s"
    <3>1. d.arg \in Seq(STRING)
      BY <2>2, ElementosDados
    <3>2. Impresion!strnlen_s(d.arg, d) \in 0 .. Len(d.arg)
      <4>1. Len(d.arg) \in Nat /\ Impresion!Precision(d) \in Nat
        BY <3>1, AnchoNatural
      <4>2. Impresion!Min({Len(d.arg), Impresion!Precision(d)})
              = ElMenor(Len(d.arg), Impresion!Precision(d))
        <5>1. Len(d.arg) \in Int /\ Impresion!Precision(d) \in Int
          BY <4>1
        <5>. QED
          BY <5>1, MayorMenor, Zenon
      <4>3. Impresion!strnlen_s(d.arg, d) \in
              {Len(d.arg), ElMenor(Len(d.arg), Impresion!Precision(d))}
        BY <4>2 DEF Impresion!strnlen_s
      <4>. QED
        BY <4>1, <4>3 DEF ElMenor
    <3>3. texto \in Seq(STRING)
      BY <2>2, <3>1, <3>2
    <3>. QED
      BY <3>3
  <2>. QED
    BY <2>1, <2>2
<1> HIDE DEF texto
<1>6. texto \in Seq(S) /\ Impresion!ESP \in S
  <2>1. PICK T : texto \in Seq(T)
    BY <1>5
  <2>2. Len(texto) \in Nat /\ texto \in [1 .. Len(texto) -> T]
    BY <2>1
  <2>3. texto \in [1 .. Len(texto) -> S]
    BY <2>2
  <2> HIDE DEF S
  <2>4. texto \in Seq(S)
    BY <2>2, <2>3
  <2>. QED
    BY <2>4 DEF S
<1> HIDE DEF S
<1>7. Impresion!Ancho(d) \in Nat /\ Impresion!Ancho(e) \in Nat
  BY <1>1, AnchoNatural
<1>8. /\ Impresion!EnCampo(texto, d) \in Seq(S)
      /\ Len(Impresion!EnCampo(texto, d)) = ElMayor(Impresion!Ancho(d), Len(texto))
      /\ Len(Impresion!EnCampo(texto, e)) = ElMayor(Impresion!Ancho(e), Len(texto))
  BY <1>6, <1>7, EnCampoLargo
<1>9. Len(Impresion!Pieza(d)) = ElMayor(Impresion!Ancho(d), Len(texto))
      /\ Len(Impresion!Pieza(e)) = ElMayor(0, Len(texto))
  BY <1>1, <1>4, <1>8
<1>10. Len(texto) \in Nat
  BY <1>6
<1>11. EsTexto(Impresion!Pieza(d))
  <2>1. Impresion!Pieza(d) \in Seq(S)
    BY <1>4, <1>8
  <2>. QED
    BY <2>1 DEF EsTexto
<1>. QED
  BY <1>7, <1>9, <1>10, <1>11 DEF ElMayor, e

\* Whatever the directive, it writes a text: a finite one.
LEMMA PrefijoTexto ==
  ASSUME NEW S, "0" \in S, "x" \in S, "X" \in S, "b" \in S, NEW buf \in Seq(S),
         NEW base, NEW prec, NEW width, NEW flags
  PROVE  Impresion!Prefijo(buf, base, prec, width, flags) \in Seq(S)
<1> DEFINE cuantos == IF base = 16 THEN 2 ELSE 1
           sobran == IF "." \notin flags /\ Len(buf) \in {prec, width}
                       THEN Impresion!Min({Len(buf), cuantos}) ELSE 0
           queda == SubSeq(buf, 1, Len(buf) - sobran)
           letra == CASE base = 16 -> Impresion!Agregar(queda, IF "U" \in flags THEN "X" ELSE "x")
                      [] base = 2 -> Impresion!Agregar(queda, "b")
                      [] OTHER -> queda
<1>1. Len(buf) \in Nat /\ cuantos \in Nat
  OBVIOUS
<1> HIDE DEF cuantos
<1>2. Impresion!Min({Len(buf), cuantos}) = ElMenor(Len(buf), cuantos)
  <2>1. Len(buf) \in Int /\ cuantos \in Int
    BY <1>1
  <2>. QED
    BY <2>1, MayorMenor, Zenon
<1>3. sobran \in 0 .. Len(buf)
  BY <1>1, <1>2 DEF ElMenor
<1> HIDE DEF sobran
<1>4. queda \in Seq(S)
  BY <1>1, <1>3
<1> HIDE DEF queda
<1>5. letra \in Seq(S)
  <2>1. CASE base = 16
    <3>1. (IF "U" \in flags THEN "X" ELSE "x") \in S
      OBVIOUS
    <3>2. letra = Impresion!Agregar(queda, IF "U" \in flags THEN "X" ELSE "x")
      BY <2>1
    <3>. QED
      BY <1>4, <3>1, <3>2, AgregarLargo
  <2>2. CASE base # 16 /\ base = 2
    BY <1>4, <2>2, AgregarLargo
  <2>3. CASE base # 16 /\ base # 2
    BY <1>4, <2>3
  <2>. QED
    BY <2>1, <2>2, <2>3
<1>6. Impresion!Prefijo(buf, base, prec, width, flags)
        = IF "#" \in flags THEN Impresion!Agregar(letra, "0") ELSE buf
  BY DEF Impresion!Prefijo, queda, sobran, cuantos
<1> HIDE DEF letra
<1>. QED
  BY <1>5, <1>6, AgregarLargo

\* With the prefix too, a number is a finite text.
LEMMA FormatoTexto ==
  ASSUME NEW S, "0" \in S, "-" \in S, "+" \in S, Impresion!ESP \in S,
         "x" \in S, "X" \in S, "b" \in S, NEW buf \in Seq(S),
         NEW negative, NEW base, NEW prec \in Nat, NEW width \in Nat, NEW flags
  PROVE  Impresion!ntoa_format(buf, negative, base, prec, width, flags) \in Seq(S)
<1> DEFINE izquierda == "-" \in flags
           lugar == Impresion!LugarDelSigno(negative, flags)
           w == IF izquierda \/ width = 0 THEN width ELSE width - lugar
           conPrec == IF izquierda THEN buf ELSE Impresion!Ceros(buf, prec)
           conCeros == IF ~izquierda /\ "0" \in flags THEN Impresion!Ceros(conPrec, w)
                       ELSE conPrec
           conPrefijo == Impresion!Prefijo(conCeros, base, prec, w, flags)
           conSigno == Impresion!PonerSigno(conPrefijo, negative, flags)
<1>1. lugar \in {0, 1}
  BY DEF Impresion!LugarDelSigno
<1>2. w \in Nat
  BY <1>1
<1> HIDE DEF w
<1>3. conPrec \in Seq(S)
  BY CerosLargo
<1> HIDE DEF conPrec
<1>4. conCeros \in Seq(S)
  BY <1>2, <1>3, CerosLargo
<1> HIDE DEF conCeros
<1>5. conPrefijo \in Seq(S)
  BY <1>4, PrefijoTexto
<1> HIDE DEF conPrefijo
<1>6. conSigno \in Seq(S)
  BY <1>5, PonerSignoLargo
<1> HIDE DEF conSigno
<1>7. Impresion!out_rev(conSigno, w, flags) \in Seq(S)
  <2>1. w \in Int
    BY <1>2
  <2>. QED
    BY <1>6, <2>1, out_revLargo
<1>8. Impresion!ntoa_format(buf, negative, base, prec, width, flags)
        = Impresion!out_rev(conSigno, w, flags)
  BY DEF Impresion!ntoa_format, conSigno, conPrefijo, conCeros, conPrec, w
<1>. QED
  BY <1>7, <1>8

\* From its value on.
LEMMA EnteroTexto ==
  ASSUME NEW value, NEW negative, NEW base, NEW prec \in Nat, NEW width \in Nat, NEW flags
  PROVE  EsTexto(Impresion!ntoa_long(value, negative, base, prec, width, flags))
<1> DEFINE buf == IF value = 0 /\ "." \in flags THEN <<>> ELSE Impresion!Digitos(value, base, flags)
           fl == IF value = 0 THEN flags \ {"#"} ELSE flags
<1>1. PICK S : /\ "0" \in S /\ "-" \in S /\ "+" \in S /\ Impresion!ESP \in S
               /\ "x" \in S /\ "X" \in S /\ "b" \in S
               /\ Impresion!Digitos(value, base, flags) \in Seq(S)
  BY DigitosTexto
<1>2. buf \in Seq(S)
  BY <1>1
<1>3. Impresion!ntoa_long(value, negative, base, prec, width, flags)
        = Impresion!ntoa_format(buf, negative, base, prec, width, fl)
  BY DEF Impresion!ntoa_long
<1> HIDE DEF buf, fl
<1>4. Impresion!ntoa_format(buf, negative, base, prec, width, fl) \in Seq(S)
  BY <1>1, <1>2, FormatoTexto
<1>. QED
  BY <1>3, <1>4 DEF EsTexto

\* And so is what any element of a format writes.
LEMMA PiezaTexto ==
  ASSUME NEW d \in Elementos
  PROVE  EsTexto(Impresion!Pieza(d))
<1>1. Impresion!Ancho(d) \in Nat /\ Impresion!Precision(d) \in Nat /\ AnchoPuntero \in Nat
  BY AnchoNatural, FormatosDados
<1>2. CASE d.conv \in Impresion!Enteras
  <2>1. Impresion!Pieza(d) = Impresion!Entero(d)
    BY <1>2 DEF Impresion!Pieza, Impresion!Enteras
  <2>. QED
    BY <1>1, <2>1, EnteroTexto DEF Impresion!Entero, Impresion!ntoa_long_long
<1>3. CASE d.conv \in {"c", "s"}
  BY <1>3, TextoEnCampo
<1>4. CASE d.conv = "p"
  <2>1. Impresion!Pieza(d) = Impresion!Puntero(d)
    BY <1>4 DEF Impresion!Pieza, Impresion!Enteras
  <2>. QED
    BY <1>1, <2>1, EnteroTexto DEF Impresion!Puntero, Impresion!ntoa_long_long
<1>5. CASE d.conv \in {"%", "literal", "otro"}
  <2>1. Impresion!Pieza(d) \in {<<"%">>, <<d.arg>>}
    BY <1>5 DEF Impresion!Pieza, Impresion!Enteras
  <2>2. <<"%">> \in Seq({"%"}) /\ <<d.arg>> \in Seq({d.arg})
    OBVIOUS
  <2>. QED
    BY <2>1, <2>2 DEF EsTexto
<1>. QED
  BY <1>2, <1>3, <1>4, <1>5, ElementosDados

-----------------------------------------------------------------------------
(* The numbers that printf writes are read back.                            *)

\* The loop of the digits divides by the base at each turn.
LEMMA DivididoPorTurnos ==
  ASSUME NEW value \in Nat, NEW base \in Nat \ {0}
  PROVE  LET q == Impresion!Dividido(value, base)
         IN  /\ q[0] = value
             /\ \A k \in 1 .. NTOA : q[k] = q[k - 1] \div base
             /\ \A k \in 0 .. NTOA : q[k] \in Nat
<1> DEFINE n == NTOA
           G == [p \in Nat \X (1 .. n) |-> p[1] \div base]
           P(g) == g = [k \in 0 .. n |-> IF k = 0 THEN value ELSE g[k - 1] \div base]
           q == CHOOSE g : P(g)
<1>1. n \in Nat
  BY FormatosDados
<1>2. G \in [Nat \X (1 .. n) -> Nat]
  OBVIOUS
<1>3. PICK f \in [0 .. n -> Nat] : f[0] = value /\ \A k \in 1 .. n : f[k] = G[<<f[k - 1], k>>]
  <2> DEFINE Z == Nat
  <2>1. value \in Z /\ n \in Nat /\ G \in [Z \X (1 .. n) -> Z]
    BY <1>1, <1>2
  <2> HIDE DEF Z, G, n
  <2>2. Recurre(Z, value, n, G)
    BY <2>1, Recursion
  <2>. QED
    BY <2>2 DEF Recurre, Z
<1>4. \A k \in 1 .. n : f[k] = f[k - 1] \div base
  <2> TAKE k \in 1 .. n
  <2>1. f[k - 1] \in Nat
    BY <1>1, <1>3
  <2>2. G[<<f[k - 1], k>>] = f[k - 1] \div base
    BY <2>1
  <2>. QED
    BY <1>3, <2>2
<1>5. P(f)
  <2>1. \A k \in 0 .. n : k # 0 => k \in 1 .. n
    BY <1>1
  <2>2. \A k \in 0 .. n : f[k] = IF k = 0 THEN value ELSE f[k - 1] \div base
    BY <1>3, <1>4, <2>1
  <2>. QED
    BY <1>3, <2>2
<1>6. Impresion!Dividido(value, base) = q
  BY DEF Impresion!Dividido
<1>7. P(q)
  <2> HIDE DEF P
  <2>. QED
    BY <1>5
<1> HIDE DEF q, G
<1>8. q[0] = value /\ \A k \in 1 .. n : q[k] = q[k - 1] \div base
  <2>1. 0 \in 0 .. n /\ \A k \in 1 .. n : k # 0 /\ k \in 0 .. n
    BY <1>1
  <2> HIDE DEF n
  <2>. QED
    BY <1>7, <2>1
<1>9. \A k \in 0 .. n : q[k] \in Nat
  <2> DEFINE T == {k \in Nat : k <= n => q[k] \in Nat}
  <2>1. 0 \in T
    BY <1>8
  <2>2. ASSUME NEW k \in Nat, k \in T PROVE k + 1 \in T
    <3>1. ASSUME k + 1 <= n PROVE q[k + 1] \in Nat
      <4>1. k + 1 \in 1 .. n /\ k + 1 - 1 = k /\ k <= n
        BY <1>1, <3>1
      <4>2. q[k + 1] = q[k] \div base /\ q[k] \in Nat
        BY <1>8, <2>2, <4>1
      <4>. QED
        BY <4>2
    <3>. QED
      BY <3>1
  <2> HIDE DEF T
  <2>3. \A k \in Nat : k \in T
    BY <2>1, <2>2, Induccion
  <2>. QED
    BY <1>1, <2>3 DEF T
<1>. QED
  BY <1>6, <1>8, <1>9

\* The reader's number, character by character.
CifraLeida(c, base) == CHOOSE n \in 0 .. (base - 1) : Impresion!EsCifra(c, n)
HayCifra(c, base) == \E n \in 0 .. (base - 1) : Impresion!EsCifra(c, n)
LEMMA LeidoPorTurnos ==
  ASSUME NEW texto, Len(texto) \in Nat, NEW base \in Nat \ {0}
  PROVE  \E f : /\ f[0] = 0
                /\ \A k \in 0 .. Len(texto) : f[k] \in Int
                /\ \A k \in 1 .. Len(texto) :
                     f[k] = IF HayCifra(texto[k], base)
                              THEN base * f[k - 1] + CifraLeida(texto[k], base) ELSE f[k - 1]
                /\ Impresion!Leido(texto, base) =
                     IF "-" \in Impresion!ToSet(texto) THEN -f[Len(texto)] ELSE f[Len(texto)]
<1> DEFINE n == Len(texto)
           Sigue(v, k) == IF HayCifra(texto[k], base)
                            THEN base * v + CifraLeida(texto[k], base) ELSE v
           G == [p \in Int \X (1 .. n) |-> Sigue(p[1], p[2])]
           P(g) == g = [k \in 0 .. n |->
                         IF k = 0 THEN 0
                         ELSE IF \E m \in 0 .. (base - 1) : Impresion!EsCifra(texto[k], m)
                           THEN base * g[k - 1]
                                  + (CHOOSE m \in 0 .. (base - 1) : Impresion!EsCifra(texto[k], m))
                         ELSE g[k - 1]]
           leido == CHOOSE g : P(g)
<1>1. n \in Nat
  OBVIOUS
<1>2. \A v \in Int : \A k \in 1 .. n : Sigue(v, k) \in Int
  <2> TAKE v \in Int
  <2> TAKE k \in 1 .. n
  <2>1. CASE HayCifra(texto[k], base)
    <3>1. CifraLeida(texto[k], base) \in 0 .. (base - 1)
      BY <2>1 DEF HayCifra, CifraLeida
    <3>. QED
      BY <2>1, <3>1
  <2>2. CASE ~HayCifra(texto[k], base)
    BY <2>2
  <2>. QED
    BY <2>1, <2>2
<1>3. G \in [Int \X (1 .. n) -> Int]
  <2> HIDE DEF Sigue
  <2>. QED
    BY <1>2
<1>4. PICK f \in [0 .. n -> Int] : f[0] = 0 /\ \A k \in 1 .. n : f[k] = G[<<f[k - 1], k>>]
  <2> DEFINE Z == Int
  <2>1. 0 \in Z /\ n \in Nat /\ G \in [Z \X (1 .. n) -> Z]
    BY <1>1, <1>3
  <2> HIDE DEF Z, G, n
  <2>2. Recurre(Z, 0, n, G)
    BY <2>1, Recursion
  <2>. QED
    BY <2>2 DEF Recurre, Z
<1>5. \A k \in 1 .. n : f[k] = Sigue(f[k - 1], k)
  <2> TAKE k \in 1 .. n
  <2>1. f[k - 1] \in Int
    BY <1>1, <1>4
  <2>2. G[<<f[k - 1], k>>] = Sigue(f[k - 1], k)
    <3> HIDE DEF Sigue
    <3>. QED
      BY <2>1
  <2>. QED
    BY <1>4, <2>2
<1>6. P(f)
  <2>1. \A k \in 0 .. n : k # 0 => k \in 1 .. n
    BY <1>1
  <2>2. \A k \in 0 .. n :
          f[k] = IF k = 0 THEN 0
                 ELSE IF \E m \in 0 .. (base - 1) : Impresion!EsCifra(texto[k], m)
                   THEN base * f[k - 1]
                          + (CHOOSE m \in 0 .. (base - 1) : Impresion!EsCifra(texto[k], m))
                 ELSE f[k - 1]
    BY <1>4, <1>5, <2>1 DEF HayCifra, CifraLeida
  <2>. QED
    BY <1>4, <2>2
<1>7. P(leido)
  <2> HIDE DEF P
  <2>. QED
    BY <1>6
<1>8. Impresion!Leido(texto, base) =
        IF "-" \in Impresion!ToSet(texto) THEN -leido[n] ELSE leido[n]
  BY DEF Impresion!Leido
<1> HIDE DEF leido, G
<1>9. leido[0] = 0 /\ \A k \in 1 .. n : leido[k] = Sigue(leido[k - 1], k)
  <2>1. 0 \in 0 .. n /\ \A k \in 1 .. n : k # 0 /\ k \in 0 .. n
    BY <1>1
  <2> HIDE DEF n
  <2>. QED
    BY <1>7, <2>1 DEF HayCifra, CifraLeida
<1>10. \A k \in 0 .. n : leido[k] \in Int
  <2> DEFINE T == {k \in Nat : k <= n => leido[k] \in Int}
  <2>1. 0 \in T
    BY <1>9
  <2>2. ASSUME NEW k \in Nat, k \in T PROVE k + 1 \in T
    <3>1. ASSUME k + 1 <= n PROVE leido[k + 1] \in Int
      <4>1. k + 1 \in 1 .. n /\ k + 1 - 1 = k /\ k <= n
        BY <1>1, <3>1
      <4>2. leido[k] \in Int /\ leido[k + 1] = Sigue(leido[k], k + 1)
        BY <1>9, <2>2, <4>1
      <4> HIDE DEF Sigue
      <4>. QED
        BY <1>2, <4>1, <4>2
    <3>. QED
      BY <3>1
  <2> HIDE DEF T
  <2>3. \A k \in Nat : k \in T
    BY <2>1, <2>2, Induccion
  <2>. QED
    BY <1>1, <2>3 DEF T
<1>. QED
  BY <1>8, <1>9, <1>10

\* The characters of the digits, one by one.
LEMMA CifrasSon ==
  /\ Impresion!CifrasMinusculas[1] = "0" /\ Impresion!CifrasMinusculas[2] = "1"
  /\ Impresion!CifrasMinusculas[3] = "2" /\ Impresion!CifrasMinusculas[4] = "3"
  /\ Impresion!CifrasMinusculas[5] = "4" /\ Impresion!CifrasMinusculas[6] = "5"
  /\ Impresion!CifrasMinusculas[7] = "6" /\ Impresion!CifrasMinusculas[8] = "7"
  /\ Impresion!CifrasMinusculas[9] = "8" /\ Impresion!CifrasMinusculas[10] = "9"
  /\ Impresion!CifrasMinusculas[11] = "a" /\ Impresion!CifrasMinusculas[12] = "b"
  /\ Impresion!CifrasMinusculas[13] = "c" /\ Impresion!CifrasMinusculas[14] = "d"
  /\ Impresion!CifrasMinusculas[15] = "e" /\ Impresion!CifrasMinusculas[16] = "f"
  /\ Impresion!CifrasMayusculas[1] = "0" /\ Impresion!CifrasMayusculas[2] = "1"
  /\ Impresion!CifrasMayusculas[3] = "2" /\ Impresion!CifrasMayusculas[4] = "3"
  /\ Impresion!CifrasMayusculas[5] = "4" /\ Impresion!CifrasMayusculas[6] = "5"
  /\ Impresion!CifrasMayusculas[7] = "6" /\ Impresion!CifrasMayusculas[8] = "7"
  /\ Impresion!CifrasMayusculas[9] = "8" /\ Impresion!CifrasMayusculas[10] = "9"
  /\ Impresion!CifrasMayusculas[11] = "A" /\ Impresion!CifrasMayusculas[12] = "B"
  /\ Impresion!CifrasMayusculas[13] = "C" /\ Impresion!CifrasMayusculas[14] = "D"
  /\ Impresion!CifrasMayusculas[15] = "E" /\ Impresion!CifrasMayusculas[16] = "F"
BY DEF Impresion!CifrasMinusculas, Impresion!CifrasMayusculas

\* A digit is read as its value, and no other.
LEMMA CifraUnica ==
  ASSUME NEW n \in 0 .. 15, NEW m \in 0 .. 15, NEW c,
         Impresion!EsCifra(c, n), Impresion!EsCifra(c, m)
  PROVE  n = m
<1>1. \A k \in 0 .. 15 : k \in 0 .. 9 \/ k \in {10, 11, 12, 13, 14, 15}
  OBVIOUS
<1>. QED
  BY <1>1, CifrasSon, SMTT(60) DEF Impresion!EsCifra

\* What the number is surrounded by is not read as a digit but "0", which is worth nothing.
LEMMA NoSonCifras ==
  ASSUME NEW n \in 0 .. 15
  PROVE  /\ \A c \in {"x", "X", "-", "+", Impresion!ESP} : ~Impresion!EsCifra(c, n)
         /\ Impresion!EsCifra("b", n) => n = 11
         /\ Impresion!EsCifra("0", 0)
<1>1. n \in 0 .. 9 \/ n \in {10, 11, 12, 13, 14, 15}
  OBVIOUS
<1>. QED
  BY <1>1, CifrasSon, SMTT(60) DEF Impresion!EsCifra, Impresion!ESP

Cifra(n, flags) == Impresion!Cifras(flags)[n + 1]

\* What may stand before the digits of a number.
Relleno(base) ==
  {"0", "x", "X", "-", "+", Impresion!ESP} \cup (IF base = 2 THEN {"b"} ELSE {})

\* A digit is read as what it was written for.
LEMMA CifraSeLee ==
  ASSUME NEW base \in 2 .. 16, NEW n \in 0 .. (base - 1), NEW flags
  PROVE  /\ HayCifra(Cifra(n, flags), base) /\ CifraLeida(Cifra(n, flags), base) = n
         /\ Cifra(n, flags) \notin {"-", Impresion!ESP}
<1> DEFINE c == Cifra(n, flags)
<1>1. \A k \in 0 .. (base - 1) : k \in 0 .. 15
  OBVIOUS
<1>2. Impresion!EsCifra(c, n)
  BY DEF Cifra, Impresion!Cifras, Impresion!EsCifra
<1> HIDE DEF c
<1>3. HayCifra(c, base)
  BY <1>2 DEF HayCifra
<1>4. CifraLeida(c, base) \in 0 .. (base - 1) /\ Impresion!EsCifra(c, CifraLeida(c, base))
  BY <1>3 DEF HayCifra, CifraLeida
<1>5. CifraLeida(c, base) = n
  BY <1>1, <1>2, <1>4, CifraUnica
<1>6. c \notin {"-", Impresion!ESP}
  BY <1>1, <1>2, NoSonCifras
<1>. QED
  BY <1>3, <1>5, <1>6 DEF c

\* The rest counts for nothing.
LEMMA RellenoSeLee ==
  ASSUME NEW base \in 2 .. 16, NEW c \in Relleno(base), HayCifra(c, base)
  PROVE  CifraLeida(c, base) = 0
<1>1. PICK n \in 0 .. (base - 1) : Impresion!EsCifra(c, n)
  BY DEF HayCifra
<1>2. \A k \in 0 .. (base - 1) : k \in 0 .. 15
  OBVIOUS
<1>3. c = "0"
  BY <1>1, <1>2, NoSonCifras DEF Relleno
<1>4. 0 \in 0 .. (base - 1) /\ Impresion!EsCifra(c, 0)
  BY <1>2, <1>3, NoSonCifras
<1>5. CifraLeida(c, base) \in 0 .. (base - 1) /\ Impresion!EsCifra(c, CifraLeida(c, base))
  BY <1>4 DEF CifraLeida
<1>. QED
  BY <1>2, <1>4, <1>5, CifraUnica

\* A text has s characters before the m digits of a value, the highest first, and spaces
\* after them; q is what the loop that took the digits had left at each turn.
Vueltas(q, m, base) ==
  /\ q[m] = 0 /\ \A k \in 0 .. m : q[k] \in Nat
  /\ \A k \in 1 .. m : q[k] = q[k - 1] \div base
CifrasEn(texto, s, m, q, base, letras) ==
  /\ s \in Nat /\ m \in Nat /\ Len(texto) \in Nat /\ s + m <= Len(texto)
  /\ \A k \in 1 .. s : texto[k] \in Relleno(base)
  /\ \A k \in 1 .. m : texto[s + k] = Cifra(q[m - k] % base, letras)
  /\ \A k \in (s + m + 1) .. Len(texto) : texto[k] = Impresion!ESP

\* Its reader finds the value: after k digits it has what the loop had left before it took
\* the last of these.
LEMMA SeLeeElValor ==
  ASSUME NEW texto, NEW base \in 2 .. 16, NEW letras, NEW s, NEW m, NEW q,
         Vueltas(q, m, base), CifrasEn(texto, s, m, q, base, letras)
  PROVE  Impresion!Leido(texto, base) = IF "-" \in Impresion!ToSet(texto) THEN -q[0] ELSE q[0]
<1>0. /\ s \in Nat /\ m \in Nat /\ Len(texto) \in Nat /\ s + m <= Len(texto)
      /\ \A k \in 1 .. s : texto[k] \in Relleno(base)
      /\ \A k \in 1 .. m : texto[s + k] = Cifra(q[m - k] % base, letras)
      /\ \A k \in (s + m + 1) .. Len(texto) : texto[k] = Impresion!ESP
      /\ q[m] = 0 /\ \A k \in 0 .. m : q[k] \in Nat
      /\ \A k \in 1 .. m : q[k] = q[k - 1] \div base
  BY DEF Vueltas, CifrasEn
<1> USE <1>0
<1> DEFINE n == Len(texto)
<1>1. base \in Nat \ {0}
  OBVIOUS
<1>2. PICK f :
        /\ f[0] = 0
        /\ \A k \in 0 .. n : f[k] \in Int
        /\ \A k \in 1 .. n : f[k] = IF HayCifra(texto[k], base)
                                      THEN base * f[k - 1] + CifraLeida(texto[k], base)
                                      ELSE f[k - 1]
        /\ Impresion!Leido(texto, base) =
             IF "-" \in Impresion!ToSet(texto) THEN -f[n] ELSE f[n]
  BY <1>1, LeidoPorTurnos
<1>3. \A k \in Nat : k <= s => f[k] = 0
  <2> DEFINE T == {k \in Nat : k <= s => f[k] = 0}
  <2>1. 0 \in T
    BY <1>2
  <2>2. ASSUME NEW k \in Nat, k \in T PROVE k + 1 \in T
    <3>1. ASSUME k + 1 <= s PROVE f[k + 1] = 0
      <4>1. k + 1 \in 1 .. n /\ k + 1 \in 1 .. s /\ k + 1 - 1 = k /\ k <= s
        BY <3>1
      <4>2. f[k] = 0
        BY <2>2, <4>1
      <4>3. f[k + 1] = IF HayCifra(texto[k + 1], base)
                         THEN base * f[k] + CifraLeida(texto[k + 1], base) ELSE f[k]
        BY <1>2, <4>1
      <4>4. HayCifra(texto[k + 1], base) => CifraLeida(texto[k + 1], base) = 0
        BY <4>1, RellenoSeLee
      <4>. QED
        BY <4>2, <4>3, <4>4
    <3>. QED
      BY <3>1
  <2> HIDE DEF T
  <2>3. \A k \in Nat : k \in T
    BY <2>1, <2>2, Induccion
  <2>. QED
    BY <2>3 DEF T
<1>4. \A k \in Nat : k <= m => f[s + k] = q[m - k]
  <2> DEFINE T == {k \in Nat : k <= m => f[s + k] = q[m - k]}
  <2>1. 0 \in T
    BY <1>3
  <2>2. ASSUME NEW k \in Nat, k \in T PROVE k + 1 \in T
    <3>1. ASSUME k + 1 <= m PROVE f[s + (k + 1)] = q[m - (k + 1)]
      <4>1. /\ s + (k + 1) \in 1 .. n /\ k + 1 \in 1 .. m /\ s + (k + 1) - 1 = s + k /\ k <= m
            /\ m - k \in 1 .. m /\ m - (k + 1) \in 0 .. m /\ (m - k) - 1 = m - (k + 1)
        BY <3>1
      <4> DEFINE v == q[m - (k + 1)]
                 c == texto[s + (k + 1)]
      <4>2. f[s + k] = q[m - k]
        BY <2>2, <4>1
      <4>3. v \in Nat /\ q[m - k] = v \div base
        BY <4>1
      <4>4. c = Cifra(v % base, letras)
        BY <4>1
      <4>5. f[s + (k + 1)] = IF HayCifra(c, base)
                               THEN base * f[s + k] + CifraLeida(c, base) ELSE f[s + k]
        BY <1>2, <4>1
      <4> HIDE DEF v, c
      <4>6. v % base \in 0 .. (base - 1) /\ v = base * (v \div base) + (v % base)
        BY <4>3
      <4>7. HayCifra(c, base) /\ CifraLeida(c, base) = v % base
        BY <4>4, <4>6, CifraSeLee
      <4>8. f[s + (k + 1)] = base * (v \div base) + (v % base)
        BY <4>2, <4>3, <4>5, <4>7
      <4>. QED
        BY <4>6, <4>8 DEF v
    <3>. QED
      BY <3>1
  <2> HIDE DEF T
  <2>3. \A k \in Nat : k \in T
    BY <2>1, <2>2, Induccion
  <2>. QED
    BY <2>3 DEF T
<1>5. f[s + m] = q[0]
  BY <1>4
<1>6. \A k \in Nat : s + m + k <= n => f[s + m + k] = q[0]
  <2> DEFINE T == {k \in Nat : s + m + k <= n => f[s + m + k] = q[0]}
  <2>1. 0 \in T
    BY <1>5
  <2>2. ASSUME NEW k \in Nat, k \in T PROVE k + 1 \in T
    <3>1. ASSUME s + m + (k + 1) <= n PROVE f[s + m + (k + 1)] = q[0]
      <4> DEFINE j == s + m + (k + 1)
      <4>1. j \in 1 .. n /\ j \in (s + m + 1) .. n /\ j - 1 = s + m + k /\ s + m + k <= n
        BY <3>1
      <4>2. f[j - 1] = q[0]
        BY <2>2, <4>1
      <4> HIDE DEF j
      <4>3. texto[j] = Impresion!ESP
        BY <4>1
      <4>4. ~HayCifra(texto[j], base)
        <5>1. \A i_ \in 0 .. (base - 1) : i_ \in 0 .. 15
          OBVIOUS
        <5>. QED
          BY <4>3, <5>1, NoSonCifras DEF HayCifra
      <4>5. f[j] = q[0]
        BY <1>2, <4>1, <4>2, <4>4
      <4>. QED
        BY <4>5 DEF j
    <3>. QED
      BY <3>1
  <2> HIDE DEF T
  <2>3. \A k \in Nat : k \in T
    BY <2>1, <2>2, Induccion
  <2>. QED
    BY <2>3 DEF T
<1>7. f[n] = q[0]
  <2> DEFINE r == n - (s + m)
  <2>1. r \in Nat /\ s + m + r = n
    OBVIOUS
  <2> HIDE DEF r
  <2>2. s + m + r <= n
    BY <2>1
  <2>3. f[s + m + r] = q[0]
    BY <1>6, <2>1, <2>2, Zenon
  <2>. QED
    BY <2>1, <2>3
<1>. QED
  BY <1>2, <1>7

\* A number in its buffer: m digits, and above them characters of R.
Numeral(buf, m, q, base, letras, R) ==
  /\ m \in 0 .. Len(buf)
  /\ \A k \in 1 .. m : buf[k] = Cifra(q[k - 1] % base, letras)
  /\ \A k \in (m + 1) .. Len(buf) : buf[k] \in R

Prefijos(base) == {"0", "x", "X"} \cup (IF base = 2 THEN {"b"} ELSE {})

\* A concatenation, character by character.
LEMMA Pegados ==
  ASSUME NEW Z, NEW s \in Seq(Z), NEW t \in Seq(Z)
  PROVE  /\ s \o t \in Seq(Z) /\ Len(s \o t) = Len(s) + Len(t)
         /\ \A k \in 1 .. Len(s) : (s \o t)[k] = s[k]
         /\ \A k \in (Len(s) + 1) .. (Len(s) + Len(t)) : (s \o t)[k] = t[k - Len(s)]
  OBVIOUS

\* Zeros go above the digits.
LEMMA NumeralConCeros ==
  ASSUME NEW S, "0" \in S, NEW buf \in Seq(S), NEW n \in Nat, NEW m, NEW q, NEW base, NEW letras,
         Numeral(buf, m, q, base, letras, {"0"})
  PROVE  Numeral(Impresion!Ceros(buf, n), m, q, base, letras, {"0"})
<1> DEFINE falta == Impresion!Min({n, NTOA}) - Len(buf)
           ceros == Impresion!Repetir("0", falta)
<1>1. NTOA \in Int /\ n \in Int /\ Len(buf) \in Nat
  BY FormatosDados
<1>2. falta \in Int
  <2>1. Impresion!Min({n, NTOA}) = ElMenor(n, NTOA)
    BY <1>1, MayorMenor
  <2>. QED
    BY <1>1, <2>1 DEF ElMenor
<1>3. ceros \in Seq({"0"})
  BY <1>2, RepetirLargo
<1>4. Impresion!Ceros(buf, n) = buf \o ceros
  BY DEF Impresion!Ceros
<1> HIDE DEF ceros
<1>5. Len(ceros) \in Nat /\ \A k \in 1 .. Len(ceros) : ceros[k] = "0"
  BY <1>3
<1>6. /\ Len(buf \o ceros) = Len(buf) + Len(ceros)
      /\ \A k \in 1 .. Len(buf) : (buf \o ceros)[k] = buf[k]
      /\ \A k \in (Len(buf) + 1) .. (Len(buf) + Len(ceros)) : (buf \o ceros)[k] = ceros[k - Len(buf)]
  <2>1. ceros \in Seq(S)
    BY <1>3
  <2>. QED
    BY <1>5, <2>1, ConcatProperties
<1> DEFINE nuevo == buf \o ceros
<1> HIDE DEF nuevo
<1>7. /\ m \in 0 .. Len(nuevo)
      /\ \A k \in 1 .. m : nuevo[k] = Cifra(q[k - 1] % base, letras)
  BY <1>1, <1>5, <1>6 DEF Numeral, nuevo
<1>8. ASSUME NEW k \in (m + 1) .. Len(nuevo) PROVE nuevo[k] \in {"0"}
  <2>1. CASE k <= Len(buf)
    <3>1. k \in 1 .. Len(buf) /\ k \in (m + 1) .. Len(buf)
      BY <1>1, <2>1 DEF Numeral
    <3>2. nuevo[k] = buf[k]
      BY <1>6, <3>1 DEF nuevo
    <3>. QED
      BY <3>1, <3>2 DEF Numeral
  <2>2. CASE k > Len(buf)
    <3>1. m \in Nat
      BY DEF Numeral
    <3>2. /\ k \in (Len(buf) + 1) .. (Len(buf) + Len(ceros))
          /\ k - Len(buf) \in 1 .. Len(ceros)
      BY <1>1, <1>5, <1>6, <2>2, <3>1 DEF nuevo
    <3>. QED
      BY <1>5, <1>6, <3>2 DEF nuevo
  <2>3. k \in Int
    BY DEF Numeral
  <2>. QED
    BY <1>1, <2>1, <2>2, <2>3
<1>. QED
  BY <1>4, <1>7, <1>8 DEF Numeral, nuevo

\* So does one more character.
LEMMA NumeralConUnoMas ==
  ASSUME NEW S, NEW c \in S, NEW buf \in Seq(S), NEW m, NEW q, NEW base, NEW letras, NEW R, c \in R,
         Numeral(buf, m, q, base, letras, R)
  PROVE  Numeral(Impresion!Agregar(buf, c), m, q, base, letras, R)
<1> DEFINE nuevo == Append(buf, c)
<1>1. CASE Len(buf) < NTOA
  <2>1. Impresion!Agregar(buf, c) = nuevo
    BY <1>1 DEF Impresion!Agregar
  <2>2. /\ Len(nuevo) = Len(buf) + 1 /\ nuevo[Len(buf) + 1] = c
        /\ \A k \in 1 .. Len(buf) : nuevo[k] = buf[k]
    OBVIOUS
  <2> HIDE DEF nuevo
  <2>3. Len(buf) \in Nat /\ m \in 0 .. Len(buf)
    BY DEF Numeral
  <2>4. \A k \in (m + 1) .. Len(nuevo) : k \in 1 .. Len(buf) \/ k = Len(buf) + 1
    BY <2>2, <2>3
  <2>5. \A k \in 1 .. m : nuevo[k] = Cifra(q[k - 1] % base, letras)
    BY <2>2, <2>3 DEF Numeral
  <2>6. \A k \in (m + 1) .. Len(nuevo) : nuevo[k] \in R
    BY <2>2, <2>3, <2>4 DEF Numeral
  <2>. QED
    BY <2>1, <2>2, <2>3, <2>5, <2>6 DEF Numeral
<1>2. CASE ~(Len(buf) < NTOA)
  BY <1>2 DEF Impresion!Agregar
<1>. QED
  BY <1>1, <1>2

\* A prefix goes above, if the digits it cuts are none.
LEMMA NumeralConPrefijo ==
  ASSUME NEW S, "0" \in S, "x" \in S, "X" \in S, "b" \in S, NEW buf \in Seq(S),
         NEW base, NEW prec, NEW width, NEW flags, NEW m, NEW q, NEW letras,
         Numeral(buf, m, q, base, letras, {"0"}),
         "#" \in flags /\ "." \notin flags /\ Len(buf) \in {prec, width}
           => m + (IF base = 16 THEN 2 ELSE 1) <= Len(buf)
  PROVE  Numeral(Impresion!Prefijo(buf, base, prec, width, flags), m, q, base, letras, Prefijos(base))
<1> DEFINE cuantos == IF base = 16 THEN 2 ELSE 1
           sobran == IF "." \notin flags /\ Len(buf) \in {prec, width}
                       THEN Impresion!Min({Len(buf), cuantos}) ELSE 0
           queda == SubSeq(buf, 1, Len(buf) - sobran)
           letra == CASE base = 16 -> Impresion!Agregar(queda, IF "U" \in flags THEN "X" ELSE "x")
                      [] base = 2 -> Impresion!Agregar(queda, "b")
                      [] OTHER -> queda
           N(t, R) == Numeral(t, m, q, base, letras, R)
<1>1. Len(buf) \in Nat /\ cuantos \in Nat /\ m \in 0 .. Len(buf)
  BY DEF Numeral
<1>2. Impresion!Min({Len(buf), cuantos}) = ElMenor(Len(buf), cuantos)
  <2> HIDE DEF cuantos
  <2>1. Len(buf) \in Int /\ cuantos \in Int
    BY <1>1
  <2>. QED
    BY <2>1, MayorMenor, Zenon
<1>3. CASE "#" \notin flags
  <2>1. Impresion!Prefijo(buf, base, prec, width, flags) = buf
    BY <1>3 DEF Impresion!Prefijo
  <2>2. \A k \in (m + 1) .. Len(buf) : buf[k] \in Prefijos(base)
    BY DEF Numeral, Prefijos
  <2>. QED
    BY <2>1, <2>2 DEF Numeral
<1>4. CASE "#" \in flags
  <2>1. sobran \in 0 .. Len(buf) /\ m + sobran <= Len(buf)
    BY <1>1, <1>2, <1>4 DEF ElMenor
  <2>2. Impresion!Prefijo(buf, base, prec, width, flags) = Impresion!Agregar(letra, "0")
    BY <1>4 DEF Impresion!Prefijo
  <2> HIDE DEF cuantos, sobran
  <2>3. /\ queda \in Seq(S) /\ Len(queda) = Len(buf) - sobran
        /\ \A k \in 1 .. (Len(buf) - sobran) : queda[k] = buf[k]
    BY <1>1, <2>1
  <2> HIDE DEF queda
  <2>4. N(queda, Prefijos(base))
    <3>1. m \in 0 .. Len(queda)
      BY <1>1, <2>1, <2>3
    <3>2. \A k \in 1 .. m : queda[k] = Cifra(q[k - 1] % base, letras)
      BY <1>1, <2>1, <2>3 DEF Numeral
    <3>3. \A k \in (m + 1) .. Len(queda) : queda[k] \in Prefijos(base)
      BY <1>1, <2>1, <2>3 DEF Numeral, Prefijos
    <3>. QED
      BY <3>1, <3>2, <3>3 DEF Numeral
  <2>5. letra \in Seq(S) /\ N(letra, Prefijos(base))
    <3>1. CASE base = 16
      <4> DEFINE c == IF "U" \in flags THEN "X" ELSE "x"
      <4>1. c \in S /\ c \in Prefijos(base)
        BY DEF Prefijos
      <4>2. letra = Impresion!Agregar(queda, c)
        BY <3>1
      <4> HIDE DEF c
      <4>. QED
        BY <2>3, <2>4, <4>1, <4>2, AgregarLargo, NumeralConUnoMas
    <3>2. CASE base # 16 /\ base = 2
      <4>1. "b" \in Prefijos(base) /\ letra = Impresion!Agregar(queda, "b")
        BY <3>2 DEF Prefijos
      <4>. QED
        BY <2>3, <2>4, <4>1, AgregarLargo, NumeralConUnoMas
    <3>3. CASE base # 16 /\ base # 2
      BY <2>3, <2>4, <3>3
    <3>. QED
      BY <3>1, <3>2, <3>3
  <2>6. "0" \in Prefijos(base)
    BY DEF Prefijos
  <2> HIDE DEF letra
  <2>. QED
    BY <2>2, <2>5, <2>6, NumeralConUnoMas
<1>. QED
  BY <1>3, <1>4

\* The sign is the next character, or there is none.
LEMMA SignoAlFinal ==
  ASSUME NEW S, NEW buf \in Seq(S), NEW negative \in BOOLEAN, NEW flags, negative => Len(buf) < NTOA
  PROVE  \/ ~negative /\ Impresion!PonerSigno(buf, negative, flags) = buf
         \/ ~negative /\ Impresion!PonerSigno(buf, negative, flags)
                           \in {Append(buf, "+"), Append(buf, Impresion!ESP)}
         \/ negative /\ Impresion!PonerSigno(buf, negative, flags) = Append(buf, "-")
BY DEF Impresion!PonerSigno, Impresion!Agregar

\* T is the n characters of B turned round, with a spaces before and b after.
Vuelto(T, B, n, a, b) ==
  /\ Len(T) = a + n + b /\ DOMAIN T = 1 .. (a + n + b)
  /\ \A k \in 1 .. a : T[k] = Impresion!ESP
  /\ \A k \in (a + 1) .. (a + n) : T[k] = B[n - (k - a) + 1]
  /\ \A k \in (a + n + 1) .. (a + n + b) : T[k] = Impresion!ESP

\* That is what _out_rev does with the buffer.
LEMMA out_revContenido ==
  ASSUME NEW S, NEW buf \in Seq(S), NEW width \in Int, NEW flags
  PROVE  \E a, b \in Nat : Vuelto(Impresion!out_rev(buf, width, flags), buf, Len(buf), a, b)
<1> DEFINE n == Len(buf)
           hueco == Impresion!Repetir(Impresion!ESP, width - Len(buf))
           vuelta == Impresion!Reverse(buf)
           antes == IF flags \cap {"-", "0"} = {} THEN hueco ELSE <<>>
           despues == IF "-" \in flags THEN hueco ELSE <<>>
           E == {Impresion!ESP}
           T == Impresion!out_rev(buf, width, flags)
<1>1. n \in Nat /\ width - n \in Int
  OBVIOUS
<1>2. hueco \in Seq(E)
  BY <1>1, RepetirLargo
<1>3. vuelta \in Seq(S) /\ Len(vuelta) = n /\ \A k \in 1 .. n : vuelta[k] = buf[n - k + 1]
  BY DEF Impresion!Reverse
<1>4. T = (antes \o vuelta) \o despues
  BY DEF Impresion!out_rev
<1> HIDE DEF hueco, vuelta
<1>5. antes \in Seq(E) /\ despues \in Seq(E)
  BY <1>2
<1> HIDE DEF antes, despues, T
<1> DEFINE a == Len(antes)
           b == Len(despues)
           medio == antes \o vuelta
           Z == S \cup E
<1>6. a \in Nat /\ b \in Nat
  BY <1>5
<1>7. /\ \A k \in 1 .. a : antes[k] = Impresion!ESP
      /\ \A k \in 1 .. b : despues[k] = Impresion!ESP
  BY <1>5
<1>8. antes \in Seq(Z) /\ vuelta \in Seq(Z) /\ despues \in Seq(Z)
  BY <1>3, <1>5
<1> HIDE DEF Z
<1>9. /\ medio \in Seq(Z) /\ Len(medio) = a + n
      /\ \A k \in 1 .. a : medio[k] = antes[k]
      /\ \A k \in (a + 1) .. (a + n) : medio[k] = vuelta[k - a]
  <2>1. /\ antes \o vuelta \in Seq(Z) /\ Len(antes \o vuelta) = Len(antes) + Len(vuelta)
        /\ \A k \in 1 .. Len(antes) : (antes \o vuelta)[k] = antes[k]
        /\ \A k \in (Len(antes) + 1) .. (Len(antes) + Len(vuelta)) :
             (antes \o vuelta)[k] = vuelta[k - Len(antes)]
    BY <1>8, Pegados, Zenon
  <2>. QED
    BY <1>3, <2>1
<1> HIDE DEF medio
<1>10. /\ T \in Seq(Z) /\ Len(T) = a + n + b
       /\ \A k \in 1 .. (a + n) : T[k] = medio[k]
       /\ \A k \in (a + n + 1) .. (a + n + b) : T[k] = despues[k - (a + n)]
  <2>1. /\ medio \o despues \in Seq(Z) /\ Len(medio \o despues) = Len(medio) + Len(despues)
        /\ \A k \in 1 .. Len(medio) : (medio \o despues)[k] = medio[k]
        /\ \A k \in (Len(medio) + 1) .. (Len(medio) + Len(despues)) :
             (medio \o despues)[k] = despues[k - Len(medio)]
    <3>1. medio \in Seq(Z) /\ despues \in Seq(Z)
      BY <1>8, <1>9
    <3>. QED
      BY <3>1, Pegados, Zenon
  <2>2. T = medio \o despues
    BY <1>4 DEF medio
  <2>. QED
    BY <1>9, <2>1, <2>2
<1>11. DOMAIN T = 1 .. (a + n + b)
  BY <1>10
<1> HIDE DEF a, b, n
<1>12. \A k \in 1 .. a : T[k] = Impresion!ESP
  <2> TAKE k \in 1 .. a
  <2>1. k \in 1 .. (a + n)
    BY <1>1, <1>6
  <2>2. T[k] = medio[k] /\ medio[k] = antes[k]
    BY <1>9, <1>10, <2>1
  <2>. QED
    BY <1>7, <2>2
<1>13. \A k \in (a + 1) .. (a + n) : T[k] = buf[n - (k - a) + 1]
  <2> TAKE k \in (a + 1) .. (a + n)
  <2>1. k - a \in 1 .. n /\ k \in 1 .. (a + n)
    BY <1>1, <1>6
  <2>. QED
    BY <1>3, <1>9, <1>10, <2>1
<1>14. \A k \in (a + n + 1) .. (a + n + b) : T[k] = Impresion!ESP
  <2> TAKE k \in (a + n + 1) .. (a + n + b)
  <2>1. k - (a + n) \in 1 .. b
    BY <1>1, <1>6
  <2>. QED
    BY <1>7, <1>10, <2>1
<1>. QED
  BY <1>6, <1>10, <1>11, <1>12, <1>13, <1>14 DEF n, T, Vuelto

\* Spaces only outside, from one place to another; and a '-' there if there must be one.
SinHuecos(T, negative) ==
  \E desde \in 1 .. (Len(T) + 1), hasta \in 0 .. Len(T) :
    /\ {k \in DOMAIN T : T[k] # Impresion!ESP} = desde .. hasta
    /\ negative => desde <= hasta /\ T[desde] = "-"

\* The m digits of a value in a buffer of n characters, with what stands above them.
EnBufer(B, n, m, q, base, letras, negative) ==
  /\ m \in 0 .. n
  /\ \A k \in 1 .. m : B[k] = Cifra(q[k - 1] % base, letras)
  /\ \A k \in (m + 1) .. n : B[k] \in Relleno(base)
  /\ negative => n > 0 /\ B[n] = "-"
  /\ ~negative => \A k \in 1 .. n : B[k] # "-"
  /\ \A k \in 1 .. (n - 1) : B[k] # Impresion!ESP

\* Turned round, it is read as the value.
LEMMA VueltoSeLee ==
  ASSUME NEW a \in Nat, NEW b \in Nat, NEW n \in Nat, NEW B, NEW T, Vuelto(T, B, n, a, b),
         NEW base \in 2 .. 16, NEW letras, NEW negative \in BOOLEAN, NEW m, NEW q,
         Vueltas(q, m, base), EnBufer(B, n, m, q, base, letras, negative)
  PROVE  /\ Impresion!Leido(T, base) = IF negative THEN -q[0] ELSE q[0]
         /\ SinHuecos(T, negative)
<1>0. /\ Len(T) = a + n + b /\ DOMAIN T = 1 .. (a + n + b)
      /\ \A k \in 1 .. a : T[k] = Impresion!ESP
      /\ \A k \in (a + 1) .. (a + n) : T[k] = B[n - (k - a) + 1]
      /\ \A k \in (a + n + 1) .. (a + n + b) : T[k] = Impresion!ESP
      /\ m \in 0 .. n
      /\ \A k \in 1 .. m : B[k] = Cifra(q[k - 1] % base, letras)
      /\ \A k \in (m + 1) .. n : B[k] \in Relleno(base)
      /\ negative => n > 0 /\ B[n] = "-"
      /\ ~negative => \A k \in 1 .. n : B[k] # "-"
      /\ \A k \in 1 .. (n - 1) : B[k] # Impresion!ESP
  BY DEF Vuelto, EnBufer
<1> USE <1>0
<1> DEFINE s == a + (n - m)
<1>1. s \in Nat /\ m \in Nat /\ s + m = a + n /\ Len(T) \in Nat /\ s + m <= Len(T)
  OBVIOUS
<1>2. \A k \in 1 .. s : T[k] \in Relleno(base)
  <2> TAKE k \in 1 .. s
  <2>1. CASE k <= a
    <3>1. k \in 1 .. a
      BY <2>1
    <3>. QED
      BY <3>1 DEF Relleno
  <2>2. CASE k > a
    <3>1. k \in (a + 1) .. (a + n) /\ n - (k - a) + 1 \in (m + 1) .. n
      BY <2>2
    <3>. QED
      BY <3>1
  <2>. QED
    BY <2>1, <2>2
<1>3. \A k \in 1 .. m : T[s + k] = Cifra(q[m - k] % base, letras)
  <2> TAKE k \in 1 .. m
  <2>1. /\ s + k \in (a + 1) .. (a + n) /\ n - ((s + k) - a) + 1 = m - k + 1
        /\ m - k + 1 \in 1 .. m /\ (m - k + 1) - 1 = m - k
    OBVIOUS
  <2> HIDE DEF s
  <2>2. T[s + k] = B[m - k + 1]
    BY <2>1
  <2>. QED
    BY <2>1, <2>2
<1>4. \A k \in (s + m + 1) .. Len(T) : T[k] = Impresion!ESP
  BY <1>1
<1> HIDE DEF s
<1>5. Impresion!Leido(T, base) = IF "-" \in Impresion!ToSet(T) THEN -q[0] ELSE q[0]
  <2>1. CifrasEn(T, s, m, q, base, letras)
    BY <1>1, <1>2, <1>3, <1>4 DEF CifrasEn
  <2>. QED
    BY <2>1, SeLeeElValor
<1>6. negative <=> "-" \in Impresion!ToSet(T)
  <2>1. ASSUME negative PROVE "-" \in Impresion!ToSet(T)
    <3>1. a + 1 \in (a + 1) .. (a + n) /\ n - ((a + 1) - a) + 1 = n /\ a + 1 \in DOMAIN T
      BY <2>1
    <3>2. T[a + 1] = "-"
      BY <2>1, <3>1
    <3>. QED
      BY <3>1, <3>2 DEF Impresion!ToSet
  <2>2. ASSUME ~negative, NEW k \in DOMAIN T PROVE T[k] # "-"
    <3>1. k \in 1 .. a \/ k \in (a + 1) .. (a + n) \/ k \in (a + n + 1) .. (a + n + b)
      OBVIOUS
    <3>2. CASE k \in (a + 1) .. (a + n)
      <4>1. n - (k - a) + 1 \in 1 .. n
        BY <3>2
      <4>. QED
        BY <2>2, <3>2, <4>1
    <3>. QED
      BY <3>1, <3>2 DEF Impresion!ESP
  <2>. QED
    BY <2>1, <2>2 DEF Impresion!ToSet
<1>7. SinHuecos(T, negative)
  <2> DEFINE e == IF n > 0 /\ B[n] = Impresion!ESP THEN 1 ELSE 0
             desde == a + 1 + e
             hasta == a + n
  <2>1. desde \in 1 .. (Len(T) + 1) /\ hasta \in 0 .. Len(T)
    OBVIOUS
  <2>2. ASSUME NEW k \in DOMAIN T PROVE T[k] # Impresion!ESP <=> k \in desde .. hasta
    <3>1. k \in 1 .. a \/ k \in (a + 1) .. (a + n) \/ k \in (a + n + 1) .. (a + n + b)
      OBVIOUS
    <3>2. CASE k \in 1 .. a
      BY <3>2
    <3>3. CASE k \in (a + n + 1) .. (a + n + b)
      BY <3>3
    <3>4. CASE k \in (a + 1) .. (a + n)
      <4>1. CASE k = a + 1
        <5>1. n > 0 /\ n - (k - a) + 1 = n
          BY <3>4, <4>1
        <5>2. T[k] = B[n]
          BY <3>4, <5>1
        <5>. QED
          BY <3>4, <4>1, <5>1, <5>2
      <4>2. CASE k # a + 1
        <5>1. k \in (a + 2) .. (a + n)
          BY <3>4, <4>2
        <5>2. n - (k - a) + 1 \in 1 .. (n - 1)
          BY <5>1
        <5>3. k \in desde .. hasta
          <6>1. e \in {0, 1}
            OBVIOUS
          <6> HIDE DEF e
          <6>. QED
            BY <5>1, <6>1
        <5>. QED
          BY <3>4, <5>2, <5>3
      <4>. QED
        BY <4>1, <4>2
    <3>. QED
      BY <3>1, <3>2, <3>3, <3>4
  <2>3. desde .. hasta \subseteq DOMAIN T
    OBVIOUS
  <2>4. {k \in DOMAIN T : T[k] # Impresion!ESP} = desde .. hasta
    <3> HIDE DEF desde, hasta
    <3>. QED
      BY <2>2, <2>3
  <2>5. ASSUME negative PROVE desde <= hasta /\ T[desde] = "-"
    <3>1. e = 0 /\ desde = a + 1
      BY <2>5 DEF Impresion!ESP
    <3>2. a + 1 \in (a + 1) .. (a + n) /\ n - ((a + 1) - a) + 1 = n /\ a + 1 <= hasta
      BY <2>5
    <3>. QED
      BY <2>5, <3>1, <3>2
  <2> HIDE DEF desde, hasta
  <2>. QED
    BY <2>1, <2>4, <2>5 DEF SinHuecos
<1>. QED
  BY <1>5, <1>6, <1>7

\* A buffer, and after it a sign or nothing, is read as the value.
LEMMA FirmadoSeLee ==
  ASSUME NEW S, NEW buf \in Seq(S), NEW firmado, NEW negative \in BOOLEAN, NEW base \in 2 .. 16,
         NEW w \in Int, NEW flags, NEW letras, NEW m, NEW q, Vueltas(q, m, base),
         Numeral(buf, m, q, base, letras, Prefijos(base)),
         \/ ~negative /\ firmado = buf
         \/ ~negative /\ firmado \in {Append(buf, "+"), Append(buf, Impresion!ESP)}
         \/ negative /\ firmado = Append(buf, "-")
  PROVE  /\ Impresion!Leido(Impresion!out_rev(firmado, w, flags), base) =
              IF negative THEN -q[0] ELSE q[0]
         /\ SinHuecos(Impresion!out_rev(firmado, w, flags), negative)
<1> DEFINE Z == S \cup {"+", "-", Impresion!ESP}
           n == Len(firmado)
           T == Impresion!out_rev(firmado, w, flags)
           signo == IF negative THEN "-" ELSE firmado[n]
<1>1. buf \in Seq(Z) /\ Len(buf) \in Nat /\ m \in 0 .. Len(buf)
  BY DEF Numeral
<1>2. /\ firmado \in Seq(Z) /\ n \in Nat /\ n \in {Len(buf), Len(buf) + 1}
      /\ \A k \in 1 .. Len(buf) : firmado[k] = buf[k]
      /\ n = Len(buf) + 1 => firmado[n] \in {"+", "-", Impresion!ESP}
      /\ negative => n = Len(buf) + 1 /\ firmado[n] = "-"
      /\ ~negative /\ n = Len(buf) + 1 => firmado[n] # "-"
  <2>1. ASSUME NEW c \in {"+", "-", Impresion!ESP}
        PROVE  /\ Append(buf, c) \in Seq(Z) /\ Len(Append(buf, c)) = Len(buf) + 1
               /\ \A k \in 1 .. Len(buf) : Append(buf, c)[k] = buf[k]
               /\ Append(buf, c)[Len(buf) + 1] = c
    BY <1>1
  <2> HIDE DEF Z, n
  <2>2. CASE firmado = buf /\ ~negative
    BY <1>1, <2>2 DEF n
  <2>3. CASE ~negative /\ firmado \in {Append(buf, "+"), Append(buf, Impresion!ESP)}
    <3>1. PICK c \in {"+", Impresion!ESP} : firmado = Append(buf, c)
      BY <2>3
    <3>2. c # "-"
      BY DEF Impresion!ESP
    <3>. QED
      BY <1>1, <2>1, <2>3, <3>1, <3>2 DEF n
  <2>4. CASE negative /\ firmado = Append(buf, "-")
    BY <1>1, <2>1, <2>4 DEF n
  <2>. QED
    BY <2>2, <2>3, <2>4
<1>3. PICK a \in Nat, b \in Nat : Vuelto(T, firmado, n, a, b)
  <2> HIDE DEF Z
  <2>. QED
    BY <1>2, out_revContenido
<1> HIDE DEF T, n, Z
<1>4. m \in 0 .. n /\ \A k \in 1 .. m : firmado[k] = Cifra(q[k - 1] % base, letras)
  BY <1>1, <1>2 DEF Numeral
<1>5. \A k \in 1 .. n : k \in 1 .. m \/ k \in (m + 1) .. Len(buf) \/ (k = n /\ n = Len(buf) + 1)
  BY <1>1, <1>2
<1>6. \A k \in (m + 1) .. Len(buf) : firmado[k] \in Prefijos(base)
  BY <1>1, <1>2 DEF Numeral
<1>7. \A k \in (m + 1) .. n : firmado[k] \in Relleno(base)
  <2>1. \A k \in (m + 1) .. n : k \in (m + 1) .. Len(buf) \/ (k = n /\ n = Len(buf) + 1)
    BY <1>1, <1>2
  <2>. QED
    BY <1>2, <1>6, <2>1 DEF Prefijos, Relleno
<1>8. \A k \in 1 .. m : firmado[k] \notin {"-", Impresion!ESP}
  <2> TAKE k \in 1 .. m
  <2>1. q[k - 1] \in Nat
    BY <1>1 DEF Vueltas
  <2>2. q[k - 1] % base \in 0 .. (base - 1)
    BY <2>1
  <2>. QED
    BY <1>4, <2>2, CifraSeLee
<1>9. \A k \in (m + 1) .. Len(buf) : firmado[k] \notin {"-", Impresion!ESP}
  BY <1>6 DEF Prefijos, Impresion!ESP
<1>10. ~negative => \A k \in 1 .. n : firmado[k] # "-"
  BY <1>2, <1>5, <1>8, <1>9
<1>11. \A k \in 1 .. (n - 1) : firmado[k] # Impresion!ESP
  <2>1. \A k \in 1 .. (n - 1) : k \in 1 .. n /\ k # n
    BY <1>2
  <2>. QED
    BY <1>5, <1>8, <1>9, <2>1
<1>12. negative => n > 0 /\ firmado[n] = "-"
  BY <1>1, <1>2
<1>13. /\ Impresion!Leido(T, base) = IF negative THEN -q[0] ELSE q[0]
       /\ SinHuecos(T, negative)
  <2>1. EnBufer(firmado, n, m, q, base, letras, negative)
    BY <1>4, <1>7, <1>10, <1>11, <1>12 DEF EnBufer
  <2>. QED
    BY <1>2, <1>3, <2>1, VueltoSeLee
<1>. QED
  BY <1>13 DEF T

\* The room that _ntoa_format needs for a number of m digits.
CabeElSigno(m, negative, base, prec, width, flags) ==
  /\ negative => m < NTOA /\ prec < NTOA /\ "#" \notin flags /\ ("0" \in flags => width <= NTOA)
  /\ "#" \in flags => ~negative /\ "+" \notin flags /\ Impresion!ESP \notin flags
  /\ "#" \in flags /\ "." \notin flags =>
       prec = 0 /\ m > 0 /\ width \notin m .. (m + (IF base = 16 THEN 1 ELSE 0))

\* The buffer holds the digits of a value and nothing else.
SoloCifras(buf, q, base, letras) ==
  /\ Vueltas(q, Len(buf), base)
  /\ \A k \in 1 .. Len(buf) : buf[k] = Cifra(q[k - 1] % base, letras)

\* What it writes of the digits in the buffer is read as the value.
LEMMA FormatoSeLee ==
  ASSUME NEW S, "0" \in S, "-" \in S, "+" \in S, Impresion!ESP \in S,
         "x" \in S, "X" \in S, "b" \in S, NEW buf \in Seq(S),
         NEW negative \in BOOLEAN, NEW base \in 2 .. 16, NEW prec \in Nat, NEW width \in Nat,
         NEW flags, NEW letras, NEW q, SoloCifras(buf, q, base, letras),
         CabeElSigno(Len(buf), negative, base, prec, width, flags)
  PROVE  LET T == Impresion!ntoa_format(buf, negative, base, prec, width, flags)
         IN  Impresion!Leido(T, base) = (IF negative THEN -q[0] ELSE q[0]) /\ SinHuecos(T, negative)
<1> DEFINE izquierda == "-" \in flags
           lugar == Impresion!LugarDelSigno(negative, flags)
           w == IF izquierda \/ width = 0 THEN width ELSE width - lugar
           conPrec == IF izquierda THEN buf ELSE Impresion!Ceros(buf, prec)
           conCeros == IF ~izquierda /\ "0" \in flags THEN Impresion!Ceros(conPrec, w)
                       ELSE conPrec
           conPrefijo == Impresion!Prefijo(conCeros, base, prec, w, flags)
           conSigno == Impresion!PonerSigno(conPrefijo, negative, flags)
           m == Len(buf)
           N(t, R) == Numeral(t, m, q, base, letras, R)
<1>1. lugar \in {0, 1} /\ (negative /\ "0" \in flags => lugar = 1) /\ ("#" \in flags => lugar = 0)
  BY DEF Impresion!LugarDelSigno, CabeElSigno
<1>2. w \in Nat /\ w <= width /\ ("#" \in flags => w = width)
      /\ (negative /\ ~izquierda /\ "0" \in flags => w < NTOA)
  <2>1. NTOA \in Nat \ {0}
    BY FormatosDados
  <2>. QED
    BY <1>1, <2>1 DEF CabeElSigno
<1>3. m \in Nat /\ N(buf, {"0"}) /\ Vueltas(q, m, base)
  BY DEF Numeral, SoloCifras
<1>4. NTOA \in Nat \ {0}
  BY FormatosDados
<1> HIDE DEF w, lugar
<1>5. /\ conPrec \in Seq(S) /\ N(conPrec, {"0"})
      /\ Len(conPrec) = IF izquierda THEN m ELSE ElMayor(m, ElMenor(prec, NTOA))
  BY <1>3, CerosLargo, NumeralConCeros
<1> HIDE DEF conPrec
<1>6. /\ conCeros \in Seq(S) /\ N(conCeros, {"0"})
      /\ Len(conCeros) = IF ~izquierda /\ "0" \in flags
                           THEN ElMayor(Len(conPrec), ElMenor(w, NTOA)) ELSE Len(conPrec)
  BY <1>2, <1>5, CerosLargo, NumeralConCeros
<1> HIDE DEF conCeros
<1>7. ASSUME "#" \in flags, "." \notin flags, Len(conCeros) \in {prec, w}
      PROVE  m + (IF base = 16 THEN 2 ELSE 1) <= Len(conCeros)
  <2>1. prec = 0 /\ m > 0 /\ w = width /\ w \notin m .. (m + (IF base = 16 THEN 1 ELSE 0))
    BY <1>2, <1>7 DEF CabeElSigno
  <2>2. Len(conCeros) >= m
    BY <1>3, <1>6 DEF Numeral
  <2>3. Len(conCeros) = w
    BY <1>3, <1>7, <2>1, <2>2
  <2>. QED
    BY <1>2, <1>3, <2>1, <2>2, <2>3
<1>8. conPrefijo \in Seq(S) /\ N(conPrefijo, Prefijos(base))
  BY <1>6, <1>7, PrefijoTexto, NumeralConPrefijo
<1>9. negative => Len(conPrefijo) < NTOA
  <2> SUFFICES ASSUME negative PROVE Len(conPrefijo) < NTOA
    OBVIOUS
  <2>1. conPrefijo = conCeros
    BY DEF Impresion!Prefijo, CabeElSigno
  <2>2. m < NTOA /\ prec < NTOA
    BY DEF CabeElSigno
  <2>3. Len(conPrec) < NTOA /\ Len(conPrec) \in Nat
    BY <1>3, <1>4, <1>5, <2>2 DEF ElMayor, ElMenor
  <2> HIDE DEF conPrefijo
  <2>4. Len(conCeros) < NTOA
    BY <1>2, <1>4, <1>6, <2>3 DEF ElMayor, ElMenor
  <2>. QED
    BY <2>1, <2>4
<1> HIDE DEF conPrefijo
<1>10. \/ ~negative /\ conSigno = conPrefijo
       \/ ~negative /\ conSigno \in {Append(conPrefijo, "+"), Append(conPrefijo, Impresion!ESP)}
       \/ negative /\ conSigno = Append(conPrefijo, "-")
  BY <1>8, <1>9, SignoAlFinal
<1> HIDE DEF conSigno
<1>11. /\ Impresion!Leido(Impresion!out_rev(conSigno, w, flags), base) =
            IF negative THEN -q[0] ELSE q[0]
       /\ SinHuecos(Impresion!out_rev(conSigno, w, flags), negative)
  <2>1. w \in Int
    BY <1>2
  <2>. QED
    BY <1>3, <1>8, <1>10, <2>1, FirmadoSeLee
<1>12. Impresion!ntoa_format(buf, negative, base, prec, width, flags)
        = Impresion!out_rev(conSigno, w, flags)
  BY DEF Impresion!ntoa_format, conSigno, conPrefijo, conCeros, conPrec, w, lugar
<1>. QED
  BY <1>11, <1>12

\* The buffer of a value is the digits that its loop takes, which are all if there are
\* no more than p.
Cifrado(value, base, flags, p) ==
  LET q == Impresion!Dividido(value, base)
      n == Impresion!Cuantas(value, base)
      digitos == Impresion!Digitos(value, base, flags)
  IN  /\ n \in 1 .. NTOA /\ (value > 0 => n <= p)
      /\ Vueltas(q, n, base) /\ q[0] = value
      /\ DOMAIN digitos = 1 .. n
      /\ \A k \in 1 .. n : digitos[k] = Cifra(q[k - 1] % base, flags)

\* So it is when after p turns nothing is left of the value.
LEMMA DigitosSon ==
  ASSUME NEW value \in Nat, NEW base \in 2 .. 16, NEW flags, NEW p \in 0 .. (NTOA - 1),
         Impresion!Dividido(value, base)[p] = 0
  PROVE  Cifrado(value, base, flags, p)
<1> DEFINE q == Impresion!Dividido(value, base)
           bastan == {NTOA} \cup {k \in 1 .. NTOA : q[k] = 0}
           n == Impresion!Cuantas(value, base)
<1>1. NTOA \in Nat \ {0}
  BY FormatosDados
<1>2. /\ q[0] = value
      /\ \A k \in 1 .. NTOA : q[k] = q[k - 1] \div base
      /\ \A k \in 0 .. NTOA : q[k] \in Nat
  <2>1. base \in Nat \ {0}
    OBVIOUS
  <2>. QED
    BY <2>1, DivididoPorTurnos
<1>3. n \in bastan /\ \A k \in bastan : n <= k
  <2>1. bastan \in SUBSET Nat /\ bastan # {}
    BY <1>1
  <2>2. n = Impresion!Min(bastan)
    BY DEF Impresion!Cuantas
  <2> HIDE DEF bastan, n
  <2>3. \E x \in bastan : \A y \in bastan : x <= y
    BY <2>1, HayMinimo
  <2>. QED
    BY <2>2, <2>3 DEF Impresion!Min
<1>4. DOMAIN Impresion!Digitos(value, base, flags) = 1 .. n
  BY DEF Impresion!Digitos
<1>5. \A k \in 1 .. n : Impresion!Digitos(value, base, flags)[k] = Cifra(q[k - 1] % base, flags)
  BY DEF Impresion!Digitos, Cifra
<1> HIDE DEF q, n
<1>6. q[p] = 0
  BY DEF q
<1>7. n \in 1 .. NTOA /\ (value > 0 => n <= p)
  <2>1. n \in 1 .. NTOA
    BY <1>1, <1>3
  <2>2. ASSUME value > 0 PROVE n <= p
    <3>1. p # 0
      BY <1>2, <1>6, <2>2
    <3>2. p \in bastan
      BY <1>1, <1>6, <3>1
    <3>. QED
      BY <1>3, <3>2
  <2>. QED
    BY <2>1, <2>2
<1>8. q[n] = 0
  <2>1. CASE value > 0
    <3>1. n # NTOA
      BY <1>1, <1>7, <2>1
    <3>. QED
      BY <1>3, <3>1
  <2>2. CASE value = 0
    <3>1. q[1] = 0
      <4>1. 1 \in 1 .. NTOA /\ 1 - 1 = 0 /\ 0 \div base = 0
        BY <1>1
      <4>. QED
        BY <1>2, <2>2, <4>1
    <3>2. n <= 1
      BY <1>1, <1>3, <3>1
    <3>3. n = 1
      BY <1>7, <3>2
    <3>. QED
      BY <3>1, <3>3
  <2>. QED
    BY <2>1, <2>2
<1>9. Vueltas(q, n, base)
  <2> HIDE DEF bastan
  <2>1. \A k \in 1 .. n : k \in 1 .. NTOA
    BY <1>1, <1>7
  <2>2. \A k \in 0 .. n : k \in 0 .. NTOA
    BY <1>1, <1>7
  <2>. QED
    BY <1>2, <1>8, <2>1, <2>2 DEF Vueltas
<1>. QED
  BY <1>2, <1>4, <1>5, <1>7, <1>9 DEF q, n, Cifrado

\* So a directive for an integer is read as its argument.
LEMMA EnteroSeLee ==
  ASSUME NEW d \in Elementos, d.conv \in Impresion!Enteras, Impresion!HayLugar(d)
  PROVE  LET T == Impresion!Pieza(d)
         IN  /\ Impresion!Leido(T, Impresion!Base(d)) = Impresion!Valor(d)
             /\ SinHuecos(T, Impresion!Valor(d) < 0)
<1> DEFINE v == Impresion!Valor(d)
           value == IF v < 0 THEN -v ELSE v
           base == Impresion!Base(d)
           prec == Impresion!Precision(d)
           ancho == Impresion!Ancho(d)
           flags == Impresion!BanderasEntero(d)
           fl == IF value = 0 THEN flags \ {"#"} ELSE flags
           n == Impresion!Cuantas(value, base)
           q == Impresion!Dividido(value, base)
           prefijo == IF "#" \in flags THEN 2 ELSE 1
           digitos == Impresion!Digitos(value, base, flags)
           buf == IF value = 0 /\ "." \in flags THEN <<>> ELSE digitos
           T == Impresion!ntoa_format(buf, v < 0, base, prec, ancho, fl)
<1>1. /\ d \in [conv : {d.conv}, flags : SUBSET {"0", "-", "+", Impresion!ESP, "#"},
                ancho : Int, prec : Seq(Int), longitud : DOMAIN Modulo, arg : {d.arg}]
      /\ d.arg \in Int
  BY ElementosDados
<1>2. v \in Int /\ (v < 0 => d.conv \in Impresion!ConSigno)
  <2>1. Modulo[d.longitud] \in Nat \ {0}
    BY <1>1, FormatosDados
  <2>2. d.arg % Modulo[d.longitud] \in Nat
    BY <1>1, <2>1
  <2>. QED
    BY <2>1, <2>2 DEF Impresion!Valor
<1>3. base \in 2 .. 16
  BY DEF Impresion!Base
<1>4. ancho \in Nat /\ prec \in Nat
  BY AnchoNatural
<1>5. /\ d.conv \in Impresion!ConSigno => "#" \notin flags
      /\ "#" \in flags => "+" \notin flags /\ Impresion!ESP \notin flags
      /\ "." \notin flags => prec = 0
  <2>1. d.conv \in Impresion!ConSigno => "#" \notin flags
    BY DEF Impresion!BanderasEntero, Impresion!ConSigno
  <2>2. "#" \in flags => d.conv \notin Impresion!ConSigno
    BY <2>1
  <2>3. d.conv \notin Impresion!ConSigno => "+" \notin flags /\ Impresion!ESP \notin flags
    BY DEF Impresion!BanderasEntero
  <2>4. "." \notin flags => prec = 0
    BY DEF Impresion!BanderasEntero, Impresion!Banderas, Impresion!Precision, Impresion!ESP
  <2>. QED
    BY <2>1, <2>2, <2>3, <2>4
<1>6. /\ prec <= NTOA - prefijo
      /\ q[NTOA - prefijo] = 0
      /\ "0" \in flags => ancho <= NTOA
      /\ "#" \in flags /\ "." \notin flags => ancho \notin n .. (n + (IF base = 16 THEN 1 ELSE 0))
  BY DEF Impresion!HayLugar
<1>7. Impresion!Pieza(d) = T
  <2>1. Impresion!Pieza(d) = Impresion!Entero(d)
    BY DEF Impresion!Pieza, Impresion!Enteras
  <2>2. Impresion!Magnitud(v) = value
    BY <1>2 DEF Impresion!Magnitud
  <2> HIDE DEF v, value, base, prec, ancho, flags
  <2>3. Impresion!Entero(d) = Impresion!ntoa_long(value, v < 0, base, prec, ancho, flags)
    BY <2>2 DEF Impresion!Entero, Impresion!ntoa_long_long, v, base, prec, ancho, flags
  <2>. QED
    BY <2>1, <2>3 DEF Impresion!ntoa_long
<1>8. value \in Nat
  BY <1>2
<1>9. NTOA \in Nat \ {0} /\ NTOA - prefijo \in 0 .. (NTOA - 1)
  BY <1>4, <1>6, FormatosDados
<1>10. PICK S : /\ "0" \in S /\ "-" \in S /\ "+" \in S /\ Impresion!ESP \in S
                /\ "x" \in S /\ "X" \in S /\ "b" \in S
                /\ digitos \in Seq(S)
  BY DigitosTexto
<1> HIDE DEF v, value, base, prec, ancho, flags, T, prefijo
<1>11. /\ n \in 1 .. NTOA /\ (value > 0 => n <= NTOA - prefijo)
       /\ Vueltas(q, n, base) /\ q[0] = value
       /\ DOMAIN digitos = 1 .. n
       /\ \A k \in 1 .. n : digitos[k] = Cifra(q[k - 1] % base, flags)
  <2> DEFINE p == NTOA - prefijo
  <2>1. p \in 0 .. (NTOA - 1) /\ Impresion!Dividido(value, base)[p] = 0
    BY <1>6, <1>9
  <2> HIDE DEF p
  <2>2. Cifrado(value, base, flags, p)
    BY <1>3, <1>8, <2>1, DigitosSon
  <2>. QED
    BY <2>2 DEF p, Cifrado
<1> HIDE DEF n, q, digitos
<1>12. Len(digitos) = n
  BY <1>10, <1>11
<1>13. /\ buf \in Seq(S) /\ SoloCifras(buf, q, base, flags)
       /\ value > 0 \/ "." \notin flags => Len(buf) = n
  <2>1. CASE value = 0 /\ "." \in flags
    <3>1. Vueltas(q, 0, base)
      BY <1>11, <2>1 DEF Vueltas
    <3>2. buf = <<>> /\ Len(buf) = 0
      BY <2>1
    <3> HIDE DEF buf
    <3>. QED
      BY <2>1, <3>1, <3>2 DEF SoloCifras
  <2>2. CASE ~(value = 0 /\ "." \in flags)
    <3>1. buf = digitos
      BY <2>2
    <3> HIDE DEF buf
    <3>. QED
      BY <1>10, <1>11, <1>12, <3>1 DEF SoloCifras
  <2>. QED
    BY <2>1, <2>2
<1> HIDE DEF buf
<1>14. CabeElSigno(Len(buf), v < 0, base, prec, ancho, fl)
  <2>1. v < 0 => /\ Len(buf) < NTOA /\ prec < NTOA /\ "#" \notin fl
                 /\ "0" \in fl => ancho <= NTOA
    <3> SUFFICES ASSUME v < 0
                 PROVE  /\ Len(buf) < NTOA /\ prec < NTOA /\ "#" \notin fl
                        /\ "0" \in fl => ancho <= NTOA
      OBVIOUS
    <3>1. value > 0 /\ "#" \notin flags
      BY <1>2, <1>5 DEF value
    <3>2. prefijo = 1
      BY <3>1 DEF prefijo
    <3>. QED
      BY <1>4, <1>6, <1>9, <1>11, <1>13, <3>1, <3>2
  <2>2. "#" \in fl => /\ ~(v < 0) /\ "+" \notin fl /\ Impresion!ESP \notin fl
                      /\ "#" \in flags /\ value > 0
    BY <1>2, <1>5, <1>8
  <2>3. "#" \in fl /\ "." \notin fl =>
          prec = 0 /\ Len(buf) > 0 /\ ancho \notin Len(buf) .. (Len(buf) + (IF base = 16 THEN 1 ELSE 0))
    <3> SUFFICES ASSUME "#" \in fl, "." \notin fl
                 PROVE  /\ prec = 0 /\ Len(buf) > 0
                        /\ ancho \notin Len(buf) .. (Len(buf) + (IF base = 16 THEN 1 ELSE 0))
      OBVIOUS
    <3>1. "#" \in flags /\ "." \notin flags
      OBVIOUS
    <3>. QED
      BY <1>5, <1>6, <1>11, <1>13, <3>1
  <2> HIDE DEF fl
  <2>. QED
    BY <2>1, <2>2, <2>3 DEF CabeElSigno
<1> HIDE DEF fl
<1>15. Impresion!Leido(T, base) = (IF v < 0 THEN -q[0] ELSE q[0]) /\ SinHuecos(T, v < 0)
  <2> DEFINE negative == v < 0
  <2>1. negative \in BOOLEAN
    OBVIOUS
  <2>2. T = Impresion!ntoa_format(buf, negative, base, prec, ancho, fl)
    BY DEF T
  <2>3. CabeElSigno(Len(buf), negative, base, prec, ancho, fl)
    BY <1>14
  <2> HIDE DEF negative
  <2>4. Impresion!Leido(T, base) = (IF negative THEN -q[0] ELSE q[0]) /\ SinHuecos(T, negative)
    BY <1>3, <1>4, <1>10, <1>13, <2>1, <2>2, <2>3, FormatoSeLee
  <2>. QED
    BY <2>4 DEF negative
<1>16. v = IF v < 0 THEN -q[0] ELSE q[0]
  BY <1>2, <1>11 DEF value
<1>. QED
  BY <1>7, <1>15, <1>16 DEF v, base

-----------------------------------------------------------------------------
(* The text of a format: its pieces one after another.                      *)

\* FlattenSeq puts its pieces one after another.
LEMMA AplanarPorPasos ==
  ASSUME NEW X, NEW s \in Seq(Seq(X))
  PROVE  \E f \in [0 .. Len(s) -> Seq(X)] :
            /\ Impresion!FlattenSeq(s) = f[Len(s)] /\ f[0] = <<>>
            /\ \A k \in 1 .. Len(s) : f[k] = f[k - 1] \o s[k]
<1> DEFINE n == Len(s)
           Y == Seq(X)
           G == [p \in Y \X (1 .. n) |-> p[1] \o s[p[2]]]
           P(g) == g = [k \in 1 .. n |-> IF k = 1 THEN s[k] ELSE g[k - 1] \o s[k]]
           aplanado == CHOOSE g : P(g)
<1>1. n \in Nat /\ \A k \in 1 .. n : s[k] \in Y
  BY ElementOfSeq
<1>2. G \in [Y \X (1 .. n) -> Y] /\ <<>> \in Y
  <2>1. \A p \in Y \X (1 .. n) : p[1] \o s[p[2]] \in Y
    BY <1>1, ConcatProperties
  <2>2. <<>> \in Y
    OBVIOUS
  <2> HIDE DEF Y, n
  <2>. QED
    BY <2>1, <2>2
<1>3. PICK f \in [0 .. n -> Y] : f[0] = <<>> /\ \A k \in 1 .. n : f[k] = G[<<f[k - 1], k>>]
  <2>1. n \in Nat
    BY <1>1
  <2> HIDE DEF G, n, Y
  <2>2. Recurre(Y, <<>>, n, G)
    BY <1>2, <2>1, Recursion
  <2>. QED
    BY <2>2 DEF Recurre
<1>4. \A k \in 1 .. n : f[k] = f[k - 1] \o s[k]
  <2> TAKE k \in 1 .. n
  <2>1. k - 1 \in 0 .. n
    BY <1>1
  <2> HIDE DEF Y, n
  <2>2. f[k - 1] \in Y
    BY <1>3, <2>1
  <2>3. G[<<f[k - 1], k>>] = f[k - 1] \o s[k]
    BY <2>2
  <2>. QED
    BY <1>3, <2>3
<1>5. CASE n = 0
  <2>1. s = <<>>
    BY <1>5
  <2>2. Impresion!FlattenSeq(s) = s
    BY <1>5 DEF Impresion!FlattenSeq
  <2>. QED
    BY <1>3, <1>4, <1>5, <2>1, <2>2
<1>6. CASE n # 0
  <2>1. 1 \in 1 .. n /\ n \in 1 .. n /\ \A k \in 1 .. n : k \in 0 .. n /\ (k # 1 => k - 1 \in 1 .. n)
    BY <1>1, <1>6
  <2>2. f[1] = s[1]
    <3>1. f[1] = <<>> \o s[1] /\ s[1] \in Y
      <4>1. 1 \in 1 .. n /\ 1 - 1 = 0
        BY <2>1
      <4> HIDE DEF n, Y
      <4>2. f[1] = f[1 - 1] \o s[1]
        BY <1>4, <4>1
      <4>. QED
        BY <1>1, <1>3, <4>1, <4>2
    <3>. QED
      BY <3>1, ConcatEmptySeq
  <2>3. P([k \in 1 .. n |-> f[k]])
    <3> DEFINE g == [k \in 1 .. n |-> f[k]]
    <3>1. ASSUME NEW k \in 1 .. n
          PROVE  g[k] = IF k = 1 THEN s[k] ELSE g[k - 1] \o s[k]
      <4> HIDE DEF n
      <4>. QED
        BY <1>4, <2>1, <2>2
    <3>2. g = [k \in 1 .. n |-> g[k]]
      OBVIOUS
    <3> HIDE DEF g
    <3>. QED
      BY <3>1, <3>2 DEF g
  <2>4. P(aplanado)
    <3> DEFINE g == [k \in 1 .. n |-> f[k]]
    <3> HIDE DEF P, g
    <3>1. P(g)
      BY <2>3 DEF g
    <3>. QED
      BY <3>1
  <2> HIDE DEF aplanado
  <2>5. \A k \in 1 .. n : aplanado[k] = IF k = 1 THEN s[k] ELSE aplanado[k - 1] \o s[k]
    <3> HIDE DEF n
    <3>. QED
      BY <2>4
  <2> DEFINE T == {k \in Nat : k + 1 <= n => aplanado[k + 1] = f[k + 1]}
  <2>6. 0 \in T
    <3>1. aplanado[1] = f[1]
      BY <2>1, <2>2, <2>5
    <3>. QED
      BY <3>1
  <2>7. ASSUME NEW k \in Nat, k \in T PROVE k + 1 \in T
    <3>1. ASSUME k + 2 <= n PROVE aplanado[k + 2] = f[k + 2]
      <4>1. k + 2 \in 1 .. n /\ k + 2 # 1 /\ k + 2 - 1 = k + 1 /\ k + 1 <= n
        BY <1>1, <3>1
      <4>2. aplanado[k + 1] = f[k + 1]
        BY <2>7, <4>1
      <4> DEFINE m == k + 2
      <4>3. m \in 1 .. n /\ m # 1 /\ m - 1 = k + 1
        BY <4>1
      <4> HIDE DEF n, Y, m
      <4>4. aplanado[m] = aplanado[m - 1] \o s[m]
        BY <2>5, <4>3
      <4>5. f[m] = f[m - 1] \o s[m]
        BY <1>4, <4>3
      <4>6. aplanado[m] = f[m]
        BY <4>2, <4>3, <4>4, <4>5
      <4>. QED
        BY <4>6 DEF m
    <3>2. k + 1 + 1 = k + 2
      OBVIOUS
    <3> HIDE DEF n
    <3>. QED
      BY <3>1, <3>2
  <2>8. n - 1 \in T
    <3>1. n - 1 \in Nat
      BY <1>1, <1>6
    <3> HIDE DEF T
    <3>. QED
      BY <2>6, <2>7, <3>1, Induccion
  <2>9. aplanado[n] = f[n]
    <3>1. n - 1 + 1 = n
      BY <1>1
    <3> HIDE DEF n
    <3>. QED
      BY <1>1, <2>8, <3>1
  <2>10. Impresion!FlattenSeq(s) = aplanado[n]
    BY <1>6 DEF Impresion!FlattenSeq, aplanado
  <2>. QED
    BY <1>3, <1>4, <2>9, <2>10
<1>. QED
  BY <1>5, <1>6

\* What it gives is a sequence, of one piece the piece and of none nothing.
LEMMA Aplanar ==
  ASSUME NEW X
  PROVE  /\ \A s \in Seq(Seq(X)) : Impresion!FlattenSeq(s) \in Seq(X)
         /\ \A t \in Seq(X) : Impresion!FlattenSeq(<<t>>) = t
         /\ Impresion!FlattenSeq(<<>>) = <<>>
<1>1. ASSUME NEW s \in Seq(Seq(X)) PROVE Impresion!FlattenSeq(s) \in Seq(X)
  <2>1. PICK f \in [0 .. Len(s) -> Seq(X)] : Impresion!FlattenSeq(s) = f[Len(s)]
    BY AplanarPorPasos
  <2>2. Len(s) \in 0 .. Len(s)
    OBVIOUS
  <2> DEFINE n == Len(s)
             Y == Seq(X)
  <2> HIDE DEF n, Y
  <2>. QED
    BY <2>1, <2>2 DEF n, Y
<1>2. ASSUME NEW t \in Seq(X) PROVE Impresion!FlattenSeq(<<t>>) = t
  <2> DEFINE s == <<t>>
  <2>1. s \in Seq(Seq(X)) /\ Len(s) = 1 /\ s[1] = t
    OBVIOUS
  <2> HIDE DEF s
  <2>2. PICK f \in [0 .. Len(s) -> Seq(X)] :
               /\ Impresion!FlattenSeq(s) = f[Len(s)] /\ f[0] = <<>>
               /\ \A k \in 1 .. Len(s) : f[k] = f[k - 1] \o s[k]
    BY <2>1, AplanarPorPasos
  <2>3. 1 \in 1 .. Len(s) /\ 1 - 1 = 0
    BY <2>1
  <2>4. f[1] = <<>> \o s[1]
    BY <2>2, <2>3
  <2>5. <<>> \o t = t
    BY ConcatEmptySeq
  <2>. QED
    BY <2>1, <2>2, <2>4, <2>5 DEF s
<1>3. Impresion!FlattenSeq(<<>>) = <<>>
  BY DEF Impresion!FlattenSeq
<1>. QED
  BY <1>1, <1>2, <1>3

\* And it goes over a concatenation.
LEMMA AplanarJuntos ==
  ASSUME NEW X, NEW s \in Seq(Seq(X)), NEW t \in Seq(Seq(X))
  PROVE  Impresion!FlattenSeq(s \o t) = Impresion!FlattenSeq(s) \o Impresion!FlattenSeq(t)
<1> DEFINE Y == Seq(X)
           n == Len(s)
           l == Len(t)
           u == s \o t
<1>1. n \in Nat /\ l \in Nat /\ (\A k \in 1 .. n : s[k] \in Y) /\ (\A k \in 1 .. l : t[k] \in Y)
  BY ElementOfSeq
<1>2. /\ u \in Seq(Y) /\ Len(u) = n + l
      /\ \A k \in 1 .. (n + l) : u[k] = IF k <= n THEN s[k] ELSE t[k - n]
  <2>1. s \in Seq(Y) /\ t \in Seq(Y)
    OBVIOUS
  <2> HIDE DEF Y
  <2>. QED
    BY <2>1, ConcatProperties
<1>3. PICK f \in [0 .. n -> Y] :
             /\ Impresion!FlattenSeq(s) = f[n] /\ f[0] = <<>>
             /\ \A k \in 1 .. n : f[k] = f[k - 1] \o s[k]
  BY AplanarPorPasos
<1>4. PICK g \in [0 .. l -> Y] :
             /\ Impresion!FlattenSeq(t) = g[l] /\ g[0] = <<>>
             /\ \A k \in 1 .. l : g[k] = g[k - 1] \o t[k]
  BY AplanarPorPasos
<1> HIDE DEF u
<1>5. PICK h \in [0 .. Len(u) -> Y] :
             /\ Impresion!FlattenSeq(u) = h[Len(u)] /\ h[0] = <<>>
             /\ \A k \in 1 .. Len(u) : h[k] = h[k - 1] \o u[k]
  BY <1>2, AplanarPorPasos
<1> HIDE DEF n, l
<1> DEFINE T == {k \in Nat : k <= n => h[k] = f[k]}
<1>6. 0 \in T
  BY <1>3, <1>5
<1>7. ASSUME NEW k \in Nat, k \in T PROVE k + 1 \in T
  <2> DEFINE m == k + 1
  <2>1. m \in Nat /\ m - 1 = k /\ (m <= n => m \in 1 .. n /\ m \in 1 .. (n + l) /\ k <= n)
    BY <1>1
  <2> HIDE DEF m
  <2>2. ASSUME m <= n PROVE h[m] = f[m]
    <3>1. h[m] = h[m - 1] \o u[m] /\ u[m] = s[m]
      BY <1>2, <1>5, <2>1, <2>2
    <3>2. f[m] = f[m - 1] \o s[m]
      BY <1>3, <2>1, <2>2
    <3>3. h[k] = f[k]
      BY <1>7, <2>1, <2>2
    <3>. QED
      BY <2>1, <3>1, <3>2, <3>3
  <2>. QED
    BY <2>1, <2>2 DEF m
<1>8. h[n] = f[n]
  <2> HIDE DEF T
  <2>1. n \in T
    BY <1>1, <1>6, <1>7, Induccion
  <2>. QED
    BY <1>1, <2>1 DEF T
<1> DEFINE Q == {k \in Nat : k <= l => h[n + k] = f[n] \o g[k]}
<1>9. 0 \in Q
  <2>1. f[n] \in Seq(X)
    BY <1>1, <1>3
  <2>2. f[n] \o <<>> = f[n]
    BY <2>1, ConcatEmptySeq
  <2>3. n + 0 = n
    BY <1>1
  <2>. QED
    BY <1>4, <1>8, <2>2, <2>3
<1>10. ASSUME NEW k \in Nat, k \in Q PROVE k + 1 \in Q
  <2> DEFINE m == k + 1
             j == n + m
  <2>1. /\ m \in Nat /\ m - 1 = k
        /\ m <= l => /\ m \in 1 .. l /\ k \in 0 .. l /\ k <= l /\ j \in 1 .. (n + l)
                     /\ j - 1 = n + k /\ ~(j <= n) /\ j - n = m
    BY <1>1
  <2> HIDE DEF m, j
  <2>2. ASSUME m <= l PROVE h[n + m] = f[n] \o g[m]
    <3>1. h[j] = h[j - 1] \o u[j]
      BY <1>2, <1>5, <2>1, <2>2
    <3>2. u[j] = t[m]
      BY <1>2, <2>1, <2>2
    <3>3. g[m] = g[k] \o t[m]
      BY <1>4, <2>1, <2>2
    <3>4. h[n + k] = f[n] \o g[k]
      BY <1>10, <2>1, <2>2
    <3>5. h[j] = (f[n] \o g[k]) \o t[m]
      BY <2>1, <2>2, <3>1, <3>2, <3>4
    <3>6. f[n] \in Seq(X) /\ g[k] \in Seq(X) /\ t[m] \in Seq(X)
      BY <1>1, <1>3, <1>4, <2>1, <2>2
    <3> DEFINE a == f[n]
               b == g[k]
               c == t[m]
    <3> HIDE DEF a, b, c
    <3>7. a \in Seq(X) /\ b \in Seq(X) /\ c \in Seq(X)
      BY <3>6 DEF a, b, c
    <3>8. (a \o b) \o c = a \o (b \o c)
      BY <3>7, ConcatAssociative
    <3>9. h[j] = a \o g[m]
      BY <3>3, <3>5, <3>8 DEF a, b, c
    <3>. QED
      BY <3>9 DEF a, j
  <2>. QED
    BY <2>1, <2>2 DEF m
<1>11. h[n + l] = f[n] \o g[l]
  <2> HIDE DEF Q
  <2>1. l \in Q
    BY <1>1, <1>9, <1>10, Induccion
  <2>. QED
    BY <1>1, <2>1 DEF Q
<1>. QED
  BY <1>2, <1>3, <1>4, <1>5, <1>11 DEF u

\* The characters that the pieces have, and what is left to write of a format.
Caracteres == UNION {ToSet(Impresion!Pieza(d)) : d \in Elementos}
DeFormato(formato) == Impresion!FlattenSeq([k \in DOMAIN formato |-> Impresion!Pieza(formato[k])])

\* A piece is a text of them.
LEMMA PiezaDeCaracteres ==
  ASSUME NEW d \in Elementos
  PROVE  Impresion!Pieza(d) \in Seq(Caracteres)
<1> DEFINE pieza == Impresion!Pieza(d)
<1>1. PICK S : pieza \in Seq(S)
  BY PiezaTexto DEF EsTexto
<1>2. ToSet(pieza) \subseteq Caracteres
  BY DEF Caracteres
<1> HIDE DEF pieza
<1>3. Len(pieza) \in Nat /\ pieza \in [1 .. Len(pieza) -> S] /\ DOMAIN pieza = 1 .. Len(pieza)
  BY <1>1, LenProperties
<1>4. \A k \in 1 .. Len(pieza) : pieza[k] \in Caracteres
  BY <1>2, <1>3 DEF ToSet
<1>5. pieza \in [1 .. Len(pieza) -> Caracteres]
  BY <1>3, <1>4
<1>6. pieza \in Seq(Caracteres)
  BY <1>3, <1>5
<1>. QED
  BY <1>6 DEF pieza

\* The text of a format is one too, and begins with its first piece.
LEMMA FormatoPorPiezas ==
  ASSUME NEW formato \in Seq(Elementos)
  PROVE  /\ DeFormato(formato) \in Seq(Caracteres)
         /\ formato = <<>> => DeFormato(formato) = <<>>
         /\ formato # <<>> =>
              DeFormato(formato) = Impresion!Pieza(Head(formato)) \o DeFormato(Tail(formato))
<1> DEFINE piezas(f) == [k \in DOMAIN f |-> Impresion!Pieza(f[k])]
           Y == Seq(Caracteres)
<1>1. ASSUME NEW f \in Seq(Elementos)
      PROVE  /\ piezas(f) \in Seq(Y) /\ Len(piezas(f)) = Len(f)
             /\ \A k \in 1 .. Len(f) : piezas(f)[k] = Impresion!Pieza(f[k])
  <2>1. Len(f) \in Nat /\ DOMAIN f = 1 .. Len(f) /\ \A k \in 1 .. Len(f) : f[k] \in Elementos
    BY LenProperties, ElementOfSeq
  <2>2. \A k \in 1 .. Len(f) : Impresion!Pieza(f[k]) \in Y
    BY <2>1, PiezaDeCaracteres
  <2> HIDE DEF Y
  <2>. QED
    BY <2>1, <2>2
<1>2. \A f \in Seq(Elementos) : DeFormato(f) = Impresion!FlattenSeq(piezas(f))
  BY DEF DeFormato
<1>3. DeFormato(formato) \in Seq(Caracteres)
  <2> DEFINE s == piezas(formato)
  <2>1. s \in Seq(Y)
    BY <1>1
  <2> HIDE DEF s, piezas
  <2>2. Impresion!FlattenSeq(s) \in Seq(Caracteres)
    BY <2>1, Aplanar
  <2>. QED
    BY <1>2, <2>2 DEF s
<1>4. formato = <<>> => DeFormato(formato) = <<>>
  <2>1. ASSUME formato = <<>> PROVE piezas(formato) = <<>>
    BY <2>1
  <2> HIDE DEF piezas
  <2>. QED
    BY <1>2, <2>1, Aplanar
<1>5. ASSUME formato # <<>>
      PROVE  DeFormato(formato) = Impresion!Pieza(Head(formato)) \o DeFormato(Tail(formato))
  <2> DEFINE primero == Head(formato)
             cola == Tail(formato)
             s == piezas(formato)
             t == piezas(cola)
             p == Impresion!Pieza(primero)
  <2>1. /\ primero \in Elementos /\ cola \in Seq(Elementos) /\ primero = formato[1]
        /\ Len(formato) \in Nat \ {0} /\ Len(cola) = Len(formato) - 1
        /\ \A k \in 1 .. Len(cola) : cola[k] = formato[k + 1]
    BY <1>5, HeadTailProperties
  <2>2. /\ s \in Seq(Y) /\ Len(s) = Len(formato)
        /\ \A k \in 1 .. Len(formato) : s[k] = Impresion!Pieza(formato[k])
    BY <1>1
  <2>3. /\ t \in Seq(Y) /\ Len(t) = Len(cola)
        /\ \A k \in 1 .. Len(cola) : t[k] = Impresion!Pieza(cola[k])
    BY <1>1, <2>1
  <2>4. p \in Y
    BY <2>1, PiezaDeCaracteres
  <2> HIDE DEF primero, cola, s, t, piezas
  <2>5. s = <<p>> \o t
    <3> DEFINE n == Len(formato)
               u == <<p>>
               r == u \o t
    <3>1. s[1] = p /\ \A k \in 2 .. n : s[k] = t[k - 1]
      <4>1. 1 \in 1 .. n
        BY <2>1
      <4>2. ASSUME NEW k \in 2 .. n PROVE s[k] = t[k - 1]
        <5>1. k - 1 \in 1 .. Len(cola) /\ k - 1 + 1 = k /\ k \in 1 .. n
          BY <2>1
        <5> HIDE DEF n, p
        <5>2. cola[k - 1] = formato[k]
          BY <2>1, <5>1
        <5>. QED
          BY <2>2, <2>3, <5>1, <5>2 DEF n
      <4>. QED
        BY <2>1, <2>2, <4>1, <4>2
    <3> HIDE DEF p, Y
    <3>2. u \in Seq(Y) /\ Len(u) = 1 /\ u[1] = p
      BY <2>4
    <3> HIDE DEF u
    <3>3. /\ r \in Seq(Y) /\ Len(r) = Len(u) + Len(t)
          /\ \A k \in 1 .. Len(u) + Len(t) : r[k] = IF k <= Len(u) THEN u[k] ELSE t[k - Len(u)]
      BY <2>3, <3>2, ConcatProperties
    <3> HIDE DEF r
    <3>4. n \in Nat /\ Len(s) = n /\ Len(r) = n /\ Len(u) + Len(t) = n
      BY <2>1, <2>2, <2>3, <3>2, <3>3
    <3> HIDE DEF n
    <3>5. \A k \in 1 .. n : s[k] = r[k]
      <4> TAKE k \in 1 .. n
      <4>1. r[k] = IF k <= 1 THEN u[k] ELSE t[k - 1]
        BY <3>2, <3>3, <3>4
      <4>2. CASE k = 1
        BY <3>1, <3>2, <4>1, <4>2
      <4>3. CASE k \in 2 .. n
        <5>1. ~(k <= 1)
          BY <4>3
        <5>. QED
          BY <3>1, <4>1, <4>3, <5>1
      <4>. QED
        BY <3>4, <4>2, <4>3
    <3>6. s = r
      BY <2>2, <3>3, <3>4, <3>5, SeqEqual
    <3>. QED
      BY <3>6 DEF r, u
  <2>6. Impresion!FlattenSeq(s) = Impresion!FlattenSeq(<<p>>) \o Impresion!FlattenSeq(t)
    <3> DEFINE u == <<p>>
    <3>1. u \in Seq(Seq(Caracteres))
      BY <2>4
    <3> HIDE DEF u, p
    <3>2. Impresion!FlattenSeq(u \o t) = Impresion!FlattenSeq(u) \o Impresion!FlattenSeq(t)
      BY <2>3, <3>1, AplanarJuntos
    <3>. QED
      BY <2>5, <3>2 DEF u
  <2>7. Impresion!FlattenSeq(<<p>>) = p
    <3> HIDE DEF p
    <3>. QED
      BY <2>4, Aplanar
  <2>8. DeFormato(formato) = Impresion!FlattenSeq(s) /\ DeFormato(cola) = Impresion!FlattenSeq(t)
    BY <1>2, <2>1 DEF s, t
  <2>. QED
    BY <2>6, <2>7, <2>8 DEF cola, primero
<1>. QED
  BY <1>3, <1>4, <1>5

\* The console drops the 0s of a text piece by piece.
LEMMA SinCerosJuntos ==
  ASSUME NEW X, NEW a \in Seq(X), NEW b \in Seq(X)
  PROVE  Impresion!SinCeros(a \o b) = Impresion!SinCeros(a) \o Impresion!SinCeros(b)
<1> DEFINE Y == Seq(X)
           uno(c) == IF c = Impresion!NUL THEN <<>> ELSE <<c>>
           unos(t) == [k \in DOMAIN t |-> uno(t[k])]
           ab == a \o b
           s == unos(ab)
           t == unos(a)
           u == unos(b)
           r == t \o u
           n == Len(a)
           l == Len(b)
<1>1. /\ ab \in Seq(X) /\ Len(ab) = n + l /\ n \in Nat /\ l \in Nat
      /\ \A k \in 1 .. (n + l) : ab[k] = IF k <= n THEN a[k] ELSE b[k - n]
  BY ConcatProperties
<1>2. ASSUME NEW f \in Seq(X)
      PROVE  /\ unos(f) \in Seq(Y) /\ Len(unos(f)) = Len(f)
             /\ \A k \in 1 .. Len(f) : unos(f)[k] = uno(f[k])
  <2>1. Len(f) \in Nat /\ DOMAIN f = 1 .. Len(f) /\ \A k \in 1 .. Len(f) : f[k] \in X
    BY LenProperties, ElementOfSeq
  <2>2. \A c \in X : uno(c) \in Y
    OBVIOUS
  <2> HIDE DEF Y, uno
  <2>. QED
    BY <2>1, <2>2
<1> HIDE DEF ab
<1>3. /\ s \in Seq(Y) /\ Len(s) = n + l /\ \A k \in 1 .. (n + l) : s[k] = uno(ab[k])
  BY <1>1, <1>2
<1>4. /\ t \in Seq(Y) /\ Len(t) = n /\ \A k \in 1 .. n : t[k] = uno(a[k])
  BY <1>2
<1>5. /\ u \in Seq(Y) /\ Len(u) = l /\ \A k \in 1 .. l : u[k] = uno(b[k])
  BY <1>2
<1>6. /\ Impresion!SinCeros(ab) = Impresion!FlattenSeq(s)
      /\ Impresion!SinCeros(a) = Impresion!FlattenSeq(t)
      /\ Impresion!SinCeros(b) = Impresion!FlattenSeq(u)
  BY DEF Impresion!SinCeros
<1> HIDE DEF s, t, u, unos, uno, n, l
<1>7. s = r
  <2> HIDE DEF Y
  <2>1. /\ r \in Seq(Y) /\ Len(r) = n + l
        /\ \A k \in 1 .. (n + l) : r[k] = IF k <= n THEN t[k] ELSE u[k - n]
    BY <1>4, <1>5, ConcatProperties
  <2> HIDE DEF r
  <2>2. \A k \in 1 .. (n + l) : s[k] = r[k]
    <3> TAKE k \in 1 .. (n + l)
    <3>1. CASE k <= n
      <4>1. k \in 1 .. n
        BY <1>1, <3>1
      <4>. QED
        BY <1>1, <1>3, <1>4, <2>1, <3>1, <4>1
    <3>2. CASE ~(k <= n)
      <4>1. k - n \in 1 .. l
        BY <1>1, <3>2
      <4>. QED
        BY <1>1, <1>3, <1>5, <2>1, <3>2, <4>1
    <3>. QED
      BY <3>1, <3>2
  <2>. QED
    BY <1>3, <2>1, <2>2, SeqEqual
<1>8. Impresion!FlattenSeq(r) = Impresion!FlattenSeq(t) \o Impresion!FlattenSeq(u)
  BY <1>4, <1>5, AplanarJuntos
<1>. QED
  BY <1>6, <1>7, <1>8 DEF ab

\* What it gets is a text.
LEMMA SinCerosTexto ==
  ASSUME NEW X, NEW a \in Seq(X)
  PROVE  Impresion!SinCeros(a) \in Seq(X)
<1> DEFINE Y == Seq(X)
           uno(c) == IF c = Impresion!NUL THEN <<>> ELSE <<c>>
           unos == [k \in DOMAIN a |-> uno(a[k])]
<1>1. Len(a) \in Nat /\ DOMAIN a = 1 .. Len(a) /\ \A k \in 1 .. Len(a) : a[k] \in X
  BY LenProperties, ElementOfSeq
<1>2. \A c \in X : uno(c) \in Y
  OBVIOUS
<1>3. unos \in Seq(Y)
  <2> HIDE DEF Y, uno
  <2>. QED
    BY <1>1, <1>2
<1>4. Impresion!SinCeros(a) = Impresion!FlattenSeq(unos)
  BY DEF Impresion!SinCeros
<1> HIDE DEF unos
<1>. QED
  BY <1>3, <1>4, Aplanar

\* And of the 0 at the end it gets nothing.
LEMMA SinCerosNada ==
  Impresion!SinCeros(<<>>) = <<>> /\ Impresion!SinCeros(<<Impresion!NUL>>) = <<>>
<1>1. Impresion!SinCeros(<<>>) = <<>>
  BY Aplanar DEF Impresion!SinCeros
<1>2. Impresion!SinCeros(<<Impresion!NUL>>) = Impresion!FlattenSeq(<<<<>>>>)
  <2> DEFINE z == <<Impresion!NUL>>
  <2>1. DOMAIN z = 1 .. 1 /\ z[1] = Impresion!NUL
    OBVIOUS
  <2> HIDE DEF z
  <2>2. [k \in DOMAIN z |-> IF z[k] = Impresion!NUL THEN <<>> ELSE <<z[k]>>] = <<<<>>>>
    BY <2>1
  <2>. QED
    BY <2>2 DEF Impresion!SinCeros, z
<1>3. Impresion!FlattenSeq(<<<<>>>>) = <<>>
  <2> DEFINE e == <<>>
  <2>1. e \in Seq({})
    OBVIOUS
  <2> HIDE DEF e
  <2>2. Impresion!FlattenSeq(<<e>>) = e
    BY <2>1, Aplanar
  <2>. QED
    BY <2>2 DEF e
<1>. QED
  BY <1>1, <1>2, <1>3

-----------------------------------------------------------------------------
(* The call.                                                                *)

\* What is left of a format is of the format, and nothing is left when the call
\* has returned.  Before a call the memory is as it was.
TiposImpresion ==
  /\ llamada \in Llamadas \cup {Impresion!SinLlamada}
  /\ resto \in Seq(Elementos)
  /\ idx \in Nat
  /\ ret \in {Impresion!Ninguno, idx}
RestoVacio == ret # Impresion!Ninguno => llamada # Impresion!SinLlamada /\ resto = <<>>
SinTocar ==
  llamada = Impresion!SinLlamada => \A c \in Celdas : bufer[c] = "viejo"
IInvImpresion == TiposImpresion /\ RestoVacio /\ SinTocar /\ BuferDelimitado

\* A call is not the absence of one.
LEMMA LlamadaNoVacia == ASSUME NEW l \in Llamadas PROVE l # Impresion!SinLlamada
BY FormatosDados DEF Impresion!SinLlamada

\* The limit of a call is a size_t.
LEMMA LimiteEsSize ==
  ASSUME llamada \in Llamadas
  PROVE  Impresion!maxlen \in 0 .. (TopeSize - 1)
<1>1. /\ llamada.funcion \in
           {"printf_", "vprintf_", "fctprintf", "sprintf_", "snprintf_", "vsnprintf_"}
      /\ llamada.count \in 0 .. (TopeSize - 1) /\ TopeSize \in Nat \ {0}
  BY FormatosDados
<1>. QED
  BY <1>1 DEF Impresion!maxlen, Impresion!Interfaz

\* A text written during a call stays in the buffer.
LEMMA EscribirDentro ==
  ASSUME IInvImpresion, llamada \in Llamadas, llamada' = llamada,
         NEW texto, NEW desde, Impresion!Out(texto, desde)
  PROVE  \A c \in Celdas : bufer'[c] # "viejo" =>
           /\ llamada' # Impresion!SinLlamada
           /\ Impresion!Sumidero(llamada') = "_out_buffer" /\ c < Impresion!maxlen'
<1> SUFFICES ASSUME NEW c \in Celdas, bufer'[c] # "viejo"
             PROVE  Impresion!Sumidero(llamada) = "_out_buffer" /\ c < Impresion!maxlen
  BY LlamadaNoVacia DEF Impresion!maxlen
<1>1. bufer'[c] = IF /\ Impresion!Sumidero(llamada) = "_out_buffer"
                     /\ c - desde + 1 \in DOMAIN texto /\ c < Impresion!maxlen
                    THEN texto[c - desde + 1] ELSE bufer[c]
  BY DEF Impresion!Out, Impresion!Entra
<1>2. bufer[c] # "viejo" =>
        Impresion!Sumidero(llamada) = "_out_buffer" /\ c < Impresion!maxlen
  BY DEF IInvImpresion, BuferDelimitado, Impresion!BuferDelimitado
<1>. QED
  BY <1>1, <1>2

\* A call begins with the memory as it was.
LEMMA LlamarInvariante ==
  ASSUME IInvImpresion, Impresion!Llamar
  PROVE  IInvImpresion'
<1>1. /\ llamada = Impresion!SinLlamada /\ llamada' \in Llamadas
      /\ resto' = llamada'.formato /\ UNCHANGED <<idx, bufer, ret>>
  BY DEF Impresion!Llamar
<1>2. ret = Impresion!Ninguno /\ \A c \in Celdas : bufer[c] = "viejo"
  BY <1>1 DEF IInvImpresion, RestoVacio, SinTocar
<1>3. TiposImpresion'
  BY <1>1, ElementosDados DEF IInvImpresion, TiposImpresion
<1>4. RestoVacio' /\ SinTocar'
  BY <1>1, <1>2 DEF RestoVacio, SinTocar
<1>5. BuferDelimitado'
  BY <1>1, <1>2 DEF BuferDelimitado, Impresion!BuferDelimitado
<1>. QED
  BY <1>3, <1>4, <1>5 DEF IInvImpresion

\* An element of the format is written inside the limit.
LEMMA ElementoInvariante ==
  ASSUME IInvImpresion, Impresion!EscribirElemento
  PROVE  IInvImpresion'
<1> DEFINE pieza == Impresion!Pieza(Head(resto))
<1>1. /\ llamada # Impresion!SinLlamada /\ resto # <<>> /\ resto' = Tail(resto)
      /\ Impresion!Out(pieza, idx) /\ idx' = idx + Len(pieza) /\ UNCHANGED <<llamada, ret>>
  BY DEF Impresion!EscribirElemento
<1>2. resto \in Seq(Elementos) /\ idx \in Nat /\ llamada \in Llamadas
  BY <1>1 DEF IInvImpresion, TiposImpresion
<1>3. ret = Impresion!Ninguno
  BY <1>1 DEF IInvImpresion, RestoVacio
<1>4. Len(pieza) \in Nat
  <2>1. Head(resto) \in Elementos
    BY <1>1, <1>2
  <2>. QED
    BY <2>1, PiezaTexto DEF EsTexto
<1>5. resto' \in Seq(Elementos)
  BY <1>1, <1>2
<1> HIDE DEF pieza
<1>6. TiposImpresion'
  BY <1>1, <1>2, <1>3, <1>4, <1>5 DEF TiposImpresion
<1>7. RestoVacio' /\ SinTocar'
  BY <1>1, <1>3 DEF RestoVacio, SinTocar
<1>8. BuferDelimitado'
  BY <1>1, <1>2, <1>3, EscribirDentro DEF BuferDelimitado, Impresion!BuferDelimitado
<1>. QED
  BY <1>6, <1>7, <1>8 DEF IInvImpresion

\* The 0 at the end falls inside the limit, behind the text or in its last place.
LEMMA TerminarInvariante ==
  ASSUME IInvImpresion, Impresion!Terminar
  PROVE  IInvImpresion'
<1> DEFINE lugar == Impresion!LugarDelCero
           fin == IF idx < Impresion!maxlen THEN idx ELSE Impresion!maxlen - 1
<1>1. /\ llamada # Impresion!SinLlamada /\ resto = <<>>
      /\ Impresion!Out(<<Impresion!NUL>>, lugar) /\ ret' = idx
      /\ UNCHANGED <<llamada, resto, idx>>
  BY DEF Impresion!Terminar
<1>2. idx \in Nat /\ llamada \in Llamadas
  BY <1>1 DEF IInvImpresion, TiposImpresion
<1>3. TiposImpresion'
  BY <1>1 DEF IInvImpresion, TiposImpresion
<1>4. RestoVacio' /\ SinTocar'
  BY <1>1 DEF RestoVacio, SinTocar
<1>5. Impresion!maxlen' = Impresion!maxlen /\ Impresion!maxlen \in 0 .. (TopeSize - 1)
  BY <1>1, <1>2, LimiteEsSize DEF Impresion!maxlen
<1>6. Impresion!maxlen > 0 => lugar = fin /\ fin \in Nat /\ fin < Impresion!maxlen
  <2>1. TopeSize \in Nat \ {0}
    BY FormatosDados
  <2>2. Impresion!maxlen > 0 => (Impresion!maxlen - 1) % TopeSize = Impresion!maxlen - 1
    <3> DEFINE m == Impresion!maxlen
    <3>1. m \in 0 .. (TopeSize - 1)
      BY <1>5
    <3> HIDE DEF m
    <3>2. m > 0 => (m - 1) % TopeSize = m - 1
      BY <2>1, <3>1
    <3>. QED
      BY <3>2 DEF m
  <2>. QED
    BY <1>2, <1>5, <2>2 DEF Impresion!LugarDelCero
<1> HIDE DEF lugar
<1>7. ASSUME Impresion!Sumidero(llamada) = "_out_buffer", Impresion!maxlen > 0,
             NEW c \in Celdas, c = fin
      PROVE  bufer'[c] = Impresion!NUL
  <2>1. lugar = c /\ c < Impresion!maxlen /\ c \in Nat
    BY <1>6, <1>7
  <2>2. c - lugar + 1 = 1
    BY <2>1
  <2>3. bufer'[c] = IF /\ Impresion!Sumidero(llamada) = "_out_buffer"
                       /\ c - lugar + 1 \in DOMAIN <<Impresion!NUL>> /\ c < Impresion!maxlen
                      THEN <<Impresion!NUL>>[c - lugar + 1] ELSE bufer[c]
    BY <1>1 DEF Impresion!Out, Impresion!Entra
  <2>. QED
    BY <1>7, <2>1, <2>2, <2>3
<1>8. BuferDelimitado'
  <2>1. \A c \in Celdas : bufer'[c] # "viejo" =>
           /\ llamada' # Impresion!SinLlamada
           /\ Impresion!Sumidero(llamada') = "_out_buffer" /\ c < Impresion!maxlen'
    BY <1>1, <1>2, EscribirDentro
  <2>. QED
    BY <1>1, <1>5, <1>7, <2>1 DEF BuferDelimitado, Impresion!BuferDelimitado
<1>. QED
  BY <1>3, <1>4, <1>8 DEF IInvImpresion

\* The caller goes on, and everything is as at the start.
LEMMA VolverInvariante ==
  ASSUME IInvImpresion, Impresion!Volver
  PROVE  IInvImpresion'
<1>1. /\ llamada' = Impresion!SinLlamada /\ resto' = <<>> /\ idx' = 0
      /\ ret' = Impresion!Ninguno /\ \A c \in Celdas : bufer'[c] = "viejo"
  BY DEF Impresion!Volver
<1>. QED
  BY <1>1 DEF IInvImpresion, TiposImpresion, RestoVacio, SinTocar, BuferDelimitado,
              Impresion!BuferDelimitado

\* The inductive invariant of the calls, on the steps of the whole console.
THEOREM InvarianteImpresion == SpecConsola => []IInvImpresion
<1>1. InitConsola => IInvImpresion
  BY DEF InitConsola, Impresion!Init, IInvImpresion, TiposImpresion, RestoVacio, SinTocar,
         BuferDelimitado, Impresion!BuferDelimitado
<1>2. IInvImpresion /\ Impresion!Next => IInvImpresion'
  BY LlamarInvariante, ElementoInvariante, TerminarInvariante, VolverInvariante
     DEF Impresion!Next
<1>3. IInvImpresion /\ UNCHANGED varsImpresion => IInvImpresion'
  BY DEF varsImpresion, IInvImpresion, TiposImpresion, RestoVacio, SinTocar,
         BuferDelimitado, Impresion!BuferDelimitado, Impresion!maxlen
<1>4. [NextConsola]_varsConsola => Impresion!Next \/ UNCHANGED varsImpresion
  BY DEF NextConsola, Arrancar, Imprimir, Atender, varsConsola, varsImpresion
<1>. QED
  BY <1>1, <1>2, <1>3, <1>4, PTL DEF SpecConsola

\* What the buffer of a call has with this text written, but the 0; and whether
\* the text goes to the console or to the function.
ConTexto(texto) ==
  [c \in Celdas |->
     IF /\ Impresion!Sumidero(llamada) = "_out_buffer"
        /\ c < Len(texto) /\ c < Impresion!maxlen
       THEN texto[c + 1] ELSE "viejo"]
AConsola == Impresion!Sumidero(llamada) \in {"_out_char", "_out_fct"}

\* During a call there is a text already written, which with what is left of the
\* format is the whole text.
YaEscrito(texto) ==
  /\ Impresion!Completo(llamada) = texto \o DeFormato(resto)
  /\ idx = Len(texto)
  /\ consola = IF AConsola THEN Impresion!SinCeros(texto) ELSE <<>>
  /\ ret = Impresion!Ninguno => bufer = ConTexto(texto)
Escribiendo ==
  llamada # Impresion!SinLlamada => \E texto \in Seq(Caracteres) : YaEscrito(texto)
AntesDeLlamar ==
  llamada = Impresion!SinLlamada =>
    idx = 0 /\ consola = <<>> /\ bufer = [c \in Celdas |-> "viejo"]
IInvSalida == AntesDeLlamar /\ Escribiendo /\ SalidaFiel

\* A call begins with nothing written.
LEMMA LlamarSalida ==
  ASSUME IInvImpresion, IInvSalida, Impresion!Llamar
  PROVE  IInvSalida'
<1>1. /\ llamada = Impresion!SinLlamada /\ llamada' \in Llamadas
      /\ resto' = llamada'.formato /\ UNCHANGED <<idx, bufer, consola, ret>>
  BY DEF Impresion!Llamar
<1>2. /\ ret = Impresion!Ninguno /\ idx = 0 /\ consola = <<>>
      /\ bufer = [c \in Celdas |-> "viejo"]
  BY <1>1 DEF IInvImpresion, RestoVacio, IInvSalida, AntesDeLlamar
<1>3. llamada' # Impresion!SinLlamada /\ resto' \in Seq(Elementos)
  BY <1>1, LlamadaNoVacia, ElementosDados
<1> DEFINE nada == <<>>
<1>4. nada \in Seq(Caracteres) /\ Len(nada) = 0 /\ Impresion!SinCeros(nada) = <<>>
  BY SinCerosNada
<1>5. Impresion!Completo(llamada)' = nada \o DeFormato(resto)'
  <2>1. Impresion!Completo(llamada)' = DeFormato(resto)'
    BY <1>1 DEF Impresion!Completo, DeFormato
  <2> DEFINE w == DeFormato(resto)'
  <2>2. w \in Seq(Caracteres)
    BY <1>3, FormatoPorPiezas
  <2> HIDE DEF w
  <2>3. <<>> \o w = w
    BY <2>2, ConcatEmptySeq
  <2>. QED
    BY <2>1, <2>3 DEF w
<1> HIDE DEF nada
<1>6. bufer' = ConTexto(nada)'
  <2>1. \A c \in Celdas : ~(c < Len(nada))
    BY <1>4, FormatosDados
  <2>. QED
    BY <1>1, <1>2, <2>1 DEF ConTexto
<1>7. YaEscrito(nada)'
  BY <1>1, <1>2, <1>4, <1>5, <1>6 DEF YaEscrito
<1>8. SalidaFiel'
  BY <1>1, <1>2 DEF SalidaFiel, Impresion!SalidaFiel
<1>. QED
  BY <1>3, <1>4, <1>7, <1>8 DEF IInvSalida, AntesDeLlamar, Escribiendo

\* Each element adds its piece.
LEMMA ElementoSalida ==
  ASSUME IInvImpresion, IInvSalida, Impresion!EscribirElemento
  PROVE  IInvSalida'
<1>0. PICK pieza : pieza = Impresion!Pieza(Head(resto))
  OBVIOUS
<1>1. /\ llamada # Impresion!SinLlamada /\ resto # <<>> /\ resto' = Tail(resto)
      /\ Impresion!Out(pieza, idx) /\ idx' = idx + Len(pieza) /\ UNCHANGED <<llamada, ret>>
  BY <1>0 DEF Impresion!EscribirElemento
<1>2. resto \in Seq(Elementos) /\ ret = Impresion!Ninguno
  BY <1>1 DEF IInvImpresion, TiposImpresion, RestoVacio
<1>3. PICK texto \in Seq(Caracteres) : YaEscrito(texto)
  BY <1>1 DEF IInvSalida, Escribiendo
<1>15. PICK nuevo : nuevo = texto \o pieza
  OBVIOUS
<1> DEFINE queda == DeFormato(Tail(resto))
<1>4. pieza \in Seq(Caracteres)
  <2>1. Head(resto) \in Elementos
    BY <1>1, <1>2
  <2>. QED
    BY <1>0, <2>1, PiezaDeCaracteres
<1>5. queda \in Seq(Caracteres) /\ DeFormato(resto) = pieza \o queda
  <2>1. Tail(resto) \in Seq(Elementos)
    BY <1>1, <1>2
  <2>. QED
    BY <1>0, <1>1, <1>2, <2>1, FormatoPorPiezas
<1>6. DeFormato(resto)' = queda
  BY <1>1 DEF DeFormato
<1> HIDE DEF queda
<1>7. /\ nuevo \in Seq(Caracteres) /\ Len(nuevo) = Len(texto) + Len(pieza)
      /\ \A k \in 1 .. Len(texto) + Len(pieza) :
           nuevo[k] = IF k <= Len(texto) THEN texto[k] ELSE pieza[k - Len(texto)]
  BY <1>4, <1>15, ConcatProperties
<1>8. Impresion!Completo(llamada) = nuevo \o queda
  <2>1. Impresion!Completo(llamada) = texto \o (pieza \o queda)
    BY <1>3, <1>5 DEF YaEscrito
  <2>. QED
    BY <1>4, <1>5, <1>15, <2>1, ConcatAssociative
<1>9. Impresion!SinCeros(nuevo) = Impresion!SinCeros(texto) \o Impresion!SinCeros(pieza)
  BY <1>4, <1>15, SinCerosJuntos
<1>10. idx' = Len(nuevo)
  BY <1>1, <1>3, <1>7 DEF YaEscrito
<1>11. consola' = IF AConsola THEN Impresion!SinCeros(nuevo) ELSE <<>>
  <2>1. consola' = IF AConsola THEN consola \o Impresion!SinCeros(pieza) ELSE consola
    BY <1>1 DEF Impresion!Out, AConsola
  <2>2. consola = IF AConsola THEN Impresion!SinCeros(texto) ELSE <<>>
    BY <1>3 DEF YaEscrito
  <2>. QED
    BY <1>9, <2>1, <2>2
<1>12. bufer' = ConTexto(nuevo)
  <2> DEFINE alBufer == Impresion!Sumidero(llamada) = "_out_buffer"
             m == Impresion!maxlen
             n == Len(texto)
             l == Len(pieza)
  <2>1. bufer' = [c \in Celdas |-> IF alBufer /\ c - n + 1 \in DOMAIN pieza /\ c < m
                                     THEN pieza[c - n + 1] ELSE bufer[c]]
    BY <1>1, <1>3 DEF Impresion!Out, Impresion!Entra, YaEscrito
  <2>2. bufer = [c \in Celdas |-> IF alBufer /\ c < n /\ c < m THEN texto[c + 1] ELSE "viejo"]
    BY <1>2, <1>3 DEF YaEscrito, ConTexto
  <2>3. n \in Nat /\ l \in Nat /\ DOMAIN pieza = 1 .. l /\ Celdas \subseteq Nat
    BY <1>4, LenProperties, FormatosDados
  <2>4. /\ Len(nuevo) = n + l
        /\ \A k \in 1 .. n + l : nuevo[k] = IF k <= n THEN texto[k] ELSE pieza[k - n]
    BY <1>7
  <2> HIDE DEF n, l, m, alBufer
  <2>5. ASSUME NEW c \in Celdas
        PROVE  bufer'[c] = IF alBufer /\ c < n + l /\ c < m THEN nuevo[c + 1] ELSE "viejo"
    <3>1. c \in Nat
      BY <2>3
    <3>2. CASE c < n
      <4>1. c - n + 1 \notin 1 .. l /\ c < n + l /\ c + 1 \in 1 .. n + l /\ c + 1 <= n
        BY <2>3, <3>1, <3>2
      <4>2. nuevo[c + 1] = texto[c + 1]
        BY <2>4, <4>1
      <4>. QED
        BY <2>1, <2>2, <2>3, <3>2, <4>1, <4>2
    <3>3. CASE ~(c < n) /\ c < n + l
      <4>1. /\ c - n + 1 \in 1 .. l /\ c + 1 \in 1 .. n + l /\ ~(c + 1 <= n)
            /\ c + 1 - n = c - n + 1
        BY <2>3, <3>1, <3>3
      <4> DEFINE k == c + 1
      <4>2. k \in 1 .. n + l /\ ~(k <= n) /\ k - n = c - n + 1
        BY <2>3, <3>1, <3>3
      <4> HIDE DEF k
      <4>3. nuevo[k] = pieza[k - n]
        BY <2>4, <4>2
      <4>4. nuevo[c + 1] = pieza[c - n + 1]
        BY <4>2, <4>3 DEF k
      <4>. QED
        BY <2>1, <2>2, <2>3, <3>3, <4>1, <4>4
    <3>4. CASE ~(c < n + l)
      <4>1. c - n + 1 \notin 1 .. l /\ ~(c < n)
        BY <2>3, <3>1, <3>4
      <4>. QED
        BY <2>1, <2>2, <2>3, <3>4, <4>1
    <3>. QED
      BY <3>2, <3>3, <3>4
  <2>6. bufer' = [c \in Celdas |-> bufer'[c]]
    BY <2>1
  <2>7. bufer' = [c \in Celdas |->
                    IF alBufer /\ c < n + l /\ c < m THEN nuevo[c + 1] ELSE "viejo"]
    BY <2>5, <2>6
  <2>. QED
    BY <2>4, <2>7 DEF ConTexto, alBufer, m
<1>13. YaEscrito(nuevo)'
  <2>1. ConTexto(nuevo)' = ConTexto(nuevo) /\ AConsola' = AConsola
    BY <1>1 DEF ConTexto, AConsola, Impresion!maxlen
  <2>2. Impresion!Completo(llamada)' = Impresion!Completo(llamada)
    BY <1>1
  <2>. QED
    BY <1>1, <1>2, <1>6, <1>8, <1>10, <1>11, <1>12, <2>1, <2>2 DEF YaEscrito
<1>14. SalidaFiel'
  BY <1>1, <1>2 DEF SalidaFiel, Impresion!SalidaFiel
<1>. QED
  BY <1>1, <1>7, <1>13, <1>14 DEF IInvSalida, AntesDeLlamar, Escribiendo

\* The 0 at the end takes the place behind the text, or its last one.
LEMMA TerminarSalida ==
  ASSUME IInvImpresion, IInvSalida, Impresion!Terminar
  PROVE  IInvSalida'
<1> DEFINE lugar == Impresion!LugarDelCero
<1>1. /\ llamada # Impresion!SinLlamada /\ resto = <<>> /\ ret = Impresion!Ninguno
      /\ Impresion!Out(<<Impresion!NUL>>, lugar) /\ ret' = idx
      /\ UNCHANGED <<llamada, resto, idx>>
  BY DEF Impresion!Terminar
<1>2. llamada \in Llamadas
  BY <1>1 DEF IInvImpresion, TiposImpresion
<1>3. PICK texto \in Seq(Caracteres) : YaEscrito(texto)
  BY <1>1 DEF IInvSalida, Escribiendo
<1>4. Impresion!Completo(llamada) = texto
  <2>1. DeFormato(resto) = <<>>
    BY <1>1, FormatoPorPiezas DEF IInvImpresion, TiposImpresion
  <2>2. texto \o <<>> = texto
    BY ConcatEmptySeq
  <2>. QED
    BY <1>3, <2>1, <2>2 DEF YaEscrito
<1>5. consola' = IF AConsola THEN Impresion!SinCeros(texto) ELSE <<>>
  <2>1. consola' = IF AConsola THEN consola \o <<>> ELSE consola
    BY <1>1, SinCerosNada DEF Impresion!Out, AConsola
  <2>2. consola = IF AConsola THEN Impresion!SinCeros(texto) ELSE <<>>
    BY <1>3 DEF YaEscrito
  <2> DEFINE w == Impresion!SinCeros(texto)
  <2>3. w \in Seq(Caracteres)
    BY SinCerosTexto
  <2> HIDE DEF w
  <2>4. w \o <<>> = w
    BY <2>3, ConcatEmptySeq
  <2>. QED
    BY <2>1, <2>2, <2>4 DEF w
<1>6. bufer' = IF Impresion!Sumidero(llamada) = "_out_buffer"
                 THEN [c \in Celdas |->
                         IF c < Impresion!Min({Len(texto), Impresion!maxlen - 1})
                           THEN texto[c + 1]
                         ELSE IF c = Impresion!Min({Len(texto), Impresion!maxlen - 1})
                           THEN Impresion!NUL ELSE "viejo"]
                 ELSE [c \in Celdas |-> "viejo"]
  <2> DEFINE alBufer == Impresion!Sumidero(llamada) = "_out_buffer"
             m == Impresion!maxlen
             n == Len(texto)
             fin == ElMenor(n, m - 1)
             z == <<Impresion!NUL>>
  <2>1. bufer' = [c \in Celdas |-> IF alBufer /\ c - lugar + 1 \in DOMAIN z /\ c < m
                                     THEN z[c - lugar + 1] ELSE bufer[c]]
    BY <1>1 DEF Impresion!Out, Impresion!Entra
  <2>2. bufer = [c \in Celdas |-> IF alBufer /\ c < n /\ c < m THEN texto[c + 1] ELSE "viejo"]
    BY <1>1, <1>3 DEF YaEscrito, ConTexto
  <2>3. /\ n \in Nat /\ Celdas \subseteq Nat /\ TopeSize \in Nat \ {0}
        /\ DOMAIN z = 1 .. 1 /\ z[1] = Impresion!NUL
    BY LenProperties, FormatosDados
  <2>4. m \in 0 .. (TopeSize - 1)
    BY <1>2, LimiteEsSize
  <2>5. Impresion!LugarDelCero = IF n < m THEN n ELSE (m - 1) % TopeSize
    BY <1>3 DEF Impresion!LugarDelCero, YaEscrito
  <2> HIDE DEF n, m, alBufer, z
  <2>6. lugar = IF n < m THEN n ELSE IF m > 0 THEN m - 1 ELSE TopeSize - 1
    <3>1. m > 0 => (m - 1) % TopeSize = m - 1
      BY <2>3, <2>4
    <3>2. m = 0 => (m - 1) % TopeSize = TopeSize - 1
      BY <2>3
    <3>. QED
      BY <2>3, <2>4, <2>5, <3>1, <3>2
  <2> HIDE DEF lugar
  <2>7. Impresion!Min({n, m - 1}) = fin
    <3> DEFINE k == m - 1
    <3>1. n \in Int /\ k \in Int
      BY <2>3, <2>4
    <3> HIDE DEF k
    <3>2. Impresion!Min({n, k}) = ElMenor(n, k)
      BY <3>1, MayorMenor, Zenon
    <3>. QED
      BY <3>2 DEF k
  <2>8. ASSUME NEW c \in Celdas, alBufer
        PROVE  bufer'[c] = IF c < fin THEN texto[c + 1]
                           ELSE IF c = fin THEN Impresion!NUL ELSE "viejo"
    <3>1. c \in Nat
      BY <2>3
    <3>2. bufer'[c] = IF c - lugar + 1 \in 1 .. 1 /\ c < m THEN z[c - lugar + 1]
                      ELSE IF c < n /\ c < m THEN texto[c + 1] ELSE "viejo"
      BY <2>1, <2>2, <2>3, <2>8
    <3>3. lugar \in Int /\ fin \in Int
      BY <2>3, <2>4, <2>6 DEF ElMenor
    <3>4. CASE c < fin
      <4>1. c < n /\ c < m /\ c # lugar
        BY <2>3, <2>4, <2>6, <3>1, <3>4 DEF ElMenor
      <4>2. c - lugar + 1 \notin 1 .. 1
        BY <3>1, <3>3, <4>1
      <4>. QED
        BY <3>2, <3>4, <4>1, <4>2
    <3>5. CASE c = fin
      <4>1. c = lugar /\ c < m
        BY <2>3, <2>4, <2>6, <3>1, <3>5 DEF ElMenor
      <4>2. c - lugar + 1 = 1 /\ ~(c < fin)
        BY <3>1, <3>3, <3>5, <4>1
      <4>. QED
        BY <2>3, <3>2, <3>5, <4>1, <4>2
    <3>6. CASE c > fin
      <4>1. ~(c < n /\ c < m) /\ (c < m => c # lugar)
        BY <2>3, <2>4, <2>6, <3>1, <3>6 DEF ElMenor
      <4>2. c < m => c - lugar + 1 \notin 1 .. 1
        BY <3>1, <3>3, <4>1
      <4>3. ~(c < fin) /\ c # fin
        BY <3>1, <3>3, <3>6
      <4>. QED
        BY <3>2, <4>1, <4>2, <4>3
    <3>. QED
      BY <3>1, <3>3, <3>4, <3>5, <3>6
  <2>9. ASSUME NEW c \in Celdas, ~alBufer PROVE bufer'[c] = "viejo"
    BY <2>1, <2>2, <2>9
  <2>10. bufer' = [c \in Celdas |-> bufer'[c]]
    BY <2>1
  <2> HIDE DEF fin
  <2>11. bufer' = IF alBufer
                    THEN [c \in Celdas |-> IF c < fin THEN texto[c + 1]
                                           ELSE IF c = fin THEN Impresion!NUL ELSE "viejo"]
                    ELSE [c \in Celdas |-> "viejo"]
    BY <2>8, <2>9, <2>10
  <2>. QED
    BY <2>7, <2>11 DEF alBufer, n, m
<1>7. YaEscrito(texto)'
  <2>1. idx \in Nat
    BY DEF IInvImpresion, TiposImpresion
  <2>2. ret' # Impresion!Ninguno
    BY <1>1, <2>1 DEF Impresion!Ninguno
  <2>3. AConsola' = AConsola /\ Impresion!Completo(llamada)' = Impresion!Completo(llamada)
    BY <1>1 DEF AConsola
  <2>4. DeFormato(resto)' = DeFormato(resto)
    BY <1>1
  <2>. QED
    BY <1>1, <1>3, <1>5, <2>2, <2>3, <2>4 DEF YaEscrito
<1>8. SalidaFiel'
  <2>1. ret' = Len(texto)
    BY <1>1, <1>3 DEF YaEscrito
  <2>2. /\ Impresion!Completo(llamada)' = texto /\ llamada' = llamada
        /\ Impresion!maxlen' = Impresion!maxlen
    BY <1>1, <1>4 DEF Impresion!maxlen
  <2>. QED
    BY <1>5, <1>6, <2>1, <2>2 DEF SalidaFiel, Impresion!SalidaFiel, AConsola
<1>. QED
  BY <1>1, <1>7, <1>8 DEF IInvSalida, AntesDeLlamar, Escribiendo

\* The caller goes on, and nothing is written.
LEMMA VolverSalida ==
  ASSUME IInvSalida, Impresion!Volver
  PROVE  IInvSalida'
<1>1. /\ llamada' = Impresion!SinLlamada /\ idx' = 0 /\ ret' = Impresion!Ninguno
      /\ bufer' = [c \in Celdas |-> "viejo"] /\ consola' = <<>>
  BY DEF Impresion!Volver
<1>. QED
  BY <1>1 DEF IInvSalida, AntesDeLlamar, Escribiendo, SalidaFiel, Impresion!SalidaFiel

\* The invariant of what a call writes, on the steps of the whole console.
THEOREM InvarianteSalida == SpecConsola => []IInvSalida
<1>1. InitConsola => IInvSalida
  BY DEF InitConsola, Impresion!Init, IInvSalida, AntesDeLlamar, Escribiendo, SalidaFiel,
         Impresion!SalidaFiel
<1>2. IInvImpresion /\ IInvSalida /\ Impresion!Next => IInvSalida'
  BY LlamarSalida, ElementoSalida, TerminarSalida, VolverSalida DEF Impresion!Next
<1>3. IInvSalida /\ UNCHANGED varsImpresion => IInvSalida'
  <2> SUFFICES ASSUME IInvSalida, UNCHANGED varsImpresion PROVE IInvSalida'
    OBVIOUS
  <2>1. /\ llamada' = llamada /\ resto' = resto /\ idx' = idx /\ bufer' = bufer
        /\ consola' = consola /\ ret' = ret
    BY DEF varsImpresion
  <2>2. Impresion!maxlen' = Impresion!maxlen
    BY <2>1 DEF Impresion!maxlen
  <2>3. AntesDeLlamar' /\ SalidaFiel'
    BY <2>1, <2>2 DEF IInvSalida, AntesDeLlamar, SalidaFiel, Impresion!SalidaFiel
  <2>4. ASSUME llamada # Impresion!SinLlamada
        PROVE  \E texto \in Seq(Caracteres) : YaEscrito(texto)'
    <3>1. PICK texto \in Seq(Caracteres) : YaEscrito(texto)
      BY <2>4 DEF IInvSalida, Escribiendo
    <3>2. ConTexto(texto)' = ConTexto(texto)
      BY <2>1, <2>2 DEF ConTexto
    <3>3. YaEscrito(texto)'
      BY <2>1, <3>1, <3>2 DEF YaEscrito, AConsola
    <3>. QED
      BY <3>3
  <2>. QED
    BY <2>1, <2>3, <2>4 DEF IInvSalida, Escribiendo
<1>4. [NextConsola]_varsConsola => Impresion!Next \/ UNCHANGED varsImpresion
  BY DEF NextConsola, Arrancar, Imprimir, Atender, varsConsola, varsImpresion
<1>. QED
  BY <1>1, <1>2, <1>3, <1>4, InvarianteImpresion, PTL DEF SpecConsola

\* A call writes its whole text, or what fits of it with its 0, and nothing else,
\* and returns the length of the whole text: for every format and every limit.
THEOREM EscribeTodo == SpecConsola => []SalidaFiel
<1>1. IInvSalida => SalidaFiel
  BY DEF IInvSalida
<1>. QED
  BY <1>1, InvarianteSalida, PTL

\* No call writes past the limit of its buffer, or in a buffer that it has not,
\* and when it returns the text in the buffer has its 0: for every format, every
\* limit and every length of the text.
THEOREM NoEscribeFuera == SpecConsola => []BuferDelimitado
<1>1. IInvImpresion => BuferDelimitado
  BY DEF IInvImpresion
<1>. QED
  BY <1>1, InvarianteImpresion, PTL

\* Every field that printf writes is as wide as asked, or as its contents when
\* they are wider, for every width, precision, set of flags and value, and for
\* every size of the buffer of digits.
THEOREM CamposCompletos == SpecConsola => []CampoCompleto
<1>1. IInvImpresion => CampoCompleto
  <2> SUFFICES ASSUME IInvImpresion, NEW d \in Impresion!PorEscribir,
                      d.conv \in Impresion!Enteras \cup {"c", "s"},
                      d.conv \in Impresion!Enteras =>
                        /\ "#" \notin Impresion!BanderasEntero(d)
                        /\ {"0", "-"} \cap Impresion!BanderasEntero(d) = {"0"} =>
                             Impresion!Ancho(d) <= NTOA
               PROVE  Len(Impresion!Pieza(d)) =
                        Impresion!Max({Impresion!Ancho(d),
                                       Len(Impresion!Pieza(Impresion!SinAncho(d)))})
    BY DEF CampoCompleto, Impresion!CampoCompleto
  <2> DEFINE e == Impresion!SinAncho(d)
             largo == Len(Impresion!Pieza(e))
  <2>1. d \in Elementos
    BY DEF IInvImpresion, TiposImpresion, Impresion!PorEscribir
  <2>2. Impresion!Ancho(d) \in Nat
    BY <2>1, AnchoNatural
  <2>3. Len(Impresion!Pieza(d)) = ElMayor(Impresion!Ancho(d), largo) /\ largo \in Nat
    <3>1. CASE d.conv \in Impresion!Enteras
      <4>1. e.conv = d.conv
        BY <2>1, SinAnchoEs
      <4>2. Impresion!Pieza(d) = Impresion!Entero(d) /\ Impresion!Pieza(e) = Impresion!Entero(e)
        BY <3>1, <4>1 DEF Impresion!Pieza, Impresion!Enteras
      <4>. QED
        BY <2>1, <3>1, <4>2, EnteroEnCampo
    <3>2. CASE d.conv \in {"c", "s"}
      BY <2>1, <3>2, TextoEnCampo
    <3>. QED
      BY <3>1, <3>2
  <2> HIDE DEF largo
  <2>4. Impresion!Max({Impresion!Ancho(d), largo}) = ElMayor(Impresion!Ancho(d), largo)
    BY <2>2, <2>3, MayorMenor
  <2>. QED
    BY <2>3, <2>4 DEF largo
<1>. QED
  BY <1>1, InvarianteImpresion, PTL

\* Every integer that printf writes is read back: its digits are those of the argument,
\* in the base of the directive, the sign is before them and the spaces are outside, for
\* every value, flag, width and precision and every size of the buffer of digits, as long as
\* the buffer has room.
THEOREM NumerosLegibles == SpecConsola => []EnteroLegible
<1>1. IInvImpresion => EnteroLegible
  <2> SUFFICES ASSUME IInvImpresion, NEW d \in Impresion!PorEscribir,
                      d.conv \in Impresion!Enteras, Impresion!HayLugar(d)
               PROVE  \E pieza \in {Impresion!Pieza(d)} :
                        /\ Impresion!Leido(pieza, Impresion!Base(d)) = Impresion!Valor(d)
                        /\ SinHuecos(pieza, Impresion!Valor(d) < 0)
    BY DEF EnteroLegible, Impresion!EnteroLegible, SinHuecos
  <2>1. d \in Elementos
    BY DEF IInvImpresion, TiposImpresion, Impresion!PorEscribir
  <2>. QED
    BY <2>1, EnteroSeLee
<1>. QED
  BY <1>1, InvarianteImpresion, PTL
=============================================================================
