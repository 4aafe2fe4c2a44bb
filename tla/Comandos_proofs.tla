--------------------------- MODULE Comandos_proofs ---------------------------
(***************************************************************************)
(* Proofs about what the shell makes of an order, for every order and every*)
(* choice of names of which none that takes an argument begins another:    *)
(* a command written as its usage says is found with its argument, and a   *)
(* kill ends the process that it names.                                    *)
(***************************************************************************)
EXTENDS Comandos, Shell_proofs, WellFoundedInduction

Cadenas == Seq(Bytes)

-----------------------------------------------------------------------------
(* The least of a set, and the place of a character.                        *)

\* An element that no other is below is the minimum.
LEMMA MinimoEs ==
  ASSUME NEW S \in SUBSET Int, NEW n \in S, \A m \in S : n <= m
  PROVE  Min(S) = n
<1>1. Min(S) \in S /\ \A m \in S : Min(S) <= m
  BY DEF Min
<1>2. Min(S) \in Int /\ n \in Int
  BY <1>1
<1>. QED
  BY <1>1, <1>2

\* A set of naturals that is not empty has its minimum.
LEMMA HayMinimo ==
  ASSUME NEW S \in SUBSET Nat, S # {}
  PROVE  Min(S) \in S /\ \A m \in S : Min(S) <= m
<1> DEFINE Menor == OpToRel(<, Nat)
<1>1. Menor = {p \in Nat \X Nat : p[1] < p[2]}
  BY DEF OpToRel
<1>2. IsWellFoundedOn(Menor, Nat)
  BY NatLessThanWellFounded
<1> HIDE DEF Menor
<1>3. PICK n \in S : \A m \in S : ~(<<m, n>> \in Menor)
  BY <1>2, WFMin
<1>4. \A m \in S : n <= m
  <2> TAKE m \in S
  <2>1. ~(m < n)
    BY <1>1, <1>3
  <2>. QED
    BY <2>1
<1>. QED
  BY <1>4, MinimoEs

\* Lugar finds the first place of the character.
LEMMA LugarEs ==
  ASSUME NEW s \in Cadenas, NEW c, NEW desde \in Nat, NEW n \in desde .. Len(s), s[n] = c,
         \A k \in desde .. (n - 1) : s[k] # c
  PROVE  Lugar(s, c, desde) = n
<1> DEFINE lugares == {k \in desde .. Len(s) : s[k] = c}
<1>1. Len(s) \in Nat
  BY DEF Cadenas
<1>2. lugares \in SUBSET Int /\ n \in lugares /\ \A m \in lugares : n <= m
  BY <1>1
<1> HIDE DEF lugares
<1>3. Min(lugares) = n
  BY <1>2, MinimoEs
<1>. QED
  BY <1>2, <1>3 DEF Lugar, lugares

\* Or it is one past the last.
LEMMA LugarCabe ==
  ASSUME NEW s \in Cadenas, NEW c, NEW desde \in Nat
  PROVE  Lugar(s, c, desde) = Len(s) + 1 \/ Lugar(s, c, desde) \in desde .. Len(s)
<1> DEFINE lugares == {k \in desde .. Len(s) : s[k] = c}
<1>1. Len(s) \in Nat
  BY DEF Cadenas
<1>2. lugares \in SUBSET Nat /\ lugares \subseteq desde .. Len(s)
  BY <1>1
<1> HIDE DEF lugares
<1>3. CASE lugares = {}
  BY <1>3 DEF Lugar, lugares
<1>4. CASE lugares # {}
  <2>1. Min(lugares) \in lugares
    BY <1>2, <1>4, HayMinimo
  <2>2. Lugar(s, c, desde) = Min(lugares)
    BY <1>4 DEF Lugar, lugares
  <2>. QED
    BY <1>2, <2>1, <2>2
<1>. QED
  BY <1>3, <1>4

-----------------------------------------------------------------------------
(* The names.                                                               *)

\* A name is a string of bytes.
LEMMA NombreEsCadena ==
  ASSUME NEW c \in Exactos \cup ConCorchete
  PROVE  Nombre[c] \in Cadenas
<1>1. Nombre[c] \in Seq(1 .. 255)
  BY NombresDados, NombresSinCorchete
<1>2. /\ Len(Nombre[c]) \in Nat /\ DOMAIN Nombre[c] = 1 .. Len(Nombre[c])
      /\ Nombre[c] \in [1 .. Len(Nombre[c]) -> 1 .. 255]
  BY <1>1, LenProperties
<1>3. Nombre[c] \in [1 .. Len(Nombre[c]) -> Bytes]
  BY <1>2 DEF Bytes
<1>. QED
  BY <1>2, <1>3 DEF Cadenas

\* A prefix agrees place by place.
LEMMA PrefijoEs ==
  ASSUME NEW s \in Cadenas, NEW t \in Cadenas
  PROVE  IsPrefix(s, t) <=> Len(s) <= Len(t) /\ \A k \in 1 .. Len(s) : s[k] = t[k]
<1>1. Len(s) \in Nat /\ Len(t) \in Nat
  BY DEF Cadenas
<1>2. SubSeq(s, 1, Len(s)) = s
  BY SubSeqFull DEF Cadenas
<1>3. ASSUME Len(s) <= Len(t)
      PROVE  SubSeq(t, 1, Len(s)) = s <=> \A k \in 1 .. Len(s) : s[k] = t[k]
  <2> DEFINE u == SubSeq(t, 1, Len(s))
  <2>1. \A k \in 1 .. Len(s) : t[k] \in Bytes
    BY <1>1, <1>3, ElementOfSeq DEF Cadenas
  <2>2. u \in Seq(Bytes) /\ Len(u) = Len(s) /\ \A k \in 1 .. Len(s) : u[k] = t[k]
    <3>1. u \in Seq(Bytes) /\ Len(u) = IF 1 <= Len(s) THEN Len(s) - 1 + 1 ELSE 0
      BY <1>1, <2>1, SubSeqProperties
    <3>2. \A k \in 1 .. (Len(s) - 1 + 1) : u[k] = t[1 + k - 1]
      BY <1>1, <2>1, SubSeqProperties
    <3> HIDE DEF u
    <3>. QED
      BY <1>1, <3>1, <3>2
  <2> HIDE DEF u
  <2>3. (\A k \in 1 .. Len(s) : s[k] = t[k]) => u = s
    BY <2>2, SeqEqual DEF Cadenas
  <2>4. u = s => \A k \in 1 .. Len(s) : s[k] = t[k]
    BY <2>2
  <2>. QED
    BY <2>3, <2>4 DEF u
<1>. QED
  BY <1>2, <1>3 DEF IsPrefix

\* Of two prefixes of an order one begins the other.
LEMMA PrefijosComparables ==
  ASSUME NEW s \in Cadenas, NEW t \in Cadenas, NEW texto \in Cadenas,
         IsPrefix(s, texto), IsPrefix(t, texto)
  PROVE  IsPrefix(s, t) \/ IsPrefix(t, s)
<1>1. Len(s) \in Nat /\ Len(t) \in Nat
  BY DEF Cadenas
<1>2. /\ \A k \in 1 .. Len(s) : s[k] = texto[k]
      /\ \A k \in 1 .. Len(t) : t[k] = texto[k]
  BY PrefijoEs
<1>3. CASE Len(s) <= Len(t)
  <2>1. \A k \in 1 .. Len(s) : s[k] = t[k]
    BY <1>1, <1>2, <1>3
  <2>. QED
    BY <1>3, <2>1, PrefijoEs
<1>4. CASE Len(t) <= Len(s)
  <2>1. \A k \in 1 .. Len(t) : t[k] = s[k]
    BY <1>1, <1>2, <1>4
  <2>. QED
    BY <1>4, <2>1, PrefijoEs
<1>. QED
  BY <1>1, <1>3, <1>4

\* So no order is of two commands.
LEMMA UnSoloComando ==
  ASSUME NEW texto \in Cadenas,
         NEW a \in Exactos \cup ConCorchete, NEW b \in Exactos \cup ConCorchete,
         Acepta(a, texto), Acepta(b, texto)
  PROVE  a = b
<1> SUFFICES ASSUME a # b PROVE FALSE
  OBVIOUS
<1>1. Nombre[a] \in Cadenas /\ Nombre[b] \in Cadenas
  BY NombreEsCadena
<1>2. ASSUME NEW c \in {a, b}, c \in ConCorchete PROVE IsPrefix(Nombre[c], texto)
  BY <1>2 DEF Acepta, comparar_subcadenas
<1>3. ASSUME NEW c \in {a, b}, c \notin ConCorchete PROVE Nombre[c] = texto
  BY <1>3 DEF Acepta, comparar_cadenas
<1>4. ASSUME NEW c \in {a, b}, NEW d \in {a, b}, c # d, c \in ConCorchete
      PROVE  ~IsPrefix(Nombre[c], Nombre[d])
  BY <1>4, NombresDados, NombresDistintos
<1>5. CASE a \in ConCorchete /\ b \in ConCorchete
  BY <1>1, <1>2, <1>4, <1>5, PrefijosComparables
<1>6. CASE a \in ConCorchete /\ b \notin ConCorchete
  BY <1>2, <1>3, <1>4, <1>6
<1>7. CASE a \notin ConCorchete /\ b \in ConCorchete
  BY <1>2, <1>3, <1>4, <1>7
<1>8. CASE a \notin ConCorchete /\ b \notin ConCorchete
  <2>1. Nombre[a] # Nombre[b]
    BY <1>8, NombresDados, NombresDistintos
  <2>. QED
    BY <1>3, <1>8, <2>1
<1>. QED
  BY <1>5, <1>6, <1>7, <1>8

\* The chain of tests, with a command in one place each.
LEMMA CadenaDeTodos ==
  /\ DOMAIN Cadena = 1 .. 9
  /\ \A k \in 1 .. 9 : Cadena[k] \in Exactos \cup ConCorchete
  /\ \A k, m \in 1 .. 9 : Cadena[k] = Cadena[m] => k = m
  /\ \A c \in Exactos \cup ConCorchete : \E k \in 1 .. 9 : Cadena[k] = c
BY DEF Cadena, Exactos, ConCorchete

\* The search finds the command that accepts the order.
LEMMA EncuentraElSuyo ==
  ASSUME NEW texto \in Cadenas, NEW c \in Exactos \cup ConCorchete, Acepta(c, texto)
  PROVE  LET aceptan == {k \in DOMAIN Cadena : Acepta(Cadena[k], texto)}
         IN  aceptan # {} /\ Cadena[Min(aceptan)] = c
<1> DEFINE aceptan == {k \in DOMAIN Cadena : Acepta(Cadena[k], texto)}
<1>1. PICK k \in 1 .. 9 : Cadena[k] = c
  BY CadenaDeTodos
<1>2. \A m \in aceptan : Cadena[m] = c
  BY CadenaDeTodos, UnSoloComando
<1>3. k \in aceptan /\ aceptan \subseteq 1 .. 9
  BY <1>1, CadenaDeTodos
<1>4. aceptan \in SUBSET Nat /\ aceptan # {}
  BY <1>3
<1> HIDE DEF aceptan
<1>5. Min(aceptan) \in aceptan
  BY <1>4, HayMinimo
<1>. QED
  BY <1>2, <1>4, <1>5 DEF aceptan

-----------------------------------------------------------------------------
(* separar_cadena.                                                          *)

\* The characters of a command written as its usage says.
LEMMA EscritaPorLugares ==
  ASSUME NEW s \in Cadenas, NEW t \in Cadenas
  PROVE  LET e == s \o <<Abre>> \o t \o <<Cierra>>
         IN  /\ e \in Cadenas /\ Len(e) = Len(s) + Len(t) + 2
             /\ \A k \in 1 .. Len(s) : e[k] = s[k]
             /\ e[Len(s) + 1] = Abre
             /\ \A k \in 1 .. Len(t) : e[Len(s) + 1 + k] = t[k]
             /\ e[Len(s) + Len(t) + 2] = Cierra
<1> DEFINE n == Len(s)
           l == Len(t)
           a == <<Abre>>
           z == <<Cierra>>
           sa == s \o a
           sat == sa \o t
           e == sat \o z
<1>1. /\ a \in Seq(Bytes) /\ Len(a) = 1 /\ a[1] = Abre
      /\ z \in Seq(Bytes) /\ Len(z) = 1 /\ z[1] = Cierra
      /\ s \in Seq(Bytes) /\ t \in Seq(Bytes) /\ n \in Nat /\ l \in Nat
  BY DEF Bytes, Abre, Cierra, Cadenas
<1> SUFFICES /\ e \in Cadenas /\ Len(e) = n + l + 2
             /\ \A k \in 1 .. n : e[k] = s[k]
             /\ e[n + 1] = Abre
             /\ \A k \in 1 .. l : e[n + 1 + k] = t[k]
             /\ e[n + l + 2] = Cierra
  OBVIOUS
<1> HIDE DEF a, z
<1>3. /\ sa \in Seq(Bytes) /\ Len(sa) = Len(s) + Len(a)
      /\ \A k \in 1 .. Len(s) + Len(a) : sa[k] = IF k <= Len(s) THEN s[k] ELSE a[k - Len(s)]
  BY <1>1, ConcatProperties
<1> HIDE DEF sa
<1>4. /\ sat \in Seq(Bytes) /\ Len(sat) = Len(sa) + Len(t)
      /\ \A k \in 1 .. Len(sa) + Len(t) : sat[k] = IF k <= Len(sa) THEN sa[k] ELSE t[k - Len(sa)]
  <2>1. sa \in Seq(Bytes) /\ t \in Seq(Bytes)
    BY <1>1, <1>3
  <2>. QED
    BY <2>1, ConcatProperties
<1> HIDE DEF sat
<1>5. /\ e \in Seq(Bytes) /\ Len(e) = Len(sat) + Len(z)
      /\ \A k \in 1 .. Len(sat) + Len(z) : e[k] = IF k <= Len(sat) THEN sat[k] ELSE z[k - Len(sat)]
  <2>1. sat \in Seq(Bytes) /\ z \in Seq(Bytes)
    BY <1>1, <1>4
  <2>. QED
    BY <2>1, ConcatProperties
<1> HIDE DEF e
<1>6. Len(sa) = n + 1 /\ Len(sat) = n + 1 + l /\ Len(e) = n + 1 + l + 1
  BY <1>1, <1>3, <1>4, <1>5
<1>7. \A k \in 1 .. n : e[k] = s[k]
  BY <1>1, <1>3, <1>4, <1>5, <1>6
<1>8. e[n + 1] = Abre
  <2>1. sa[n + 1] = a[n + 1 - n]
    BY <1>1, <1>3
  <2>2. n + 1 \in 1 .. (n + 1 + l) /\ n + 1 \in 1 .. (n + 1 + l + 1) /\ n + 1 <= n + 1 + l
    BY <1>1
  <2>3. sat[n + 1] = sa[n + 1]
    BY <1>4, <1>6, <2>2
  <2>4. e[n + 1] = sat[n + 1]
    BY <1>1, <1>5, <1>6, <2>2
  <2>5. n + 1 - n = 1
    BY <1>1
  <2>. QED
    BY <1>1, <2>1, <2>3, <2>4, <2>5
<1>9. ASSUME NEW k \in 1 .. l PROVE e[n + 1 + k] = t[k]
  <2>1. /\ n + 1 + k \in 1 .. (n + 1 + l) /\ ~(n + 1 + k <= n + 1)
        /\ n + 1 + k - (n + 1) = k
    BY <1>1
  <2>2. sat[n + 1 + k] = t[n + 1 + k - (n + 1)]
    BY <1>4, <1>6, <2>1
  <2>3. e[n + 1 + k] = sat[n + 1 + k]
    BY <1>1, <1>5, <1>6, <2>1
  <2>. QED
    BY <2>1, <2>2, <2>3
<1>10. e[n + l + 2] = Cierra
  <2>1. /\ n + l + 2 \in 1 .. (n + 1 + l + 1) /\ ~(n + l + 2 <= n + 1 + l)
        /\ n + l + 2 - (n + 1 + l) = 1
    BY <1>1
  <2>2. e[n + l + 2] = z[n + l + 2 - (n + 1 + l)]
    BY <1>1, <1>5, <1>6, <2>1
  <2>. QED
    BY <1>1, <2>1, <2>2
<1>11. e \in Cadenas /\ Len(e) = n + l + 2
  BY <1>1, <1>5, <1>6 DEF Cadenas
<1>. QED
  BY <1>7, <1>8, <1>9, <1>10, <1>11

\* Written as the usage says, the second part is the argument.
LEMMA ParteEsArgumento ==
  ASSUME NEW texto \in Cadenas, NEW c \in ConCorchete, NEW argumento \in Cadenas,
         Cierra \notin ToSet(argumento), IsPrefix(Escrita(c, argumento), texto)
  PROVE  /\ IsPrefix(Nombre[c], texto)
         /\ separar_cadena(texto).parte2 = argumento
<1> DEFINE nombre == Nombre[c]
           n == Len(nombre)
           l == Len(argumento)
           e == Escrita(c, argumento)
<1>1. nombre \in Cadenas /\ n \in Nat /\ l \in Nat /\ Len(texto) \in Nat
  BY NombreEsCadena DEF Cadenas
<1>2. \A k \in 1 .. n : nombre[k] # Abre
  <2>1. 91 \notin ToSet(nombre)
    BY NombresDados, NombresSinCorchete
  <2>2. DOMAIN nombre = 1 .. n
    BY <1>1 DEF Cadenas
  <2>. QED
    BY <2>1, <2>2 DEF ToSet, Abre
<1>3. \A k \in 1 .. l : argumento[k] # Cierra
  BY DEF ToSet, Cadenas
<1>4. /\ e \in Cadenas /\ Len(e) = n + l + 2
      /\ \A k \in 1 .. n : e[k] = nombre[k]
      /\ e[n + 1] = Abre
      /\ \A k \in 1 .. l : e[n + 1 + k] = argumento[k]
      /\ e[n + l + 2] = Cierra
  <2>1. e = nombre \o <<Abre>> \o argumento \o <<Cierra>>
    BY DEF Escrita
  <2> HIDE DEF e, nombre
  <2>. QED
    BY <1>1, <2>1, EscritaPorLugares
<1>5. n + l + 2 <= Len(texto) /\ \A k \in 1 .. (n + l + 2) : texto[k] = e[k]
  BY <1>4, PrefijoEs
<1> HIDE DEF e, n, l, nombre
<1>6. IsPrefix(nombre, texto)
  <2>1. n <= Len(texto) /\ \A k \in 1 .. n : nombre[k] = texto[k]
    BY <1>1, <1>4, <1>5
  <2>. QED
    BY <1>1, <2>1, PrefijoEs DEF n
<1>7. Lugar(texto, Abre, 1) = n + 1
  <2> DEFINE p == n + 1
  <2>1. p \in 1 .. Len(texto) /\ texto[p] = Abre /\ 1 \in Nat
    BY <1>1, <1>4, <1>5
  <2>2. \A k \in 1 .. (p - 1) : texto[k] # Abre
    BY <1>1, <1>2, <1>4, <1>5
  <2> HIDE DEF p
  <2>3. Lugar(texto, Abre, 1) = p
    BY <2>1, <2>2, LugarEs
  <2>. QED
    BY <2>3 DEF p
<1>8. Lugar(texto, Cierra, n + 2) = n + l + 2
  <2> DEFINE p == n + l + 2
             desde == n + 2
  <2>1. p \in desde .. Len(texto) /\ texto[p] = Cierra /\ desde \in Nat
    BY <1>1, <1>4, <1>5
  <2>2. ASSUME NEW k \in desde .. (p - 1) PROVE texto[k] # Cierra
    <3>1. k - (n + 1) \in 1 .. l /\ k = n + 1 + (k - (n + 1)) /\ k \in 1 .. (n + l + 2)
      BY <1>1
    <3>2. texto[k] = argumento[k - (n + 1)]
      BY <1>4, <1>5, <3>1
    <3>. QED
      BY <1>3, <3>1, <3>2
  <2> HIDE DEF p, desde
  <2>3. Lugar(texto, Cierra, desde) = p
    BY <2>1, <2>2, LugarEs
  <2>. QED
    BY <2>3 DEF p, desde
<1>9. Min({n + l + 2, Len(texto) + 1}) = n + l + 2
  <2>1. {n + l + 2, Len(texto) + 1} \in SUBSET Int
    BY <1>1
  <2>2. \A m \in {n + l + 2, Len(texto) + 1} : n + l + 2 <= m
    BY <1>1, <1>5
  <2>. QED
    BY <2>1, <2>2, MinimoEs
<1>10. separar_cadena(texto).parte2 = SubSeq(texto, n + 2, n + l + 1)
  <2> DEFINE abre == Lugar(texto, Abre, 1)
             cierra == Min({Lugar(texto, Cierra, abre + 1), Len(texto) + 1})
  <2>1. separar_cadena(texto).parte2 = SubSeq(texto, abre + 1, cierra - 1)
    BY DEF separar_cadena
  <2>2. abre + 1 = n + 2
    BY <1>1, <1>7
  <2>3. Lugar(texto, Cierra, abre + 1) = n + l + 2
    BY <1>8, <2>2
  <2>4. cierra = n + l + 2
    BY <1>9, <2>3
  <2> HIDE DEF abre, cierra
  <2>5. cierra - 1 = n + l + 1
    BY <1>1, <2>4
  <2>. QED
    BY <2>1, <2>2, <2>5
<1>11. SubSeq(texto, n + 2, n + l + 1) = argumento
  <2> DEFINE p == n + 2
             q == n + l + 1
             parte == SubSeq(texto, p, q)
  <2>1. /\ \A k \in p .. q : texto[k] \in Bytes
        /\ p \in Int /\ q \in Int
    BY <1>1, <1>5, ElementOfSeq DEF Cadenas
  <2>2. q - p + 1 = l /\ (p <= q <=> l # 0)
    BY <1>1
  <2> HIDE DEF p, q
  <2>3. /\ parte \in Seq(Bytes)
        /\ Len(parte) = IF p <= q THEN q - p + 1 ELSE 0
        /\ \A k \in 1 .. q - p + 1 : parte[k] = texto[p + k - 1]
    BY <2>1, SubSeqProperties
  <2> HIDE DEF parte
  <2>4. Len(parte) = l
    BY <1>1, <2>2, <2>3
  <2>5. ASSUME NEW k \in 1 .. l PROVE parte[k] = argumento[k]
    <3>1. k \in 1 .. q - p + 1 /\ p + k - 1 = n + 1 + k /\ n + 1 + k \in 1 .. (n + l + 2)
      BY <1>1, <2>2 DEF p
    <3>. QED
      BY <1>4, <1>5, <2>3, <3>1
  <2>6. parte = argumento
    BY <2>3, <2>4, <2>5, SeqEqual DEF Cadenas, l
  <2>. QED
    BY <2>6 DEF parte, p, q
<1>. QED
  BY <1>6, <1>10, <1>11 DEF nombre

-----------------------------------------------------------------------------
(* The order that Enter runs.                                               *)

\* It is a string of bytes.
OrdenBien == orden = <<>> \/ \E texto \in Cadenas : orden = <<texto>>

\* What the line holds up to its first 0 is a string of bytes.
LEMMA TextoEsCadena ==
  ASSUME IInv
  PROVE  Texto(cadena) \in Cadenas
<1>1. Cero(cadena) \in Posiciones /\ cadena \in Buffers
  BY LineaYRestos DEF Situacion
<1>2. Cero(cadena) \in Nat /\ Cero(cadena) < MAX_CADENA
  BY <1>1, BufferConSitio DEF Posiciones
<1>3. Tramo(cadena, 0, Cero(cadena)) \in Seq(Bytes)
  BY <1>1, <1>2, TramoInicial
<1>. QED
  BY <1>3 DEF Texto, Cadenas

\* So is the order that Enter runs, at every moment.
THEOREM OrdenDeBytes == Spec => []OrdenBien
<1>1. Init => OrdenBien
  BY DEF Init, OrdenBien
<1>2. IInv /\ OrdenBien /\ [Next]_vars => OrdenBien'
  <2> SUFFICES ASSUME IInv, OrdenBien, [Next]_vars PROVE OrdenBien'
    OBVIOUS
  <2>1. CASE UNCHANGED vars
    BY <2>1 DEF OrdenBien, vars
  <2>2. CASE Next
    <3>1. PasoDeLinea
      BY <2>2, PasoEsDeLinea DEF IInv
    <3>2. CASE NuevaLinea
      BY <3>2, TextoEsCadena DEF NuevaLinea, OrdenBien
    <3>3. CASE orden' = <<>>
      BY <3>3 DEF OrdenBien
    <3>. QED
      BY <3>1, <3>2, <3>3 DEF PasoDeLinea, Retroceso, Insertar, Ignorar
  <2>. QED
    BY <2>1, <2>2
<1>. QED
  BY <1>1, <1>2, InvarianteInductivo, PTL DEF Spec

\* A command written as its usage says, whatever follows the bracket, is found
\* with the argument written, and each other name is its own command, whatever
\* the names and the order.
THEOREM ReconoceLaOrden == Spec => []OrdenReconocida
<1>1. ASSUME NEW texto \in Cadenas, NEW c \in {"crearProceso1", "crearProceso2"},
             NEW j \in 0 .. Len(texto), NEW argumento,
             argumento = SubSeq(texto, Len(Nombre[c]) + 2, j),
             Cierra \notin ToSet(argumento), IsPrefix(Escrita(c, argumento), texto)
      PROVE  comandoBuscar(texto) = <<c, argumento>>
  <2>1. c \in ConCorchete /\ c \notin Exactos
    BY DEF ConCorchete, Exactos
  <2>2. argumento \in Cadenas
    <3>1. Len(texto) \in Nat /\ Len(Nombre[c]) \in Nat
      BY <2>1, NombreEsCadena DEF Cadenas
    <3>2. \A k \in (Len(Nombre[c]) + 2) .. j : texto[k] \in Bytes
      BY <3>1, ElementOfSeq DEF Cadenas
    <3>. QED
      BY <1>1, <3>1, <3>2, SubSeqProperties DEF Cadenas
  <2>3. IsPrefix(Nombre[c], texto) /\ separar_cadena(texto).parte2 = argumento
    BY <1>1, <2>1, <2>2, ParteEsArgumento
  <2>4. Acepta(c, texto)
    BY <2>1, <2>3 DEF Acepta, comparar_subcadenas
  <2>. QED
    BY <2>1, <2>3, <2>4, EncuentraElSuyo DEF comandoBuscar
<1>2. ASSUME NEW texto \in Cadenas, NEW c \in Exactos, texto = Nombre[c]
      PROVE  comandoBuscar(texto) = <<c>>
  <2>1. c \notin ConCorchete /\ c # "kill" /\ c \notin {"crearProceso1", "crearProceso2"}
    BY DEF ConCorchete, Exactos
  <2>2. Acepta(c, texto)
    BY <1>2, <2>1 DEF Acepta, comparar_cadenas
  <2>. QED
    BY <2>1, <2>2, EncuentraElSuyo DEF comandoBuscar
<1>3. OrdenBien => OrdenReconocida
  <2>1. ASSUME orden = <<>> PROVE OrdenReconocida
    BY <2>1 DEF OrdenReconocida
  <2>2. ASSUME NEW texto \in Cadenas, orden = <<texto>> PROVE OrdenReconocida
    <3>1. ASSUME NEW k \in DOMAIN orden PROVE orden[k] = texto
      BY <2>2, <3>1
    <3>2. ASSUME NEW k \in DOMAIN orden, NEW c \in {"crearProceso1", "crearProceso2"},
                 NEW j \in 0 .. Len(orden[k])
          PROVE  LET argumento == SubSeq(orden[k], Len(Nombre[c]) + 2, j)
                 IN  Cierra \notin ToSet(argumento) /\ IsPrefix(Escrita(c, argumento), orden[k])
                       => comandoBuscar(orden[k]) = <<c, argumento>>
      <4>1. orden[k] = texto /\ j \in 0 .. Len(texto)
        BY <3>1, <3>2
      <4>. QED
        BY <1>1, <3>2, <4>1
    <3>3. ASSUME NEW k \in DOMAIN orden, NEW c \in Exactos, orden[k] = Nombre[c]
          PROVE  comandoBuscar(orden[k]) = <<c>>
      BY <1>2, <3>1, <3>3
    <3>. QED
      BY <3>2, <3>3 DEF OrdenReconocida
  <2>. QED
    BY <2>1, <2>2 DEF OrdenBien
<1>. QED
  BY <1>3, OrdenDeBytes, PTL

-----------------------------------------------------------------------------
(* convertir_a_entero.  What a recursive function gives is found by          *)
(* induction over a set of naturals.                                        *)

\* A set with 0 and the successor of each of its naturals has them all.
LEMMA Induccion ==
  ASSUME NEW T, 0 \in T, \A n \in Nat : n \in T => n + 1 \in T
  PROVE  \A n \in Nat : n \in T
<1> DEFINE faltan == Nat \ T
<1> SUFFICES ASSUME faltan # {} PROVE FALSE
  OBVIOUS
<1>1. faltan \in SUBSET Nat
  OBVIOUS
<1>2. PICK n \in faltan : \A m \in faltan : n <= m
  <2> HIDE DEF faltan
  <2>. QED
    BY <1>1, HayMinimo
<1>3. n \in Nat /\ n # 0
  BY <1>2
<1>4. n - 1 \in Nat /\ n - 1 + 1 = n /\ ~(n <= n - 1)
  BY <1>3
<1>5. n - 1 \in T
  BY <1>2, <1>4
<1>6. n \in T
  BY <1>4, <1>5
<1>. QED
  BY <1>2, <1>6

\* A function of first value a and with each value given by G from the one before.
Recurre(X, a, n, G) ==
  \E f \in [0 .. n -> X] : f[0] = a /\ \A k \in 1 .. n : f[k] = G[<<f[k - 1], k>>]

\* There is one.
LEMMA Recursion ==
  ASSUME NEW X, NEW a \in X, NEW n \in Nat, NEW G \in [X \X (1 .. n) -> X]
  PROVE  Recurre(X, a, n, G)
<1> DEFINE Hasta(m) == {f \in [0 .. m -> X] :
                          f[0] = a /\ \A k \in 1 .. m : f[k] = G[<<f[k - 1], k>>]}
           T == {m \in Nat : m <= n => Hasta(m) # {}}
<1>1. 0 \in T
  <2>1. [k \in 0 .. 0 |-> a] \in Hasta(0)
    OBVIOUS
  <2> HIDE DEF Hasta
  <2>. QED
    BY <2>1
<1>2. ASSUME NEW m \in Nat, m \in T PROVE m + 1 \in T
  <2>1. ASSUME m + 1 <= n, NEW f \in Hasta(m) PROVE Hasta(m + 1) # {}
    <3> DEFINE g == [k \in 0 .. (m + 1) |-> IF k = 0 THEN a ELSE G[<<f[k - 1], k>>]]
    <3>1. /\ f \in [0 .. m -> X] /\ f[0] = a
          /\ \A k \in 1 .. m : f[k] = G[<<f[k - 1], k>>]
      OBVIOUS
    <3> HIDE DEF Hasta
    <3>2. ASSUME NEW k \in 0 .. m PROVE g[k] = f[k] /\ f[k] \in X
      <4>1. k \in 0 .. (m + 1) /\ (k # 0 => k \in 1 .. m)
        OBVIOUS
      <4>. QED
        BY <3>1, <4>1
    <3>3. ASSUME NEW k \in 1 .. (m + 1) PROVE g[k] = G[<<g[k - 1], k>>] /\ g[k] \in X
      <4>1. k - 1 \in 0 .. m /\ k \in 1 .. n /\ k # 0 /\ k \in 0 .. (m + 1)
        BY <2>1
      <4>2. g[k] = G[<<f[k - 1], k>>]
        BY <4>1
      <4>3. g[k - 1] = f[k - 1] /\ <<f[k - 1], k>> \in X \X (1 .. n)
        BY <3>2, <4>1
      <4>. QED
        BY <4>2, <4>3
    <3>4. g[0] = a
      <4>1. 0 \in 0 .. (m + 1)
        OBVIOUS
      <4>. QED
        BY <4>1
    <3>5. g \in [0 .. (m + 1) -> X]
      <4>1. \A k \in 0 .. (m + 1) : k = 0 \/ k \in 1 .. (m + 1)
        OBVIOUS
      <4>2. \A k \in 0 .. (m + 1) : g[k] \in X
        BY <3>3, <3>4, <4>1
      <4>. QED
        BY <4>2
    <3> HIDE DEF g
    <3>6. g \in Hasta(m + 1)
      BY <3>3, <3>4, <3>5 DEF Hasta
    <3>. QED
      BY <3>6
  <2> HIDE DEF Hasta
  <2>2. m + 1 <= n => m <= n
    OBVIOUS
  <2>. QED
    BY <1>2, <2>1, <2>2
<1>3. n \in T
  <2> HIDE DEF T
  <2>. QED
    BY <1>1, <1>2, Induccion
<1>4. Hasta(n) # {}
  <2> HIDE DEF Hasta
  <2>. QED
    BY <1>3
<1>. QED
  BY <1>4 DEF Recurre

\* The number read, digit by digit.
LEMMA NumeroPorCifras ==
  ASSUME NEW s \in Cadenas
  PROVE  \E f : /\ Numero(s) = f[Len(s)] /\ f[0] = 0
                /\ \A k \in 1 .. Len(s) : /\ f[k] = (f[k - 1] * 10 + (s[k] - 48)) % Modulo32
                                          /\ f[k - 1] \in Int
<1> DEFINE n == Len(s)
           G == [p \in Int \X (1 .. n) |-> (p[1] * 10 + (s[p[2]] - 48)) % Modulo32]
           P(g) == g = [k \in 0 .. n |->
                         IF k = 0 THEN 0 ELSE (g[k - 1] * 10 + (s[k] - 48)) % Modulo32]
           numero == CHOOSE g : P(g)
<1>1. n \in Nat /\ \A k \in 1 .. n : s[k] \in Int
  <2>1. n \in Nat /\ \A k \in 1 .. n : s[k] \in Bytes
    BY ElementOfSeq DEF Cadenas
  <2>2. Bytes \subseteq Int
    BY DEF Bytes
  <2>. QED
    BY <2>1, <2>2
<1>2. G \in [Int \X (1 .. n) -> Int]
  <2>1. \A p \in Int \X (1 .. n) : p[1] * 10 + (s[p[2]] - 48) \in Int
    BY <1>1
  <2>2. \A x \in Int : x % Modulo32 \in Int
    BY ParteConSitio
  <2>. QED
    BY <2>1, <2>2
<1>3. PICK f \in [0 .. n -> Int] : f[0] = 0 /\ \A k \in 1 .. n : f[k] = G[<<f[k - 1], k>>]
  <2> DEFINE Z == Int
  <2>1. 0 \in Z /\ n \in Nat /\ G \in [Z \X (1 .. n) -> Z]
    BY <1>1, <1>2
  <2> HIDE DEF Z, G, n
  <2>2. Recurre(Z, 0, n, G)
    BY <2>1, Recursion
  <2>. QED
    BY <2>2 DEF Recurre, Z
<1>4. \A k \in 1 .. n : f[k] = (f[k - 1] * 10 + (s[k] - 48)) % Modulo32
  <2> TAKE k \in 1 .. n
  <2>1. f[k - 1] \in Int
    BY <1>1, <1>3
  <2>2. G[<<f[k - 1], k>>] = (f[k - 1] * 10 + (s[k] - 48)) % Modulo32
    BY <2>1
  <2>. QED
    BY <1>3, <2>2
<1>5. P(f)
  <2>1. \A k \in 0 .. n : k # 0 => k \in 1 .. n
    BY <1>1
  <2>2. \A k \in 0 .. n :
          f[k] = IF k = 0 THEN 0 ELSE (f[k - 1] * 10 + (s[k] - 48)) % Modulo32
    BY <1>3, <1>4, <2>1
  <2>. QED
    BY <1>3, <2>2
<1>6. Numero(s) = numero[n]
  BY DEF Numero
<1>7. P(numero)
  <2> HIDE DEF P
  <2>. QED
    BY <1>5
<1> HIDE DEF numero, G
<1>8. numero[0] = 0 /\ \A k \in 1 .. n :
                         numero[k] = (numero[k - 1] * 10 + (s[k] - 48)) % Modulo32
  <2>1. \A k \in 1 .. n : k # 0 /\ k \in 0 .. n
    OBVIOUS
  <2>2. 0 \in 0 .. n
    BY <1>1
  <2> HIDE DEF n
  <2>. QED
    BY <1>7, <2>1, <2>2
<1>9. \A k \in 0 .. n : numero[k] \in Int
  <2> DEFINE T == {k \in Nat : k <= n => numero[k] \in Int}
  <2>1. 0 \in T
    BY <1>8
  <2>2. ASSUME NEW k \in Nat, k \in T PROVE k + 1 \in T
    <3>1. ASSUME k + 1 <= n PROVE numero[k + 1] \in Int
      <4>1. k + 1 \in 1 .. n /\ k + 1 - 1 = k /\ k <= n
        BY <1>1, <3>1
      <4>2. numero[k] * 10 + (s[k + 1] - 48) \in Int
        BY <1>1, <2>2, <4>1
      <4>3. numero[k + 1] = (numero[k] * 10 + (s[k + 1] - 48)) % Modulo32
        BY <1>8, <4>1
      <4>. QED
        BY <4>2, <4>3, ParteConSitio
    <3>. QED
      BY <3>1
  <2> HIDE DEF T
  <2>3. \A k \in Nat : k \in T
    BY <2>1, <2>2, Induccion
  <2>. QED
    BY <1>1, <2>3 DEF T
<1>10. \A k \in 1 .. n : k - 1 \in 0 .. n
  BY <1>1
<1>. QED
  BY <1>6, <1>8, <1>9, <1>10
\* So is the value of the digits.
LEMMA ValorPorCifras ==
  ASSUME NEW s \in Cadenas
  PROVE  \E f : /\ Valor(s) = f[Len(s)] /\ f[0] = 0
                /\ \A k \in 1 .. Len(s) : /\ f[k] = 10 * f[k - 1] + (s[k] - 48)
                                          /\ f[k - 1] \in Int
<1> DEFINE n == Len(s)
           G == [p \in Int \X (1 .. n) |-> 10 * p[1] + (s[p[2]] - 48)]
           P(g) == g = [k \in 0 .. n |->
                         IF k = 0 THEN 0 ELSE 10 * g[k - 1] + (s[k] - 48)]
           valor == CHOOSE g : P(g)
<1>1. n \in Nat /\ \A k \in 1 .. n : s[k] \in Int
  <2>1. n \in Nat /\ \A k \in 1 .. n : s[k] \in Bytes
    BY ElementOfSeq DEF Cadenas
  <2>2. Bytes \subseteq Int
    BY DEF Bytes
  <2>. QED
    BY <2>1, <2>2
<1>2. G \in [Int \X (1 .. n) -> Int]
  <2>1. \A p \in Int \X (1 .. n) : 10 * p[1] + (s[p[2]] - 48) \in Int
    BY <1>1
  <2>. QED
    BY <2>1
<1>3. PICK f \in [0 .. n -> Int] : f[0] = 0 /\ \A k \in 1 .. n : f[k] = G[<<f[k - 1], k>>]
  <2> DEFINE Z == Int
  <2>1. 0 \in Z /\ n \in Nat /\ G \in [Z \X (1 .. n) -> Z]
    BY <1>1, <1>2
  <2> HIDE DEF Z, G, n
  <2>2. Recurre(Z, 0, n, G)
    BY <2>1, Recursion
  <2>. QED
    BY <2>2 DEF Recurre, Z
<1>4. \A k \in 1 .. n : f[k] = 10 * f[k - 1] + (s[k] - 48)
  <2> TAKE k \in 1 .. n
  <2>1. f[k - 1] \in Int
    BY <1>1, <1>3
  <2>2. G[<<f[k - 1], k>>] = 10 * f[k - 1] + (s[k] - 48)
    BY <2>1
  <2>. QED
    BY <1>3, <2>2
<1>5. P(f)
  <2>1. \A k \in 0 .. n : k # 0 => k \in 1 .. n
    BY <1>1
  <2>2. \A k \in 0 .. n :
          f[k] = IF k = 0 THEN 0 ELSE 10 * f[k - 1] + (s[k] - 48)
    BY <1>3, <1>4, <2>1
  <2>. QED
    BY <1>3, <2>2
<1>6. Valor(s) = valor[n]
  BY DEF Valor
<1>7. P(valor)
  <2> HIDE DEF P
  <2>. QED
    BY <1>5
<1> HIDE DEF valor, G
<1>8. valor[0] = 0 /\ \A k \in 1 .. n :
                         valor[k] = 10 * valor[k - 1] + (s[k] - 48)
  <2>1. \A k \in 1 .. n : k # 0 /\ k \in 0 .. n
    OBVIOUS
  <2>2. 0 \in 0 .. n
    BY <1>1
  <2> HIDE DEF n
  <2>. QED
    BY <1>7, <2>1, <2>2
<1>9. \A k \in 0 .. n : valor[k] \in Int
  <2> DEFINE T == {k \in Nat : k <= n => valor[k] \in Int}
  <2>1. 0 \in T
    BY <1>8
  <2>2. ASSUME NEW k \in Nat, k \in T PROVE k + 1 \in T
    <3>1. ASSUME k + 1 <= n PROVE valor[k + 1] \in Int
      <4>1. k + 1 \in 1 .. n /\ k + 1 - 1 = k /\ k <= n
        BY <1>1, <3>1
      <4>2. valor[k + 1] = 10 * valor[k] + (s[k + 1] - 48)
        BY <1>8, <4>1
      <4>. QED
        BY <1>1, <2>2, <4>1, <4>2
    <3>. QED
      BY <3>1
  <2> HIDE DEF T
  <2>3. \A k \in Nat : k \in T
    BY <2>1, <2>2, Induccion
  <2>. QED
    BY <1>1, <2>3 DEF T
<1>10. \A k \in 1 .. n : k - 1 \in 0 .. n
  BY <1>1
<1>. QED
  BY <1>6, <1>8, <1>9, <1>10
\* A remainder is the only one.
LEMMA RestoUnico ==
  ASSUME NEW m \in Nat \ {0}, NEW q1 \in Int, NEW r1 \in 0 .. (m - 1),
         NEW q2 \in Int, NEW r2 \in 0 .. (m - 1), m * q1 + r1 = m * q2 + r2
  PROVE  r1 = r2
<1>1. CASE q1 > q2
  <2>1. m * (q1 - q2) >= m
    BY <1>1
  <2>2. m * (q1 - q2) = m * q1 - m * q2
    OBVIOUS
  <2>. QED
    BY <2>1, <2>2
<1>2. CASE q1 < q2
  <2>1. m * (q2 - q1) >= m
    BY <1>2
  <2>2. m * (q2 - q1) = m * q2 - m * q1
    OBVIOUS
  <2>. QED
    BY <2>1, <2>2
<1>3. CASE q1 = q2
  BY <1>3
<1>. QED
  BY <1>1, <1>2, <1>3

\* An integer is its quotient times the divisor and its remainder.
LEMMA RestoEs ==
  ASSUME NEW m \in Nat \ {0}, NEW x \in Int
  PROVE  \E q \in Int : x = m * q + (x % m) /\ x % m \in 0 .. (m - 1)
<1>1. x \div m \in Int
  OBVIOUS
<1>2. x = m * (x \div m) + (x % m)
  OBVIOUS
<1>3. x % m \in 0 .. (m - 1)
  OBVIOUS
<1>. QED
  BY <1>1, <1>2, <1>3

\* To take the remainder at each digit or at the end is the same.
LEMMA ModuloPasa ==
  ASSUME NEW m \in Nat \ {0}, NEW x \in Int, NEW d \in Int
  PROVE  ((x % m) * 10 + d) % m = (10 * x + d) % m
<1> DEFINE r == x % m
           y == r * 10 + d
           z == 10 * x + d
<1>1. PICK q \in Int : x = m * q + r /\ r \in 0 .. (m - 1)
  BY RestoEs
<1>2. y \in Int /\ z \in Int
  BY <1>1
<1>3. z = m * (10 * q) + y
  BY <1>1
<1> HIDE DEF r, y, z
<1>4. PICK a \in Int : y = m * a + (y % m) /\ y % m \in 0 .. (m - 1)
  BY <1>2, RestoEs
<1>5. PICK b \in Int : z = m * b + (z % m) /\ z % m \in 0 .. (m - 1)
  BY <1>2, RestoEs
<1>6. m * (10 * q + a) + (y % m) = m * b + (z % m)
  <2>1. m * (10 * q + a) = m * (10 * q) + m * a
    OBVIOUS
  <2>. QED
    BY <1>2, <1>3, <1>4, <1>5, <2>1
<1>7. y % m = z % m
  <2>1. 10 * q + a \in Int
    OBVIOUS
  <2>. QED
    BY <1>4, <1>5, <1>6, <2>1, RestoUnico
<1>. QED
  BY <1>7 DEF r, y, z

\* So the number read is the value of the digits in 32 bits.
LEMMA NumeroEsValor ==
  ASSUME NEW s \in Cadenas
  PROVE  Numero(s) = Valor(s) % Modulo32
<1> DEFINE n == Len(s)
<1>1. PICK f : /\ Numero(s) = f[n] /\ f[0] = 0
               /\ \A k \in 1 .. n : /\ f[k] = (f[k - 1] * 10 + (s[k] - 48)) % Modulo32
                                    /\ f[k - 1] \in Int
  BY NumeroPorCifras
<1>2. PICK g : /\ Valor(s) = g[n] /\ g[0] = 0
               /\ \A k \in 1 .. n : /\ g[k] = 10 * g[k - 1] + (s[k] - 48)
                                    /\ g[k - 1] \in Int
  BY ValorPorCifras
<1>3. n \in Nat /\ \A k \in 1 .. n : s[k] \in Int
  <2>1. n \in Nat /\ \A k \in 1 .. n : s[k] \in Bytes
    BY ElementOfSeq DEF Cadenas
  <2>2. Bytes \subseteq Int
    BY DEF Bytes
  <2>. QED
    BY <2>1, <2>2
<1> HIDE DEF n
<1> DEFINE T == {k \in Nat : k <= n => f[k] = g[k] % Modulo32}
<1>4. 0 \in T
  <2>1. 0 % Modulo32 = 0
    BY ParteConSitio
  <2>. QED
    BY <1>1, <1>2, <2>1
<1>5. ASSUME NEW k \in Nat, k \in T PROVE k + 1 \in T
  <2>1. ASSUME k + 1 <= n PROVE f[k + 1] = g[k + 1] % Modulo32
    <3>1. k + 1 \in 1 .. n /\ k + 1 - 1 = k /\ k <= n
      BY <1>3, <2>1
    <3>2. f[k + 1] = (f[k] * 10 + (s[k + 1] - 48)) % Modulo32
      BY <1>1, <3>1
    <3>3. g[k + 1] = 10 * g[k] + (s[k + 1] - 48) /\ g[k] \in Int /\ s[k + 1] \in Int
      BY <1>2, <1>3, <3>1
    <3>4. f[k] = g[k] % Modulo32
      BY <1>5, <3>1
    <3> DEFINE d == s[k + 1] - 48
               x == g[k]
    <3>5. d \in Int /\ x \in Int
      BY <3>3
    <3> HIDE DEF d, x
    <3>6. ((x % Modulo32) * 10 + d) % Modulo32 = (10 * x + d) % Modulo32
      BY <3>5, ParteConSitio, ModuloPasa
    <3>. QED
      BY <3>2, <3>3, <3>4, <3>6 DEF d, x
  <2>. QED
    BY <2>1
<1>6. n \in T
  <2> HIDE DEF T
  <2>. QED
    BY <1>3, <1>4, <1>5, Induccion
<1>. QED
  BY <1>1, <1>2, <1>3, <1>6

\* The second part is a string of bytes, with its minus and without.
LEMMA ParteEsCadena ==
  ASSUME NEW texto \in Cadenas
  PROVE  /\ separar_cadena(texto).parte2 \in Cadenas
         /\ separar_cadena(texto).parte2 # <<>> => Tail(separar_cadena(texto).parte2) \in Cadenas
<1> DEFINE largo == Len(texto)
           abre == Lugar(texto, Abre, 1)
           lugar == Lugar(texto, Cierra, abre + 1)
           cierra == Min({lugar, largo + 1})
           parte2 == SubSeq(texto, abre + 1, cierra - 1)
<1>1. largo \in Nat
  BY DEF Cadenas
<1>2. abre \in 1 .. (largo + 1)
  BY <1>1, LugarCabe
<1>3. lugar \in 1 .. (largo + 1)
  <2>1. lugar = largo + 1 \/ lugar \in (abre + 1) .. largo
    BY <1>2, LugarCabe
  <2>. QED
    BY <1>1, <1>2, <2>1
<1>4. cierra \in 1 .. (largo + 1)
  <2>1. {lugar, largo + 1} \in SUBSET Nat /\ {lugar, largo + 1} # {}
    BY <1>1, <1>3
  <2>2. cierra \in {lugar, largo + 1}
    <3> HIDE DEF lugar, largo
    <3>. QED
      BY <2>1, HayMinimo
  <2>. QED
    BY <1>1, <1>3, <2>2
<1>5. separar_cadena(texto).parte2 = parte2
  BY DEF separar_cadena
<1>6. /\ abre + 1 \in Int /\ cierra - 1 \in Int
      /\ \A k \in (abre + 1) .. (cierra - 1) : texto[k] \in Bytes
  <2>1. \A k \in 1 .. largo : texto[k] \in Bytes
    BY ElementOfSeq DEF Cadenas
  <2> HIDE DEF abre, cierra
  <2>. QED
    BY <1>1, <1>2, <1>4, <2>1
<1>7. parte2 \in Seq(Bytes)
  <2> HIDE DEF abre, cierra
  <2>. QED
    BY <1>6, SubSeqProperties
<1> HIDE DEF parte2
<1>8. parte2 # <<>> => Tail(parte2) \in Seq(Bytes)
  BY <1>7, HeadTailProperties
<1>. QED
  BY <1>5, <1>7, <1>8 DEF Cadenas

\* kill ends only the process whose number is written, in 32 bits, and never the
\* kernel's, and written as its usage says it does end it, whatever the order and
\* however many digits it has.
THEOREM MataAQuienSeEscribe == Spec => []MataAlEscrito
<1>1. ASSUME NEW texto \in Cadenas, comandoBuscar(texto)[1] = "kill"
      PROVE  LET argumento == separar_cadena(texto).parte2
                 pid == convertir_a_entero(argumento)
             IN  comandoBuscar(texto)[2] = pid /\ pid # 0
  <2> DEFINE aceptan == {k \in DOMAIN Cadena : Acepta(Cadena[k], texto)}
             comando == Cadena[Min(aceptan)]
             pid == convertir_a_entero(separar_cadena(texto).parte2)
  <2>1. CASE aceptan = {}
    <3>1. comandoBuscar(texto) = <<"?">>
      BY <2>1 DEF comandoBuscar
    <3>. QED
      BY <1>1, <3>1
  <2>2. CASE aceptan # {}
    <3>1. PICK k \in aceptan : TRUE
      BY <2>2
    <3>2. /\ Cadena[k] \in Exactos \cup ConCorchete /\ Acepta(Cadena[k], texto)
      BY <3>1, CadenaDeTodos
    <3>3. comando \in Exactos \cup ConCorchete
      BY <3>2, EncuentraElSuyo
    <3> HIDE DEF aceptan
    <3>4. CASE comando \in Exactos
      <4>1. comandoBuscar(texto) = <<comando>>
        BY <2>2, <3>4 DEF comandoBuscar, aceptan, Exactos
      <4>. QED
        BY <1>1, <3>4, <4>1 DEF Exactos
    <3>5. CASE comando \in {"crearProceso1", "crearProceso2"}
      <4>1. comandoBuscar(texto) = <<comando, separar_cadena(texto).parte2>>
        BY <2>2, <3>5 DEF comandoBuscar, aceptan, Exactos
      <4>. QED
        BY <1>1, <3>5, <4>1
    <3>6. CASE comando = "kill"
      <4>1. comandoBuscar(texto) = IF pid = 0 THEN <<"restringido">> ELSE <<comando, pid>>
        BY <2>2, <3>6 DEF comandoBuscar, aceptan, Exactos
      <4> HIDE DEF pid, comando
      <4>2. pid # 0
        BY <1>1, <4>1
      <4>. QED
        BY <4>1, <4>2 DEF pid
    <3>. QED
      BY <3>3, <3>4, <3>5, <3>6 DEF ConCorchete
  <2>. QED
    BY <2>1, <2>2
<1>2. ASSUME NEW argumento \in Cadenas, argumento # <<>> => Tail(argumento) \in Cadenas,
             convertir_a_entero(argumento) # 0
      PROVE  LET cifras == IF argumento # <<>> /\ argumento[1] = Menos THEN Tail(argumento)
                           ELSE argumento
             IN  /\ ToSet(cifras) \subseteq Cifras
                 /\ convertir_a_entero(argumento) = Valor(cifras) % Modulo32
  <2> DEFINE cifras == IF argumento # <<>> /\ argumento[1] = Menos THEN Tail(argumento)
                       ELSE argumento
  <2>1. cifras \in Cadenas
    BY <1>2
  <2>2. convertir_a_entero(argumento) =
          IF \E k \in DOMAIN cifras : cifras[k] \notin Cifras THEN 0 ELSE Numero(cifras)
    BY DEF convertir_a_entero
  <2> HIDE DEF cifras
  <2>3. \A k \in DOMAIN cifras : cifras[k] \in Cifras
    BY <1>2, <2>2
  <2>4. ToSet(cifras) \subseteq Cifras
    BY <2>3 DEF ToSet
  <2>5. convertir_a_entero(argumento) = Valor(cifras) % Modulo32
    BY <2>1, <2>2, <2>3, NumeroEsValor
  <2>. QED
    BY <2>4, <2>5 DEF cifras
<1>3. ASSUME OrdenBien, NEW k \in DOMAIN orden
      PROVE  LET r == comandoBuscar(orden[k])
                 argumento == separar_cadena(orden[k]).parte2
                 cifras == IF argumento # <<>> /\ argumento[1] = Menos THEN Tail(argumento)
                           ELSE argumento
             IN  r[1] = "kill" =>
                   /\ ToSet(cifras) \subseteq Cifras
                   /\ r[2] = Valor(cifras) % Modulo32 /\ r[2] # 0
  <2>1. orden[k] \in Cadenas
    BY <1>3 DEF OrdenBien
  <2> DEFINE texto == orden[k]
             argumento == separar_cadena(texto).parte2
  <2>2. argumento \in Cadenas /\ (argumento # <<>> => Tail(argumento) \in Cadenas)
    BY <2>1, ParteEsCadena
  <2>3. comandoBuscar(texto)[1] = "kill"
          => comandoBuscar(texto)[2] = convertir_a_entero(argumento)
             /\ convertir_a_entero(argumento) # 0
    BY <1>1, <2>1
  <2> HIDE DEF argumento
  <2>4. convertir_a_entero(argumento) # 0
          => LET cifras == IF argumento # <<>> /\ argumento[1] = Menos THEN Tail(argumento)
                           ELSE argumento
             IN  /\ ToSet(cifras) \subseteq Cifras
                 /\ convertir_a_entero(argumento) = Valor(cifras) % Modulo32
    BY <1>2, <2>2
  <2>. QED
    BY <2>3, <2>4 DEF argumento
<1>4. ASSUME NEW texto \in Cadenas, NEW j \in 0 .. Len(texto), NEW cifras,
             cifras = SubSeq(texto, Len(Nombre["kill"]) + 2, j),
             ToSet(cifras) \subseteq Cifras, IsPrefix(Escrita("kill", cifras), texto),
             Valor(cifras) % Modulo32 # 0
      PROVE  comandoBuscar(texto) = <<"kill", Valor(cifras) % Modulo32>>
  <2>1. "kill" \in ConCorchete /\ "kill" \notin Exactos
    BY DEF ConCorchete, Exactos
  <2>2. cifras \in Cadenas
    <3>1. Len(texto) \in Nat /\ Len(Nombre["kill"]) \in Nat
      BY <2>1, NombreEsCadena DEF Cadenas
    <3>2. \A k \in (Len(Nombre["kill"]) + 2) .. j : texto[k] \in Bytes
      BY <3>1, ElementOfSeq DEF Cadenas
    <3>. QED
      BY <1>4, <3>1, <3>2, SubSeqProperties DEF Cadenas
  <2>3. Cierra \notin ToSet(cifras)
    BY <1>4 DEF Cierra, Cifras
  <2>4. IsPrefix(Nombre["kill"], texto) /\ separar_cadena(texto).parte2 = cifras
    BY <1>4, <2>1, <2>2, <2>3, ParteEsArgumento
  <2>5. Acepta("kill", texto)
    BY <2>1, <2>4 DEF Acepta, comparar_subcadenas
  <2>6. \A k \in DOMAIN cifras : cifras[k] \in Cifras
    BY <1>4 DEF ToSet
  <2>7. ~(cifras # <<>> /\ cifras[1] = Menos)
    <3>1. cifras # <<>> => 1 \in DOMAIN cifras
      BY <2>2 DEF Cadenas
    <3>. QED
      BY <2>6, <3>1 DEF Menos, Cifras
  <2>8. convertir_a_entero(cifras) = Valor(cifras) % Modulo32
    <3>1. convertir_a_entero(cifras) = Numero(cifras)
      BY <2>6, <2>7 DEF convertir_a_entero
    <3>. QED
      BY <2>2, <3>1, NumeroEsValor
  <2>. QED
    BY <1>4, <2>1, <2>4, <2>5, <2>8, EncuentraElSuyo DEF comandoBuscar
<1>5. ASSUME OrdenBien, NEW k \in DOMAIN orden, NEW j \in 0 .. Len(orden[k])
      PROVE  LET cifras == SubSeq(orden[k], Len(Nombre["kill"]) + 2, j)
             IN  ToSet(cifras) \subseteq Cifras /\ IsPrefix(Escrita("kill", cifras), orden[k])
                   => LET pid == Valor(cifras) % Modulo32
                      IN  pid # 0 => comandoBuscar(orden[k]) = <<"kill", pid>>
  <2>1. orden[k] \in Cadenas
    BY <1>5 DEF OrdenBien
  <2>. QED
    BY <1>4, <1>5, <2>1
<1>6. OrdenBien => MataAlEscrito
  BY <1>3, <1>5 DEF MataAlEscrito
<1>. QED
  BY <1>6, OrdenDeBytes, PTL
=============================================================================
