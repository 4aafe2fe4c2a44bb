--------------------------- MODULE Memoria_proofs ---------------------------
(***************************************************************************)
(* Proofs about the page table and the holders of its pages, for every     *)
(* size of the region, of an entry and of a page.                          *)
(*                                                                         *)
(* What protects a page is that it is blocked in the table, and what       *)
(* protects that entry is that it lies in a reserved page.  The zone is    *)
(* where both hold: a page of the zone has its entry in a reserved page,   *)
(* and the pages given to clients, which lie past the reserved ones, hold  *)
(* entries past the zone only.                                             *)
(***************************************************************************)
EXTENDS Memoria, FiniteSetTheorems, TLAPS

PaginasDeZona == PaginasReservadas .. (Zona - 1)

\* In the zone: who holds a page holds it alone and past the table; no page
\* lost by a kill is held; the clients to come hold nothing.
EnZona ==
  /\ SinDobleEntrega
  /\ BloqueadasSonDeAlguien
  /\ \A c \in ConPagina : tiene[c] \in PaginasDeZona /\ c < siguiente
  /\ perdidas \subseteq PaginasDeZona
  /\ \A c \in ConPagina : tiene[c] \notin perdidas

IInv == TipoOK /\ (enZona => EnZona)

-----------------------------------------------------------------------------
(* Sizes.                                                                   *)

\* A quotient times its divisor does not exceed the dividend.
LEMMA Cociente ==
  ASSUME NEW a \in Nat, NEW b \in Nat \ {0}
  PROVE  a \div b \in Nat /\ (a \div b) * b <= a
OBVIOUS

\* The quotient is the largest number that does so.
LEMMA CocienteMayor ==
  ASSUME NEW a \in Nat, NEW b \in Nat \ {0}, NEW q \in Nat, q * b <= a
  PROVE  q <= a \div b
OBVIOUS

\* Products in another order.
LEMMA Asociativa ==
  ASSUME NEW a \in Nat, NEW b \in Nat, NEW c \in Nat
  PROVE  a * (b * c) = (a * c) * b
OBVIOUS

\* A product grows with its factor.
LEMMA Monotono ==
  ASSUME NEW a \in Nat, NEW b \in Nat, NEW c \in Nat, a <= b
  PROVE  a * c <= b * c
OBVIOUS

\* The zone holds pages of the region whose entries iniciar_paginas clears.
LEMMA ZonaLimpia ==
  /\ PaginasReservadas \in Nat /\ Zona \in Nat /\ EntradasLimpias \in Nat
  /\ PaginasReservadas <= Zona
  /\ Zona <= EntradasLimpias /\ EntradasLimpias <= total_paginas
<1> DEFINE R == PaginasReservadas
           B == BytesPorEntrada
           E == EntradasPorPagina
<1>1. total_paginas \in Nat /\ B \in Nat \ {0} /\ E \in Nat \ {0} /\ B * E \in Nat \ {0}
  BY TotalPositivo, TamanosPositivos
<1>2. R \in Nat /\ R * (B * E) <= total_paginas
  BY <1>1, Cociente DEF PaginasReservadas, BytesPorPagina
<1>3. R * E \in Nat /\ (R * E) * B <= total_paginas
  <2> HIDE DEF R, B, E
  <2>1. R * (B * E) = (R * E) * B
    BY <1>1, <1>2, Asociativa
  <2>. QED
    BY <1>1, <1>2, <2>1
<1>4. R * E <= EntradasLimpias
  BY <1>1, <1>3, CocienteMayor DEF EntradasLimpias
<1>5. EntradasLimpias \in Nat /\ EntradasLimpias * B <= total_paginas
  BY <1>1, Cociente DEF EntradasLimpias
<1>6. EntradasLimpias <= EntradasLimpias * B /\ R <= R * E
  <2> HIDE DEF R, B, E
  <2>1. 1 * EntradasLimpias <= B * EntradasLimpias
    BY <1>1, <1>5, Monotono
  <2>2. 1 * R <= E * R
    BY <1>1, <1>2, Monotono
  <2>. QED
    BY <1>1, <1>2, <1>5, <2>1, <2>2
<1>. QED
  BY <1>1, <1>2, <1>3, <1>4, <1>5, <1>6 DEF Zona

\* A page past the reserved ones holds no entry of the zone.
LEMMA EscribirFueraDeZona ==
  ASSUME NEW p \in PaginasDeZona, NEW i \in EntradasEn(p)
  PROVE  i >= Zona
<1>1. p \in Nat /\ PaginasReservadas <= p
  BY ZonaLimpia DEF PaginasDeZona
<1>2. PaginasReservadas * EntradasPorPagina <= p * EntradasPorPagina
  BY <1>1, ZonaLimpia, TamanosPositivos, Monotono
<1>3. i \in Indices /\ p * EntradasPorPagina <= i
  BY DEF EntradasEn
<1>. QED
  BY <1>1, <1>2, <1>3, ZonaLimpia, TamanosPositivos, TotalPositivo DEF Zona, Indices

\* What a grant writes is an entry of the table.
LEMMA ConcedidaEsInfo == ASSUME NEW pid \in Nat PROVE Concedida(pid) \in Info
BY DEF Concedida, Info

\* The pid a client asks under is a number.
LEMMA PidEsNatural == ASSUME NEW c \in Clientes PROVE PidDe(c) \in Nat
BY CotasNaturales DEF Clientes, Primero, PidDe

-----------------------------------------------------------------------------
\* The initial states satisfy the inductive invariant.
LEMMA InicioInvariante == Init => IInv
<1> SUFFICES ASSUME Init PROVE IInv
  OBVIOUS
<1>1. ConPagina = {} /\ perdidas = {} /\ panico = FALSE /\ enZona = TRUE
  BY DEF Init, ConPagina, iniciar_paginas
<1>2. PICK resto \in [Indices -> Basura] :
        region_memoria = [i \in Indices |->
          LET e == IF i < EntradasLimpias THEN Limpia ELSE resto[i]
          IN  IF i < PaginasReservadas THEN [e EXCEPT !.estado = 1] ELSE e]
  BY DEF Init, iniciar_paginas
<1>3. \A i \in Indices :
        /\ region_memoria[i] \in Info
        /\ i < PaginasReservadas => region_memoria[i] = Concedida(0)
        /\ i >= PaginasReservadas /\ i < Zona => region_memoria[i].estado = 0
  <2> SUFFICES ASSUME NEW i \in Indices
               PROVE  /\ region_memoria[i] \in Info
                      /\ i < PaginasReservadas => region_memoria[i] = Concedida(0)
                      /\ i >= PaginasReservadas /\ i < Zona => region_memoria[i].estado = 0
    OBVIOUS
  <2>1. resto[i] \in Info /\ Limpia \in Info
    BY BasuraEsInfo DEF Limpia, Info
  <2>2. i \in Nat
    BY DEF Indices
  <2>3. CASE i < EntradasLimpias
    BY <1>2, <2>1, <2>2, <2>3, ZonaLimpia DEF Limpia, Concedida, Info
  <2>4. CASE ~(i < EntradasLimpias)
    <3>1. ~(i < PaginasReservadas) /\ ~(i < Zona)
      BY <2>2, <2>4, ZonaLimpia
    <3>. QED
      BY <1>2, <2>1, <2>4, <3>1
  <2>. QED
    BY <2>3, <2>4
<1>4. TipoOK
  <2>1. region_memoria \in [Indices -> Info]
    BY <1>2, <1>3
  <2>2. ultimo_pagina \in Indices
    BY ZonaLimpia, TotalPositivo DEF Init, iniciar_paginas, Indices
  <2>3. tiene \in [Clientes -> Indices \cup {Nada}] /\ siguiente \in Primero .. (MaxPid + 1)
    BY CotasNaturales DEF Init, Primero
  <2>. QED
    BY <1>1, <2>1, <2>2, <2>3 DEF TipoOK
<1>5. BloqueadasSonDeAlguien
  BY <1>1, <1>3, ZonaLimpia, TotalPositivo DEF BloqueadasSonDeAlguien, Indices
<1>6. SinDobleEntrega
  BY <1>1 DEF SinDobleEntrega, UnaPaginaUnCliente
<1>. QED
  BY <1>1, <1>4, <1>5, <1>6 DEF IInv, EnZona

-----------------------------------------------------------------------------
(* Requests.                                                                *)

\* The page a request takes was not blocked, and is now, in the caller's name.
LEMMA PedirInvariante == ASSUME IInv, Pedir PROVE IInv'
<1> DEFINE yo == siguiente
           pid == PidDe(siguiente)
<1>1. /\ ~panico /\ yo \in Clientes /\ siguiente' = siguiente + 1
      /\ tiene' = IF panico' THEN tiene ELSE [tiene EXCEPT ![yo] = ultimo_pagina']
      /\ enZona' = (enZona /\ (panico' \/ ultimo_pagina' < Zona))
      /\ perdidas' = perdidas
  BY DEF Pedir
<1>2. pid \in Nat /\ siguiente \in Int /\ siguiente' \in Primero .. (MaxPid + 1)
  BY <1>1, PidEsNatural, CotasNaturales DEF Clientes, Primero
<1>3. CASE NoHayMemoria
  <2>1. panico' = TRUE /\ ultimo_pagina' = ultimo_pagina - 1 /\ ultimo_pagina # 0
        /\ region_memoria' = region_memoria
    BY <1>3 DEF NoHayMemoria
  <2>2. ultimo_pagina' \in Indices
    BY <2>1, TotalPositivo DEF IInv, TipoOK, Indices
  <2>3. TipoOK'
    BY <1>1, <1>2, <2>1, <2>2 DEF IInv, TipoOK
  <2>4. ASSUME enZona' PROVE EnZona'
    <3>1. EnZona /\ enZona /\ tiene' = tiene /\ ConPagina' = ConPagina
      BY <1>1, <2>1, <2>4 DEF IInv, ConPagina
    <3>2. \A c \in ConPagina : c < siguiente'
      BY <1>1, <1>2, <3>1, CotasNaturales DEF EnZona, ConPagina, Clientes, Primero
    <3>. QED
      BY <1>1, <2>1, <3>1, <3>2 DEF EnZona, SinDobleEntrega, UnaPaginaUnCliente,
         BloqueadasSonDeAlguien
  <2>. QED
    BY <2>3, <2>4 DEF IInv
<1>4. CASE \E p \in Siguientes : Conceder(p, pid)
  <2>1. PICK p \in Siguientes : Conceder(p, pid)
    BY <1>4
  <2>2. /\ p \in Indices /\ region_memoria[p].estado = 0
        /\ region_memoria' = [region_memoria EXCEPT ![p] = Concedida(pid)]
        /\ ultimo_pagina' = p /\ panico' = FALSE
        /\ tiene' = [tiene EXCEPT ![yo] = p]
    BY <1>1, <2>1 DEF Siguientes, Disponibles, Conceder, IInv, TipoOK
  <2>3. TipoOK'
    BY <1>1, <1>2, <2>2, ConcedidaEsInfo DEF IInv, TipoOK
  <2>4. ASSUME enZona' PROVE EnZona'
    <3>1. enZona /\ EnZona /\ p < Zona
      BY <1>1, <2>2, <2>4 DEF IInv
    <3>2. p \in PaginasDeZona
      <4>1. ~(p < PaginasReservadas)
        BY <2>2, <3>1, ZonaLimpia DEF EnZona, BloqueadasSonDeAlguien, Indices, Concedida
      <4>. QED
        BY <2>2, <3>1, <4>1, ZonaLimpia DEF PaginasDeZona, Indices
    <3>3. p \notin perdidas /\ \A c \in ConPagina : tiene[c] # p
      BY <2>2, <3>1, <3>2 DEF EnZona, BloqueadasSonDeAlguien, PaginasDeZona
    <3>4. yo \notin ConPagina /\ ConPagina' = ConPagina \cup {yo}
      <4>1. yo \notin ConPagina
        BY <1>2, <3>1 DEF EnZona
      <4>2. p # Nada
        BY <2>2 DEF Indices, Nada
      <4>. QED
        BY <1>1, <2>2, <4>1, <4>2 DEF ConPagina, IInv, TipoOK
    <3>5. /\ tiene'[yo] = p
          /\ \A c \in ConPagina : tiene'[c] = tiene[c]
      BY <1>1, <2>2, <3>4 DEF IInv, TipoOK
    <3>6. /\ region_memoria'[p] = Concedida(pid)
          /\ \A i \in Indices \ {p} : region_memoria'[i] = region_memoria[i]
      BY <2>2 DEF IInv, TipoOK
    <3>7. UnaPaginaUnCliente'
      BY <3>1, <3>3, <3>4, <3>5 DEF EnZona, SinDobleEntrega, UnaPaginaUnCliente
    <3>8. ASSUME NEW c \in ConPagina'
          PROVE  /\ region_memoria'[tiene'[c]] = Concedida(PidDe(c))
                 /\ tiene'[c] \in PaginasDeZona /\ c < siguiente' /\ tiene'[c] \notin perdidas'
      <4>1. CASE c = yo
        BY <1>1, <1>2, <3>2, <3>3, <3>5, <3>6, <4>1
      <4>2. CASE c # yo
        <5>1. c \in ConPagina /\ tiene'[c] = tiene[c] /\ tiene[c] # p
          BY <3>3, <3>4, <3>5, <3>8, <4>2
        <5>2. tiene[c] \in Indices /\ c \in Int
          BY <5>1, CotasNaturales DEF ConPagina, IInv, TipoOK, Clientes, Primero
        <5>. QED
          BY <1>1, <1>2, <3>1, <3>6, <5>1, <5>2 DEF EnZona, SinDobleEntrega
      <4>. QED
        BY <4>1, <4>2
    <3>9. BloqueadasSonDeAlguien'
      <4>1. {i \in PaginasDeZona : region_memoria'[i].estado = 1}
              = {tiene'[c] : c \in ConPagina'} \cup perdidas'
        <5>1. {i \in PaginasDeZona : region_memoria[i].estado = 1}
                = {tiene[c] : c \in ConPagina} \cup perdidas
          BY <3>1 DEF EnZona, BloqueadasSonDeAlguien, PaginasDeZona
        <5>2. {i \in PaginasDeZona : region_memoria'[i].estado = 1}
                = {i \in PaginasDeZona : region_memoria[i].estado = 1} \cup {p}
          <6>1. PaginasDeZona \subseteq Indices
            BY ZonaLimpia, TotalPositivo DEF PaginasDeZona, Indices
          <6>2. region_memoria'[p].estado = 1
            BY <3>6 DEF Concedida
          <6>. QED
            BY <3>2, <3>6, <6>1, <6>2
        <5>3. {tiene'[c] : c \in ConPagina'} = {tiene[c] : c \in ConPagina} \cup {p}
          BY <3>4, <3>5
        <5>. QED
          BY <1>1, <5>1, <5>2, <5>3
      <4>2. \A i \in 0 .. (PaginasReservadas - 1) : region_memoria'[i] = Concedida(0)
        BY <2>4, <1>1, <3>1, <3>2, <3>6, ZonaLimpia, TotalPositivo
           DEF EnZona, BloqueadasSonDeAlguien, PaginasDeZona, Indices
      <4>. QED
        BY <4>1, <4>2 DEF BloqueadasSonDeAlguien, PaginasDeZona
    <3>10. perdidas' \subseteq PaginasDeZona
      BY <1>1, <3>1 DEF EnZona
    <3>. QED
      BY <3>7, <3>8, <3>9, <3>10 DEF EnZona, SinDobleEntrega
  <2>. QED
    BY <2>3, <2>4 DEF IInv
<1>. QED
  BY <1>3, <1>4 DEF Pedir, solicitar_pagina

-----------------------------------------------------------------------------
(* The holders.                                                             *)

\* A client writes past the zone.
LEMMA EscribirInvariante == ASSUME IInv, Escribir PROVE IInv'
<1>1. PICK c \in ConPagina : \E resto \in [EntradasEn(tiene[c]) -> Basura] :
        region_memoria' = [i \in Indices |->
          IF i \in EntradasEn(tiene[c]) THEN resto[i] ELSE region_memoria[i]]
  BY DEF Escribir
<1>2. UNCHANGED <<ultimo_pagina, panico, siguiente, tiene, perdidas, enZona>>
  BY DEF Escribir
<1>3. TipoOK'
  BY <1>1, <1>2, BasuraEsInfo DEF IInv, TipoOK
<1>4. ASSUME enZona PROVE \A i \in Indices : i < Zona => region_memoria'[i] = region_memoria[i]
  <2>1. tiene[c] \in PaginasDeZona
    BY <1>4 DEF IInv, EnZona
  <2>2. \A i \in EntradasEn(tiene[c]) : i >= Zona
    BY <2>1, EscribirFueraDeZona
  <2>. QED
    BY <1>1, <2>2, ZonaLimpia DEF Indices
<1>5. ASSUME enZona PROVE EnZona'
  <2>1. ConPagina' = ConPagina /\ EnZona
    BY <1>2, <1>5 DEF ConPagina, IInv
  <2>2. PaginasDeZona \subseteq {i \in Indices : i < Zona}
    BY ZonaLimpia, TotalPositivo DEF PaginasDeZona, Indices
  <2>3. SinDobleEntrega'
    BY <1>2, <1>4, <1>5, <2>1, <2>2 DEF EnZona, SinDobleEntrega, UnaPaginaUnCliente
  <2>4. BloqueadasSonDeAlguien'
    <3>1. \A i \in PaginasDeZona : region_memoria'[i] = region_memoria[i]
      BY <1>4, <1>5, <2>2
    <3>2. \A i \in 0 .. (PaginasReservadas - 1) : region_memoria'[i] = region_memoria[i]
      BY <1>4, <1>5, ZonaLimpia, TotalPositivo DEF Indices
    <3>. QED
      BY <1>2, <1>5, <2>1, <3>1, <3>2 DEF EnZona, BloqueadasSonDeAlguien, PaginasDeZona
  <2>. QED
    BY <1>2, <2>1, <2>3, <2>4 DEF EnZona
<1>. QED
  BY <1>2, <1>3, <1>5 DEF IInv

\* The page a process gives back is its own, so it is freed.
LEMMA TerminarInvariante == ASSUME IInv, Terminar PROVE IInv'
<1>1. PICK c \in ConPagina :
        c > 0 /\ liberar_pagina(tiene[c], c) /\ tiene' = [tiene EXCEPT ![c] = Nada]
  BY DEF Terminar
<1> DEFINE p == tiene[c]
<1>2. UNCHANGED <<ultimo_pagina, panico, siguiente, perdidas, enZona>>
  BY <1>1 DEF Terminar, liberar_pagina
<1>3. p \in Indices /\ c \in Clientes /\ c \in Nat
  BY <1>1, CotasNaturales DEF ConPagina, IInv, TipoOK, Clientes, Primero
<1>4. region_memoria' \in [Indices -> Info]
  BY <1>1, <1>3 DEF liberar_pagina, IInv, TipoOK, Info
<1>5. TipoOK'
  BY <1>1, <1>2, <1>3, <1>4 DEF IInv, TipoOK
<1>6. ConPagina' = ConPagina \ {c} /\ \A d \in ConPagina \ {c} : tiene'[d] = tiene[d]
  BY <1>1, <1>3 DEF ConPagina, IInv, TipoOK
<1>7. ASSUME enZona PROVE EnZona'
  <2>1. EnZona /\ region_memoria[p] = Concedida(c)
    BY <1>1, <1>7 DEF IInv, EnZona, SinDobleEntrega, PidDe
  <2>2. region_memoria' = [region_memoria EXCEPT ![p].estado = 0]
    BY <1>1, <2>1 DEF liberar_pagina, Concedida
  <2>3. /\ region_memoria'[p].estado = 0
        /\ \A i \in Indices \ {p} : region_memoria'[i] = region_memoria[i]
    BY <1>3, <2>2 DEF IInv, TipoOK, Info
  <2>4. p \in PaginasDeZona /\ p \notin perdidas
    BY <1>1, <2>1 DEF EnZona
  <2>5. \A d \in ConPagina \ {c} : tiene[d] # p /\ tiene[d] \in Indices
    BY <1>1, <1>7, <2>1 DEF EnZona, SinDobleEntrega, UnaPaginaUnCliente, ConPagina, IInv, TipoOK
  <2>6. SinDobleEntrega'
    BY <1>6, <1>7, <2>1, <2>3, <2>5 DEF EnZona, SinDobleEntrega, UnaPaginaUnCliente
  <2>7. BloqueadasSonDeAlguien'
    <3>1. {i \in PaginasDeZona : region_memoria[i].estado = 1}
            = {tiene[d] : d \in ConPagina} \cup perdidas
      BY <1>7, <2>1 DEF EnZona, BloqueadasSonDeAlguien, PaginasDeZona
    <3>2. PaginasDeZona \subseteq Indices
      BY ZonaLimpia, TotalPositivo DEF PaginasDeZona, Indices
    <3>3. {i \in PaginasDeZona : region_memoria'[i].estado = 1}
            = {i \in PaginasDeZona : region_memoria[i].estado = 1} \ {p}
      BY <2>3, <3>2
    <3>4. {tiene'[d] : d \in ConPagina'} = {tiene[d] : d \in ConPagina} \ {p}
      BY <1>1, <1>6, <2>5
    <3>5. \A i \in 0 .. (PaginasReservadas - 1) : region_memoria'[i] = Concedida(0)
      BY <1>7, <2>1, <2>3, <2>4, ZonaLimpia, TotalPositivo
         DEF EnZona, BloqueadasSonDeAlguien, PaginasDeZona, Indices
    <3>. QED
      BY <1>2, <2>4, <3>1, <3>3, <3>4, <3>5 DEF BloqueadasSonDeAlguien, PaginasDeZona
  <2>. QED
    BY <1>2, <1>6, <2>1, <2>6, <2>7 DEF EnZona
<1>. QED
  BY <1>2, <1>5, <1>7 DEF IInv

\* A kill leaves the table alone: the page passes from held to lost.
LEMMA MatarInvariante == ASSUME IInv, Matar PROVE IInv'
<1>1. PICK c \in ConPagina : c > 0 /\ perdidas' = perdidas \cup {tiene[c]}
                             /\ tiene' = [tiene EXCEPT ![c] = Nada]
  BY DEF Matar
<1>2. UNCHANGED <<region_memoria, ultimo_pagina, panico, siguiente, enZona>>
  BY DEF Matar
<1>3. tiene[c] \in Indices /\ c \in Clientes
  BY <1>1 DEF ConPagina, IInv, TipoOK
<1>4. TipoOK'
  BY <1>1, <1>2, <1>3 DEF IInv, TipoOK
<1>5. ConPagina' = ConPagina \ {c} /\ \A d \in ConPagina \ {c} : tiene'[d] = tiene[d]
  BY <1>1, <1>3 DEF ConPagina, IInv, TipoOK
<1>6. ASSUME enZona PROVE EnZona'
  <2>1. EnZona
    BY <1>6 DEF IInv
  <2>2. SinDobleEntrega'
    BY <1>2, <1>5, <1>6, <2>1 DEF EnZona, SinDobleEntrega, UnaPaginaUnCliente
  <2>3. {tiene'[d] : d \in ConPagina'} \cup perdidas' = {tiene[d] : d \in ConPagina} \cup perdidas
    BY <1>1, <1>5
  <2>4. BloqueadasSonDeAlguien'
    BY <1>2, <1>6, <2>1, <2>3 DEF EnZona, BloqueadasSonDeAlguien
  <2>5. \A d \in ConPagina \ {c} : tiene[d] # tiene[c]
    BY <1>1, <1>6, <2>1 DEF EnZona, SinDobleEntrega, UnaPaginaUnCliente
  <2>. QED
    BY <1>1, <1>2, <1>5, <2>1, <2>2, <2>4, <2>5 DEF EnZona
<1>. QED
  BY <1>2, <1>4, <1>6 DEF IInv

-----------------------------------------------------------------------------
\* A stuttering step preserves the inductive invariant.
LEMMA SinCambioInvariante == ASSUME IInv, UNCHANGED vars PROVE IInv'
BY DEF IInv, vars, TipoOK, EnZona, SinDobleEntrega, UnaPaginaUnCliente,
   BloqueadasSonDeAlguien, ConPagina

\* Every step preserves the inductive invariant.
LEMMA PasoInvariante == ASSUME IInv, [Next]_vars PROVE IInv'
BY PedirInvariante, EscribirInvariante, TerminarInvariante, MatarInvariante,
   SinCambioInvariante DEF Next, Detenido

\* The inductive invariant holds in every reachable state.
THEOREM InvarianteInductivo == Spec => []IInv
BY InicioInvariante, PasoInvariante, PTL DEF Spec

\* Type correctness, whatever the sizes.
THEOREM TipoCorrecto == Spec => []TipoOK
<1>1. IInv => TipoOK
  BY DEF IInv
<1>. QED
  BY <1>1, InvarianteInductivo, PTL

\* While the pages given lie in the zone, none is given twice.
THEOREM NoHayDobleEntrega == Spec => []SinDobleEntrega
<1>1. IInv => SinDobleEntrega
  BY DEF IInv, EnZona, SinDobleEntrega
<1>. QED
  BY <1>1, InvarianteInductivo, PTL

\* And none is lost but by a kill.
THEOREM NoSePierdenPaginas == Spec => []BloqueadasSonDeAlguien
<1>1. IInv => BloqueadasSonDeAlguien
  BY DEF IInv, EnZona, BloqueadasSonDeAlguien
<1>. QED
  BY <1>1, InvarianteInductivo, PTL

-----------------------------------------------------------------------------
(* What module Planificador takes for granted: a pool of pages, of which a  *)
(* creation gets any free one, the end of a process gives its own one back, *)
(* and nothing else changes.  The pool is the zone.                         *)

\* The entries of the pool, Planificador's paginas without their numbers.
pozo == [p \in PaginasDeZona |-> region_memoria[p]]
PozoLibre == {p \in PaginasDeZona : pozo[p].estado = 0}

\* Colocar: client c gets a page that was free, in its own name.
PozoConcede(c) ==
  \E p \in PozoLibre :
    /\ pozo' = [pozo EXCEPT ![p] = Concedida(PidDe(c))]
    /\ tiene'[c] = p

\* SinMemoria: a creation panics only with no page free.
PozoSinMemoria == PozoLibre = {} /\ UNCHANGED pozo

\* LiberarPagina: process c ends and its page, which is in its name, is freed.
PozoLibera(c) ==
  /\ c > 0
  /\ pozo[tiene[c]] = Concedida(c)
  /\ pozo' = [pozo EXCEPT ![tiene[c]].estado = 0]

\* As long as the pages given lie in the zone, memoria.c is that pool: neither
\* the search nor what clients write on their pages does anything else to it,
\* and a process that stops holding its page has freed it or been killed.
EsUnPozo ==
  [][enZona' =>
       IF siguiente' # siguiente
       THEN IF panico' THEN PozoSinMemoria ELSE PozoConcede(siguiente)
       ELSE \/ \E c \in ConPagina : PozoLibera(c)
            \/ UNCHANGED pozo /\ (UNCHANGED tiene \/ perdidas' # perdidas)]_vars

\* The entries of the pool are those of the table.
LEMMA PozoEsLaTabla ==
  ASSUME IInv
  PROVE  /\ PaginasDeZona \subseteq Indices
         /\ \A p \in PaginasDeZona : pozo[p] = region_memoria[p] /\ pozo[p] \in Info
         /\ \A p \in PaginasDeZona, e \in Info :
              region_memoria' = [region_memoria EXCEPT ![p] = e] => pozo' = [pozo EXCEPT ![p] = e]
         /\ (\A p \in PaginasDeZona : region_memoria'[p] = region_memoria[p]) => UNCHANGED pozo
<1>1. PaginasDeZona \subseteq Indices
  BY ZonaLimpia, TotalPositivo DEF PaginasDeZona, Indices
<1>2. PaginasDeZona' = PaginasDeZona
  BY DEF PaginasDeZona, PaginasReservadas, Zona, BytesPorPagina
<1>3. region_memoria \in [Indices -> Info]
  BY DEF IInv, TipoOK
<1>4. /\ pozo = [p \in PaginasDeZona |-> region_memoria[p]]
      /\ pozo' = [p \in PaginasDeZona |-> region_memoria'[p]]
  BY <1>2 DEF pozo
<1>5. \A p \in PaginasDeZona : pozo[p] = region_memoria[p] /\ pozo[p] \in Info
  BY <1>1, <1>3, <1>4
<1>6. ASSUME NEW p \in PaginasDeZona, NEW e \in Info,
             region_memoria' = [region_memoria EXCEPT ![p] = e]
      PROVE  pozo' = [pozo EXCEPT ![p] = e]
  BY <1>1, <1>3, <1>4, <1>6
<1>7. (\A p \in PaginasDeZona : region_memoria'[p] = region_memoria[p]) => UNCHANGED pozo
  BY <1>4
<1>. QED
  BY <1>1, <1>5, <1>6, <1>7

\* A request takes a free page of the pool, or panics with none in it.
LEMMA PedirEsDelPozo ==
  ASSUME IInv, Pedir, enZona'
  PROVE  IF panico' THEN PozoSinMemoria ELSE PozoConcede(siguiente)
<1>1. /\ ~panico /\ siguiente \in Clientes
      /\ tiene' = IF panico' THEN tiene ELSE [tiene EXCEPT ![siguiente] = ultimo_pagina']
      /\ enZona /\ (panico' \/ ultimo_pagina' < Zona)
  BY DEF Pedir
<1>2. /\ PaginasDeZona \subseteq Indices
      /\ \A p \in PaginasDeZona : pozo[p] = region_memoria[p] /\ pozo[p] \in Info
  BY PozoEsLaTabla
<1>3. CASE NoHayMemoria
  <2>1. /\ Disponibles = {} /\ ultimo_pagina # 0 /\ panico' = TRUE
        /\ region_memoria' = region_memoria
    BY <1>3 DEF NoHayMemoria
  <2>2. UNCHANGED pozo
    BY <2>1, PozoEsLaTabla
  <2>3. ASSUME NEW p \in PozoLibre PROVE FALSE
    <3>1. p \in PaginasDeZona /\ region_memoria[p].estado = 0
      BY <1>2 DEF PozoLibre
    <3>2. p # 0
      <4>1. p \in Int /\ p >= PaginasReservadas /\ p < Zona
        BY <3>1, ZonaLimpia DEF PaginasDeZona
      <4>2. PaginasReservadas = 0 => Zona = 0
        BY TamanosPositivos DEF Zona
      <4>. QED
        BY <4>1, <4>2, ZonaLimpia
    <3>. QED
      BY <1>2, <2>1, <3>1, <3>2 DEF Disponibles
  <2>. QED
    BY <2>1, <2>2, <2>3 DEF PozoSinMemoria
<1>4. CASE \E p \in Siguientes : Conceder(p, PidDe(siguiente))
  <2>1. PICK p \in Siguientes : Conceder(p, PidDe(siguiente))
    BY <1>4
  <2>2. /\ p \in Indices /\ region_memoria[p].estado = 0
        /\ region_memoria' = [region_memoria EXCEPT ![p] = Concedida(PidDe(siguiente))]
        /\ ultimo_pagina' = p /\ panico' = FALSE
        /\ tiene' = [tiene EXCEPT ![siguiente] = p]
    BY <1>1, <2>1 DEF Siguientes, Disponibles, Conceder, IInv, TipoOK
  <2>3. p \in PaginasDeZona
    <3>1. ~(p < PaginasReservadas)
      BY <1>1, <2>2, ZonaLimpia DEF IInv, EnZona, BloqueadasSonDeAlguien, Indices, Concedida
    <3>. QED
      BY <1>1, <2>2, <3>1, ZonaLimpia DEF PaginasDeZona, Indices
  <2>4. Concedida(PidDe(siguiente)) \in Info
    BY <1>1, PidEsNatural, ConcedidaEsInfo
  <2>5. pozo' = [pozo EXCEPT ![p] = Concedida(PidDe(siguiente))]
    BY <2>2, <2>3, <2>4, PozoEsLaTabla
  <2>6. p \in PozoLibre
    BY <1>2, <2>2, <2>3 DEF PozoLibre
  <2>7. tiene'[siguiente] = p
    BY <1>1, <2>2 DEF IInv, TipoOK
  <2>. QED
    BY <2>2, <2>5, <2>6, <2>7 DEF PozoConcede
<1>. QED
  BY <1>3, <1>4 DEF Pedir, solicitar_pagina

\* What clients write on their pages falls outside the pool.
LEMMA EscribirNoTocaElPozo ==
  ASSUME IInv, Escribir, enZona
  PROVE  UNCHANGED pozo
<1>1. PICK c \in ConPagina : \E resto \in [EntradasEn(tiene[c]) -> Basura] :
        region_memoria' = [i \in Indices |->
          IF i \in EntradasEn(tiene[c]) THEN resto[i] ELSE region_memoria[i]]
  BY DEF Escribir
<1>2. tiene[c] \in PaginasDeZona
  BY DEF IInv, EnZona
<1>3. \A i \in EntradasEn(tiene[c]) : i >= Zona
  BY <1>2, EscribirFueraDeZona
<1>4. \A p \in PaginasDeZona : p \in Indices /\ p < Zona
  BY ZonaLimpia, TotalPositivo DEF PaginasDeZona, Indices
<1>5. \A p \in PaginasDeZona : region_memoria'[p] = region_memoria[p]
  BY <1>1, <1>3, <1>4, ZonaLimpia DEF Indices
<1>. QED
  BY <1>5, PozoEsLaTabla

\* A process that ends gives its page back to the pool: it is never refused.
LEMMA TerminarLibera ==
  ASSUME IInv, Terminar, enZona
  PROVE  \E c \in ConPagina : PozoLibera(c)
<1>1. PICK c \in ConPagina : c > 0 /\ liberar_pagina(tiene[c], c)
  BY DEF Terminar
<1> DEFINE p == tiene[c]
           e == [region_memoria[p] EXCEPT !.estado = 0]
<1>2. p \in PaginasDeZona /\ region_memoria[p] = Concedida(c)
  BY <1>1 DEF IInv, EnZona, SinDobleEntrega, PidDe
<1>3. region_memoria' = [region_memoria EXCEPT ![p].estado = 0]
  BY <1>1, <1>2 DEF liberar_pagina, Concedida
<1>4. p \in Indices /\ region_memoria[p] \in Info /\ pozo[p] = region_memoria[p]
  BY <1>2, PozoEsLaTabla
<1>5. e \in Info /\ region_memoria' = [region_memoria EXCEPT ![p] = e]
  BY <1>3, <1>4 DEF Info, IInv, TipoOK
<1>6. pozo' = [pozo EXCEPT ![p] = e]
  <2> HIDE DEF e, p
  <2>. QED
    BY <1>2, <1>5, PozoEsLaTabla
<1>7. pozo' = [pozo EXCEPT ![p].estado = 0]
  BY <1>4, <1>6
<1>. QED
  BY <1>1, <1>2, <1>4, <1>7 DEF PozoLibera

\* A kill leaves the pool as it was, and its page is lost.
LEMMA MatarPierde ==
  ASSUME IInv, Matar, enZona
  PROVE  UNCHANGED pozo /\ perdidas' # perdidas
<1>1. PICK c \in ConPagina : perdidas' = perdidas \cup {tiene[c]}
  BY DEF Matar
<1>2. region_memoria' = region_memoria
  BY DEF Matar
<1>3. tiene[c] \notin perdidas
  BY DEF IInv, EnZona
<1>. QED
  BY <1>1, <1>2, <1>3, PozoEsLaTabla

\* The page pool that Planificador is written over is implemented by memoria.c,
\* as long as no page past the zone is given.
THEOREM LaMemoriaEsUnPozo == Spec => EsUnPozo
<1> DEFINE Paso == enZona' =>
             IF siguiente' # siguiente
             THEN IF panico' THEN PozoSinMemoria ELSE PozoConcede(siguiente)
             ELSE \/ \E c \in ConPagina : PozoLibera(c)
                  \/ UNCHANGED pozo /\ (UNCHANGED tiene \/ perdidas' # perdidas)
<1>1. ASSUME IInv, [Next]_vars PROVE [Paso]_vars
  <2> SUFFICES ASSUME enZona', Next PROVE Paso \/ UNCHANGED vars
    BY <1>1
  <2>1. CASE Pedir
    <3>1. siguiente' = siguiente + 1 /\ siguiente \in Int
      BY <2>1, CotasNaturales DEF Pedir, Clientes, Primero
    <3>2. siguiente' # siguiente
      BY <3>1
    <3>. QED
      BY <1>1, <2>1, <3>2, PedirEsDelPozo
  <2>2. CASE Escribir
    <3>1. enZona /\ UNCHANGED <<siguiente, tiene>>
      BY <2>2 DEF Escribir
    <3>. QED
      BY <1>1, <2>2, <3>1, EscribirNoTocaElPozo
  <2>3. CASE Terminar
    <3>1. enZona /\ UNCHANGED siguiente
      BY <2>3 DEF Terminar
    <3>. QED
      BY <1>1, <2>3, <3>1, TerminarLibera
  <2>4. CASE Matar
    <3>1. enZona /\ UNCHANGED siguiente
      BY <2>4 DEF Matar
    <3>. QED
      BY <1>1, <2>4, <3>1, MatarPierde
  <2>5. CASE Detenido
    BY <2>5 DEF Detenido
  <2>. QED
    BY <2>1, <2>2, <2>3, <2>4, <2>5 DEF Next
<1>. QED
  BY <1>1, InvarianteInductivo, PTL DEF Spec, EsUnPozo
=============================================================================
