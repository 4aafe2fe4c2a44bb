----------------------- MODULE Interrupciones_proofs ------------------------
(***************************************************************************)
(* Proofs about the interrupts, for every depth to which the handlers      *)
(* nest, every quantum and every number of processes that run1 creates.    *)
(*                                                                         *)
(* The argument is about the stack of handlers: what each frame may be     *)
(* doing, given whom it cut in on.  Almost every step changes the frame on *)
(* top and nothing below it; CambioBase says once what such a step must    *)
(* satisfy to preserve the invariant.                                      *)
(***************************************************************************)
EXTENDS Interrupciones, SequenceTheorems, FiniteSetTheorems, TLAPS

\* Steps after the acknowledgement.
PorVolver == {"sti", "iret"}

\* Steps taken with the interrupts disabled, so nothing is above them.
Cerrados == {"colocar", "operar", "matar", "comando"}

\* Steps that nothing is above: those, and what the timer changes after its
\* process has run, with the flag as the process left it.
Arriba == Cerrados \cup {"actualizar"}

\* Steps of _start before agregarProceso; steps of a handler that cut in on
\* _start before the first process was chosen.
Iniciales == {"memoria", "habilitar", "interrupciones", "remapear", "restaurar",
              "desenmascarar", "abrirArranque"}
Tempranos == {"aumentar", "recibir", "eoi", "sti", "iret", "fallo"}

\* A frame by itself: a creation is still to be made where one is about to be;
\* a handler cut in with the interrupts enabled, and does not call scheduler_RR
\* in the way of _start; only the timer runs processes.
MarcoBien(m) ==
  /\ m \in Marcos
  /\ m.paso = "agregar" => m.quedan > 0
  /\ m.hace = Arranque /\ m.paso \in Iniciales => m.quedan > 0
  /\ m.hace # Arranque => m.guardado /\ m.paso \notin {"buscar", "elegir"}
  /\ m.paso = "actualizar" => m.hace = Timer

TiposResto ==
  /\ pendientes \subseteq Lineas
  /\ contador \in 0 .. (TicksPorQuantum - 1)
  /\ rflagsIF \in BOOLEAN /\ desenmascarado \in BOOLEAN
  /\ hayListos \in BOOLEAN /\ elegido \in BOOLEAN /\ evento_teclado \in BOOLEAN

PilaBien ==
  /\ pila \in Seq(Marcos) /\ Len(pila) \in 1 .. (Profundidad + 1)
  /\ \A i \in 1 .. Len(pila) : MarcoBien(pila[i])
  /\ \A i \in 1 .. Len(pila) : pila[i].hace = Arranque <=> i = 1

\* Nothing is above a frame in such a step, and the flag is off in the closed ones.
CerradosArriba ==
  \A i \in 1 .. Len(pila) :
    /\ pila[i].paso \in Arriba => i = Len(pila)
    /\ pila[i].paso \in Cerrados => ~rflagsIF

\* Until _start sleeps, or if it never does, no process is chosen, so the timer
\* reaches the table in no quantum, and the shell has not enabled the keyboard.
NadieAntes ==
  pila[1].paso # "dormir" =>
    /\ ~elegido /\ ~evento_teclado
    /\ \A i \in 2 .. Len(pila) : pila[i].paso \in Tempranos

\* _start looks for a process, and sleeps, with the interrupts enabled.
AbiertoAlDormir ==
  Len(pila) = 1 /\ pila[1].paso \in {"buscar", "elegir", "dormir"} => rflagsIF

Base == TiposResto /\ PilaBien /\ CerradosArriba /\ NadieAntes /\ AbiertoAlDormir
IInv == Base /\ enServicio \subseteq Lineas /\ CadaEOIEsSuyo

-----------------------------------------------------------------------------
(* The invariant and what it implies.                                       *)

\* The frame on top.
LEMMA CimaBien ==
  ASSUME Base
  PROVE  /\ Len(pila) \in Nat \ {0} /\ cima = pila[Len(pila)] /\ MarcoBien(cima)
         /\ cima \in Marcos
         /\ cima.hace = Arranque <=> Len(pila) = 1
         /\ pila \in Seq(Marcos)
<1>1. pila \in Seq(Marcos) /\ Len(pila) \in Nat \ {0} /\ Len(pila) \in 1 .. Len(pila)
  BY CotasPositivas DEF Base, PilaBien
<1>2. MarcoBien(pila[Len(pila)]) /\ (pila[Len(pila)].hace = Arranque <=> Len(pila) = 1)
  BY <1>1 DEF Base, PilaBien
<1>. QED
  BY <1>1, <1>2 DEF cima, MarcoBien

\* The invariant implies the type invariant.
LEMMA InvarianteTipa == ASSUME IInv PROVE TipoOK
BY DEF IInv, Base, TiposResto, PilaBien, TipoOK

\* And that at most one frame is in an operation on the table.
LEMMA InvarianteExcluye == ASSUME IInv PROVE ExclusionTabla
<1> DEFINE dentro == {i \in 1 .. Len(pila) : EnTabla(pila[i])}
<1>1. Len(pila) \in Nat \ {0} /\ pila \in Seq(Marcos)
  BY CimaBien DEF IInv
<1>2. ASSUME NEW i \in dentro, NEW j \in dentro, i < j PROVE FALSE
  <2>1. /\ i \in 1 .. Len(pila) /\ j \in 1 .. Len(pila) /\ i # Len(pila)
        /\ EnTabla(pila[i]) /\ EnTabla(pila[j])
    BY <1>1, <1>2
  <2>2. i = 1 /\ pila[1].paso \in {"buscar", "elegir"}
    BY <2>1 DEF IInv, Base, PilaBien, MarcoBien, CerradosArriba, Arriba, Cerrados, EnTabla
  <2>3. pila[j].paso \in Tempranos
    BY <1>1, <1>2, <2>1, <2>2 DEF IInv, Base, NadieAntes
  <2>. QED
    BY <2>1, <2>3 DEF EnTabla, Tempranos
<1>3. dentro = {} \/ \E i \in dentro : dentro = {i}
  <2>1. \A i, j \in dentro : i = j
    <3>1. \A i, j \in dentro : i \in Int /\ j \in Int
      BY <1>1
    <3>. QED
      BY <1>2, <3>1
  <2>. QED
    BY <2>1
<1>4. Cardinality(dentro) <= 1
  <2> HIDE DEF dentro
  <2>1. CASE dentro = {}
    BY <2>1, FS_EmptySet
  <2>2. ASSUME NEW i \in dentro, dentro = {i} PROVE Cardinality(dentro) <= 1
    BY <2>2, FS_Singleton
  <2>. QED
    BY <1>3, <2>1, <2>2
<1>. QED
  BY <1>4 DEF ExclusionTabla

\* And that a kernel that sleeps can be woken.
LEMMA InvarianteDespierta == ASSUME IInv PROVE DuermeDespertable
<1> SUFFICES ASSUME Len(pila) = 1, cima.paso = "dormir" PROVE rflagsIF /\ enServicio = {}
  BY DEF DuermeDespertable
<1>1. PorReconocer = {}
  BY DEF PorReconocer
<1>2. enServicio = {}
  BY <1>1 DEF IInv, CadaEOIEsSuyo
<1>. QED
  BY <1>2 DEF IInv, Base, AbiertoAlDormir, cima

-----------------------------------------------------------------------------
(* What a step that changes only the frame on top must satisfy.             *)

\* The stack after such a step.
CambiaCima(m) == pila' = [pila EXCEPT ![Len(pila)] = m]

\* It is the same stack but for the frame on top.
LEMMA PilaTrasCambio ==
  ASSUME Base, NEW m \in Marcos, CambiaCima(m)
  PROVE  /\ pila' \in Seq(Marcos) /\ Len(pila') = Len(pila)
         /\ pila'[Len(pila)] = m
         /\ \A i \in 1 .. (Len(pila) - 1) : pila'[i] = pila[i]
<1>1. pila \in Seq(Marcos) /\ Len(pila) \in Nat \ {0} /\ Len(pila) \in 1 .. Len(pila)
  BY CimaBien
<1>2. /\ [pila EXCEPT ![Len(pila)] = m] \in Seq(Marcos)
      /\ Len([pila EXCEPT ![Len(pila)] = m]) = Len(pila)
      /\ \A j \in 1 .. Len(pila) :
           [pila EXCEPT ![Len(pila)] = m][j] = IF j = Len(pila) THEN m ELSE pila[j]
  BY <1>1, ExceptSeq
<1>3. pila' = [pila EXCEPT ![Len(pila)] = m]
  BY DEF CambiaCima
<1>4. \A i \in 1 .. (Len(pila) - 1) : i \in 1 .. Len(pila) /\ i # Len(pila)
  BY <1>1
<1>. QED
  BY <1>1, <1>2, <1>3, <1>4

\* The frame on top may become m.
Admite(m) ==
  /\ MarcoBien(m) /\ m.hace = cima.hace
  /\ CambiaCima(m)
  /\ m.paso \in Cerrados => ~rflagsIF'
  /\ (IF Len(pila) = 1 THEN m.paso ELSE pila[1].paso) # "dormir" =>
       /\ ~elegido' /\ ~evento_teclado'
       /\ Len(pila) # 1 => m.paso \in Tempranos
  /\ Len(pila) = 1 /\ m.paso \in {"buscar", "elegir", "dormir"} => rflagsIF'

\* A frame that is admitted on top keeps the facts about the stack.
LEMMA CambioBase ==
  ASSUME Base, NEW m, Admite(m), TiposResto'
  PROVE  Base'
<1>1. /\ Len(pila) \in Nat \ {0} /\ pila \in Seq(Marcos) /\ cima = pila[Len(pila)]
      /\ cima.hace = Arranque <=> Len(pila) = 1
  BY CimaBien
<1>2. m \in Marcos
  BY DEF Admite, MarcoBien
<1>3. /\ pila' \in Seq(Marcos) /\ Len(pila') = Len(pila)
      /\ pila'[Len(pila)] = m
      /\ \A i \in 1 .. (Len(pila) - 1) : pila'[i] = pila[i]
  BY <1>2, PilaTrasCambio DEF Admite
<1>4. \A i \in 1 .. Len(pila) : i = Len(pila) \/ i \in 1 .. (Len(pila) - 1)
  BY <1>1
<1>5. PilaBien'
  <2>1. Len(pila') \in 1 .. (Profundidad + 1)
    BY <1>3 DEF Base, PilaBien
  <2>2. ASSUME NEW i \in 1 .. Len(pila')
        PROVE  MarcoBien(pila'[i]) /\ (pila'[i].hace = Arranque <=> i = 1)
    <3>1. CASE i = Len(pila)
      BY <1>1, <1>3, <3>1 DEF Admite
    <3>2. CASE i # Len(pila)
      <4>1. i \in 1 .. Len(pila) /\ i \in 1 .. (Len(pila) - 1)
        BY <1>3, <1>4, <2>2, <3>2
      <4>. QED
        BY <1>3, <4>1 DEF Base, PilaBien
    <3>. QED
      BY <3>1, <3>2
  <2>. QED
    BY <1>3, <2>1, <2>2 DEF PilaBien, MarcoBien
<1>6. CerradosArriba'
  <2>1. ASSUME NEW i \in 1 .. Len(pila'), pila'[i].paso \in Arriba
        PROVE  i = Len(pila') /\ (pila'[i].paso \in Cerrados => ~rflagsIF')
    <3>1. CASE i = Len(pila)
      BY <1>3, <2>1, <3>1 DEF Admite
    <3>2. CASE i # Len(pila)
      <4>1. i \in 1 .. Len(pila) /\ i \in 1 .. (Len(pila) - 1)
        BY <1>3, <1>4, <2>1, <3>2
      <4>2. pila[i].paso \in Arriba
        BY <1>3, <2>1, <4>1
      <4>. QED
        BY <3>2, <4>1, <4>2 DEF Base, CerradosArriba
    <3>. QED
      BY <3>1, <3>2
  <2>. QED
    BY <2>1 DEF CerradosArriba, Arriba, Cerrados
<1>7. pila'[1] = IF Len(pila) = 1 THEN m ELSE pila[1]
  BY <1>1, <1>3
<1>8. NadieAntes'
  <2>1. SUFFICES ASSUME pila'[1].paso # "dormir"
        PROVE  /\ ~elegido' /\ ~evento_teclado'
               /\ \A i \in 2 .. Len(pila') : pila'[i].paso \in Tempranos
    BY DEF NadieAntes, Tempranos
  <2>2. ~elegido' /\ ~evento_teclado' /\ (Len(pila) # 1 => m.paso \in Tempranos)
    BY <1>7, <2>1 DEF Admite
  <2>3. ASSUME NEW i \in 2 .. Len(pila') PROVE pila'[i].paso \in Tempranos
    <3>1. Len(pila) # 1 /\ i \in 1 .. Len(pila) /\ i \in 2 .. Len(pila)
      BY <1>1, <1>3, <2>3
    <3>2. CASE i = Len(pila)
      BY <1>3, <2>2, <3>1, <3>2
    <3>3. CASE i # Len(pila)
      <4>1. i \in 1 .. (Len(pila) - 1)
        BY <1>4, <3>1, <3>3
      <4>2. pila[1].paso # "dormir"
        BY <1>7, <2>1, <3>1
      <4>. QED
        BY <1>3, <3>1, <4>1, <4>2 DEF Base, NadieAntes
    <3>. QED
      BY <3>2, <3>3
  <2>. QED
    BY <2>2, <2>3
<1>9. AbiertoAlDormir'
  BY <1>3, <1>7 DEF AbiertoAlDormir, Admite
<1>. QED
  BY <1>5, <1>6, <1>8, <1>9 DEF Base

\* A step that neither acknowledges nor returns leaves the requests in service
\* those of the handlers that have not acknowledged.
LEMMA CambioEOI ==
  ASSUME Base, CadaEOIEsSuyo, NEW m, Admite(m), enServicio' = enServicio,
         Len(pila) # 1 => (m.paso \in PorVolver <=> cima.paso \in PorVolver)
  PROVE  CadaEOIEsSuyo'
<1>1. Len(pila) \in Nat \ {0} /\ pila \in Seq(Marcos) /\ cima = pila[Len(pila)]
  BY CimaBien
<1>2. m \in Marcos
  BY DEF Admite, MarcoBien
<1>3. /\ Len(pila') = Len(pila) /\ pila'[Len(pila)] = m
      /\ \A i \in 1 .. (Len(pila) - 1) : pila'[i] = pila[i]
  BY <1>2, PilaTrasCambio DEF Admite
<1>4. ASSUME NEW i \in 2 .. Len(pila)
      PROVE  /\ pila'[i].hace = pila[i].hace
             /\ pila'[i].paso \in PorVolver <=> pila[i].paso \in PorVolver
  <2>1. i \in 1 .. Len(pila) /\ Len(pila) # 1 /\ (i = Len(pila) \/ i \in 1 .. (Len(pila) - 1))
    BY <1>1
  <2>. QED
    BY <1>1, <1>3, <2>1 DEF Admite
<1>5. PorReconocer' = PorReconocer
  BY <1>3, <1>4 DEF PorReconocer, PorVolver
<1>6. \A i \in PorReconocer : pila'[i].hace = pila[i].hace
  BY <1>4 DEF PorReconocer
<1>. QED
  BY <1>5, <1>6 DEF CadaEOIEsSuyo

\* Both together.
LEMMA CambioInvariante ==
  ASSUME IInv, NEW m, Admite(m), TiposResto', enServicio' = enServicio,
         Len(pila) # 1 => (m.paso \in PorVolver <=> cima.paso \in PorVolver)
  PROVE  IInv'
BY CambioBase, CambioEOI DEF IInv

\* What the invariant says of the frame on top, which is all a step reads.
LEMMA Situacion ==
  ASSUME Base
  PROVE  /\ MarcoBien(cima) /\ cima \in Marcos
         /\ cima.hace = Arranque <=> Len(pila) = 1
         /\ cima.paso \in Cerrados => ~rflagsIF
         /\ cima.hace = Arranque => (cima.paso # "dormir" => ~elegido /\ ~evento_teclado)
         /\ cima.hace = Arranque /\ cima.paso \in {"buscar", "elegir", "dormir"} => rflagsIF
         /\ cima.hace # Arranque /\ pila[1].paso # "dormir" =>
              ~elegido /\ ~evento_teclado /\ cima.paso \in Tempranos
<1>1. /\ MarcoBien(cima) /\ cima \in Marcos /\ cima = pila[Len(pila)]
      /\ cima.hace = Arranque <=> Len(pila) = 1
      /\ Len(pila) \in Nat \ {0} /\ Len(pila) \in 1 .. Len(pila)
  BY CimaBien
<1>2. cima.paso \in Cerrados => ~rflagsIF
  BY <1>1 DEF Base, CerradosArriba
<1>3. cima.hace = Arranque => cima = pila[1]
  BY <1>1
<1>4. Len(pila) # 1 => Len(pila) \in 2 .. Len(pila)
  <2>1. \A n \in Nat \ {0} : n # 1 => n \in 2 .. n
    OBVIOUS
  <2>. QED
    BY <1>1, <2>1
<1>. QED
  BY <1>1, <1>2, <1>3, <1>4 DEF Base, NadieAntes, AbiertoAlDormir

\* A step of the frame on top, with the same caller, count and flag.
LEMMA IrInvariante ==
  ASSUME IInv, NEW r \in Pasos, Ir(r), TiposResto', enServicio' = enServicio,
         r = "agregar" => cima.quedan > 0,
         r = "actualizar" => cima.hace = Timer,
         cima.hace = Arranque /\ r \in Iniciales => cima.quedan > 0,
         cima.hace # Arranque =>
           r \notin {"buscar", "elegir"} /\ (r \in PorVolver <=> cima.paso \in PorVolver),
         r \in Cerrados => ~rflagsIF',
         cima.hace = Arranque /\ r # "dormir" => ~elegido' /\ ~evento_teclado',
         cima.hace # Arranque /\ pila[1].paso # "dormir" =>
           ~elegido' /\ ~evento_teclado' /\ r \in Tempranos,
         cima.hace = Arranque /\ r \in {"buscar", "elegir", "dormir"} => rflagsIF'
  PROVE  IInv'
<1> DEFINE m == [cima EXCEPT !.paso = r]
<1>1. MarcoBien(cima) /\ cima \in Marcos /\ (cima.hace = Arranque <=> Len(pila) = 1)
  BY Situacion DEF IInv
<1>2. /\ m \in Marcos /\ m.paso = r /\ m.hace = cima.hace
      /\ m.quedan = cima.quedan /\ m.guardado = cima.guardado
  BY <1>1 DEF Marcos
<1>3. CambiaCima(m)
  <2>1. pila' = [pila EXCEPT ![Len(pila)] = [pila[Len(pila)] EXCEPT !.paso = r]]
    BY DEF Ir
  <2>. QED
    BY <2>1 DEF CambiaCima, cima
<1> HIDE DEF m
<1>4. MarcoBien(m)
  BY <1>1, <1>2 DEF MarcoBien
<1>5. Admite(m)
  BY <1>1, <1>2, <1>3, <1>4 DEF Admite
<1>. QED
  BY <1>1, <1>2, <1>5, CambioInvariante

-----------------------------------------------------------------------------
(* The initial states, and the steps of _start.                             *)

\* The initial states satisfy the invariant.
LEMMA InicioInvariante == ASSUME Init PROVE IInv
<1> DEFINE m == [hace |-> Arranque, guardado |-> FALSE, quedan |-> 1, paso |-> "memoria"]
<1>1. MarcoBien(m) /\ m \in Marcos
  BY CotasPositivas DEF MarcoBien, Marcos, Pasos, Arranque, Lineas, Timer, Teclado, Iniciales
<1>2. pila = <<m>> /\ pila \in Seq(Marcos) /\ Len(pila) = 1 /\ pila[1] = m
  BY <1>1 DEF Init
<1>3. m.hace = Arranque /\ m.paso = "memoria"
  OBVIOUS
<1> HIDE DEF m
<1>4. PilaBien
  BY <1>1, <1>2, <1>3, CotasPositivas DEF PilaBien
<1>5. TiposResto
  <2>1. contador \in 0 .. (TicksPorQuantum - 1)
    BY CotasPositivas DEF Init
  <2>. QED
    BY <2>1 DEF Init, TiposResto
<1>6. CerradosArriba /\ NadieAntes /\ AbiertoAlDormir
  BY <1>2, <1>3 DEF Init, CerradosArriba, NadieAntes, AbiertoAlDormir, Arriba, Cerrados
<1>7. PorReconocer = {}
  BY <1>2 DEF PorReconocer
<1>8. CadaEOIEsSuyo /\ enServicio \subseteq Lineas
  BY <1>7 DEF CadaEOIEsSuyo, Init
<1>. QED
  BY <1>4, <1>5, <1>6, <1>8 DEF IInv, Base

\* A panic in a frame that had acknowledged nothing.
LEMMA PanicoInvariante ==
  ASSUME IInv, kernel_panic, cima.paso \notin PorVolver,
         cima.hace = Arranque => cima.paso # "dormir",
         cima.hace # Arranque => cima.paso \notin Tempranos
  PROVE  IInv'
<1>1. Ir("panico") /\ rflagsIF' /\ UNCHANGED <<pic, nucleo>> /\ "panico" \in Pasos
  BY DEF kernel_panic, Imprime, Sti, Pasos
<1>2. TiposResto' /\ enServicio' = enServicio /\ elegido' = elegido /\ evento_teclado' = evento_teclado
  BY <1>1 DEF IInv, Base, TiposResto, pic, nucleo, kernel_panic, Imprime, Sti
<1>3. Base
  BY DEF IInv
<1>. QED
  BY <1>1, <1>2, <1>3, Situacion, IrInvariante DEF PorVolver, Cerrados, Iniciales

\* The steps of _start up to agregarProceso, and those of scheduler_RR.
LEMMA IniciarInvariante == ASSUME IInv, IniciarNucleo PROVE IInv'
<1>1. Base /\ TiposResto
  BY DEF IInv, Base
<1>2. /\ cima.hace = Arranque => (cima.paso # "dormir" => ~elegido /\ ~evento_teclado)
      /\ cima.hace = Arranque /\ cima.paso \in {"buscar", "elegir", "dormir"} => rflagsIF
      /\ MarcoBien(cima)
  BY <1>1, Situacion
<1>3. ASSUME NEW p \in Iniciales, NEW q \in Iniciales \cup {"agregar"},
             Ahora(Arranque, p), Ir(q), TiposResto', enServicio' = enServicio,
             elegido' = elegido, (evento_teclado' = evento_teclado \/ evento_teclado' = FALSE)
      PROVE  IInv'
  <2>1. cima.hace = Arranque /\ cima.paso = p /\ cima.quedan > 0 /\ q \in Pasos
    BY <1>2, <1>3 DEF Ahora, MarcoBien, Iniciales, Pasos
  <2>2. q \notin Cerrados \cup {"buscar", "elegir", "dormir", "actualizar"}
    BY DEF Iniciales, Cerrados
  <2>3. ~elegido' /\ ~evento_teclado'
    <3>1. cima.paso # "dormir"
      BY <2>1 DEF Iniciales
    <3>2. ~elegido /\ ~evento_teclado
      BY <1>2, <2>1, <3>1
    <3>. QED
      BY <1>3, <3>2
  <2>. QED
    BY <1>3, <2>1, <2>2, <2>3, IrInvariante
<1>4. ASSUME NEW p \in Iniciales, Ahora(Arranque, p), kernel_panic
      PROVE  IInv'
  BY <1>4, PanicoInvariante DEF Ahora, Iniciales, PorVolver
<1>5. CASE IniciarMemoria
  BY <1>1, <1>3, <1>4, <1>5
     DEF IniciarMemoria, Iniciales, Imprime, Sti, pic, nucleo, TiposResto
<1>6. CASE HabilitarPronto
  BY <1>1, <1>3, <1>6 DEF HabilitarPronto, Iniciales, Sti, pic, nucleo, TiposResto
<1>7. CASE IniciarInterrupciones
  BY <1>1, <1>3, <1>4, <1>7
     DEF IniciarInterrupciones, Iniciales, Imprime, Sti, pic, nucleo, TiposResto
<1>8. CASE Remapear
  BY <1>1, <1>3, <1>8 DEF Remapear, Iniciales, nucleo, TiposResto
<1>9. CASE RestaurarMascara
  BY <1>1, <1>3, <1>9 DEF RestaurarMascara, Iniciales, nucleo, TiposResto
<1>10. CASE Desenmascarar
  <2>1. CASE kernel_panic
    BY <1>4, <1>10, <2>1 DEF Desenmascarar, Iniciales
  <2>2. CASE ~kernel_panic
    <3>1. contador' = 0 /\ 0 \in 0 .. (TicksPorQuantum - 1)
      BY <1>10, <2>2, CotasPositivas DEF Desenmascarar, iniciar_timer
    <3>2. TiposResto'
      BY <1>1, <1>10, <2>2, <3>1
         DEF Desenmascarar, Imprime, Sti, iniciar_teclado, TiposResto
    <3>3. /\ Ahora(Arranque, "desenmascarar") /\ Ir("abrirArranque")
          /\ enServicio' = enServicio /\ elegido' = elegido /\ evento_teclado' = FALSE
      BY <1>10, <2>2 DEF Desenmascarar, iniciar_teclado
    <3>. QED
      BY <1>3, <3>2, <3>3 DEF Iniciales
  <2>. QED
    BY <2>1, <2>2
<1>11. CASE AbrirArranque
  BY <1>1, <1>3, <1>11 DEF AbrirArranque, Iniciales, Sti, pic, nucleo, TiposResto
<1>12. CASE Buscar
  <2>1. TiposResto' /\ enServicio' = enServicio /\ rflagsIF' = rflagsIF /\ elegido' = elegido
        /\ evento_teclado' = evento_teclado
    BY <1>1, <1>12 DEF Buscar, pic, nucleo, TiposResto
  <2>2. cima.hace = Arranque /\ cima.paso = "buscar"
    BY <1>12 DEF Buscar, Ahora
  <2>3. Ir("elegir") \/ Ir("dormir")
    BY <1>12 DEF Buscar
  <2>4. {"elegir", "dormir"} \subseteq Pasos
    BY DEF Pasos
  <2>. QED
    BY <1>2, <2>1, <2>2, <2>3, <2>4, IrInvariante DEF Cerrados, Iniciales
<1>13. CASE Elegir
  <2>1. TiposResto' /\ enServicio' = enServicio /\ rflagsIF' = rflagsIF
    BY <1>1, <1>13 DEF Elegir, pic, TiposResto
  <2>2. cima.hace = Arranque /\ cima.paso = "elegir" /\ Ir("dormir") /\ "dormir" \in Pasos
    BY <1>13 DEF Elegir, Ahora, Pasos
  <2>. QED
    BY <1>2, <2>1, <2>2, IrInvariante DEF Cerrados, Iniciales
<1>. QED
  BY <1>5, <1>6, <1>7, <1>8, <1>9, <1>10, <1>11, <1>12, <1>13 DEF IniciarNucleo

-----------------------------------------------------------------------------
(* agregarProceso, the handlers and the machine.                            *)

\* Where agregarProceso goes back to.
LEMMA TrasAgregarEs ==
  ASSUME Base, cima.paso \in {"colocar", "abrir"}
  PROVE  /\ TrasAgregar \in Pasos
         /\ cima.hace = Arranque => TrasAgregar = "buscar"
         /\ cima.hace # Arranque => TrasAgregar \in {"agregar", "abrirComando"}
         /\ TrasAgregar = "agregar" => cima.quedan > 0
BY DEF TrasAgregar, Pasos

\* A creation of a process, with the table closed.
LEMMA AgregarInvariante == ASSUME IInv, agregarProceso PROVE IInv'
<1>1. Base /\ TiposResto
  BY DEF IInv, Base
<1>2. /\ MarcoBien(cima) /\ cima \in Marcos
      /\ cima.hace = Arranque <=> Len(pila) = 1
      /\ cima.paso \in Cerrados => ~rflagsIF
      /\ cima.hace = Arranque => (cima.paso # "dormir" => ~elegido /\ ~evento_teclado)
      /\ cima.hace # Arranque /\ pila[1].paso # "dormir" =>
           ~elegido /\ ~evento_teclado /\ cima.paso \in Tempranos
  BY <1>1, Situacion
<1>3. CASE Entrar
  <2> DEFINE m == [cima EXCEPT !.paso = "colocar", !.quedan = @ - 1]
  <2>1. cima.paso = "agregar" /\ UNCHANGED <<pic, nucleo>> /\ ~rflagsIF' /\ rflagsIF' \in BOOLEAN
    BY <1>3 DEF Entrar, Ahora, Cli
  <2>2. pila' = [pila EXCEPT ![Len(pila)].paso = "colocar", ![Len(pila)].quedan = @ - 1]
    BY <1>3 DEF Entrar
  <2>3. CambiaCima(m)
    <3>1. Len(pila) \in 1 .. Len(pila) /\ pila \in Seq(Marcos) /\ cima = pila[Len(pila)]
      BY <1>1, CimaBien
    <3>. QED
      BY <2>2, <3>1 DEF CambiaCima
  <2>4. cima.quedan \in 1 .. CreacionesRun1
    BY <1>2, <2>1 DEF MarcoBien, Marcos
  <2>5. /\ m \in Marcos /\ m.paso = "colocar" /\ m.hace = cima.hace /\ m.guardado = cima.guardado
    <3>1. cima.quedan - 1 \in 0 .. CreacionesRun1
      BY <2>4, CotasPositivas
    <3>2. "colocar" \in Pasos
      BY DEF Pasos
    <3>. QED
      BY <1>2, <3>1, <3>2 DEF Marcos
  <2> HIDE DEF m
  <2>6. MarcoBien(m)
    BY <1>2, <2>5 DEF MarcoBien, Iniciales
  <2>7. elegido' = elegido /\ evento_teclado' = evento_teclado /\ enServicio' = enServicio
    BY <2>1 DEF pic, nucleo
  <2>8. Admite(m)
    BY <1>2, <2>1, <2>3, <2>5, <2>6, <2>7 DEF Admite, Tempranos
  <2>9. TiposResto'
    BY <1>1, <2>1 DEF TiposResto, pic, nucleo
  <2>10. m.paso \notin PorVolver /\ cima.paso \notin PorVolver
    BY <2>1, <2>5 DEF PorVolver
  <2>. QED
    BY <2>7, <2>8, <2>9, <2>10, CambioInvariante
<1>4. CASE Colocar
  <2>1. cima.paso = "colocar" /\ Ir("abrir") /\ "abrir" \in Pasos
    BY <1>4 DEF Colocar, Ahora, Pasos
  <2>2. /\ enServicio' = enServicio /\ elegido' = elegido /\ evento_teclado' = evento_teclado
        /\ TiposResto'
    BY <1>1, <1>4 DEF Colocar, TiposResto, pic
  <2>. QED
    BY <1>2, <2>1, <2>2, IrInvariante DEF Cerrados, Iniciales, PorVolver, Tempranos
<1>5. CASE NoSePuedeColocar
  <2>1. cima.paso = "colocar" /\ cima.hace = Teclado /\ Ir(TrasAgregar)
    BY <1>5 DEF NoSePuedeColocar, Ahora
  <2>2. /\ enServicio' = enServicio /\ elegido' = elegido /\ evento_teclado' = evento_teclado
        /\ TiposResto'
    BY <1>1, <1>5 DEF NoSePuedeColocar, TiposResto, pic, nucleo, Imprime, Sti
  <2>3. cima.hace # Arranque
    BY <2>1 DEF Teclado, Arranque
  <2>4. /\ TrasAgregar \in Pasos /\ TrasAgregar \in {"agregar", "abrirComando"}
        /\ TrasAgregar = "agregar" => cima.quedan > 0
    BY <1>1, <2>1, <2>3, TrasAgregarEs
  <2>. QED
    BY <1>2, <2>1, <2>2, <2>3, <2>4, IrInvariante DEF Cerrados, Iniciales, PorVolver, Tempranos
<1>6. CASE SinMemoria
  <2>1. cima.paso = "colocar" /\ kernel_panic
    BY <1>6 DEF SinMemoria, Ahora
  <2>. QED
    BY <2>1, PanicoInvariante DEF PorVolver, Tempranos
<1>7. CASE Abrir
  <2>1. cima.paso = "abrir" /\ Ir(TrasAgregar) /\ rflagsIF'
    BY <1>7 DEF Abrir, Ahora, Sti
  <2>2. /\ enServicio' = enServicio /\ elegido' = elegido /\ evento_teclado' = evento_teclado
        /\ TiposResto'
    BY <1>1, <1>7 DEF Abrir, TiposResto, pic, nucleo, Sti
  <2>3. /\ TrasAgregar \in Pasos
        /\ cima.hace = Arranque => TrasAgregar = "buscar"
        /\ cima.hace # Arranque => TrasAgregar \in {"agregar", "abrirComando"}
        /\ TrasAgregar = "agregar" => cima.quedan > 0
    BY <1>1, <2>1, TrasAgregarEs
  <2>. QED
    BY <1>2, <2>1, <2>2, <2>3, IrInvariante DEF Cerrados, Iniciales, PorVolver, Tempranos
<1>. QED
  BY <1>3, <1>4, <1>5, <1>6, <1>7 DEF agregarProceso

\* The timer's handler.
LEMMA TimerInvariante == ASSUME IInv, Int_timer PROVE IInv'
<1>1. Base /\ TiposResto
  BY DEF IInv, Base
<1>2. /\ MarcoBien(cima)
      /\ cima.hace # Arranque /\ pila[1].paso # "dormir" =>
           ~elegido /\ ~evento_teclado /\ cima.paso \in Tempranos
  BY <1>1, Situacion
<1>3. cima.hace = Timer /\ cima.hace # Arranque
  <2>1. cima.hace = Timer
    BY DEF Int_timer, Aumentar, Relevar, Ejecutar, EjecutarSinDatos, Actualizar, Habilitar, Ahora
  <2>. QED
    BY <2>1 DEF Timer, Arranque
<1>4. CASE Aumentar
  <2>1. contador' \in 0 .. (TicksPorQuantum - 1)
    <3>1. contador' = (contador + 1) % TicksPorQuantum
      BY <1>4 DEF Aumentar
    <3>2. contador + 1 \in Int /\ TicksPorQuantum \in Nat \ {0}
      BY <1>1, CotasPositivas DEF TiposResto
    <3>3. \A x \in Int, n \in Nat \ {0} : x % n \in 0 .. (n - 1)
      OBVIOUS
    <3>. QED
      BY <3>1, <3>2, <3>3
  <2>2. /\ cima.paso = "aumentar" /\ enServicio' = enServicio /\ elegido' = elegido
        /\ evento_teclado' = evento_teclado /\ pendientes' = pendientes
        /\ desenmascarado' = desenmascarado /\ hayListos' = hayListos
    BY <1>4 DEF Aumentar, Ahora, pic
  <2>3. rflagsIF' \in BOOLEAN
    BY <1>4 DEF Aumentar, TrasAumentar, Cli, Fallo_pagina, Imprime, Sti
  <2>4. TiposResto'
    BY <1>1, <2>1, <2>2, <2>3 DEF TiposResto
  <2>5. CASE Ir("eoi") \/ Ir("fallo")
    BY <1>2, <1>3, <2>2, <2>4, <2>5, IrInvariante
       DEF Pasos, Cerrados, Iniciales, PorVolver, Tempranos
  <2>6. CASE elegido /\ Ir("operar") /\ Cli
    BY <1>2, <1>3, <2>2, <2>4, <2>6, IrInvariante
       DEF Pasos, Iniciales, PorVolver, Cli
  <2>. QED
    BY <1>4, <2>5, <2>6 DEF Aumentar, TrasAumentar, Fallo_pagina
<1>5. CASE Relevar
  <2>1. /\ cima.paso = "operar" /\ Ir("eoi") /\ enServicio' = enServicio /\ elegido' = elegido
        /\ evento_teclado' = evento_teclado
    BY <1>5 DEF Relevar, Ahora, pic, nucleo
  <2>2. TiposResto'
    BY <1>1, <1>5 DEF Relevar, TiposResto, pic, nucleo
  <2>3. pila[1].paso = "dormir"
    BY <1>2, <1>3, <2>1 DEF Tempranos
  <2>. QED
    BY <1>3, <2>1, <2>2, <2>3, IrInvariante DEF Pasos, Cerrados, Iniciales, PorVolver
<1>6. CASE Ejecutar
  <2>1. /\ cima.paso = "operar" /\ Ir("actualizar") /\ enServicio' = enServicio
        /\ elegido' = elegido
    BY <1>6 DEF Ejecutar, Ahora, pic
  <2>2. TiposResto'
    BY <1>1, <1>6 DEF Ejecutar, Imprime, Sti, TiposResto, pic
  <2>3. pila[1].paso = "dormir"
    BY <1>2, <1>3, <2>1 DEF Tempranos
  <2>. QED
    BY <1>3, <2>1, <2>2, <2>3, IrInvariante DEF Pasos, Cerrados, Iniciales, PorVolver
<1>7. CASE EjecutarSinDatos
  <2>1. cima.paso = "operar" /\ Ir("fallo") /\ enServicio' = enServicio
    BY <1>7 DEF EjecutarSinDatos, Ahora, Fallo_pagina, pic
  <2>2. TiposResto'
    BY <1>1, <1>7 DEF EjecutarSinDatos, Fallo_pagina, Imprime, Sti, TiposResto, pic, nucleo
  <2>3. pila[1].paso = "dormir"
    BY <1>2, <1>3, <2>1 DEF Tempranos
  <2>. QED
    BY <1>3, <2>1, <2>2, <2>3, IrInvariante DEF Pasos, Cerrados, Iniciales, PorVolver
<1>8. CASE Actualizar
  <2>1. /\ cima.paso = "actualizar" /\ Ir("eoi") /\ enServicio' = enServicio
        /\ elegido' = elegido /\ evento_teclado' = evento_teclado
    BY <1>8 DEF Actualizar, Ahora, pic
  <2>2. TiposResto'
    BY <1>1, <1>8 DEF Actualizar, Imprime, Sti, TiposResto, pic
  <2>3. pila[1].paso = "dormir"
    BY <1>2, <1>3, <2>1 DEF Tempranos
  <2>. QED
    BY <1>3, <2>1, <2>2, <2>3, IrInvariante DEF Pasos, Cerrados, Iniciales, PorVolver
<1>9. CASE Habilitar
  <2>1. /\ cima.paso = "sti" /\ Ir("iret") /\ enServicio' = enServicio /\ elegido' = elegido
        /\ evento_teclado' = evento_teclado
    BY <1>9 DEF Habilitar, Ahora, pic, nucleo
  <2>2. TiposResto'
    BY <1>1, <1>9 DEF Habilitar, Sti, TiposResto, pic, nucleo
  <2>. QED
    BY <1>2, <1>3, <2>1, <2>2, IrInvariante
       DEF Pasos, Cerrados, Iniciales, PorVolver, Tempranos
<1>. QED
  BY <1>4, <1>5, <1>6, <1>7, <1>8, <1>9 DEF Int_timer

\* The keyboard's handler: of what it does before _start sleeps, only the end
\* is left, because the keyboard is not enabled.
LEMMA TecladoInvariante == ASSUME IInv, Int_teclado PROVE IInv'
<1>1. Base /\ TiposResto
  BY DEF IInv, Base
<1>2. /\ MarcoBien(cima) /\ cima \in Marcos
      /\ cima.paso \in Cerrados => ~rflagsIF
      /\ cima.hace # Arranque /\ pila[1].paso # "dormir" =>
           ~elegido /\ ~evento_teclado /\ cima.paso \in Tempranos
  BY <1>1, Situacion
<1>3. cima.hace # Arranque
  <2>1. cima.hace = Teclado
    BY DEF Int_teclado, Recibir, CerrarComando, Comando, Matar, Listar, SeguirLista,
           AbrirComando, Ahora
  <2>. QED
    BY <2>1 DEF Teclado, Arranque
<1>4. CASE Recibir
  <2>1. /\ cima.paso = "recibir" /\ enServicio' = enServicio /\ elegido' = elegido
        /\ evento_teclado' = evento_teclado
    BY <1>4 DEF Recibir, Ahora, pic, nucleo
  <2>2. TiposResto'
    BY <1>1, <1>4 DEF Recibir, TiposResto, pic, nucleo, Imprime, Sti, Fallo_pagina
  <2>3. CASE Ir("eoi") \/ Ir("fallo")
    BY <1>2, <1>3, <2>1, <2>2, <2>3, IrInvariante
       DEF Pasos, Cerrados, Iniciales, PorVolver, Tempranos
  <2>4. CASE evento_teclado /\ Ir("enter")
    BY <1>2, <1>3, <2>1, <2>2, <2>4, IrInvariante DEF Pasos, Cerrados, Iniciales, PorVolver
  <2>. QED
    BY <1>4, <2>3, <2>4 DEF Recibir, Fallo_pagina
\* The other steps come after a key that needs the keyboard enabled.
<1>5. ASSUME NEW p \in Pasos \ (Tempranos \cup PorVolver), cima.paso = p,
             NEW r \in Pasos \ (PorVolver \cup {"buscar", "elegir", "agregar", "actualizar"}),
             Ir(r),
             TiposResto', enServicio' = enServicio, r \in Cerrados => ~rflagsIF'
      PROVE  IInv'
  <2>1. pila[1].paso = "dormir"
    BY <1>2, <1>3, <1>5
  <2>. QED
    BY <1>3, <1>5, <2>1, IrInvariante
<1>6. CASE CerrarComando
  BY <1>1, <1>5, <1>6
     DEF CerrarComando, Ahora, Cli, TiposResto, pic, nucleo, Pasos, Tempranos, PorVolver
<1>7. CASE Comando
  <2>1. /\ cima.paso = "comando" /\ enServicio' = enServicio /\ elegido' = elegido
        /\ evento_teclado' = evento_teclado
    BY <1>7 DEF Comando, Ahora, pic, nucleo
  <2>2. TiposResto'
    BY <1>1, <1>7 DEF Comando, TiposResto, pic, nucleo, Imprime, Sti
  <2>3. ~rflagsIF
    BY <1>2, <2>1 DEF Cerrados
  <2>4. ASSUME NEW n \in {1, CreacionesRun1},
               pila' = [pila EXCEPT ![Len(pila)].paso = "agregar", ![Len(pila)].quedan = n]
        PROVE  IInv'
    <3> DEFINE m == [cima EXCEPT !.paso = "agregar", !.quedan = n]
    <3>1. n \in 0 .. CreacionesRun1 /\ n > 0 /\ "agregar" \in Pasos
      BY CotasPositivas DEF Pasos
    <3>2. /\ m \in Marcos /\ m.paso = "agregar" /\ m.quedan = n /\ m.hace = cima.hace
          /\ m.guardado = cima.guardado
      BY <1>2, <3>1 DEF Marcos
    <3>3. CambiaCima(m)
      <4>1. Len(pila) \in 1 .. Len(pila) /\ pila \in Seq(Marcos) /\ cima = pila[Len(pila)]
        BY <1>1, CimaBien
      <4>. QED
        BY <2>4, <4>1 DEF CambiaCima
    <3> HIDE DEF m
    <3>4. MarcoBien(m)
      BY <1>2, <1>3, <3>1, <3>2 DEF MarcoBien
    <3>5. pila[1].paso = "dormir" /\ Len(pila) # 1
      BY <1>1, <1>2, <1>3, <2>1, Situacion DEF Tempranos
    <3>6. Admite(m)
      BY <3>2, <3>3, <3>4, <3>5 DEF Admite, Cerrados
    <3>. QED
      BY <2>1, <2>2, <3>2, <3>6, CambioInvariante DEF PorVolver
  <2>5. ASSUME NEW paso \in {"matar", "listar", "abrirComando"}, Ir(paso), rflagsIF' = rflagsIF
        PROVE  IInv'
    BY <1>5, <2>1, <2>2, <2>3, <2>5 DEF Pasos, Tempranos, PorVolver
  <2>6. ASSUME Ir("abrirComando") PROVE IInv'
    BY <1>5, <2>1, <2>2, <2>6 DEF Pasos, Tempranos, PorVolver, Cerrados
  <2>. QED
    BY <1>7, <2>4, <2>5, <2>6 DEF Comando
<1>8. CASE Matar
  BY <1>1, <1>5, <1>8
     DEF Matar, Ahora, Imprime, Sti, TiposResto, pic, Pasos, Tempranos, PorVolver, Cerrados
<1>9. CASE Listar
  BY <1>1, <1>5, <1>9
     DEF Listar, Ahora, Imprime, Sti, TiposResto, pic, nucleo, Pasos, Tempranos, PorVolver, Cerrados
<1>10. CASE SeguirLista
  BY <1>1, <1>5, <1>10
     DEF SeguirLista, Ahora, Sti, TiposResto, pic, nucleo, Pasos, Tempranos, PorVolver, Cerrados
<1>11. CASE AbrirComando
  <2>1. /\ cima.paso = "abrirComando" /\ Ir("eoi") /\ enServicio' = enServicio
    BY <1>11 DEF AbrirComando, Ahora, pic
  <2>2. TiposResto'
    BY <1>1, <1>11 DEF AbrirComando, Sti, TiposResto, pic, nucleo
  <2>. QED
    BY <1>5, <2>1, <2>2 DEF Pasos, Tempranos, PorVolver, Cerrados
<1>. QED
  BY <1>4, <1>6, <1>7, <1>8, <1>9, <1>10, <1>11 DEF Int_teclado

\* With two requests in service they are those of two handlers, the better on
\* top: the one that pic_end_master acknowledges is that of the handler on top.
LEMMA ReconocimientoInvariante == ASSUME IInv, pic_end_master PROVE IInv'
<1>1. Base /\ TiposResto /\ CadaEOIEsSuyo
  BY DEF IInv, Base
<1>2. /\ MarcoBien(cima) /\ cima \in Marcos /\ cima.paso = "eoi" /\ cima.hace \in Lineas
      /\ cima = pila[Len(pila)] /\ Len(pila) \in 2 .. Len(pila)
      /\ pila \in Seq(Marcos) /\ Len(pila) \in Nat
      /\ pila[1].paso # "dormir" => ~elegido /\ ~evento_teclado
  <2>1. cima.paso = "eoi" /\ cima.hace \in Lineas
    BY DEF pic_end_master, Ahora
  <2>2. cima.hace # Arranque
    BY <2>1 DEF Lineas, Timer, Teclado, Arranque
  <2>3. Len(pila) # 1 /\ Len(pila) \in Nat \ {0} /\ cima = pila[Len(pila)]
    BY <1>1, <2>2, CimaBien
  <2>4. Len(pila) \in 2 .. Len(pila)
    <3>1. \A n \in Nat \ {0} : n # 1 => n \in 2 .. n
      OBVIOUS
    <3>. QED
      BY <2>3, <3>1
  <2>. QED
    BY <1>1, <2>1, <2>2, <2>3, <2>4, CimaBien, Situacion
<1> DEFINE r == IF cima.hace = Timer THEN "sti" ELSE "iret"
           m == [cima EXCEPT !.paso = r]
<1>3. r \in PorVolver /\ r \in Pasos /\ r \notin {"eoi", "buscar", "elegir", "agregar", "actualizar"}
  BY DEF PorVolver, Pasos
<1>4. Ir(r) /\ enServicio' = {q \in enServicio : \E p \in enServicio : p < q}
  BY DEF pic_end_master
<1> HIDE DEF r
<1>5. /\ m \in Marcos /\ m.paso = r /\ m.hace = cima.hace
      /\ m.quedan = cima.quedan /\ m.guardado = cima.guardado
  BY <1>2, <1>3 DEF Marcos
<1>6. CambiaCima(m)
  <2>1. pila' = [pila EXCEPT ![Len(pila)] = [pila[Len(pila)] EXCEPT !.paso = r]]
    BY <1>4 DEF Ir
  <2>. QED
    BY <2>1 DEF CambiaCima, cima
<1> HIDE DEF m
<1>7. MarcoBien(m)
  BY <1>2, <1>3, <1>5 DEF MarcoBien, Lineas, Timer, Teclado, Arranque
<1>8. elegido' = elegido /\ evento_teclado' = evento_teclado /\ TiposResto'
  BY <1>1 DEF pic_end_master, nucleo, TiposResto
<1>9. Len(pila) # 1
  BY <1>2
<1>10. Admite(m)
  BY <1>2, <1>3, <1>5, <1>6, <1>7, <1>8, <1>9 DEF Admite, PorVolver, Cerrados, Tempranos
<1>11. Base'
  BY <1>1, <1>8, <1>10, CambioBase
<1>12. /\ Len(pila') = Len(pila) /\ pila'[Len(pila)] = m
       /\ \A i \in 1 .. (Len(pila) - 1) : pila'[i] = pila[i]
  BY <1>1, <1>5, <1>6, PilaTrasCambio
<1>13. PorReconocer' = PorReconocer \ {Len(pila)}
  <2>1. ASSUME NEW i \in 2 .. Len(pila)
        PROVE  i # Len(pila) => i \in 1 .. (Len(pila) - 1)
    BY <1>2
  <2>2. ASSUME NEW i \in 2 .. Len(pila)
        PROVE  pila'[i].paso \notin PorVolver <=> (pila[i].paso \notin PorVolver /\ i # Len(pila))
    <3>1. CASE i = Len(pila)
      BY <1>3, <1>5, <1>12, <3>1
    <3>2. CASE i # Len(pila)
      BY <1>12, <2>1, <3>2
    <3>. QED
      BY <3>1, <3>2
  <2>. QED
    BY <1>12, <2>2 DEF PorReconocer, PorVolver
<1>14. Len(pila) \in PorReconocer
  BY <1>2 DEF PorReconocer
<1>15. \A i \in PorReconocer : i # Len(pila) => i < Len(pila) /\ pila'[i] = pila[i]
  <2>1. \A i \in PorReconocer : i \in 2 .. Len(pila)
    BY DEF PorReconocer
  <2>2. \A i \in 2 .. Len(pila) : i # Len(pila) => i < Len(pila) /\ i \in 1 .. (Len(pila) - 1)
    BY <1>2
  <2>. QED
    BY <1>12, <2>1, <2>2
<1>16. \A i \in PorReconocer : i # Len(pila) => cima.hace < pila[i].hace
  BY <1>1, <1>2, <1>14, <1>15 DEF CadaEOIEsSuyo
<1>17. enServicio = {pila[i].hace : i \in PorReconocer} /\ enServicio \subseteq Lineas
  BY <1>1 DEF CadaEOIEsSuyo, IInv
<1>18. enServicio' = {pila'[i].hace : i \in PorReconocer'}
  <2>1. \A q \in enServicio : q \in Int
    BY <1>17 DEF Lineas, Timer, Teclado
  <2>2. cima.hace \in enServicio
    BY <1>2, <1>14, <1>17
  <2>3. \A q \in enServicio : q = cima.hace \/ cima.hace < q
    BY <1>2, <1>16, <1>17
  <2>4. enServicio' = enServicio \ {cima.hace}
    BY <1>4, <2>1, <2>2, <2>3
  <2>5. enServicio \ {cima.hace} = {pila[i].hace : i \in PorReconocer \ {Len(pila)}}
    <3>1. \A i \in PorReconocer \ {Len(pila)} : pila[i].hace \in enServicio /\ pila[i].hace # cima.hace
      BY <1>16, <1>17, <2>1, <2>2
    <3>2. \A q \in enServicio \ {cima.hace} : \E i \in PorReconocer \ {Len(pila)} : q = pila[i].hace
      BY <1>2, <1>17
    <3>. QED
      BY <3>1, <3>2
  <2>. QED
    BY <1>13, <1>15, <2>4, <2>5
<1>19. \A i, j \in PorReconocer' : i < j => pila'[j].hace < pila'[i].hace
  BY <1>1, <1>13, <1>15 DEF CadaEOIEsSuyo
<1>20. CadaEOIEsSuyo' /\ enServicio' \subseteq Lineas
  BY <1>4, <1>17, <1>18, <1>19 DEF CadaEOIEsSuyo
<1>. QED
  BY <1>11, <1>20 DEF IInv

\* The return of a handler.
LEMMA VolverInvariante == ASSUME IInv, Volver PROVE IInv'
<1>1. Base /\ TiposResto /\ CadaEOIEsSuyo
  BY DEF IInv, Base
<1>2. /\ MarcoBien(cima) /\ cima.paso = "iret" /\ cima.hace \in Lineas /\ cima.hace # Arranque
      /\ cima = pila[Len(pila)] /\ pila \in Seq(Marcos)
      /\ Len(pila) \in Nat \ {0} /\ Len(pila) # 1
  <2>1. cima.paso = "iret" /\ cima.hace \in Lineas
    BY DEF Volver, Ahora
  <2>2. cima.hace # Arranque
    BY <2>1 DEF Lineas, Timer, Teclado, Arranque
  <2>. QED
    BY <1>1, <2>1, <2>2, CimaBien
<1> DEFINE n == Len(pila) - 1
<1>3. n \in Nat \ {0} /\ Len(pila) = n + 1
  BY <1>2
<1>4. pila' = SubSeq(pila, 1, n) /\ rflagsIF' /\ rflagsIF' \in BOOLEAN /\ UNCHANGED <<pic, nucleo>>
  BY <1>2 DEF Volver, MarcoBien, Marcos
<1> HIDE DEF n
<1>5. pila' \in Seq(Marcos) /\ Len(pila') = n /\ \A i \in 1 .. n : pila'[i] = pila[i]
  <2>1. \A i \in 1 .. n : pila[i] \in Marcos
    BY <1>2, <1>3
  <2>2. /\ SubSeq(pila, 1, n) \in Seq(Marcos)
        /\ Len(SubSeq(pila, 1, n)) = IF 1 <= n THEN n - 1 + 1 ELSE 0
        /\ \A i \in 1 .. (n - 1 + 1) : SubSeq(pila, 1, n)[i] = pila[1 + i - 1]
    BY <1>3, <2>1, SubSeqProperties
  <2>. QED
    BY <1>3, <1>4, <2>2
<1>6. \A i \in 1 .. n : i \in 1 .. Len(pila) /\ i # Len(pila)
  BY <1>3
<1>7. PilaBien'
  <2>1. Len(pila') \in 1 .. (Profundidad + 1)
    BY <1>1, <1>3, <1>5, CotasPositivas DEF Base, PilaBien
  <2>2. \A i \in 1 .. n : MarcoBien(pila'[i]) /\ (pila'[i].hace = Arranque <=> i = 1)
    BY <1>1, <1>5, <1>6 DEF Base, PilaBien
  <2>. QED
    BY <1>5, <2>1, <2>2 DEF PilaBien, MarcoBien
<1>8. TiposResto'
  BY <1>1, <1>4 DEF TiposResto, pic, nucleo
<1>9. CerradosArriba'
  <2>1. \A i \in 1 .. n : pila'[i].paso \notin Arriba
    BY <1>1, <1>5, <1>6 DEF Base, CerradosArriba
  <2>. QED
    BY <1>5, <2>1 DEF CerradosArriba, Arriba, Cerrados
<1>10. NadieAntes'
  <2>1. pila'[1] = pila[1] /\ \A i \in 2 .. n : pila'[i] = pila[i] /\ i \in 2 .. Len(pila)
    BY <1>3, <1>5
  <2>2. elegido' = elegido /\ evento_teclado' = evento_teclado
    BY <1>4 DEF nucleo
  <2>. QED
    BY <1>1, <1>5, <2>1, <2>2 DEF Base, NadieAntes, Tempranos
<1>11. AbiertoAlDormir'
  BY <1>4 DEF AbiertoAlDormir
<1>12. PorReconocer' = PorReconocer
  <2>1. Len(pila) \notin PorReconocer
    BY <1>2 DEF PorReconocer
  <2>2. \A i : i \in 2 .. n <=> i \in 2 .. Len(pila) /\ i # Len(pila)
    BY <1>3
  <2>3. \A i \in 2 .. n : pila'[i] = pila[i]
    BY <1>5
  <2>. QED
    BY <1>5, <2>1, <2>2, <2>3 DEF PorReconocer
<1>13. \A i \in PorReconocer : pila'[i] = pila[i]
  <2>1. \A i \in PorReconocer : i \in 1 .. n
    <3>1. \A i \in PorReconocer : i \in 2 .. Len(pila) /\ i # Len(pila)
      BY <1>2 DEF PorReconocer
    <3>. QED
      BY <1>3, <3>1
  <2>. QED
    BY <1>5, <2>1
<1>14. CadaEOIEsSuyo' /\ enServicio' \subseteq Lineas
  BY <1>1, <1>4, <1>12, <1>13 DEF CadaEOIEsSuyo, IInv, pic
<1>. QED
  BY <1>7, <1>8, <1>9, <1>10, <1>11, <1>14 DEF IInv, Base

\* The delivery of a request: its handler goes on top, and cuts in on one of
\* worse priority if any has not acknowledged.
LEMMA InterrumpirInvariante ==
  ASSUME IInv, NEW linea \in Lineas, Interrumpir(linea)
  PROVE  IInv'
<1>1. Base /\ TiposResto /\ CadaEOIEsSuyo
  BY DEF IInv, Base
<1>2. pila \in Seq(Marcos) /\ Len(pila) \in Nat \ {0}
  BY <1>1, CimaBien
<1> DEFINE n == Len(pila)
           m == [hace |-> linea, guardado |-> rflagsIF, quedan |-> 0,
                 paso |-> IF linea = Timer THEN "aumentar" ELSE "recibir"]
<1>3. /\ rflagsIF /\ rflagsIF \in BOOLEAN /\ n <= Profundidad /\ pila' = Append(pila, m)
      /\ rflagsIF' = FALSE
      /\ \A q \in enServicio \cup (pendientes \ {linea}) : linea < q
      /\ pendientes' = pendientes \ {linea} /\ enServicio' = enServicio \cup {linea}
      /\ desenmascarado' = desenmascarado /\ contador' = contador /\ hayListos' = hayListos
      /\ elegido' = elegido /\ evento_teclado' = evento_teclado
  BY <1>1 DEF Interrumpir, Cli, TiposResto, nucleo
<1>4. linea # Arranque /\ linea \in Int
  BY DEF Lineas, Timer, Teclado, Arranque
<1>5. /\ m.hace = linea /\ m.guardado = rflagsIF /\ m.paso \in {"aumentar", "recibir"}
      /\ m \in Marcos
  <2>1. 0 \in 0 .. CreacionesRun1
    BY CotasPositivas
  <2>. QED
    BY <1>3, <2>1 DEF Marcos, Pasos
<1> HIDE DEF m
<1>6. MarcoBien(m)
  BY <1>3, <1>4, <1>5 DEF MarcoBien, Iniciales
<1>7. /\ pila' \in Seq(Marcos) /\ Len(pila') = n + 1 /\ pila'[n + 1] = m
      /\ \A i \in 1 .. n : pila'[i] = pila[i]
  BY <1>2, <1>3, <1>5, AppendProperties
<1> HIDE DEF n
<1>8. n \in Nat \ {0} /\ n = Len(pila)
  BY <1>2 DEF n
<1>9. \A i \in 1 .. (n + 1) : i \in 1 .. n \/ i = n + 1
  BY <1>8
<1>10. PilaBien'
  <2>1. Len(pila') \in 1 .. (Profundidad + 1)
    BY <1>3, <1>7, <1>8, CotasPositivas
  <2>2. ASSUME NEW i \in 1 .. (n + 1)
        PROVE  MarcoBien(pila'[i]) /\ (pila'[i].hace = Arranque <=> i = 1)
    <3>1. CASE i \in 1 .. n
      BY <1>1, <1>7, <1>8, <3>1 DEF Base, PilaBien
    <3>2. CASE i = n + 1
      <4>1. i # 1
        BY <1>8, <3>2
      <4>. QED
        BY <1>4, <1>5, <1>6, <1>7, <3>2, <4>1
    <3>. QED
      BY <1>9, <3>1, <3>2
  <2>. QED
    BY <1>7, <2>1, <2>2 DEF PilaBien, MarcoBien
<1>11. TiposResto'
  BY <1>1, <1>3 DEF TiposResto
<1>12. CerradosArriba'
  <2>1. ASSUME NEW i \in 1 .. n, pila[i].paso = "actualizar" PROVE FALSE
    <3>1. pila[i].hace = Timer /\ Timer # Arranque
      BY <1>1, <1>8, <2>1 DEF Base, PilaBien, MarcoBien, Timer, Arranque
    <3>2. i \in PorReconocer
      <4>1. i # 1
        BY <1>1, <1>8, <3>1 DEF Base, PilaBien
      <4>2. i \in 2 .. Len(pila)
        BY <1>8, <2>1, <4>1
      <4>. QED
        BY <2>1, <4>2 DEF PorReconocer
    <3>3. Timer \in enServicio
      BY <1>1, <3>1, <3>2 DEF CadaEOIEsSuyo
    <3>4. linea < Timer
      BY <1>3, <3>3
    <3>. QED
      BY <3>4 DEF Lineas, Timer, Teclado
  <2>2. \A i \in 1 .. n : pila'[i].paso \notin Arriba
    BY <1>1, <1>3, <1>7, <1>8, <2>1 DEF Base, CerradosArriba, Arriba
  <2>3. pila'[n + 1].paso \notin Arriba
    BY <1>5, <1>7 DEF Arriba, Cerrados
  <2>. QED
    BY <1>7, <1>9, <2>2, <2>3 DEF CerradosArriba, Arriba, Cerrados
<1>13. NadieAntes'
  <2>1. pila'[1] = pila[1]
    BY <1>7, <1>8
  <2>2. \A i \in 2 .. (n + 1) : (i \in 2 .. n /\ i \in 1 .. n) \/ i = n + 1
    BY <1>8
  <2>3. pila'[1].paso # "dormir" => \A i \in 2 .. (n + 1) : pila'[i].paso \in Tempranos
    BY <1>1, <1>5, <1>7, <1>8, <2>1, <2>2 DEF Base, NadieAntes, Tempranos
  <2>. QED
    BY <1>1, <1>3, <1>7, <2>1, <2>3 DEF Base, NadieAntes, Tempranos
<1>14. AbiertoAlDormir'
  <2>1. n + 1 # 1
    BY <1>8
  <2>. QED
    BY <1>7, <2>1 DEF AbiertoAlDormir
<1>15. PorReconocer' = PorReconocer \cup {n + 1}
  <2>1. \A i : i \in 2 .. (n + 1) <=> i \in 2 .. n \/ i = n + 1
    BY <1>8
  <2>2. \A i \in 2 .. n : pila'[i] = pila[i]
    BY <1>7, <1>8
  <2>3. pila'[n + 1].paso \notin {"sti", "iret"}
    BY <1>5, <1>7
  <2>. QED
    BY <1>7, <1>8, <2>1, <2>2, <2>3 DEF PorReconocer
<1>16. \A i \in PorReconocer : i \in Int /\ i < n + 1 /\ pila'[i] = pila[i]
  <2>1. \A i \in PorReconocer : i \in 2 .. n
    BY <1>8 DEF PorReconocer
  <2>. QED
    BY <1>7, <1>8, <2>1
<1>17. enServicio = {pila[i].hace : i \in PorReconocer} /\ enServicio \subseteq Lineas
  BY <1>1 DEF CadaEOIEsSuyo, IInv
<1>18. \A i \in PorReconocer : linea < pila[i].hace
  BY <1>3, <1>17
<1>19. enServicio' = {pila'[i].hace : i \in PorReconocer'}
  <2>1. {pila'[i].hace : i \in PorReconocer'} = {pila'[i].hace : i \in PorReconocer} \cup {linea}
    BY <1>5, <1>7, <1>15
  <2>2. {pila'[i].hace : i \in PorReconocer} = {pila[i].hace : i \in PorReconocer}
    BY <1>16
  <2>. QED
    BY <1>3, <1>17, <2>1, <2>2
<1>20. \A i, j \in PorReconocer' : i < j => pila'[j].hace < pila'[i].hace
  <2>1. ASSUME NEW i \in PorReconocer', NEW j \in PorReconocer', i < j
        PROVE  pila'[j].hace < pila'[i].hace
    <3>1. i \in PorReconocer
      BY <1>8, <1>15, <1>16, <2>1
    <3>2. CASE j \in PorReconocer
      BY <1>1, <1>16, <2>1, <3>1, <3>2 DEF CadaEOIEsSuyo
    <3>3. CASE j = n + 1
      BY <1>5, <1>7, <1>16, <1>18, <3>1, <3>3
    <3>. QED
      BY <1>15, <3>2, <3>3
  <2>. QED
    BY <2>1
<1>21. CadaEOIEsSuyo' /\ enServicio' \subseteq Lineas
  BY <1>3, <1>17, <1>19, <1>20 DEF CadaEOIEsSuyo
<1>. QED
  BY <1>10, <1>11, <1>12, <1>13, <1>14, <1>21 DEF IInv, Base

\* A step that leaves the stack, the flag and what _start has set up alone.
LEMMA QuietoInvariante ==
  ASSUME IInv, UNCHANGED <<cpu, enServicio, nucleo>>,
         pendientes' \subseteq Lineas, desenmascarado' \in BOOLEAN
  PROVE  IInv'
BY DEF IInv, Base, TiposResto, PilaBien, MarcoBien, CerradosArriba, Arriba, Cerrados,
       NadieAntes,
       Tempranos, AbiertoAlDormir, CadaEOIEsSuyo, PorReconocer, cpu, nucleo

\* Every step preserves the invariant.
LEMMA PasoInvariante == ASSUME IInv, [Next]_vars PROVE IInv'
<1>1. TiposResto
  BY DEF IInv, Base
<1>2. CASE IniciarNucleo
  BY <1>2, IniciarInvariante
<1>3. CASE agregarProceso
  BY <1>3, AgregarInvariante
<1>4. CASE Int_timer
  BY <1>4, TimerInvariante
<1>5. CASE Int_teclado
  BY <1>5, TecladoInvariante
<1>6. CASE Fin
  BY <1>6, ReconocimientoInvariante, VolverInvariante DEF Fin
<1>7. ASSUME NEW linea \in Lineas, Pedir(linea) PROVE IInv'
  BY <1>1, <1>7, QuietoInvariante DEF Pedir, TiposResto
<1>8. ASSUME NEW linea \in Lineas, Interrumpir(linea) PROVE IInv'
  BY <1>8, InterrumpirInvariante
<1>9. CASE Detenido \/ UNCHANGED vars
  BY <1>1, <1>9, QuietoInvariante DEF Detenido, vars, pic, TiposResto
<1>. QED
  BY <1>2, <1>3, <1>4, <1>5, <1>6, <1>7, <1>8, <1>9 DEF Next

-----------------------------------------------------------------------------
(* The theorems.                                                            *)

\* The invariant holds in every reachable state.
THEOREM InvarianteInductivo == Spec => []IInv
<1>1. Init => IInv
  BY InicioInvariante
<1>2. IInv /\ [Next]_vars => IInv'
  BY PasoInvariante
<1>. QED
  BY <1>1, <1>2, PTL DEF Spec

\* Type correctness, whatever the depth of the handlers: only _start is at the
\* bottom of the stack, and run1 never has more creations left than it began with.
THEOREM TipoCorrecto == Spec => []TipoOK
<1>1. IInv => TipoOK
  BY InvarianteTipa
<1>. QED
  BY <1>1, InvarianteInductivo, PTL

\* The operations on the process table exclude one another, whoever cuts in on
\* whom: scheduler_RR of _start, which runs with the interrupts enabled, included.
THEOREM LaTablaEsDeUno == Spec => []ExclusionTabla
<1>1. IInv => ExclusionTabla
  BY InvarianteExcluye
<1>. QED
  BY <1>1, InvarianteInductivo, PTL

\* pic_end_master, which names no line, acknowledges that of its caller.
THEOREM ReconoceElSuyo == Spec => []CadaEOIEsSuyo
<1>1. IInv => CadaEOIEsSuyo
  BY DEF IInv
<1>. QED
  BY <1>1, InvarianteInductivo, PTL

\* A kernel that sleeps has the interrupts enabled and no request left in service.
THEOREM SiempreDespertable == Spec => []DuermeDespertable
<1>1. IInv => DuermeDespertable
  BY InvarianteDespierta
<1>. QED
  BY <1>1, InvarianteInductivo, PTL

=============================================================================
