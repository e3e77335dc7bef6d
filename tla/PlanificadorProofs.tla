------------------------- MODULE PlanificadorProofs -------------------------
(***************************************************************************)
(* Theorems about Planificador, for every number of processes, degree of   *)
(* multiprogramming, algorithm, program and I/O time: the types, the       *)
(* inductive invariant and the safety theorems that follow from it, and    *)
(* the conversation of the Kernel's three threads with Memoria: what is    *)
(* asked of each process, in which order, and in which order the processes *)
(* enter memory.  And Planificador implements CicloDeVida: under the       *)
(* mapping estado, every step of a thread is one edge of the seven-state   *)
(* diagram or none.                                                        *)
(***************************************************************************)
EXTENDS Planificador, SequenceTheorems, FiniteSetTheorems, TLAPS

-----------------------------------------------------------------------------
(* Arithmetic *)

\* The average of two uint32_t values is one (planificador.c:344).
LEMMA PromedioTipo ==
    ASSUME NEW r \in 0..UINT32-1, NEW e \in 0..UINT32-1
    PROVE  Promedio(r, e) \in 0..UINT32-1
<1> DEFINE M == UINT32 - 1
           suma == NUM_ALFA * r + (DEN_ALFA - NUM_ALFA) * e
<1>1. /\ M \in Nat /\ r \in 0..M /\ e \in 0..M
      /\ NUM_ALFA \in Nat /\ DEN_ALFA - NUM_ALFA \in Nat /\ DEN_ALFA \in Nat \ {0}
  BY EstimacionAssumption
<1> HIDE DEF M
<1>2. \A a, x \in Nat : x <= M => a * x \in Nat /\ a * x <= a * M
  BY <1>1, SMT
<1>3. NUM_ALFA * r \in Nat /\ NUM_ALFA * r <= NUM_ALFA * M
  BY <1>1, <1>2
<1>4. /\ (DEN_ALFA - NUM_ALFA) * e \in Nat
      /\ (DEN_ALFA - NUM_ALFA) * e <= (DEN_ALFA - NUM_ALFA) * M
  BY <1>1, <1>2
<1>5. (DEN_ALFA - NUM_ALFA) * M + NUM_ALFA * M = DEN_ALFA * M
  BY <1>1, SMT
<1>6. suma \in Nat /\ suma <= DEN_ALFA * M
  BY <1>1, <1>3, <1>4, <1>5, SMT
<1> HIDE DEF suma
<1>7. suma \div DEN_ALFA \in 0..M
  BY <1>1, <1>6, SMT
<1> QED  BY <1>7 DEF Promedio, M, suma

\* The remaining estimate wraps around, so it is always a uint32_t (planificador.c:366).
LEMMA RestanteTipo ==
    ASSUME NEW r \in 0..UINT32-1, NEW e \in 0..UINT32-1
    PROVE  Restante(r, e) \in 0..UINT32-1
BY EstimacionAssumption, SMT DEF Restante

-----------------------------------------------------------------------------
(* Sequences *)

\* list_add and queue_push put the element last and keep the others.
LEMMA AppendPropiedades ==
    ASSUME NEW S, NEW s \in Seq(S), NEW e \in S
    PROVE  /\ Append(s, e) \in Seq(S)
           /\ Len(Append(s, e)) = Len(s) + 1
           /\ \A i \in 1..Len(s) : Append(s, e)[i] = s[i]
           /\ Append(s, e)[Len(s) + 1] = e
BY AppendProperties

\* list_remove and list_remove_by_condition shorten the list by one.
LEMMA RemoveAtPropiedades ==
    ASSUME NEW S, NEW s \in Seq(S), NEW k \in 1..Len(s)
    PROVE  /\ RemoveAt(s, k) \in Seq(S)
           /\ Len(RemoveAt(s, k)) = Len(s) - 1
           /\ \A i \in 1..Len(s)-1 :
                 RemoveAt(s, k)[i] = IF i < k THEN s[i] ELSE s[i + 1]
<1> DEFINE a == SubSeq(s, 1, k - 1)
           b == SubSeq(s, k + 1, Len(s))
<1>1. Len(s) \in Nat /\ \A i \in 1..Len(s) : s[i] \in S
  BY LenProperties, ElementOfSeq
<1>2. /\ a \in Seq(S) /\ Len(a) = k - 1
      /\ \A i \in 1..k-1 : a[i] = s[i]
  BY <1>1, SubSeqProperties
<1>3. /\ b \in Seq(S) /\ Len(b) = Len(s) - k
      /\ \A i \in 1..Len(s)-k : b[i] = s[i + k]
  BY <1>1, SubSeqProperties
<1> HIDE DEF a, b
<1>4. /\ a \o b \in Seq(S) /\ Len(a \o b) = Len(a) + Len(b)
      /\ \A i \in 1..Len(a)+Len(b) :
            (a \o b)[i] = IF i <= Len(a) THEN a[i] ELSE b[i - Len(a)]
  BY <1>2, <1>3, ConcatProperties
<1>5. ASSUME NEW i \in 1..Len(s)-1
      PROVE  (a \o b)[i] = IF i < k THEN s[i] ELSE s[i + 1]
  <2>1. (a \o b)[i] = IF i <= k - 1 THEN a[i] ELSE b[i - (k - 1)]
    BY <1>1, <1>2, <1>3, <1>4
  <2>2. CASE i < k
    BY <2>1, <2>2, <1>1, <1>2
  <2>3. CASE ~(i < k)
    <3>1. i - (k - 1) \in 1..Len(s)-k
      BY <2>3, <1>1
    <3>2. b[i - (k - 1)] = s[i - (k - 1) + k]
      BY <3>1, <1>3
    <3>3. i - (k - 1) + k = i + 1
      BY <1>1
    <3>4. ~(i <= k - 1) /\ ~(i < k)
      BY <2>3, <1>1
    <3>5. (a \o b)[i] = s[i + 1]
      BY <2>1, <3>2, <3>3, <3>4
    <3> QED  BY <3>4, <3>5
  <2> QED  BY <2>2, <2>3
<1>6. RemoveAt(s, k) = a \o b
  BY DEF RemoveAt, a, b
<1> QED  BY <1>1, <1>2, <1>3, <1>4, <1>5, <1>6

-----------------------------------------------------------------------------
(* Counting the appearances of a process in a list *)

\* The positions of a list that satisfy a condition are finitely many.
LEMMA IndicesFinitos ==
    ASSUME NEW n \in Nat, NEW A, A \subseteq 1..n
    PROVE  IsFiniteSet(A) /\ Cardinality(A) \in Nat
<1>1. IsFiniteSet(1..n)
  BY FS_Interval
<1>2. IsFiniteSet(A)
  BY <1>1, FS_Subset
<1> QED  BY <1>2, FS_CardinalityType

\* B holds the indices of A as they are once position k is removed.
Corridos(n, k, A, B) ==
    \A i \in 1..n : i \in B <=> (i < k /\ i \in A) \/ (~(i < k) /\ i + 1 \in A)

\* Removing position k takes one from the count iff it was counted.
LEMMA CuentaAlQuitar ==
    \A n \in Nat : \A A \in SUBSET (1..n+1), B \in SUBSET (1..n), k \in 1..n+1 :
        Corridos(n, k, A, B)
          => Cardinality(B) = IF k \in A THEN Cardinality(A) - 1 ELSE Cardinality(A)
<1> SUFFICES ASSUME NEW n \in Nat, NEW A \in SUBSET (1..n+1), NEW B \in SUBSET (1..n),
                    NEW k \in 1..n+1, Corridos(n, k, A, B)
             PROVE  Cardinality(B) = IF k \in A THEN Cardinality(A) - 1 ELSE Cardinality(A)
  OBVIOUS
<1> USE DEF Corridos
<1> DEFINE C == A \ {k}
           f == [i \in B |-> IF i < k THEN i ELSE i + 1]
<1>1. IsFiniteSet(A) /\ IsFiniteSet(B) /\ IsFiniteSet(C)
      /\ Cardinality(A) \in Nat
  <2>1. n + 1 \in Nat /\ B \subseteq 1..n /\ C \subseteq 1..n+1
    OBVIOUS
  <2> QED  BY <2>1, IndicesFinitos
<1>2. f \in Bijection(B, C)
  <2>1. f \in [B -> C]
    <3>1. ASSUME NEW i \in B
          PROVE  (IF i < k THEN i ELSE i + 1) \in C
      OBVIOUS
    <3> QED  BY <3>1
  <2>2. \A i, j \in B : f[i] = f[j] => i = j
    OBVIOUS
  <2>3. \A c \in C : \E i \in B : f[i] = c
    <3>1. ASSUME NEW c \in C
          PROVE  \E i \in B : f[i] = c
      <4>1. CASE c < k
        <5>1. c \in B
          BY <4>1
        <5> QED  BY <4>1, <5>1
      <4>2. CASE ~(c < k)
        <5>1. c - 1 \in B /\ ~(c - 1 < k) /\ (c - 1) + 1 = c
          BY <4>2
        <5> QED  BY <5>1
      <4> QED  BY <4>1, <4>2
    <3> QED  BY <3>1
  <2> HIDE DEF f, C
  <2> QED  BY <2>1, <2>2, <2>3 DEF Bijection, Injection, Surjection, IsInjective
<1>3. Cardinality(C) = Cardinality(B)
  BY <1>1, <1>2, FS_Bijection DEF ExistsBijection
<1>4. Cardinality(C) = IF k \in A THEN Cardinality(A) - 1 ELSE Cardinality(A)
  BY <1>1, FS_RemoveElement
<1> QED  BY <1>3, <1>4

\* list_add of a PCB counts one more appearance of it and of no other.
LEMMA VecesAlAgregar ==
    ASSUME NEW S, NEW s \in Seq(S), NEW e \in S, NEW p
    PROVE  /\ Veces(s, p) \in Nat
           /\ Veces(Append(s, e), p) = Veces(s, p) + Uno(e = p)
<1> DEFINE n == Len(s)
           A == {i \in DOMAIN s : s[i] = p}
           B == {i \in DOMAIN Append(s, e) : Append(s, e)[i] = p}
<1>1. n \in Nat /\ DOMAIN s = 1..n /\ DOMAIN Append(s, e) = 1..n+1
  BY LenProperties, AppendPropiedades
<1>2. A \subseteq 1..n /\ IsFiniteSet(A) /\ Cardinality(A) \in Nat /\ n + 1 \notin A
  BY <1>1, IndicesFinitos
<1>3. B = IF e = p THEN A \union {n + 1} ELSE A
  BY <1>1, AppendPropiedades
<1>4. Cardinality(A \union {n + 1}) = Cardinality(A) + 1
  BY <1>2, FS_AddElement
<1>5. Veces(s, p) = Cardinality(A) /\ Veces(Append(s, e), p) = Cardinality(B)
  BY DEF Veces
<1> HIDE DEF A, B
<1> QED  BY <1>2, <1>3, <1>4, <1>5 DEF Uno

\* list_remove of a position counts one appearance less of the PCB it held.
LEMMA VecesAlRemover ==
    ASSUME NEW S, NEW s \in Seq(S), NEW k \in 1..Len(s), NEW p
    PROVE  /\ Veces(s, p) \in Nat
           /\ Veces(RemoveAt(s, k), p) = Veces(s, p) - Uno(s[k] = p)
<1> DEFINE n == Len(s) - 1
           A == {i \in DOMAIN s : s[i] = p}
           B == {i \in DOMAIN RemoveAt(s, k) : RemoveAt(s, k)[i] = p}
<1>1. n \in Nat /\ DOMAIN s = 1..n+1 /\ DOMAIN RemoveAt(s, k) = 1..n
  BY LenProperties, RemoveAtPropiedades
<1>2. A \subseteq 1..n+1 /\ Cardinality(A) \in Nat
  BY <1>1, IndicesFinitos
<1>3. /\ B \subseteq 1..n
      /\ \A i \in 1..n : i \in B <=> (i < k /\ i \in A) \/ (~(i < k) /\ i + 1 \in A)
  <2>1. ASSUME NEW i \in 1..n
        PROVE  RemoveAt(s, k)[i] = IF i < k THEN s[i] ELSE s[i + 1]
    BY <1>1, RemoveAtPropiedades
  <2> QED  BY <1>1, <2>1
<1>4. Cardinality(B) = IF k \in A THEN Cardinality(A) - 1 ELSE Cardinality(A)
  <2>1. n \in Nat /\ k \in 1..n+1
    BY <1>1
  <2> HIDE DEF n, A, B
  <2>2. A \in SUBSET (1..n+1) /\ B \in SUBSET (1..n) /\ Corridos(n, k, A, B)
    BY <1>2, <1>3 DEF Corridos
  <2> QED  BY <2>1, <2>2, CuentaAlQuitar, Zenon
<1>5. k \in A <=> s[k] = p
  BY <1>1
<1> QED  BY <1>2, <1>4, <1>5 DEF Veces, Uno

\* queue_pop counts one appearance less of the PCB at the head.
LEMMA VecesEnCola ==
    ASSUME NEW S, NEW s \in Seq(S), s # <<>>, NEW p
    PROVE  /\ Veces(s, p) \in Nat
           /\ Veces(Tail(s), p) = Veces(s, p) - Uno(Head(s) = p)
<1> DEFINE n == Len(s) - 1
           A == {i \in DOMAIN s : s[i] = p}
           B == {i \in DOMAIN Tail(s) : Tail(s)[i] = p}
<1>1. n \in Nat /\ DOMAIN s = 1..n+1 /\ DOMAIN Tail(s) = 1..n /\ Head(s) = s[1]
  BY LenProperties, HeadTailProperties, EmptySeq
<1>2. A \subseteq 1..n+1 /\ Cardinality(A) \in Nat
  BY <1>1, IndicesFinitos
<1>3. /\ B \subseteq 1..n
      /\ \A i \in 1..n : i \in B <=> (i < 1 /\ i \in A) \/ (~(i < 1) /\ i + 1 \in A)
  BY <1>1, HeadTailProperties
<1>4. Cardinality(B) = IF 1 \in A THEN Cardinality(A) - 1 ELSE Cardinality(A)
  <2>1. n \in Nat /\ 1 \in 1..n+1
    BY <1>1
  <2> HIDE DEF n, A, B
  <2>2. A \in SUBSET (1..n+1) /\ B \in SUBSET (1..n) /\ Corridos(n, 1, A, B)
    BY <1>2, <1>3 DEF Corridos
  <2> QED  BY <2>1, <2>2, CuentaAlQuitar, Zenon
<1>5. 1 \in A <=> Head(s) = p
  BY <1>1
<1>6. Veces(s, p) = Cardinality(A) /\ Veces(Tail(s), p) = Cardinality(B)
  BY DEF Veces
<1> HIDE DEF A, B
<1> QED  BY <1>2, <1>4, <1>5, <1>6 DEF Uno

\* The same two facts for the queue of blocked processes, whose elements are
\* pairs of a process and the time of its I/O.
LEMMA VecesIOAlAgregar ==
    ASSUME NEW S, NEW s \in Seq(S), NEW e \in S, NEW p
    PROVE  /\ VecesIO(s, p) \in Nat
           /\ VecesIO(Append(s, e), p) = VecesIO(s, p) + Uno(e.pcb = p)
<1> DEFINE n == Len(s)
           A == {i \in DOMAIN s : s[i].pcb = p}
           B == {i \in DOMAIN Append(s, e) : Append(s, e)[i].pcb = p}
<1>1. n \in Nat /\ DOMAIN s = 1..n /\ DOMAIN Append(s, e) = 1..n+1
  BY LenProperties, AppendPropiedades
<1>2. A \subseteq 1..n /\ IsFiniteSet(A) /\ Cardinality(A) \in Nat /\ n + 1 \notin A
  BY <1>1, IndicesFinitos
<1>3. B = IF e.pcb = p THEN A \union {n + 1} ELSE A
  BY <1>1, AppendPropiedades
<1>4. Cardinality(A \union {n + 1}) = Cardinality(A) + 1
  BY <1>2, FS_AddElement
<1>5. VecesIO(s, p) = Cardinality(A) /\ VecesIO(Append(s, e), p) = Cardinality(B)
  BY DEF VecesIO
<1> HIDE DEF A, B
<1> QED  BY <1>2, <1>3, <1>4, <1>5 DEF Uno

\* Taking the head of the device's queue takes one wait from its process.
LEMMA VecesIOEnCola ==
    ASSUME NEW S, NEW s \in Seq(S), s # <<>>, NEW p
    PROVE  /\ VecesIO(s, p) \in Nat
           /\ VecesIO(Tail(s), p) = VecesIO(s, p) - Uno(Head(s).pcb = p)
<1> DEFINE n == Len(s) - 1
           A == {i \in DOMAIN s : s[i].pcb = p}
           B == {i \in DOMAIN Tail(s) : Tail(s)[i].pcb = p}
<1>1. n \in Nat /\ DOMAIN s = 1..n+1 /\ DOMAIN Tail(s) = 1..n /\ Head(s) = s[1]
  BY LenProperties, HeadTailProperties, EmptySeq
<1>2. A \subseteq 1..n+1 /\ Cardinality(A) \in Nat
  BY <1>1, IndicesFinitos
<1>3. /\ B \subseteq 1..n
      /\ \A i \in 1..n : i \in B <=> (i < 1 /\ i \in A) \/ (~(i < 1) /\ i + 1 \in A)
  BY <1>1, HeadTailProperties
<1>4. Cardinality(B) = IF 1 \in A THEN Cardinality(A) - 1 ELSE Cardinality(A)
  <2>1. n \in Nat /\ 1 \in 1..n+1
    BY <1>1
  <2> HIDE DEF n, A, B
  <2>2. A \in SUBSET (1..n+1) /\ B \in SUBSET (1..n) /\ Corridos(n, 1, A, B)
    BY <1>2, <1>3 DEF Corridos
  <2> QED  BY <2>1, <2>2, CuentaAlQuitar, Zenon
<1>5. 1 \in A <=> Head(s).pcb = p
  BY <1>1
<1>6. VecesIO(s, p) = Cardinality(A) /\ VecesIO(Tail(s), p) = Cardinality(B)
  BY DEF VecesIO
<1> HIDE DEF A, B
<1> QED  BY <1>2, <1>4, <1>5, <1>6 DEF Uno

\* Empty lists count nothing, and a process is in a list iff it counts there.
LEMMA VecesBasico ==
    /\ \A p : Veces(<<>>, p) = 0 /\ VecesIO(<<>>, p) = 0
    /\ \A S : \A s \in Seq(S) : \A p :
          /\ Veces(s, p) \in Nat /\ VecesIO(s, p) \in Nat
          /\ Contains(s, p) <=> Veces(s, p) > 0
<1>1. ASSUME NEW p
      PROVE  Veces(<<>>, p) = 0 /\ VecesIO(<<>>, p) = 0
  <2>1. /\ {i \in DOMAIN <<>> : <<>>[i] = p} = {}
        /\ {i \in DOMAIN <<>> : <<>>[i].pcb = p} = {}
    OBVIOUS
  <2> QED  BY <2>1, FS_EmptySet DEF Veces, VecesIO
<1>2. ASSUME NEW S, NEW s \in Seq(S), NEW p
      PROVE  /\ Veces(s, p) \in Nat /\ VecesIO(s, p) \in Nat
             /\ Contains(s, p) <=> Veces(s, p) > 0
  <2> DEFINE A == {i \in DOMAIN s : s[i] = p}
             B == {i \in DOMAIN s : s[i].pcb = p}
  <2>1. Len(s) \in Nat /\ DOMAIN s = 1..Len(s)
    BY LenProperties
  <2>2. A \subseteq 1..Len(s) /\ B \subseteq 1..Len(s)
    BY <2>1
  <2>3. IsFiniteSet(A) /\ Cardinality(A) \in Nat /\ Cardinality(B) \in Nat
    BY <2>1, <2>2, IndicesFinitos
  <2>4. Cardinality(A) = 0 <=> A = {}
    BY <2>3, FS_EmptySet
  <2>5. Contains(s, p) <=> A # {}
    BY <2>1 DEF Contains
  <2> HIDE DEF A, B
  <2>6. Veces(s, p) = Cardinality(A) /\ VecesIO(s, p) = Cardinality(B)
    BY DEF Veces, VecesIO, A, B
  <2> QED  BY <2>3, <2>4, <2>5, <2>6
<1> QED  BY <1>1, <1>2

-----------------------------------------------------------------------------
(* Type correctness *)

\* main (main.c:42-50) leaves every variable with its type.
LEMMA TipoInicial == Init => TypeOK
BY CotasAssumption, EstimacionAssumption, EmptySeq
  DEF Init, Pcb, NULO, TypeOK, TypeMain, TypeColas, TypeSem, TypeAready, TypeExec, TypeBlock, TypeMem,
      TypeCPU, AreadyConPcb, BlockConPcb, SinIO, SinRespuesta

\* Every step keeps the types.
LEMMA TipoPreservado ==
    ASSUME TypeOK, [Next]_vars
    PROVE  TypeOK'
<1> USE DEF Pcb, NULO, varsMain, varsColas, varsSem, varsAready, varsExec, varsBlock,
            varsMem, varsCPU, varsFin
<1>1. ASSUME TypeMain, TypeColas, TypeSem, TypeAready, TypeExec, TypeBlock, TypeMem, TypeCPU,
             [Next]_vars
      PROVE  TypeOK'
  <2>1. CASE ManejarProceso
    <3>1. TypeMain'
      BY <1>1, <2>1, CotasAssumption DEF ManejarProceso, TypeMain
    <3>2. TypeExec'
      BY <1>1, <2>1, CotasAssumption, EstimacionAssumption DEF ManejarProceso, TypeExec, TypeMain
    <3>3. TypeCPU'
      BY <1>1, <2>1 DEF ManejarProceso, TypeCPU, SinRespuesta
    <3>4. TypeColas' /\ TypeSem' /\ TypeAready' /\ TypeBlock' /\ TypeMem'
      BY <1>1, <2>1
      DEF ManejarProceso, TypeColas, TypeSem, TypeAready, AreadyConPcb, TypeBlock, BlockConPcb,
          SinIO, TypeMem
    <3> QED  BY <3>1, <3>2, <3>3, <3>4 DEF TypeOK
  <2>2. CASE IngresarANew
    <3>1. TypeMain'
      BY <1>1, <2>2 DEF IngresarANew, TypeMain
    <3>2. TypeColas'
      BY <1>1, <2>2, CotasAssumption, AppendPropiedades DEF IngresarANew, TypeColas, TypeMain
    <3>3. TypeSem' /\ TypeAready' /\ TypeExec' /\ TypeBlock' /\ TypeMem' /\ TypeCPU'
      BY <1>1, <2>2
      DEF IngresarANew, TypeSem, TypeAready, AreadyConPcb, TypeExec, TypeBlock, BlockConPcb,
          SinIO, TypeMem, TypeCPU, SinRespuesta
    <3> QED  BY <3>1, <3>2, <3>3 DEF TypeOK
  <2>3. CASE PostNew
    <3>1. TypeMain'
      BY <1>1, <2>3 DEF PostNew, TypeMain
    <3>2. TypeSem'
      BY <1>1, <2>3 DEF PostNew, TypeSem
    <3>3. TypeColas' /\ TypeAready' /\ TypeExec' /\ TypeBlock' /\ TypeMem' /\ TypeCPU'
      BY <1>1, <2>3
      DEF PostNew, TypeColas, TypeAready, AreadyConPcb, TypeExec, TypeBlock, BlockConPcb, SinIO,
          TypeMem, TypeCPU, SinRespuesta
    <3> QED  BY <3>1, <3>2, <3>3 DEF TypeOK
  <2>4. CASE EsperaPcb
    <3>1. TypeSem'
      BY <1>1, <2>4 DEF EsperaPcb, TypeSem
    <3>2. TypeAready'
      BY <1>1, <2>4 DEF EsperaPcb, TypeAready, AreadyConPcb
    <3>3. TypeMain' /\ TypeColas' /\ TypeExec' /\ TypeBlock' /\ TypeMem' /\ TypeCPU'
      BY <1>1, <2>4
      DEF EsperaPcb, TypeMain, TypeColas, TypeExec, TypeBlock, BlockConPcb, SinIO, TypeMem,
          TypeCPU, SinRespuesta
    <3> QED  BY <3>1, <3>2, <3>3 DEF TypeOK
  <2>5. CASE EsperaGrado
    <3>1. TypeSem'
      BY <1>1, <2>5 DEF EsperaGrado, TypeSem
    <3>2. TypeAready'
      BY <1>1, <2>5 DEF EsperaGrado, TypeAready, AreadyConPcb
    <3>3. TypeMain' /\ TypeColas' /\ TypeExec' /\ TypeBlock' /\ TypeMem' /\ TypeCPU'
      BY <1>1, <2>5
      DEF EsperaGrado, TypeMain, TypeColas, TypeExec, TypeBlock, BlockConPcb, SinIO, TypeMem,
          TypeCPU, SinRespuesta
    <3> QED  BY <3>1, <3>2, <3>3 DEF TypeOK
  <2>6. CASE Elige
    <3>1. TypeAready'
      BY <1>1, <2>6 DEF Elige, TypeAready, AreadyConPcb
    <3>2. TypeMain' /\ TypeColas' /\ TypeSem' /\ TypeExec' /\ TypeBlock' /\ TypeMem' /\ TypeCPU'
      BY <1>1, <2>6
      DEF Elige, TypeMain, TypeColas, TypeSem, TypeExec, TypeBlock, BlockConPcb, SinIO, TypeMem,
          TypeCPU, SinRespuesta
    <3> QED  BY <3>1, <3>2 DEF TypeOK
  <2>7. CASE PopSuspReady
    <3>1. TypeColas'
      BY <1>1, <2>7, HeadTailProperties DEF PopSuspReady, TypeColas
    <3>2. TypeAready'
      BY <1>1, <2>7, HeadTailProperties DEF PopSuspReady, TypeAready, AreadyConPcb, TypeColas
    <3>3. TypeMain' /\ TypeSem' /\ TypeExec' /\ TypeBlock' /\ TypeMem' /\ TypeCPU'
      BY <1>1, <2>7
      DEF PopSuspReady, TypeMain, TypeSem, TypeExec, TypeBlock, BlockConPcb, SinIO, TypeMem,
          TypeCPU, SinRespuesta
    <3> QED  BY <3>1, <3>2, <3>3 DEF TypeOK
  <2>8. CASE PopNew
    <3>1. TypeColas'
      BY <1>1, <2>8, HeadTailProperties DEF PopNew, TypeColas
    <3>2. TypeAready'
      BY <1>1, <2>8, HeadTailProperties DEF PopNew, TypeAready, AreadyConPcb, TypeColas
    <3>3. TypeMem'
      BY <1>1, <2>8, HeadTailProperties, AppendPropiedades DEF PopNew, TypeMem, TypeColas
    <3>4. TypeMain' /\ TypeSem' /\ TypeExec' /\ TypeBlock' /\ TypeCPU'
      BY <1>1, <2>8
      DEF PopNew, TypeMain, TypeSem, TypeExec, TypeBlock, BlockConPcb, SinIO, TypeCPU,
          SinRespuesta
    <3> QED  BY <3>1, <3>2, <3>3, <3>4 DEF TypeOK
  <2>9. CASE EstructurasCreadas
    <3>1. TypeAready'
      BY <1>1, <2>9 DEF EstructurasCreadas, TypeAready, AreadyConPcb
    <3>2. TypeMem'
      BY <1>1, <2>9 DEF EstructurasCreadas, TypeMem
    <3>3. TypeMain' /\ TypeColas' /\ TypeSem' /\ TypeExec' /\ TypeBlock' /\ TypeCPU'
      BY <1>1, <2>9
      DEF EstructurasCreadas, TypeMain, TypeColas, TypeSem, TypeExec, TypeBlock, BlockConPcb,
          SinIO, TypeCPU, SinRespuesta
    <3> QED  BY <3>1, <3>2, <3>3 DEF TypeOK
  <2>10. CASE AgregaReady
    <3>1. TypeColas'
      BY <1>1, <2>10, AppendPropiedades DEF AgregaReady, TypeColas, TypeAready, AreadyConPcb
    <3>2. TypeAready'
      BY <1>1, <2>10 DEF AgregaReady, TypeAready, AreadyConPcb
    <3>3. TypeMain' /\ TypeSem' /\ TypeExec' /\ TypeBlock' /\ TypeMem' /\ TypeCPU'
      BY <1>1, <2>10
      DEF AgregaReady, TypeMain, TypeSem, TypeExec, TypeBlock, BlockConPcb, SinIO, TypeMem,
          TypeCPU, SinRespuesta
    <3> QED  BY <3>1, <3>2, <3>3 DEF TypeOK
  <2>11. CASE InterrumpeAready
    <3>1. TypeAready'
      BY <1>1, <2>11 DEF InterrumpeAready, TypeAready, AreadyConPcb
    <3>2. TypeCPU'
      BY <1>1, <2>11 DEF InterrumpeAready, TypeCPU, SinRespuesta
    <3>3. TypeMain' /\ TypeColas' /\ TypeSem' /\ TypeExec' /\ TypeBlock' /\ TypeMem'
      BY <1>1, <2>11
      DEF InterrumpeAready, TypeMain, TypeColas, TypeSem, TypeExec, TypeBlock, BlockConPcb,
          SinIO, TypeMem
    <3> QED  BY <3>1, <3>2, <3>3 DEF TypeOK
  <2>12. CASE PostReadyAready
    <3>1. TypeSem'
      BY <1>1, <2>12 DEF PostReadyAready, TypeSem
    <3>2. TypeAready'
      BY <1>1, <2>12 DEF PostReadyAready, TypeAready, AreadyConPcb
    <3>3. TypeMain' /\ TypeColas' /\ TypeExec' /\ TypeBlock' /\ TypeMem' /\ TypeCPU'
      BY <1>1, <2>12
      DEF PostReadyAready, TypeMain, TypeColas, TypeExec, TypeBlock, BlockConPcb, SinIO,
          TypeMem, TypeCPU, SinRespuesta
    <3> QED  BY <3>1, <3>2, <3>3 DEF TypeOK
  <2>13. CASE EsperaReady
    <3>1. TypeSem'
      BY <1>1, <2>13 DEF EsperaReady, TypeSem
    <3>2. TypeExec'
      BY <1>1, <2>13 DEF EsperaReady, TypeExec
    <3>3. TypeCPU'
      BY <1>1, <2>13 DEF EsperaReady, TypeCPU, SinRespuesta
    <3>4. TypeMain' /\ TypeColas' /\ TypeAready' /\ TypeBlock' /\ TypeMem'
      BY <1>1, <2>13
      DEF EsperaReady, TypeMain, TypeColas, TypeAready, AreadyConPcb, TypeBlock, BlockConPcb,
          SinIO, TypeMem
    <3> QED  BY <3>1, <3>2, <3>3, <3>4 DEF TypeOK
  <2>14. CASE PlanificaFIFO
    <3>1. TypeColas'
      BY <1>1, <2>14, HeadTailProperties DEF PlanificaFIFO, TypeColas
    <3>2. TypeExec'
      BY <1>1, <2>14, HeadTailProperties DEF PlanificaFIFO, TypeExec, TypeColas
    <3>3. TypeCPU'
      BY <1>1, <2>14 DEF PlanificaFIFO, TypeCPU, SinRespuesta
    <3>4. TypeMain' /\ TypeSem' /\ TypeAready' /\ TypeBlock' /\ TypeMem'
      BY <1>1, <2>14
      DEF PlanificaFIFO, TypeMain, TypeSem, TypeAready, AreadyConPcb, TypeBlock, BlockConPcb,
          SinIO, TypeMem
    <3> QED  BY <3>1, <3>2, <3>3, <3>4 DEF TypeOK
  <2>15. CASE PlanificaSRT
    <3>1. TypeExec'
      <4>1. /\ \A i \in DOMAIN estado_ready : estado_ready[i] \in Pcb
            /\ DOMAIN estado_ready = 1..Len(estado_ready)
        BY <1>1, ElementOfSeq, LenProperties DEF TypeColas
      <4>2. Contains(estado_ready, id_pcb_ejecutando) => id_pcb_ejecutando \in Pcb
        BY <4>1 DEF Contains
      <4>3. estado_ready # <<>> => Head(estado_ready) \in Pcb
        BY <1>1, HeadTailProperties DEF TypeColas
      <4>4. estado_ready # <<>>
        BY <2>15, <4>1 DEF PlanificaSRT
      <4>5. pcbExec' \in Pcb
        BY <2>15, <4>1, <4>2, <4>3, <4>4 DEF PlanificaSRT
      <4> QED  BY <1>1, <2>15, <4>5 DEF PlanificaSRT, TypeExec
    <3>2. TypeCPU'
      BY <1>1, <2>15 DEF PlanificaSRT, TypeCPU, SinRespuesta
    <3>3. TypeMain' /\ TypeColas' /\ TypeSem' /\ TypeAready' /\ TypeBlock' /\ TypeMem'
      BY <1>1, <2>15
      DEF PlanificaSRT, TypeMain, TypeColas, TypeSem, TypeAready, AreadyConPcb, TypeBlock,
          BlockConPcb, SinIO, TypeMem
    <3> QED  BY <3>1, <3>2, <3>3 DEF TypeOK
  <2>16. CASE Despacha
    <3>1. TypeColas'
      BY <1>1, <2>16, RemoveAtPropiedades, LenProperties DEF Despacha, TypeColas
    <3>2. TypeExec'
      BY <1>1, <2>16 DEF Despacha, TypeExec
    <3>3. TypeCPU'
      BY <1>1, <2>16 DEF Despacha, TypeCPU, SinRespuesta
    <3>4. TypeMain' /\ TypeSem' /\ TypeAready' /\ TypeBlock' /\ TypeMem'
      BY <1>1, <2>16
      DEF Despacha, TypeMain, TypeSem, TypeAready, AreadyConPcb, TypeBlock, BlockConPcb, SinIO,
          TypeMem
    <3> QED  BY <3>1, <3>2, <3>3, <3>4 DEF TypeOK
  <2>17. CASE VuelvePorIO
    <3>1. TypeColas'
      BY <1>1, <2>17, AppendPropiedades
      DEF VuelvePorIO, TypeColas, TypeExec, TypeCPU, SinRespuesta
    <3>2. TypeExec'
      <4>0. respuestaCPU # SinRespuesta
        BY <2>17 DEF VuelvePorIO, SinRespuesta
      <4>1. /\ respuestaCPU.lengthUltimaRafaga \in 0..UINT32-1
            /\ pcbExec \in Pcb /\ estimacionRafaga[pcbExec] \in 0..UINT32-1
        <5>1. respuestaCPU.lengthUltimaRafaga \in Rafagas
          BY <1>1, <4>0 DEF TypeCPU
        <5>2. pcbExec \in Pcb /\ estimacionRafaga[pcbExec] \in 0..UINT32-1
          BY <1>1, <2>17 DEF TypeExec, VuelvePorIO
        <5>3. respuestaCPU.lengthUltimaRafaga \in 1..UINT32-1
          BY <5>1, EstimacionAssumption, Zenon
        <5> QED  BY <5>2, <5>3, EstimacionAssumption
      <4>2. Promedio(respuestaCPU.lengthUltimaRafaga, estimacionRafaga[pcbExec]) \in 0..UINT32-1
        BY <4>1, PromedioTipo
      <4> QED  BY <1>1, <2>17, <4>1, <4>2 DEF VuelvePorIO, TypeExec
    <3>3. TypeCPU'
      BY <1>1, <2>17 DEF VuelvePorIO, TypeCPU, SinRespuesta
    <3>4. TypeMain' /\ TypeSem' /\ TypeAready' /\ TypeBlock' /\ TypeMem'
      BY <1>1, <2>17
      DEF VuelvePorIO, TypeMain, TypeSem, TypeAready, AreadyConPcb, TypeBlock, BlockConPcb,
          SinIO, TypeMem
    <3> QED  BY <3>1, <3>2, <3>3, <3>4 DEF TypeOK
  <2>18. CASE PostBlock
    <3>1. TypeSem'
      BY <1>1, <2>18 DEF PostBlock, TypeSem
    <3>2. TypeExec'
      BY <1>1, <2>18 DEF PostBlock, TypeExec
    <3>3. TypeCPU'
      BY <1>1, <2>18 DEF PostBlock, TypeCPU, SinRespuesta
    <3>4. TypeMain' /\ TypeColas' /\ TypeAready' /\ TypeBlock' /\ TypeMem'
      BY <1>1, <2>18
      DEF PostBlock, TypeMain, TypeColas, TypeAready, AreadyConPcb, TypeBlock, BlockConPcb,
          SinIO, TypeMem
    <3> QED  BY <3>1, <3>2, <3>3, <3>4 DEF TypeOK
  <2>19. CASE VuelvePorInterrupcion
    <3>1. TypeColas'
      BY <1>1, <2>19, AppendPropiedades DEF VuelvePorInterrupcion, TypeColas, TypeExec
    <3>2. TypeExec'
      <4>0. respuestaCPU # SinRespuesta
        BY <2>19 DEF VuelvePorInterrupcion, SinRespuesta
      <4>1. /\ respuestaCPU.lengthUltimaRafaga \in 0..UINT32-1
            /\ pcbExec \in Pcb /\ estimacionRafaga[pcbExec] \in 0..UINT32-1
        <5>1. respuestaCPU.lengthUltimaRafaga \in Rafagas
          BY <1>1, <4>0 DEF TypeCPU
        <5>2. pcbExec \in Pcb /\ estimacionRafaga[pcbExec] \in 0..UINT32-1
          BY <1>1, <2>19 DEF TypeExec, VuelvePorInterrupcion
        <5>3. respuestaCPU.lengthUltimaRafaga \in 1..UINT32-1
          BY <5>1, EstimacionAssumption, Zenon
        <5> QED  BY <5>2, <5>3, EstimacionAssumption
      <4>2. Restante(respuestaCPU.lengthUltimaRafaga, estimacionRafaga[pcbExec]) \in 0..UINT32-1
        BY <4>1, RestanteTipo
      <4> QED  BY <1>1, <2>19, <4>1, <4>2 DEF VuelvePorInterrupcion, TypeExec
    <3>3. TypeCPU'
      BY <1>1, <2>19 DEF VuelvePorInterrupcion, TypeCPU, SinRespuesta
    <3>4. TypeMain' /\ TypeSem' /\ TypeAready' /\ TypeBlock' /\ TypeMem'
      BY <1>1, <2>19
      DEF VuelvePorInterrupcion, TypeMain, TypeSem, TypeAready, AreadyConPcb, TypeBlock,
          BlockConPcb, SinIO, TypeMem
    <3> QED  BY <3>1, <3>2, <3>3, <3>4 DEF TypeOK
  <2>20. CASE PostReadyExec
    <3>1. TypeSem'
      BY <1>1, <2>20 DEF PostReadyExec, TypeSem
    <3>2. TypeExec'
      BY <1>1, <2>20 DEF PostReadyExec, TypeExec
    <3>3. TypeCPU'
      BY <1>1, <2>20 DEF PostReadyExec, TypeCPU, SinRespuesta
    <3>4. TypeMain' /\ TypeColas' /\ TypeAready' /\ TypeBlock' /\ TypeMem'
      BY <1>1, <2>20
      DEF PostReadyExec, TypeMain, TypeColas, TypeAready, AreadyConPcb, TypeBlock, BlockConPcb,
          SinIO, TypeMem
    <3> QED  BY <3>1, <3>2, <3>3, <3>4 DEF TypeOK
  <2>21. CASE VuelvePorExit
    <3>1. TypeExec'
      BY <1>1, <2>21 DEF VuelvePorExit, TypeExec
    <3>2. TypeMem'
      BY <1>1, <2>21, AppendPropiedades DEF VuelvePorExit, TypeMem, TypeExec
    <3>3. TypeCPU'
      BY <1>1, <2>21 DEF VuelvePorExit, TypeCPU, SinRespuesta
    <3>4. TypeMain' /\ TypeColas' /\ TypeSem' /\ TypeAready' /\ TypeBlock'
      BY <1>1, <2>21
      DEF VuelvePorExit, TypeMain, TypeColas, TypeSem, TypeAready, AreadyConPcb, TypeBlock,
          BlockConPcb, SinIO
    <3> QED  BY <3>1, <3>2, <3>3, <3>4 DEF TypeOK
  <2>22. CASE AvisaConsola
    <3>1. TypeMain'
      BY <1>1, <2>22 DEF AvisaConsola, TypeMain
    <3>2. TypeExec'
      BY <1>1, <2>22 DEF AvisaConsola, TypeExec
    <3>3. TypeCPU'
      BY <1>1, <2>22 DEF AvisaConsola, TypeCPU, SinRespuesta
    <3>4. TypeColas' /\ TypeSem' /\ TypeAready' /\ TypeBlock' /\ TypeMem'
      BY <1>1, <2>22
      DEF AvisaConsola, TypeColas, TypeSem, TypeAready, AreadyConPcb, TypeBlock, BlockConPcb,
          SinIO, TypeMem
    <3> QED  BY <3>1, <3>2, <3>3, <3>4 DEF TypeOK
  <2>23. CASE PostGradoExec
    <3>1. TypeSem'
      BY <1>1, <2>23 DEF PostGradoExec, TypeSem
    <3>2. TypeExec'
      BY <1>1, <2>23 DEF PostGradoExec, TypeExec
    <3>3. TypeCPU'
      BY <1>1, <2>23 DEF PostGradoExec, TypeCPU, SinRespuesta
    <3>4. TypeMain' /\ TypeColas' /\ TypeAready' /\ TypeBlock' /\ TypeMem'
      BY <1>1, <2>23
      DEF PostGradoExec, TypeMain, TypeColas, TypeAready, AreadyConPcb, TypeBlock, BlockConPcb,
          SinIO, TypeMem
    <3> QED  BY <3>1, <3>2, <3>3, <3>4 DEF TypeOK
  <2>24. CASE EsperaBlock
    <3>1. TypeSem'
      BY <1>1, <2>24 DEF EsperaBlock, TypeSem
    <3>2. TypeBlock'
      BY <1>1, <2>24 DEF EsperaBlock, TypeBlock, BlockConPcb, SinIO
    <3>3. TypeMain' /\ TypeColas' /\ TypeAready' /\ TypeExec' /\ TypeMem' /\ TypeCPU'
      BY <1>1, <2>24
      DEF EsperaBlock, TypeMain, TypeColas, TypeAready, AreadyConPcb, TypeExec, TypeMem,
          TypeCPU, SinRespuesta
    <3> QED  BY <3>1, <3>2, <3>3 DEF TypeOK
  <2>25. CASE PopBlocked
    <3>1. TypeColas'
      BY <1>1, <2>25, HeadTailProperties DEF PopBlocked, TypeColas
    <3>2. TypeBlock'
      BY <1>1, <2>25, HeadTailProperties DEF PopBlocked, TypeBlock, BlockConPcb, SinIO, TypeColas
    <3>3. TypeMain' /\ TypeSem' /\ TypeAready' /\ TypeExec' /\ TypeMem' /\ TypeCPU'
      BY <1>1, <2>25
      DEF PopBlocked, TypeMain, TypeSem, TypeAready, AreadyConPcb, TypeExec, TypeMem, TypeCPU,
          SinRespuesta
    <3> QED  BY <3>1, <3>2, <3>3 DEF TypeOK
  <2>26. CASE TerminaIO
    <3>1. TypeColas'
      BY <1>1, <2>26, AppendPropiedades DEF TerminaIO, TypeColas, TypeBlock, BlockConPcb, SinIO
    <3>2. TypeBlock'
      BY <1>1, <2>26 DEF TerminaIO, TypeBlock, BlockConPcb, SinIO
    <3>3. TypeMain' /\ TypeSem' /\ TypeAready' /\ TypeExec' /\ TypeMem' /\ TypeCPU'
      BY <1>1, <2>26
      DEF TerminaIO, TypeMain, TypeSem, TypeAready, AreadyConPcb, TypeExec, TypeMem, TypeCPU,
          SinRespuesta
    <3> QED  BY <3>1, <3>2, <3>3 DEF TypeOK
  <2>27. CASE InterrumpeBlock
    <3>1. TypeBlock'
      BY <1>1, <2>27 DEF InterrumpeBlock, TypeBlock, BlockConPcb, SinIO
    <3>2. TypeCPU'
      BY <1>1, <2>27 DEF InterrumpeBlock, TypeCPU, SinRespuesta
    <3>3. TypeMain' /\ TypeColas' /\ TypeSem' /\ TypeAready' /\ TypeExec' /\ TypeMem'
      BY <1>1, <2>27
      DEF InterrumpeBlock, TypeMain, TypeColas, TypeSem, TypeAready, AreadyConPcb, TypeExec,
          TypeMem
    <3> QED  BY <3>1, <3>2, <3>3 DEF TypeOK
  <2>28. CASE PostReadyBlock
    <3>1. TypeSem'
      BY <1>1, <2>28 DEF PostReadyBlock, TypeSem
    <3>2. TypeBlock'
      BY <1>1, <2>28 DEF PostReadyBlock, TypeBlock, BlockConPcb, SinIO
    <3>3. TypeMain' /\ TypeColas' /\ TypeAready' /\ TypeExec' /\ TypeMem' /\ TypeCPU'
      BY <1>1, <2>28
      DEF PostReadyBlock, TypeMain, TypeColas, TypeAready, AreadyConPcb, TypeExec, TypeMem,
          TypeCPU, SinRespuesta
    <3> QED  BY <3>1, <3>2, <3>3 DEF TypeOK
  <2>29. CASE PideSuspender
    <3>1. TypeBlock'
      BY <1>1, <2>29 DEF PideSuspender, TypeBlock, BlockConPcb, SinIO
    <3>2. TypeMem'
      BY <1>1, <2>29, AppendPropiedades DEF PideSuspender, TypeMem, TypeBlock, BlockConPcb, SinIO
    <3>3. TypeMain' /\ TypeColas' /\ TypeSem' /\ TypeAready' /\ TypeExec' /\ TypeCPU'
      BY <1>1, <2>29
      DEF PideSuspender, TypeMain, TypeColas, TypeSem, TypeAready, AreadyConPcb, TypeExec,
          TypeCPU, SinRespuesta
    <3> QED  BY <3>1, <3>2, <3>3 DEF TypeOK
  <2>30. CASE Suspendido
    <3>1. TypeBlock'
      BY <1>1, <2>30 DEF Suspendido, TypeBlock, BlockConPcb, SinIO
    <3>2. TypeMem'
      BY <1>1, <2>30 DEF Suspendido, TypeMem
    <3>3. TypeMain' /\ TypeColas' /\ TypeSem' /\ TypeAready' /\ TypeExec' /\ TypeCPU'
      BY <1>1, <2>30
      DEF Suspendido, TypeMain, TypeColas, TypeSem, TypeAready, AreadyConPcb, TypeExec, TypeCPU,
          SinRespuesta
    <3> QED  BY <3>1, <3>2, <3>3 DEF TypeOK
  <2>31. CASE PostGradoBlock
    <3>1. TypeSem'
      BY <1>1, <2>31 DEF PostGradoBlock, TypeSem
    <3>2. TypeBlock'
      BY <1>1, <2>31 DEF PostGradoBlock, TypeBlock, BlockConPcb, SinIO
    <3>3. TypeMain' /\ TypeColas' /\ TypeAready' /\ TypeExec' /\ TypeMem' /\ TypeCPU'
      BY <1>1, <2>31
      DEF PostGradoBlock, TypeMain, TypeColas, TypeAready, AreadyConPcb, TypeExec, TypeMem,
          TypeCPU, SinRespuesta
    <3> QED  BY <3>1, <3>2, <3>3 DEF TypeOK
  <2>32. CASE TerminaIOSuspendido
    <3>1. TypeColas'
      BY <1>1, <2>32, AppendPropiedades
      DEF TerminaIOSuspendido, TypeColas, TypeBlock, BlockConPcb, SinIO
    <3>2. TypeBlock'
      BY <1>1, <2>32 DEF TerminaIOSuspendido, TypeBlock, BlockConPcb, SinIO
    <3>3. TypeMain' /\ TypeSem' /\ TypeAready' /\ TypeExec' /\ TypeMem' /\ TypeCPU'
      BY <1>1, <2>32
      DEF TerminaIOSuspendido, TypeMain, TypeSem, TypeAready, AreadyConPcb, TypeExec, TypeMem,
          TypeCPU, SinRespuesta
    <3> QED  BY <3>1, <3>2, <3>3 DEF TypeOK
  <2>33. CASE PostSusp
    <3>1. TypeSem'
      BY <1>1, <2>33 DEF PostSusp, TypeSem
    <3>2. TypeBlock'
      BY <1>1, <2>33 DEF PostSusp, TypeBlock, BlockConPcb, SinIO
    <3>3. TypeMain' /\ TypeColas' /\ TypeAready' /\ TypeExec' /\ TypeMem' /\ TypeCPU'
      BY <1>1, <2>33
      DEF PostSusp, TypeMain, TypeColas, TypeAready, AreadyConPcb, TypeExec, TypeMem, TypeCPU,
          SinRespuesta
    <3> QED  BY <3>1, <3>2, <3>3 DEF TypeOK
  <2>34. CASE HiloKernel
    <3>1. TypeMem'
      BY <1>1, <2>34, HeadTailProperties DEF HiloKernel, TypeMem
    <3>2. TypeMain' /\ TypeColas' /\ TypeSem' /\ TypeAready' /\ TypeExec' /\ TypeBlock' /\ TypeCPU'
      BY <1>1, <2>34
      DEF HiloKernel, TypeMain, TypeColas, TypeSem, TypeAready, AreadyConPcb, TypeExec,
          TypeBlock, BlockConPcb, SinIO, TypeCPU, SinRespuesta
    <3> QED  BY <3>1, <3>2 DEF TypeOK
  <2>35. CASE CPUEjecutaIO
    <3>1. TypeCPU'
      BY <1>1, <2>35 DEF CPUEjecutaIO, TypeCPU, SinRespuesta, TypeExec, PuedeResponder, Responde
    <3>2. TypeMain' /\ TypeColas' /\ TypeSem' /\ TypeAready' /\ TypeExec' /\ TypeBlock' /\ TypeMem'
      BY <1>1, <2>35
      DEF CPUEjecutaIO, TypeMain, TypeColas, TypeSem, TypeAready, AreadyConPcb, TypeExec,
          TypeBlock, BlockConPcb, SinIO, TypeMem, Responde, PuedeResponder
    <3> QED  BY <3>1, <3>2 DEF TypeOK
  <2>36. CASE CPUEjecutaExit
    <3>1. TypeCPU'
      BY <1>1, <2>36 DEF CPUEjecutaExit, TypeCPU, SinRespuesta, TypeExec, PuedeResponder, Responde
    <3>2. TypeMain' /\ TypeColas' /\ TypeSem' /\ TypeAready' /\ TypeExec' /\ TypeBlock' /\ TypeMem'
      BY <1>1, <2>36
      DEF CPUEjecutaExit, TypeMain, TypeColas, TypeSem, TypeAready, AreadyConPcb, TypeExec,
          TypeBlock, BlockConPcb, SinIO, TypeMem, Responde, PuedeResponder
    <3> QED  BY <3>1, <3>2 DEF TypeOK
  <2>37. CASE CPUInterrumpida
    <3>1. TypeCPU'
      BY <1>1, <2>37
      DEF CPUInterrumpida, TypeCPU, SinRespuesta, TypeExec, PuedeResponder, Responde
    <3>2. TypeMain' /\ TypeColas' /\ TypeSem' /\ TypeAready' /\ TypeExec' /\ TypeBlock' /\ TypeMem'
      BY <1>1, <2>37
      DEF CPUInterrumpida, TypeMain, TypeColas, TypeSem, TypeAready, AreadyConPcb, TypeExec,
          TypeBlock, BlockConPcb, SinIO, TypeMem, Responde, PuedeResponder
    <3> QED  BY <3>1, <3>2 DEF TypeOK
  <2>38. CASE UNCHANGED vars
    <3>1. TypeMain' /\ TypeColas' /\ TypeSem' /\ TypeMem'
      BY <1>1, <2>38 DEF vars, TypeMain, TypeColas, TypeSem, TypeMem
    <3>2. TypeAready' /\ TypeExec'
      BY <1>1, <2>38 DEF vars, TypeAready, AreadyConPcb, TypeExec
    <3>3. TypeBlock' /\ TypeCPU'
      BY <1>1, <2>38 DEF vars, TypeBlock, BlockConPcb, SinIO, TypeCPU, SinRespuesta
    <3> QED  BY <3>1, <3>2, <3>3 DEF TypeOK
  <2> QED
    BY <1>1, <2>1, <2>2, <2>3, <2>4, <2>5, <2>6, <2>7, <2>8, <2>9, <2>10, <2>11, <2>12, <2>13,
       <2>14, <2>15, <2>16, <2>17, <2>18, <2>19, <2>20, <2>21, <2>22, <2>23, <2>24, <2>25,
       <2>26, <2>27, <2>28, <2>29, <2>30, <2>31, <2>32, <2>33, <2>34, <2>35, <2>36, <2>37, <2>38
    DEF Next, HiloMain, HiloAready, HiloExec, HiloBlock, CPU, Terminado
<1> QED  BY <1>1 DEF TypeOK

\* Every variable keeps its type, in every run of the planner.
THEOREM TipoCorrecto == Spec => []TypeOK
BY TipoInicial, TipoPreservado, PTL DEF Spec

-----------------------------------------------------------------------------
(* The inductive invariant *)

\* With SRT the chosen PCB stays in ready until Despacha takes it out: other
\* threads may only add PCBs in between.
ElegidoEnReady ==
    SRT /\ pcExec = "despacha" => Veces(estado_ready, pcbExec) > 0

\* Only processes that connected ended.
FinalizadasConectadas == \A p \in finalizadas : p < id_nuevo_proceso

IInv == /\ TypeOK /\ SemaforosCuentan /\ GradoContado /\ SinPopVacio
        /\ ElegidoEnReady /\ CadaPcbEnUnLugar
        /\ ConsolaDeCadaProceso /\ FinalizadasConectadas

\* The lengths of the four queues are natural numbers.
LEMMA Largos ==
    ASSUME NEW S, NEW s \in Seq(S)
    PROVE  /\ Len(s) \in Nat
           /\ s # <<>> <=> Len(s) > 0
           /\ s # <<>> => /\ Head(s) \in S /\ Tail(s) \in Seq(S)
                          /\ Len(Tail(s)) = Len(s) - 1
           /\ \A e \in S : Len(Append(s, e)) = Len(s) + 1
BY EmptySeq, LenProperties, HeadTailProperties, AppendPropiedades

\* Where a process may be counted, the counts are natural numbers.
LEMMA VecesNaturales ==
    ASSUME TypeColas, NEW p
    PROVE  /\ Veces(estado_new, p) \in Nat /\ Veces(estado_ready, p) \in Nat
           /\ Veces(estado_susp_ready, p) \in Nat /\ VecesIO(estado_blocked, p) \in Nat
BY VecesBasico DEF TypeColas

\* Despacha takes the chosen PCB out of ready exactly when the planner left it
\* there (SRT): with FIFO the removal by id finds nothing, for the PCB is in the
\* hands of the thread and nowhere else.
LEMMA DespachaQuita ==
    ASSUME IInv, Despacha
    PROVE  /\ Len(estado_ready') = Len(estado_ready) - Uno(SRT)
           /\ \A p : Veces(estado_ready', p) = Veces(estado_ready, p) - Uno(SRT /\ pcbExec = p)
<1>1. /\ TypeColas /\ estado_ready \in Seq(Pcb) /\ pcbExec \in Pcb /\ pcExec = "despacha"
      /\ Len(estado_ready) \in Nat /\ DOMAIN estado_ready = 1..Len(estado_ready)
      /\ \A p : Veces(estado_ready, p) \in Nat
  BY VecesNaturales, LenProperties DEF IInv, TypeOK, TypeColas, TypeExec, Despacha
<1>2. CASE SRT
  <2>1. Contains(estado_ready, pcbExec)
    BY <1>1, <1>2, VecesBasico DEF IInv, ElegidoEnReady
  <2>2. PICK i \in DOMAIN estado_ready : /\ estado_ready[i] = pcbExec
                                         /\ estado_ready' = RemoveAt(estado_ready, i)
    BY <2>1 DEF Despacha
  <2>3. i \in 1..Len(estado_ready)
    BY <1>1
  <2>4. Len(estado_ready') = Len(estado_ready) - 1
    BY <1>1, <2>2, <2>3, RemoveAtPropiedades
  <2>5. \A p : Veces(estado_ready', p) = Veces(estado_ready, p) - Uno(pcbExec = p)
    BY <1>1, <2>2, <2>3, VecesAlRemover
  <2> QED  BY <1>2, <2>4, <2>5 DEF Uno
<1>3. CASE ~SRT
  <2>1. Apariciones(pcbExec) <= 1
    BY <1>1 DEF IInv, CadaPcbEnUnLugar, Uno
  <2>2. Veces(estado_ready, pcbExec) = 0
    BY <1>1, <1>3, <2>1, VecesNaturales DEF Apariciones, ExecConPcb, Uno
  <2>3. ~Contains(estado_ready, pcbExec)
    BY <1>1, <2>2, VecesBasico
  <2>4. estado_ready' = estado_ready
    BY <2>3 DEF Despacha
  <2> QED  BY <1>1, <1>3, <2>4 DEF Uno
<1> QED  BY <1>2, <1>3

\* Every step keeps the accounts of the semaphores and no queue is popped empty.
LEMMA CuentasPreservadas ==
    ASSUME IInv, [Next]_vars
    PROVE  SemaforosCuentan' /\ GradoContado' /\ SinPopVacio'
<1> USE DEF Pcb, NULO, Uno, varsMain, varsColas, varsSem, varsAready, varsExec, varsBlock,
            varsMem, varsCPU, varsFin
<1> DEFINE LargosDeColas ==
       /\ Len(estado_new) \in Nat /\ (estado_new # <<>> <=> Len(estado_new) > 0)
       /\ Len(estado_ready) \in Nat /\ (estado_ready # <<>> <=> Len(estado_ready) > 0)
       /\ Len(estado_blocked) \in Nat /\ (estado_blocked # <<>> <=> Len(estado_blocked) > 0)
       /\ Len(estado_susp_ready) \in Nat
       /\ (estado_susp_ready # <<>> <=> Len(estado_susp_ready) > 0)
<1>1. TypeOK /\ TypeColas /\ SemaforosCuentan /\ GradoContado /\ SinPopVacio
  BY DEF IInv, TypeOK
<1>2. LargosDeColas /\ LargosDeColas'
  <2>1. TypeColas'
    BY TipoPreservado DEF IInv, TypeOK
  <2> QED  BY <1>1, <2>1, Largos DEF TypeColas
<1> HIDE DEF LargosDeColas
<1>3. CASE ManejarProceso
  BY <1>1, <1>2, <1>3 DEF ManejarProceso, TypeOK, TypeSem,
      SemaforosCuentan, EsperaContada, ReadyContado, BlockContado, GradoContado, SinPopVacio,
      AreadyConTurno, AreadyConPcb, AreadyAdmitiendo, ExecConPcb, BlockConPcb, LargosDeColas
<1>4. CASE IngresarANew
  <2>1. Len(estado_new') = Len(estado_new) + 1
    BY <1>1, <1>4, CotasAssumption, Largos DEF TypeOK, TypeMain, TypeColas, IngresarANew
  <2> QED  BY <1>1, <1>2, <1>4, <2>1, SMTT(60) DEF IngresarANew, TypeOK, TypeSem,
      SemaforosCuentan, EsperaContada, ReadyContado, BlockContado, GradoContado, SinPopVacio,
      AreadyConTurno, AreadyConPcb, AreadyAdmitiendo, ExecConPcb, BlockConPcb, LargosDeColas
<1>5. CASE PostNew
  BY <1>1, <1>2, <1>5 DEF PostNew, TypeOK, TypeSem,
      SemaforosCuentan, EsperaContada, ReadyContado, BlockContado, GradoContado, SinPopVacio,
      AreadyConTurno, AreadyConPcb, AreadyAdmitiendo, ExecConPcb, BlockConPcb, LargosDeColas
<1>6. CASE EsperaPcb
  BY <1>1, <1>2, <1>6 DEF EsperaPcb, TypeOK, TypeSem,
      SemaforosCuentan, EsperaContada, ReadyContado, BlockContado, GradoContado, SinPopVacio,
      AreadyConTurno, AreadyConPcb, AreadyAdmitiendo, ExecConPcb, BlockConPcb, LargosDeColas
<1>7. CASE EsperaGrado
  BY <1>1, <1>2, <1>7 DEF EsperaGrado, TypeOK, TypeSem,
      SemaforosCuentan, EsperaContada, ReadyContado, BlockContado, GradoContado, SinPopVacio,
      AreadyConTurno, AreadyConPcb, AreadyAdmitiendo, ExecConPcb, BlockConPcb, LargosDeColas
<1>8. CASE Elige
  BY <1>1, <1>2, <1>8 DEF Elige, TypeOK, TypeSem,
      SemaforosCuentan, EsperaContada, ReadyContado, BlockContado, GradoContado, SinPopVacio,
      AreadyConTurno, AreadyConPcb, AreadyAdmitiendo, ExecConPcb, BlockConPcb, LargosDeColas
<1>9. CASE PopSuspReady
  <2>1. Len(estado_susp_ready') = Len(estado_susp_ready) - 1
    BY <1>1, <1>9, Largos DEF TypeOK, TypeColas, PopSuspReady
  <2> QED  BY <1>1, <1>2, <1>9, <2>1 DEF PopSuspReady, TypeOK, TypeSem,
      SemaforosCuentan, EsperaContada, ReadyContado, BlockContado, GradoContado, SinPopVacio,
      AreadyConTurno, AreadyConPcb, AreadyAdmitiendo, ExecConPcb, BlockConPcb, LargosDeColas
<1>10. CASE PopNew
  <2>1. Len(estado_new') = Len(estado_new) - 1
    BY <1>1, <1>10, Largos DEF TypeOK, TypeColas, PopNew
  <2> QED  BY <1>1, <1>2, <1>10, <2>1 DEF PopNew, TypeOK, TypeSem,
      SemaforosCuentan, EsperaContada, ReadyContado, BlockContado, GradoContado, SinPopVacio,
      AreadyConTurno, AreadyConPcb, AreadyAdmitiendo, ExecConPcb, BlockConPcb, LargosDeColas
<1>11. CASE EstructurasCreadas
  BY <1>1, <1>2, <1>11 DEF EstructurasCreadas, TypeOK, TypeSem,
      SemaforosCuentan, EsperaContada, ReadyContado, BlockContado, GradoContado, SinPopVacio,
      AreadyConTurno, AreadyConPcb, AreadyAdmitiendo, ExecConPcb, BlockConPcb, LargosDeColas
<1>12. CASE AgregaReady
  <2>1. Len(estado_ready') = Len(estado_ready) + 1
    BY <1>1, <1>12, Largos DEF TypeOK, TypeAready, AreadyConPcb, TypeColas, AgregaReady
  <2> QED  BY <1>1, <1>2, <1>12, <2>1 DEF AgregaReady, TypeOK, TypeSem,
      SemaforosCuentan, EsperaContada, ReadyContado, BlockContado, GradoContado, SinPopVacio,
      AreadyConTurno, AreadyConPcb, AreadyAdmitiendo, ExecConPcb, BlockConPcb, LargosDeColas
<1>13. CASE InterrumpeAready
  BY <1>1, <1>2, <1>13 DEF InterrumpeAready, TypeOK, TypeSem,
      SemaforosCuentan, EsperaContada, ReadyContado, BlockContado, GradoContado, SinPopVacio,
      AreadyConTurno, AreadyConPcb, AreadyAdmitiendo, ExecConPcb, BlockConPcb, LargosDeColas
<1>14. CASE PostReadyAready
  BY <1>1, <1>2, <1>14 DEF PostReadyAready, TypeOK, TypeSem,
      SemaforosCuentan, EsperaContada, ReadyContado, BlockContado, GradoContado, SinPopVacio,
      AreadyConTurno, AreadyConPcb, AreadyAdmitiendo, ExecConPcb, BlockConPcb, LargosDeColas
<1>15. CASE EsperaReady
  BY <1>1, <1>2, <1>15 DEF EsperaReady, TypeOK, TypeSem,
      SemaforosCuentan, EsperaContada, ReadyContado, BlockContado, GradoContado, SinPopVacio,
      AreadyConTurno, AreadyConPcb, AreadyAdmitiendo, ExecConPcb, BlockConPcb, LargosDeColas
<1>16. CASE PlanificaFIFO
  <2>1. Len(estado_ready') = Len(estado_ready) - 1
    BY <1>1, <1>16, Largos DEF TypeOK, TypeColas, PlanificaFIFO
  <2> QED  BY <1>1, <1>2, <1>16, <2>1 DEF PlanificaFIFO, TypeOK, TypeSem,
      SemaforosCuentan, EsperaContada, ReadyContado, BlockContado, GradoContado, SinPopVacio,
      AreadyConTurno, AreadyConPcb, AreadyAdmitiendo, ExecConPcb, BlockConPcb, LargosDeColas
<1>17. CASE PlanificaSRT
  BY <1>1, <1>2, <1>17 DEF PlanificaSRT, TypeOK, TypeSem,
      SemaforosCuentan, EsperaContada, ReadyContado, BlockContado, GradoContado, SinPopVacio,
      AreadyConTurno, AreadyConPcb, AreadyAdmitiendo, ExecConPcb, BlockConPcb, LargosDeColas
<1>18. CASE VuelvePorIO
  <2>1. Len(estado_blocked') = Len(estado_blocked) + 1
    BY <1>1, <1>18, Largos DEF TypeOK, TypeExec, TypeCPU, SinRespuesta, TypeColas, VuelvePorIO
  <2> QED  BY <1>1, <1>2, <1>18, <2>1 DEF VuelvePorIO, TypeOK, TypeSem,
      SemaforosCuentan, EsperaContada, ReadyContado, BlockContado, GradoContado, SinPopVacio,
      AreadyConTurno, AreadyConPcb, AreadyAdmitiendo, ExecConPcb, BlockConPcb, LargosDeColas
<1>19. CASE PostBlock
  BY <1>1, <1>2, <1>19 DEF PostBlock, TypeOK, TypeSem,
      SemaforosCuentan, EsperaContada, ReadyContado, BlockContado, GradoContado, SinPopVacio,
      AreadyConTurno, AreadyConPcb, AreadyAdmitiendo, ExecConPcb, BlockConPcb, LargosDeColas
<1>20. CASE VuelvePorInterrupcion
  <2>1. Len(estado_ready') = Len(estado_ready) + 1
    BY <1>1, <1>20, Largos DEF TypeOK, TypeExec, TypeColas, VuelvePorInterrupcion
  <2> QED  BY <1>1, <1>2, <1>20, <2>1 DEF VuelvePorInterrupcion, TypeOK, TypeSem,
      SemaforosCuentan, EsperaContada, ReadyContado, BlockContado, GradoContado, SinPopVacio,
      AreadyConTurno, AreadyConPcb, AreadyAdmitiendo, ExecConPcb, BlockConPcb, LargosDeColas
<1>21. CASE PostReadyExec
  BY <1>1, <1>2, <1>21 DEF PostReadyExec, TypeOK, TypeSem,
      SemaforosCuentan, EsperaContada, ReadyContado, BlockContado, GradoContado, SinPopVacio,
      AreadyConTurno, AreadyConPcb, AreadyAdmitiendo, ExecConPcb, BlockConPcb, LargosDeColas
<1>22. CASE VuelvePorExit
  BY <1>1, <1>2, <1>22 DEF VuelvePorExit, TypeOK, TypeSem,
      SemaforosCuentan, EsperaContada, ReadyContado, BlockContado, GradoContado, SinPopVacio,
      AreadyConTurno, AreadyConPcb, AreadyAdmitiendo, ExecConPcb, BlockConPcb, LargosDeColas
<1>23. CASE AvisaConsola
  BY <1>1, <1>2, <1>23 DEF AvisaConsola, TypeOK, TypeSem,
      SemaforosCuentan, EsperaContada, ReadyContado, BlockContado, GradoContado, SinPopVacio,
      AreadyConTurno, AreadyConPcb, AreadyAdmitiendo, ExecConPcb, BlockConPcb, LargosDeColas
<1>24. CASE PostGradoExec
  BY <1>1, <1>2, <1>24 DEF PostGradoExec, TypeOK, TypeSem,
      SemaforosCuentan, EsperaContada, ReadyContado, BlockContado, GradoContado, SinPopVacio,
      AreadyConTurno, AreadyConPcb, AreadyAdmitiendo, ExecConPcb, BlockConPcb, LargosDeColas
<1>25. CASE EsperaBlock
  BY <1>1, <1>2, <1>25 DEF EsperaBlock, TypeOK, TypeSem,
      SemaforosCuentan, EsperaContada, ReadyContado, BlockContado, GradoContado, SinPopVacio,
      AreadyConTurno, AreadyConPcb, AreadyAdmitiendo, ExecConPcb, BlockConPcb, LargosDeColas
<1>26. CASE PopBlocked
  <2>1. Len(estado_blocked') = Len(estado_blocked) - 1
    <3> DEFINE Pedidos == [pcb : Pcb, tiempoBloqueo : TiemposIO]
    <3>1. estado_blocked \in Seq(Pedidos) /\ estado_blocked # <<>>
      BY <1>1, <1>26 DEF TypeColas, PopBlocked
    <3> HIDE DEF Pedidos
    <3> QED  BY <1>26, <3>1, Largos DEF PopBlocked
  <2>2. /\ pcBlock = "pop" /\ pcBlock' \in {"suspende", "duerme"}
        /\ UNCHANGED <<estado_new, estado_ready, estado_susp_ready, varsMain, varsSem,
                       varsAready, pcExec>>
    BY <1>26 DEF PopBlocked
  <2>3. EsperaContada' /\ ReadyContado' /\ SinPopVacio'
    BY <1>1, <1>2, <2>2 DEF SemaforosCuentan, EsperaContada, ReadyContado, SinPopVacio,
        AreadyConTurno
  <2>4. BlockContado'
    BY <1>1, <1>2, <2>1, <2>2 DEF TypeOK, TypeSem, SemaforosCuentan, BlockContado,
        LargosDeColas
  <2>5. GradoContado'
    BY <1>1, <1>2, <2>1, <2>2 DEF TypeOK, TypeSem, GradoContado, AreadyAdmitiendo,
        ExecConPcb, BlockConPcb, LargosDeColas
  <2> QED  BY <2>3, <2>4, <2>5 DEF SemaforosCuentan
<1>27. CASE TerminaIO
  <2>1. Len(estado_ready') = Len(estado_ready) + 1
    BY <1>1, <1>27, Largos DEF TypeOK, TypeBlock, BlockConPcb, TypeColas, TerminaIO
  <2> QED  BY <1>1, <1>2, <1>27, <2>1 DEF TerminaIO, TypeOK, TypeSem,
      SemaforosCuentan, EsperaContada, ReadyContado, BlockContado, GradoContado, SinPopVacio,
      AreadyConTurno, AreadyConPcb, AreadyAdmitiendo, ExecConPcb, BlockConPcb, LargosDeColas
<1>28. CASE InterrumpeBlock
  BY <1>1, <1>2, <1>28 DEF InterrumpeBlock, TypeOK, TypeSem,
      SemaforosCuentan, EsperaContada, ReadyContado, BlockContado, GradoContado, SinPopVacio,
      AreadyConTurno, AreadyConPcb, AreadyAdmitiendo, ExecConPcb, BlockConPcb, LargosDeColas
<1>29. CASE PostReadyBlock
  BY <1>1, <1>2, <1>29 DEF PostReadyBlock, TypeOK, TypeSem,
      SemaforosCuentan, EsperaContada, ReadyContado, BlockContado, GradoContado, SinPopVacio,
      AreadyConTurno, AreadyConPcb, AreadyAdmitiendo, ExecConPcb, BlockConPcb, LargosDeColas
<1>30. CASE PideSuspender
  BY <1>1, <1>2, <1>30 DEF PideSuspender, TypeOK, TypeSem,
      SemaforosCuentan, EsperaContada, ReadyContado, BlockContado, GradoContado, SinPopVacio,
      AreadyConTurno, AreadyConPcb, AreadyAdmitiendo, ExecConPcb, BlockConPcb, LargosDeColas
<1>31. CASE Suspendido
  BY <1>1, <1>2, <1>31 DEF Suspendido, TypeOK, TypeSem,
      SemaforosCuentan, EsperaContada, ReadyContado, BlockContado, GradoContado, SinPopVacio,
      AreadyConTurno, AreadyConPcb, AreadyAdmitiendo, ExecConPcb, BlockConPcb, LargosDeColas
<1>32. CASE PostGradoBlock
  BY <1>1, <1>2, <1>32 DEF PostGradoBlock, TypeOK, TypeSem,
      SemaforosCuentan, EsperaContada, ReadyContado, BlockContado, GradoContado, SinPopVacio,
      AreadyConTurno, AreadyConPcb, AreadyAdmitiendo, ExecConPcb, BlockConPcb, LargosDeColas
<1>33. CASE TerminaIOSuspendido
  <2>1. Len(estado_susp_ready') = Len(estado_susp_ready) + 1
    <3>1. ultimoIO \in [pcb : Pcb, tiempoBloqueo : TiemposIO]
      BY <1>1, <1>33 DEF TypeOK, TypeBlock, BlockConPcb, TerminaIOSuspendido
    <3> QED  BY <1>1, <1>33, <3>1, Largos DEF TypeColas, TerminaIOSuspendido
  <2> QED  BY <1>1, <1>2, <1>33, <2>1, SMTT(60) DEF TerminaIOSuspendido, TypeOK, TypeSem,
      SemaforosCuentan, EsperaContada, ReadyContado, BlockContado, GradoContado, SinPopVacio,
      AreadyConTurno, AreadyConPcb, AreadyAdmitiendo, ExecConPcb, BlockConPcb, LargosDeColas
<1>34. CASE PostSusp
  BY <1>1, <1>2, <1>34 DEF PostSusp, TypeOK, TypeSem,
      SemaforosCuentan, EsperaContada, ReadyContado, BlockContado, GradoContado, SinPopVacio,
      AreadyConTurno, AreadyConPcb, AreadyAdmitiendo, ExecConPcb, BlockConPcb, LargosDeColas
<1>35. CASE Despacha
  <2>1. Len(estado_ready') = Len(estado_ready) - Uno(SRT)
    BY <1>35, DespachaQuita
  <2> QED  BY <1>1, <1>2, <1>35, <2>1 DEF Despacha, TypeOK, TypeSem,
      SemaforosCuentan, EsperaContada, ReadyContado, BlockContado, GradoContado, SinPopVacio,
      AreadyConTurno, AreadyConPcb, AreadyAdmitiendo, ExecConPcb, BlockConPcb, LargosDeColas
<1>36. CASE HiloKernel \/ CPU \/ Terminado \/ UNCHANGED vars
  BY <1>1, <1>36 DEF HiloKernel, CPU, CPUEjecutaIO, CPUEjecutaExit, CPUInterrumpida, Responde,
      Terminado, vars, SemaforosCuentan, EsperaContada, ReadyContado, BlockContado, GradoContado, SinPopVacio,
      AreadyConTurno, AreadyConPcb, AreadyAdmitiendo, ExecConPcb, BlockConPcb, LargosDeColas
<1> QED  BY <1>3, <1>4, <1>5, <1>6, <1>7, <1>8, <1>9, <1>10, <1>11, <1>12, <1>13, <1>14, <1>15, <1>16, <1>17, <1>18, <1>19, <1>20, <1>21, <1>22, <1>23, <1>24, <1>25, <1>26, <1>27, <1>28, <1>29, <1>30, <1>31, <1>32, <1>33, <1>34, <1>35, <1>36
     DEF Next, HiloMain, HiloAready, HiloExec, HiloBlock

\* Every step keeps each process in exactly one place.
LEMMA LugarPreservado ==
    ASSUME IInv, [Next]_vars, NEW p \in Pcb
    PROVE  Apariciones(p)' = Uno(p < id_nuevo_proceso /\ p \notin finalizadas)'
<1> USE DEF Uno, NULO, varsMain, varsColas, varsSem, varsAready, varsExec, varsBlock,
            varsMem, varsCPU, varsFin
<1>1. /\ TypeMain /\ TypeColas /\ TypeAready /\ TypeExec /\ TypeBlock /\ TypeCPU
      /\ p \in Nat /\ SinPopVacio /\ FinalizadasConectadas
      /\ Apariciones(p) = Uno(p < id_nuevo_proceso /\ p \notin finalizadas)
  BY CotasAssumption DEF IInv, TypeOK, CadaPcbEnUnLugar, Pcb
<1>2. /\ Veces(estado_new, p) \in Nat /\ Veces(estado_ready, p) \in Nat
      /\ Veces(estado_susp_ready, p) \in Nat /\ VecesIO(estado_blocked, p) \in Nat
  BY <1>1, VecesNaturales
<1>3. CASE ManejarProceso
  BY <1>1, <1>2, <1>3 DEF ManejarProceso, TypeMain, FinalizadasConectadas, Apariciones, AreadyConPcb, ExecConPcb, BlockConPcb
<1>4. CASE IngresarANew
  <2>1. Veces(estado_new', p) = Veces(estado_new, p) + Uno(id_nuevo_proceso - 1 = p)
    <3>1. id_nuevo_proceso - 1 \in Pcb /\ estado_new' = Append(estado_new, id_nuevo_proceso - 1)
      BY <1>1, <1>4, CotasAssumption DEF TypeMain, Pcb, IngresarANew
    <3> QED  BY <1>1, <3>1, VecesAlAgregar DEF TypeColas
  <2> QED  BY <1>1, <1>2, <1>4, <2>1, SMTT(30) DEF IngresarANew, Apariciones, AreadyConPcb, ExecConPcb, BlockConPcb
<1>5. CASE PostNew
  BY <1>1, <1>2, <1>5 DEF PostNew, Apariciones, AreadyConPcb, ExecConPcb, BlockConPcb
<1>6. CASE EsperaPcb
  BY <1>1, <1>2, <1>6 DEF EsperaPcb, Apariciones, AreadyConPcb, ExecConPcb, BlockConPcb
<1>7. CASE EsperaGrado
  BY <1>1, <1>2, <1>7 DEF EsperaGrado, Apariciones, AreadyConPcb, ExecConPcb, BlockConPcb
<1>8. CASE Elige
  BY <1>1, <1>2, <1>8 DEF Elige, Apariciones, AreadyConPcb, ExecConPcb, BlockConPcb
<1>9. CASE PopSuspReady
  <2>1. Veces(estado_susp_ready', p) = Veces(estado_susp_ready, p) - Uno(Head(estado_susp_ready) = p)
    BY <1>1, <1>9, VecesEnCola DEF TypeColas, PopSuspReady
  <2> QED  BY <1>1, <1>2, <1>9, <2>1, SMTT(30) DEF PopSuspReady, Apariciones, AreadyConPcb, ExecConPcb, BlockConPcb
<1>10. CASE PopNew
  <2>1. Veces(estado_new', p) = Veces(estado_new, p) - Uno(Head(estado_new) = p)
    BY <1>1, <1>10, VecesEnCola DEF TypeColas, PopNew
  <2> QED  BY <1>1, <1>2, <1>10, <2>1, SMTT(30) DEF PopNew, Apariciones, AreadyConPcb, ExecConPcb, BlockConPcb
<1>11. CASE EstructurasCreadas
  BY <1>1, <1>2, <1>11 DEF EstructurasCreadas, Apariciones, AreadyConPcb, ExecConPcb, BlockConPcb
<1>12. CASE AgregaReady
  <2>1. Veces(estado_ready', p) = Veces(estado_ready, p) + Uno(pcbAready = p)
    <3>1. pcbAready \in Pcb /\ estado_ready' = Append(estado_ready, pcbAready)
      BY <1>1, <1>12 DEF TypeAready, AreadyConPcb, AgregaReady
    <3> QED  BY <1>1, <3>1, VecesAlAgregar DEF TypeColas
  <2> QED  BY <1>1, <1>2, <1>12, <2>1, SMTT(30) DEF AgregaReady, Apariciones, AreadyConPcb, ExecConPcb, BlockConPcb
<1>13. CASE InterrumpeAready
  BY <1>1, <1>2, <1>13 DEF InterrumpeAready, Apariciones, AreadyConPcb, ExecConPcb, BlockConPcb
<1>14. CASE PostReadyAready
  BY <1>1, <1>2, <1>14 DEF PostReadyAready, Apariciones, AreadyConPcb, ExecConPcb, BlockConPcb
<1>15. CASE EsperaReady
  BY <1>1, <1>2, <1>15 DEF EsperaReady, Apariciones, AreadyConPcb, ExecConPcb, BlockConPcb
<1>16. CASE PlanificaFIFO
  <2>1. Veces(estado_ready', p) = Veces(estado_ready, p) - Uno(Head(estado_ready) = p)
    BY <1>1, <1>16, VecesEnCola DEF TypeColas, PlanificaFIFO
  <2> QED  BY <1>1, <1>2, <1>16, <2>1, SMTT(30) DEF PlanificaFIFO, Apariciones, AreadyConPcb, ExecConPcb, BlockConPcb
<1>17. CASE PlanificaSRT
  BY <1>1, <1>2, <1>17 DEF PlanificaSRT, Apariciones, AreadyConPcb, ExecConPcb, BlockConPcb
<1>18. CASE Despacha
  <2>1. Veces(estado_ready', p) = Veces(estado_ready, p) - Uno(SRT /\ pcbExec = p)
    BY <1>18, DespachaQuita
  <2> QED  BY <1>1, <1>2, <1>18, <2>1 DEF Despacha, Apariciones, AreadyConPcb, ExecConPcb, BlockConPcb
<1>19. CASE VuelvePorIO
  <2>1. VecesIO(estado_blocked', p) = VecesIO(estado_blocked, p) + Uno(pcbExec = p)
    <3> DEFINE e == [pcb |-> pcbExec, tiempoBloqueo |-> respuestaCPU.tiempoBloqueo]
               Pedidos == [pcb : Pcb, tiempoBloqueo : TiemposIO]
    <3>1. e \in Pedidos /\ e.pcb = pcbExec /\ estado_blocked \in Seq(Pedidos)
          /\ estado_blocked' = Append(estado_blocked, e)
      BY <1>1, <1>19 DEF TypeColas, TypeExec, TypeCPU, SinRespuesta, VuelvePorIO
    <3> HIDE DEF e, Pedidos
    <3> QED  BY <3>1, VecesIOAlAgregar
  <2> QED  BY <1>1, <1>2, <1>19, <2>1, SMTT(30) DEF VuelvePorIO, Apariciones, AreadyConPcb, ExecConPcb, BlockConPcb
<1>20. CASE PostBlock
  BY <1>1, <1>2, <1>20 DEF PostBlock, Apariciones, AreadyConPcb, ExecConPcb, BlockConPcb
<1>21. CASE VuelvePorInterrupcion
  <2>1. Veces(estado_ready', p) = Veces(estado_ready, p) + Uno(pcbExec = p)
    <3>1. pcbExec \in Pcb /\ estado_ready' = Append(estado_ready, pcbExec)
      BY <1>1, <1>21 DEF TypeExec, VuelvePorInterrupcion
    <3> QED  BY <1>1, <3>1, VecesAlAgregar DEF TypeColas
  <2> QED  BY <1>1, <1>2, <1>21, <2>1, SMTT(30) DEF VuelvePorInterrupcion, Apariciones, AreadyConPcb, ExecConPcb, BlockConPcb
<1>22. CASE PostReadyExec
  BY <1>1, <1>2, <1>22 DEF PostReadyExec, Apariciones, AreadyConPcb, ExecConPcb, BlockConPcb
<1>23. CASE VuelvePorExit
  BY <1>1, <1>2, <1>23 DEF VuelvePorExit, Apariciones, AreadyConPcb, ExecConPcb, BlockConPcb
<1>24. CASE AvisaConsola
  <2>1. p \in finalizadas' <=> p \in finalizadas \/ p = pcbExec
    BY <1>24 DEF AvisaConsola
  <2>2. /\ pcExec = "avisa_consola" /\ pcExec' = "post_grado"
        /\ id_nuevo_proceso' = id_nuevo_proceso /\ pcMain' = pcMain
        /\ estado_new' = estado_new /\ estado_ready' = estado_ready
        /\ estado_blocked' = estado_blocked /\ estado_susp_ready' = estado_susp_ready
        /\ pcAready' = pcAready /\ pcbAready' = pcbAready
        /\ pcBlock' = pcBlock /\ ultimoIO' = ultimoIO
    BY <1>24 DEF AvisaConsola
  <2>3. CASE p = pcbExec
    <3>1. p \in finalizadas'
      BY <2>1, <2>3
    <3>2. Apariciones(p) \in {0, 1}
      BY <1>1
    <3>3. Apariciones(p)' = 0
      BY <1>2, <2>2, <2>3, <3>2 DEF Apariciones, AreadyConPcb, ExecConPcb, BlockConPcb
    <3> QED  BY <3>1, <3>3
  <2>4. CASE p # pcbExec
    <3>1. Apariciones(p)' = Apariciones(p)
      BY <2>2, <2>4 DEF Apariciones, AreadyConPcb, ExecConPcb, BlockConPcb
    <3>2. UNCHANGED id_nuevo_proceso /\ (p \in finalizadas' <=> p \in finalizadas)
      BY <2>1, <2>2, <2>4
    <3> QED  BY <1>1, <3>1, <3>2
  <2> QED  BY <2>3, <2>4
<1>25. CASE PostGradoExec
  BY <1>1, <1>2, <1>25 DEF PostGradoExec, Apariciones, AreadyConPcb, ExecConPcb, BlockConPcb
<1>26. CASE EsperaBlock
  BY <1>1, <1>2, <1>26 DEF EsperaBlock, Apariciones, AreadyConPcb, ExecConPcb, BlockConPcb
<1>27. CASE PopBlocked
  <2>1. VecesIO(estado_blocked', p) = VecesIO(estado_blocked, p) - Uno(Head(estado_blocked).pcb = p)
    <3> DEFINE Pedidos == [pcb : Pcb, tiempoBloqueo : TiemposIO]
    <3>1. estado_blocked \in Seq(Pedidos) /\ estado_blocked # <<>>
          /\ estado_blocked' = Tail(estado_blocked)
      BY <1>1, <1>27 DEF TypeColas, PopBlocked
    <3> HIDE DEF Pedidos
    <3> QED  BY <3>1, VecesIOEnCola
  <2>2. /\ pcBlock = "pop" /\ pcBlock' \in {"suspende", "duerme"}
        /\ ultimoIO' = Head(estado_blocked)
        /\ UNCHANGED <<estado_new, estado_ready, estado_susp_ready, varsMain, varsAready,
                       varsExec, finalizadas>>
    BY <1>27 DEF PopBlocked
  <2> QED
    BY <1>1, <1>2, <2>1, <2>2, SMTT(30) DEF Apariciones, AreadyConPcb, ExecConPcb, BlockConPcb
<1>28. CASE TerminaIO
  <2>1. Veces(estado_ready', p) = Veces(estado_ready, p) + Uno(ultimoIO.pcb = p)
    <3>1. ultimoIO.pcb \in Pcb /\ estado_ready' = Append(estado_ready, ultimoIO.pcb)
      BY <1>1, <1>28 DEF TypeBlock, BlockConPcb, TerminaIO
    <3> QED  BY <1>1, <3>1, VecesAlAgregar DEF TypeColas
  <2> QED  BY <1>1, <1>2, <1>28, <2>1, SMTT(30) DEF TerminaIO, Apariciones, AreadyConPcb, ExecConPcb, BlockConPcb
<1>29. CASE InterrumpeBlock
  BY <1>1, <1>2, <1>29 DEF InterrumpeBlock, Apariciones, AreadyConPcb, ExecConPcb, BlockConPcb
<1>30. CASE PostReadyBlock
  BY <1>1, <1>2, <1>30 DEF PostReadyBlock, Apariciones, AreadyConPcb, ExecConPcb, BlockConPcb
<1>31. CASE PideSuspender
  BY <1>1, <1>2, <1>31 DEF PideSuspender, Apariciones, AreadyConPcb, ExecConPcb, BlockConPcb
<1>32. CASE Suspendido
  BY <1>1, <1>2, <1>32 DEF Suspendido, Apariciones, AreadyConPcb, ExecConPcb, BlockConPcb
<1>33. CASE PostGradoBlock
  BY <1>1, <1>2, <1>33 DEF PostGradoBlock, Apariciones, AreadyConPcb, ExecConPcb, BlockConPcb
<1>34. CASE TerminaIOSuspendido
  <2>1. Veces(estado_susp_ready', p) = Veces(estado_susp_ready, p) + Uno(ultimoIO.pcb = p)
    <3>1. ultimoIO.pcb \in Pcb /\ estado_susp_ready' = Append(estado_susp_ready, ultimoIO.pcb)
      BY <1>1, <1>34 DEF TypeBlock, BlockConPcb, TerminaIOSuspendido
    <3> QED  BY <1>1, <3>1, VecesAlAgregar DEF TypeColas
  <2> QED  BY <1>1, <1>2, <1>34, <2>1, SMTT(30) DEF TerminaIOSuspendido, Apariciones, AreadyConPcb, ExecConPcb, BlockConPcb
<1>35. CASE PostSusp
  BY <1>1, <1>2, <1>35 DEF PostSusp, Apariciones, AreadyConPcb, ExecConPcb, BlockConPcb
<1>36. CASE HiloKernel \/ CPU \/ Terminado \/ UNCHANGED vars
  BY <1>1, <1>36 DEF HiloKernel, CPU, CPUEjecutaIO, CPUEjecutaExit, CPUInterrumpida, Responde,
      Terminado, vars, Apariciones, AreadyConPcb, ExecConPcb, BlockConPcb
<1> QED
  BY <1>3, <1>4, <1>5, <1>6, <1>7, <1>8, <1>9, <1>10, <1>11, <1>12, <1>13, <1>14, <1>15,
     <1>16, <1>17, <1>18, <1>19, <1>20, <1>21, <1>22, <1>23, <1>24, <1>25, <1>26, <1>27,
     <1>28, <1>29, <1>30, <1>31, <1>32, <1>33, <1>34, <1>35, <1>36
  DEF Next, HiloMain, HiloAready, HiloExec, HiloBlock

\* The chosen PCB waits in ready for Despacha.
LEMMA ElegidoPreservado ==
    ASSUME IInv, [Next]_vars
    PROVE  ElegidoEnReady'
<1> USE DEF NULO, varsMain, varsColas, varsSem, varsAready, varsExec, varsBlock, varsMem,
            varsCPU, varsFin
<1>1. TypeOK /\ TypeColas /\ estado_ready \in Seq(Pcb) /\ ElegidoEnReady /\ SinPopVacio
      /\ \A p : Veces(estado_ready, p) \in Nat
  BY VecesNaturales DEF IInv, TypeOK, TypeColas
<1>2. CASE PlanificaSRT
  <2>1. PICK corto \in DOMAIN estado_ready :
          pcbExec' \in {Head(estado_ready), estado_ready[corto]}
          \/ Contains(estado_ready, pcbExec')
    BY <1>2 DEF PlanificaSRT
  <2>2. corto \in 1..Len(estado_ready) /\ Len(estado_ready) \in Nat
        /\ Head(estado_ready) = estado_ready[1] /\ 1 \in 1..Len(estado_ready)
    BY <1>1, LenProperties, HeadTailProperties, EmptySeq
  <2>3. Contains(estado_ready, pcbExec')
    BY <2>1, <2>2 DEF Contains
  <2> QED  BY <1>1, <1>2, <2>3, VecesBasico DEF PlanificaSRT, ElegidoEnReady
<1>3. ASSUME NEW e \in Pcb, estado_ready' = Append(estado_ready, e),
             pcExec' = "despacha" => pcExec = "despacha" /\ pcbExec' = pcbExec
      PROVE  ElegidoEnReady'
  <2>1. Veces(estado_ready', pcbExec) = Veces(estado_ready, pcbExec) + Uno(e = pcbExec)
    BY <1>1, <1>3, VecesAlAgregar
  <2> QED  BY <1>1, <1>3, <2>1 DEF ElegidoEnReady, Uno
<1>4. CASE AgregaReady
  BY <1>1, <1>3, <1>4 DEF AgregaReady, TypeOK, TypeAready, AreadyConPcb
<1>5. CASE TerminaIO
  BY <1>1, <1>3, <1>5 DEF TerminaIO, TypeOK, TypeBlock, BlockConPcb
<1>6. CASE HiloExec /\ ~PlanificaSRT
  BY <1>1, <1>6
  DEF HiloExec, EsperaReady, PlanificaFIFO, Despacha, VuelvePorIO, PostBlock,
      VuelvePorInterrupcion, PostReadyExec, VuelvePorExit, AvisaConsola, PostGradoExec,
      ElegidoEnReady
<1>7. CASE HiloMain \/ (HiloAready /\ ~AgregaReady)
  BY <1>1, <1>7
  DEF HiloMain, ManejarProceso, IngresarANew, PostNew, HiloAready, EsperaPcb, EsperaGrado,
      Elige, PopSuspReady, PopNew, EstructurasCreadas, InterrumpeAready, PostReadyAready,
      ElegidoEnReady
<1>8. CASE HiloBlock /\ ~TerminaIO
  BY <1>1, <1>8
  DEF HiloBlock, EsperaBlock, PopBlocked, InterrumpeBlock, PostReadyBlock, PideSuspender,
      Suspendido, PostGradoBlock, TerminaIOSuspendido, PostSusp, ElegidoEnReady
<1>9. CASE HiloKernel \/ CPU \/ Terminado \/ UNCHANGED vars
  BY <1>1, <1>9 DEF HiloKernel, CPU, CPUEjecutaIO, CPUEjecutaExit, CPUInterrumpida, Responde,
      Terminado, vars, ElegidoEnReady
<1> QED
  BY <1>2, <1>4, <1>5, <1>6, <1>7, <1>8, <1>9 DEF Next, HiloAready, HiloBlock

\* The list of consoles follows the processes that connected and did not end.
LEMMA ConsolasPreservadas ==
    ASSUME IInv, [Next]_vars
    PROVE  ConsolaDeCadaProceso' /\ FinalizadasConectadas'
<1> USE DEF ConsolaDeCadaProceso, FinalizadasConectadas
<1>1. TypeMain /\ ConsolaDeCadaProceso /\ FinalizadasConectadas
  BY DEF IInv, TypeOK
<1>2. CASE ManejarProceso
  <2>1. id_nuevo_proceso \in Pcb /\ id_nuevo_proceso \notin finalizadas
    BY <1>1, <1>2, CotasAssumption DEF ManejarProceso, TypeMain, Pcb
  <2>2. \A p \in Pcb : p < id_nuevo_proceso + 1 <=> p < id_nuevo_proceso \/ p = id_nuevo_proceso
    BY <1>1, CotasAssumption DEF TypeMain, Pcb
  <2> QED  BY <1>1, <1>2, <2>1, <2>2 DEF ManejarProceso, TypeMain
<1>3. CASE AvisaConsola
  BY <1>1, <1>3 DEF AvisaConsola, varsMain
<1>4. CASE UNCHANGED <<id_nuevo_proceso, varsFin>>
  BY <1>1, <1>4 DEF varsFin
<1>5. CASE ~ManejarProceso /\ ~AvisaConsola /\ ~UNCHANGED <<id_nuevo_proceso, varsFin>>
  BY <1>5
  DEF Next, vars, HiloMain, HiloAready, HiloExec, HiloBlock, HiloKernel, CPU, Terminado,
      IngresarANew, PostNew, EsperaPcb, EsperaGrado, Elige, PopSuspReady, PopNew,
      EstructurasCreadas, AgregaReady, InterrumpeAready, PostReadyAready, EsperaReady,
      PlanificaFIFO, PlanificaSRT, Despacha, VuelvePorIO, PostBlock, VuelvePorInterrupcion,
      PostReadyExec, VuelvePorExit, PostGradoExec, EsperaBlock, PopBlocked, TerminaIO,
      InterrumpeBlock, PostReadyBlock, PideSuspender, Suspendido, PostGradoBlock,
      TerminaIOSuspendido, PostSusp, CPUEjecutaIO, CPUEjecutaExit, CPUInterrumpida, Responde,
      varsMain, varsFin
<1> QED  BY <1>2, <1>3, <1>4, <1>5

\* Every step keeps the inductive invariant.
LEMMA InvariantePreservado ==
    ASSUME IInv, [Next]_vars
    PROVE  IInv'
<1>1. TypeOK'
  BY TipoPreservado DEF IInv
<1>2. SemaforosCuentan' /\ GradoContado' /\ SinPopVacio'
  BY CuentasPreservadas
<1>3. CadaPcbEnUnLugar'
  BY LugarPreservado DEF CadaPcbEnUnLugar
<1>4. ElegidoEnReady'
  BY ElegidoPreservado
<1>5. ConsolaDeCadaProceso' /\ FinalizadasConectadas'
  BY ConsolasPreservadas
<1> QED  BY <1>1, <1>2, <1>3, <1>4, <1>5 DEF IInv

\* The inductive invariant holds when the threads are created.
LEMMA InvarianteInicial == Init => IInv
<1> SUFFICES ASSUME Init PROVE IInv
  OBVIOUS
<1>1. TypeOK
  BY TipoInicial
<1>2. SemaforosCuentan /\ GradoContado /\ SinPopVacio /\ ElegidoEnReady
  BY CotasAssumption
  DEF Init, SemaforosCuentan, EsperaContada, ReadyContado, BlockContado, GradoContado,
      SinPopVacio, ElegidoEnReady, AreadyConTurno, AreadyAdmitiendo, ExecConPcb, BlockConPcb, Uno
<1>3. CadaPcbEnUnLugar
  BY VecesBasico, CotasAssumption
  DEF Init, CadaPcbEnUnLugar, Apariciones, AreadyConPcb, ExecConPcb, BlockConPcb, Uno, Pcb
<1>4. ConsolaDeCadaProceso /\ FinalizadasConectadas
  BY CotasAssumption DEF Init, ConsolaDeCadaProceso, FinalizadasConectadas, Pcb
<1> QED  BY <1>1, <1>2, <1>3, <1>4 DEF IInv

\* The accounts, the places of the PCBs, the PCB SRT chose and the list of
\* consoles are right together, in every run: the inductive invariant holds.
THEOREM Invariante == Spec => []IInv
BY InvarianteInicial, InvariantePreservado, PTL DEF Spec

-----------------------------------------------------------------------------
(* What it gives *)

\* No PCB is lost, duplicated or used by two threads at once.
THEOREM PcbEnUnLugar == Spec => []CadaPcbEnUnLugar
BY Invariante, PTL DEF IInv

\* The semaphores never get ahead of their queues nor behind them.
THEOREM SemaforosCorrectos == Spec => []SemaforosCuentan
BY Invariante, PTL DEF IInv

\* No thread ever pops an empty queue, in spite of the test of
\* estado_susp_ready outside its mutex.
THEOREM NingunPopVacio == Spec => []SinPopVacio
BY Invariante, PTL DEF IInv

\* execAexit always finds the console of the process that ends.
THEOREM ConsolaEncontrada == Spec => []ConsolaDeCadaProceso
BY Invariante, PTL DEF IInv

\* No place in the degree of multiprogramming is leaked or given back twice.
THEOREM GradoSinFugas == Spec => []GradoContado
BY Invariante, PTL DEF IInv

\* The degree of multiprogramming is never exceeded.
THEOREM GradoCorrecto == Spec => []GradoRespetado
<1>1. ASSUME IInv
      PROVE  GradoRespetado
  <2>1. /\ Len(estado_ready) \in Nat /\ Len(estado_blocked) \in Nat
        /\ sem_multiprogramacion \in Nat /\ GradoContado /\ GRADO_MULTIPROGRAMACION \in Nat
    BY <1>1, Largos, CotasAssumption DEF IInv, TypeOK, TypeColas, TypeSem
  <2> QED
    BY <2>1 DEF GradoContado, GradoRespetado, AreadyAdmitiendo, ExecConPcb, BlockConPcb, Uno
<1> QED  BY <1>1, Invariante, PTL

-----------------------------------------------------------------------------
(* Lists *)

\* An element is in the list with one more at its end, iff it was or is that one.
LEMMA ContieneAlAgregar ==
    ASSUME NEW S, NEW s \in Seq(S), NEW e \in S, NEW p
    PROVE  Contains(Append(s, e), p) <=> Contains(s, p) \/ p = e
<1>1. Append(s, e) \in Seq(S) /\ Veces(s, p) \in Nat
  BY AppendPropiedades, VecesBasico
<1>2. Veces(Append(s, e), p) = Veces(s, p) + Uno(e = p)
  BY VecesAlAgregar
<1>3. /\ Contains(Append(s, e), p) <=> Veces(Append(s, e), p) > 0
      /\ Contains(s, p) <=> Veces(s, p) > 0
  BY <1>1, VecesBasico
<1> QED  BY <1>1, <1>2, <1>3 DEF Uno

\* The tail of a list holds what the list holds, except its head.
LEMMA ContieneEnCola ==
    ASSUME NEW S, NEW s \in Seq(S), s # <<>>, NEW p
    PROVE  /\ Contains(s, Head(s))
           /\ Contains(Tail(s), p) => Contains(s, p)
           /\ Contains(s, p) => Contains(Tail(s), p) \/ p = Head(s)
<1>1. Tail(s) \in Seq(S) /\ Head(s) \in S
  BY Largos
<1>2. Veces(s, p) \in Nat /\ Veces(Tail(s), p) \in Nat /\ Veces(Tail(s), Head(s)) \in Nat
  BY <1>1, VecesBasico
<1>3. /\ Veces(Tail(s), p) = Veces(s, p) - Uno(Head(s) = p)
      /\ Veces(Tail(s), Head(s)) = Veces(s, Head(s)) - Uno(Head(s) = Head(s))
      /\ Veces(s, Head(s)) \in Nat
  BY VecesEnCola
<1>4. /\ Contains(Tail(s), p) <=> Veces(Tail(s), p) > 0
      /\ Contains(s, p) <=> Veces(s, p) > 0
      /\ Contains(s, Head(s)) <=> Veces(s, Head(s)) > 0
  BY <1>1, VecesBasico
<1> QED  BY <1>2, <1>3, <1>4 DEF Uno

\* Positions of a list and of what a push or a pop leaves.
LEMMA PosicionesDeCola ==
    ASSUME NEW S, NEW s \in Seq(S)
    PROVE  /\ Len(s) \in Nat /\ DOMAIN s = 1..Len(s) /\ \A i \in DOMAIN s : s[i] \in S
           /\ s # <<>> => /\ 1 \in DOMAIN s /\ Head(s) = s[1]
                          /\ DOMAIN Tail(s) = 1..Len(s)-1
                          /\ \A i \in DOMAIN Tail(s) : i + 1 \in DOMAIN s /\ Tail(s)[i] = s[i + 1]
           /\ \A e \in S : /\ DOMAIN Append(s, e) = 1..Len(s)+1
                           /\ Append(s, e)[Len(s) + 1] = e
                           /\ \A i \in DOMAIN s : Append(s, e)[i] = s[i]
<1>1. Len(s) \in Nat /\ DOMAIN s = 1..Len(s) /\ \A i \in DOMAIN s : s[i] \in S
  BY LenProperties, ElementOfSeq
<1>2. ASSUME s # <<>>
      PROVE  /\ 1 \in DOMAIN s /\ Head(s) = s[1]
             /\ DOMAIN Tail(s) = 1..Len(s)-1
             /\ \A i \in DOMAIN Tail(s) : i + 1 \in DOMAIN s /\ Tail(s)[i] = s[i + 1]
  <2>1. /\ Len(s) > 0 /\ Tail(s) \in Seq(S) /\ Len(Tail(s)) = Len(s) - 1
    BY <1>2, Largos
  <2>2. Head(s) = s[1] /\ \A i \in 1..Len(Tail(s)) : Tail(s)[i] = s[i + 1]
    BY <1>2, HeadTailProperties
  <2>3. DOMAIN Tail(s) = 1..Len(s)-1
    BY <2>1, LenProperties
  <2> QED  BY <1>1, <2>1, <2>2, <2>3
<1>3. ASSUME NEW e \in S
      PROVE  /\ DOMAIN Append(s, e) = 1..Len(s)+1
             /\ Append(s, e)[Len(s) + 1] = e
             /\ \A i \in DOMAIN s : Append(s, e)[i] = s[i]
  <2>1. Append(s, e) \in Seq(S) /\ Len(Append(s, e)) = Len(s) + 1
    BY AppendPropiedades
  <2>2. DOMAIN Append(s, e) = 1..Len(s)+1
    BY <2>1, LenProperties
  <2> QED  BY <1>1, <2>2, AppendPropiedades
<1> QED  BY <1>1, <1>2, <1>3

-----------------------------------------------------------------------------
(* The inductive invariant of the requests *)

\* The processes Memoria has no structures for: not connected yet, on their way
\* to NEW, in NEW, or with Aready waiting for their creation.
SinTablas(p) ==
    \/ p >= id_nuevo_proceso
    \/ pcMain = "push_new" /\ p = id_nuevo_proceso - 1
    \/ Contains(estado_new, p)
    \/ pcAready = "espera_crear" /\ pcbAready = p /\ "CREAR" \notin respuestasMemoria

\* Processes whose end was announced to Memoria.
Terminando(p) == p \in finalizadas \/ (pcExec = "avisa_consola" /\ pcbExec = p)

\* Each request in the queue is one its thread still waits for, or an end.
PedidoDebido(m) ==
    \/ /\ m.codigo = "CREAR" /\ pcAready = "espera_crear" /\ m.id = pcbAready
       /\ "CREAR" \notin respuestasMemoria
    \/ /\ m.codigo = "SUSP" /\ pcBlock = "espera_susp" /\ m.id = ultimoIO.pcb
       /\ "SUSP" \notin respuestasMemoria
    \/ m.codigo = "FIN" /\ Terminando(m.id)

PedidosDebidos ==
    \A i \in DOMAIN colaKernel :
        PedidoDebido(colaKernel[i]) /\ tablas[colaKernel[i].id] # "liberadas"

\* A process has at most one request in the queue.
UnPedidoPorProceso ==
    \A i, j \in DOMAIN colaKernel : colaKernel[i].id = colaKernel[j].id => i = j

RespuestasEsperadas ==
    /\ "CREAR" \in respuestasMemoria => pcAready = "espera_crear"
    /\ "SUSP" \in respuestasMemoria => pcBlock = "espera_susp"

TablasSegunLugar ==
    \A p \in Pcb : /\ tablas[p] = "sin_crear" <=> SinTablas(p)
                   /\ tablas[p] = "liberadas" => Terminando(p)

PedidosInv ==
    PedidosDebidos /\ UnPedidoPorProceso /\ RespuestasEsperadas /\ TablasSegunLugar

\* What being in one place says of the requests: who waits for creation, who is
\* suspended and who ends are different processes, and the last two have tables.
LEMMA LugaresDistintos ==
    ASSUME IInv, NEW p \in Pcb
    PROVE  /\ Terminando(p) => ~SinTablas(p) /\ ~(BlockConPcb /\ ultimoIO.pcb = p)
                               /\ ~(AreadyConPcb /\ pcbAready = p)
           /\ BlockConPcb /\ ultimoIO.pcb = p
                => ~SinTablas(p) /\ ~(ExecConPcb /\ pcbExec = p) /\ p \notin finalizadas
           /\ ExecConPcb /\ pcbExec = p => ~SinTablas(p) /\ p \notin finalizadas
           /\ AreadyConPcb /\ pcbAready = p
                => /\ ~Contains(estado_new, p) /\ p < id_nuevo_proceso
                   /\ ~(pcMain = "push_new" /\ p = id_nuevo_proceso - 1)
                   /\ ~(ExecConPcb /\ pcbExec = p)
           /\ Contains(estado_new, p)
                => /\ p < id_nuevo_proceso /\ ~Terminando(p) /\ ~(BlockConPcb /\ ultimoIO.pcb = p)
<1> USE DEF Uno
<1>1. /\ p \in Nat /\ id_nuevo_proceso \in Nat /\ TypeColas /\ FinalizadasConectadas
      /\ Apariciones(p) = Uno(p < id_nuevo_proceso /\ p \notin finalizadas)
  BY CotasAssumption DEF IInv, TypeOK, TypeMain, CadaPcbEnUnLugar, Pcb
<1>2. /\ Veces(estado_new, p) \in Nat /\ Veces(estado_ready, p) \in Nat
      /\ Veces(estado_susp_ready, p) \in Nat /\ VecesIO(estado_blocked, p) \in Nat
      /\ Contains(estado_new, p) <=> Veces(estado_new, p) > 0
  BY <1>1, VecesNaturales, VecesBasico DEF TypeColas
<1> DEFINE m == Uno(pcMain = "push_new" /\ p = id_nuevo_proceso - 1)
           a == Uno(AreadyConPcb /\ pcbAready = p)
           x == Uno(ExecConPcb /\ pcbExec = p)
           b == Uno(BlockConPcb /\ ultimoIO.pcb = p)
           n == Veces(estado_new, p)
           s == Veces(estado_susp_ready, p)
           r == Veces(estado_ready, p)
           k == VecesIO(estado_blocked, p)
           t == Uno(p < id_nuevo_proceso /\ p \notin finalizadas)
<1>3. /\ m \in {0, 1} /\ a \in {0, 1} /\ x \in {0, 1} /\ b \in {0, 1} /\ t \in {0, 1}
      /\ n \in Nat /\ s \in Nat /\ r \in Nat /\ k \in Nat
  BY <1>2
<1>4. m + n + s + r + k + a + x + b = t
  BY <1>1 DEF Apariciones
<1>5. /\ (pcMain = "push_new" /\ p = id_nuevo_proceso - 1) <=> m = 1
      /\ (AreadyConPcb /\ pcbAready = p) <=> a = 1
      /\ (ExecConPcb /\ pcbExec = p) <=> x = 1
      /\ (BlockConPcb /\ ultimoIO.pcb = p) <=> b = 1
      /\ Contains(estado_new, p) <=> n > 0
      /\ (p < id_nuevo_proceso /\ p \notin finalizadas) <=> t = 1
  BY <1>2
<1> HIDE DEF m, a, x, b, n, s, r, k, t
<1>6. /\ m + n + a + x + b <= t
  BY <1>3, <1>4
<1>7. /\ x = 1 => m = 0 /\ n = 0 /\ a = 0 /\ b = 0 /\ t = 1
      /\ b = 1 => m = 0 /\ n = 0 /\ a = 0 /\ x = 0 /\ t = 1
      /\ a = 1 => m = 0 /\ n = 0 /\ b = 0 /\ x = 0 /\ t = 1
      /\ n > 0 => m = 0 /\ a = 0 /\ b = 0 /\ x = 0 /\ t = 1
      /\ t = 0 => m = 0 /\ n = 0 /\ a = 0 /\ b = 0 /\ x = 0
  BY <1>3, <1>6
<1>8. p \in finalizadas => t = 0 /\ p < id_nuevo_proceso
  BY <1>1, <1>3, <1>5 DEF FinalizadasConectadas
<1>9. pcExec = "avisa_consola" => ExecConPcb
  BY DEF ExecConPcb
<1>10. pcAready = "espera_crear" => AreadyConPcb
  BY DEF AreadyConPcb
<1> QED
  BY <1>1, <1>3, <1>5, <1>7, <1>8, <1>9, <1>10 DEF SinTablas, Terminando

\* Every step keeps the requests in order.
LEMMA PedidosPreservados ==
    ASSUME IInv, PedidosInv, [Next]_vars
    PROVE  PedidosInv'
<1> USE DEF NULO, varsMain, varsColas, varsSem, varsAready, varsExec, varsBlock,
            varsMem, varsCPU, varsFin
<1> DEFINE Pedidos == [codigo : {"CREAR", "SUSP", "FIN"}, id : Pcb]
           n == Len(colaKernel)
<1>1. /\ TypeMain /\ TypeColas /\ TypeAready /\ TypeExec /\ TypeBlock /\ TypeMem
      /\ colaKernel \in Seq(Pedidos) /\ id_nuevo_proceso \in Nat
      /\ estado_new \in Seq(Pcb) /\ respuestasMemoria \subseteq {"CREAR", "SUSP"}
      /\ \A p \in Pcb : p \in Nat
  BY CotasAssumption DEF IInv, TypeOK, TypeMain, TypeColas, TypeMem, Pcb
<1>2. PedidosDebidos /\ UnPedidoPorProceso /\ RespuestasEsperadas /\ TablasSegunLugar
  BY DEF PedidosInv
<1> HIDE DEF Pedidos
<1>3. /\ n \in Nat /\ DOMAIN colaKernel = 1..n
      /\ \A i \in DOMAIN colaKernel : colaKernel[i] \in Pedidos
      /\ colaKernel # <<>> => /\ 1 \in DOMAIN colaKernel /\ Head(colaKernel) = colaKernel[1]
                              /\ DOMAIN Tail(colaKernel) = 1..n-1
                              /\ \A i \in DOMAIN Tail(colaKernel) :
                                    /\ i + 1 \in DOMAIN colaKernel
                                    /\ Tail(colaKernel)[i] = colaKernel[i + 1]
  BY <1>1, PosicionesDeCola
<1>4. \A i \in DOMAIN colaKernel : colaKernel[i].id \in Pcb
  BY <1>3 DEF Pedidos
\* A request is added for a process that has none.
<1>5. ASSUME NEW m \in Pedidos, colaKernel' = Append(colaKernel, m),
             \A i \in DOMAIN colaKernel : colaKernel[i].id # m.id
      PROVE  /\ UnPedidoPorProceso'
             /\ \A i \in DOMAIN colaKernel' :
                   colaKernel'[i] = m \/ (i \in DOMAIN colaKernel /\ colaKernel'[i] = colaKernel[i])
  <2>1. /\ DOMAIN colaKernel' = 1..n+1 /\ colaKernel'[n + 1] = m
        /\ \A i \in DOMAIN colaKernel : colaKernel'[i] = colaKernel[i]
    BY <1>1, <1>5, PosicionesDeCola
  <2>2. \A i \in DOMAIN colaKernel' : i = n + 1 \/ i \in DOMAIN colaKernel
    BY <1>3, <2>1
  <2> QED  BY <1>2, <1>5, <2>1, <2>2 DEF UnPedidoPorProceso
<1>6. CASE ManejarProceso
  <2>1. \A p \in Pcb : SinTablas(p)' <=> SinTablas(p)
    BY <1>1, <1>6 DEF ManejarProceso, SinTablas
  <2> QED
    BY <1>2, <1>6, <2>1
    DEF ManejarProceso, PedidosInv, PedidosDebidos, UnPedidoPorProceso, RespuestasEsperadas,
        TablasSegunLugar, PedidoDebido, Terminando
<1>7. CASE IngresarANew
  <2>1. id_nuevo_proceso - 1 \in Pcb /\ estado_new' = Append(estado_new, id_nuevo_proceso - 1)
    BY <1>1, <1>7, CotasAssumption DEF TypeMain, Pcb, IngresarANew
  <2>2. \A p : Contains(estado_new', p) <=> Contains(estado_new, p) \/ p = id_nuevo_proceso - 1
    BY <1>1, <2>1, ContieneAlAgregar
  <2>3. \A p \in Pcb : SinTablas(p)' <=> SinTablas(p)
    BY <1>1, <1>7, <2>2 DEF IngresarANew, SinTablas
  <2> QED
    BY <1>2, <1>7, <2>3
    DEF IngresarANew, PedidosInv, PedidosDebidos, UnPedidoPorProceso, RespuestasEsperadas,
        TablasSegunLugar, PedidoDebido, Terminando
<1>8. CASE PopNew
  <2>1. PICK x \in Pcb : x = Head(estado_new)
    BY <1>1, <1>8, Largos DEF PopNew
  <2> DEFINE m == [codigo |-> "CREAR", id |-> x]
  <2>2. /\ estado_new # <<>> /\ estado_new' = Tail(estado_new) /\ pcbAready' = x
        /\ colaKernel' = Append(colaKernel, m) /\ m \in Pedidos
        /\ pcAready = "pop_new" /\ pcAready' = "espera_crear"
        /\ UNCHANGED <<respuestasMemoria, tablas, varsMain, varsExec, varsBlock, varsFin>>
    BY <1>8, <2>1 DEF PopNew, Pedidos
  <2>3. \A p : /\ Contains(estado_new', p) => Contains(estado_new, p)
               /\ Contains(estado_new, p) => Contains(estado_new', p) \/ p = x
               /\ Contains(estado_new, x)
    BY <1>1, <2>1, <2>2, ContieneEnCola
  <2>4. x < id_nuevo_proceso /\ ~Terminando(x) /\ ~(BlockConPcb /\ ultimoIO.pcb = x)
    BY <2>3, LugaresDistintos
  <2>5. "CREAR" \notin respuestasMemoria
    BY <1>2, <2>2 DEF RespuestasEsperadas
  <2>6. \A i \in DOMAIN colaKernel : colaKernel[i].id # x
    BY <1>2, <2>2, <2>4 DEF PedidosDebidos, PedidoDebido, BlockConPcb
  <2>7. \A p \in Pcb : SinTablas(p)' <=> SinTablas(p)
    BY <2>2, <2>3, <2>5 DEF SinTablas
  <2>8. tablas[x] # "liberadas"
    BY <1>2, <2>4 DEF TablasSegunLugar
  <2>9. /\ UnPedidoPorProceso'
        /\ \A i \in DOMAIN colaKernel' :
              colaKernel'[i] = m \/ (i \in DOMAIN colaKernel /\ colaKernel'[i] = colaKernel[i])
    <3> HIDE DEF m
    <3>1. m.id = x
      BY DEF m
    <3> QED  BY <1>5, <2>2, <2>6, <3>1
  <2>10. PedidosDebidos'
    BY <1>2, <2>2, <2>5, <2>8, <2>9 DEF PedidosDebidos, PedidoDebido, Terminando
  <2> QED
    BY <1>2, <2>2, <2>5, <2>7, <2>9, <2>10
    DEF PedidosInv, RespuestasEsperadas, TablasSegunLugar, Terminando
<1>9. CASE EstructurasCreadas
  <2>1. \A p \in Pcb : SinTablas(p)' <=> SinTablas(p)
    BY <1>9 DEF EstructurasCreadas, SinTablas
  <2> QED
    BY <1>2, <1>9, <2>1
    DEF EstructurasCreadas, PedidosInv, PedidosDebidos, UnPedidoPorProceso, RespuestasEsperadas,
        TablasSegunLugar, PedidoDebido, Terminando
<1>10. CASE \/ EsperaPcb \/ EsperaGrado \/ Elige \/ PopSuspReady \/ AgregaReady
            \/ InterrumpeAready \/ PostReadyAready \/ PostNew
  <2>1. /\ pcAready # "espera_crear" \/ UNCHANGED varsAready
        /\ pcAready' # "espera_crear" \/ UNCHANGED varsAready
        /\ pcMain' = pcMain \/ (pcMain = "post_new" /\ pcMain' = "aceptar")
        /\ UNCHANGED <<id_nuevo_proceso, estado_new, varsExec, varsBlock, varsMem, varsFin>>
    BY <1>10
    DEF EsperaPcb, EsperaGrado, Elige, PopSuspReady, AgregaReady, InterrumpeAready,
        PostReadyAready, PostNew
  <2>2. \A p \in Pcb : SinTablas(p)' <=> SinTablas(p)
    BY <2>1 DEF SinTablas
  <2> QED
    BY <1>2, <2>1, <2>2
    DEF PedidosInv, PedidosDebidos, UnPedidoPorProceso, RespuestasEsperadas,
        TablasSegunLugar, PedidoDebido, Terminando
<1>11. CASE \/ EsperaReady \/ PlanificaFIFO \/ PlanificaSRT \/ Despacha \/ VuelvePorIO
            \/ PostBlock \/ VuelvePorInterrupcion \/ PostReadyExec \/ PostGradoExec
  <2>1. /\ pcExec # "avisa_consola" /\ pcExec' # "avisa_consola"
        /\ UNCHANGED <<varsMain, estado_new, varsAready, varsBlock, varsMem, varsFin>>
    BY <1>11
    DEF EsperaReady, PlanificaFIFO, PlanificaSRT, Despacha, VuelvePorIO, PostBlock,
        VuelvePorInterrupcion, PostReadyExec, PostGradoExec
  <2>2. \A p \in Pcb : SinTablas(p)' <=> SinTablas(p)
    BY <2>1 DEF SinTablas
  <2> QED
    BY <1>2, <2>1, <2>2
    DEF PedidosInv, PedidosDebidos, UnPedidoPorProceso, RespuestasEsperadas,
        TablasSegunLugar, PedidoDebido, Terminando
<1>12. CASE VuelvePorExit
  <2>1. PICK x \in Pcb : x = pcbExec
    BY <1>1, <1>12 DEF TypeExec, VuelvePorExit
  <2> DEFINE m == [codigo |-> "FIN", id |-> x]
  <2>2. /\ colaKernel' = Append(colaKernel, m) /\ m \in Pedidos
        /\ pcExec = "espera_cpu" /\ pcExec' = "avisa_consola" /\ pcbExec' = x
        /\ UNCHANGED <<respuestasMemoria, tablas, varsMain, estado_new, varsAready, varsBlock,
                       varsFin>>
    BY <1>12, <2>1 DEF VuelvePorExit, Pedidos
  <2>3. ExecConPcb /\ ~SinTablas(x) /\ x \notin finalizadas
    BY <2>1, <2>2, LugaresDistintos DEF ExecConPcb
  <2>4. ~(BlockConPcb /\ ultimoIO.pcb = x) /\ ~(AreadyConPcb /\ pcbAready = x)
    BY <2>1, <2>3, LugaresDistintos
  <2>5. \A i \in DOMAIN colaKernel : colaKernel[i].id # x
    BY <1>2, <2>2, <2>3, <2>4
    DEF PedidosDebidos, PedidoDebido, BlockConPcb, AreadyConPcb, Terminando
  <2>6. tablas[x] # "liberadas"
    BY <1>2, <2>2, <2>3 DEF TablasSegunLugar, Terminando
  <2>7. \A p \in Pcb : SinTablas(p)' <=> SinTablas(p)
    BY <2>2 DEF SinTablas
  <2>8. /\ UnPedidoPorProceso'
        /\ \A i \in DOMAIN colaKernel' :
              colaKernel'[i] = m \/ (i \in DOMAIN colaKernel /\ colaKernel'[i] = colaKernel[i])
    <3> HIDE DEF m
    <3>1. m.id = x
      BY DEF m
    <3> QED  BY <1>5, <2>2, <2>5, <3>1
  <2>9. PedidosDebidos'
    BY <1>2, <2>2, <2>6, <2>8 DEF PedidosDebidos, PedidoDebido, Terminando
  <2> QED
    BY <1>2, <2>2, <2>7, <2>8, <2>9
    DEF PedidosInv, RespuestasEsperadas, TablasSegunLugar, Terminando
<1>13. CASE AvisaConsola
  <2>1. /\ \A p : Terminando(p)' <=> Terminando(p)
        /\ UNCHANGED <<varsMain, estado_new, varsAready, varsBlock, varsMem>>
    BY <1>13 DEF AvisaConsola, Terminando
  <2>2. \A p \in Pcb : SinTablas(p)' <=> SinTablas(p)
    BY <2>1 DEF SinTablas
  <2> QED
    BY <1>2, <2>1, <2>2
    DEF PedidosInv, PedidosDebidos, UnPedidoPorProceso, RespuestasEsperadas,
        TablasSegunLugar, PedidoDebido
<1>14. CASE \/ EsperaBlock \/ PopBlocked \/ TerminaIO \/ InterrumpeBlock \/ PostReadyBlock
            \/ PostGradoBlock \/ TerminaIOSuspendido \/ PostSusp
  <2>1. /\ pcBlock # "espera_susp" /\ pcBlock' # "espera_susp"
        /\ UNCHANGED <<varsMain, estado_new, varsAready, varsExec, varsMem, varsFin>>
    BY <1>14
    DEF EsperaBlock, PopBlocked, TerminaIO, InterrumpeBlock, PostReadyBlock, PostGradoBlock,
        TerminaIOSuspendido, PostSusp
  <2>2. \A p \in Pcb : SinTablas(p)' <=> SinTablas(p)
    BY <2>1 DEF SinTablas
  <2> QED
    BY <1>2, <2>1, <2>2
    DEF PedidosInv, PedidosDebidos, UnPedidoPorProceso, RespuestasEsperadas,
        TablasSegunLugar, PedidoDebido, Terminando
<1>15. CASE PideSuspender
  <2>1. PICK x \in Pcb : x = ultimoIO.pcb
    BY <1>1, <1>15 DEF TypeBlock, BlockConPcb, PideSuspender
  <2> DEFINE m == [codigo |-> "SUSP", id |-> x]
  <2>2. /\ colaKernel' = Append(colaKernel, m) /\ m \in Pedidos
        /\ pcBlock = "suspende" /\ pcBlock' = "espera_susp"
        /\ UNCHANGED <<ultimoIO, respuestasMemoria, tablas, varsMain, estado_new, varsAready,
                       varsExec, varsFin>>
    BY <1>15, <2>1 DEF PideSuspender, Pedidos
  <2>3. BlockConPcb /\ ~SinTablas(x) /\ x \notin finalizadas /\ ~(ExecConPcb /\ pcbExec = x)
    BY <2>1, <2>2, LugaresDistintos DEF BlockConPcb
  <2>4. ~Terminando(x)
    BY <2>3 DEF Terminando, ExecConPcb
  <2>5. \A i \in DOMAIN colaKernel : colaKernel[i].id # x
    <3> SUFFICES ASSUME NEW i \in DOMAIN colaKernel PROVE colaKernel[i].id # x
      OBVIOUS
    <3>1. PedidoDebido(colaKernel[i])
      BY <1>2 DEF PedidosDebidos
    <3>2. CASE pcAready = "espera_crear" /\ "CREAR" \notin respuestasMemoria
      BY <2>2, <2>3, <2>4, <3>1, <3>2 DEF PedidoDebido, SinTablas
    <3>3. CASE ~(pcAready = "espera_crear" /\ "CREAR" \notin respuestasMemoria)
      BY <2>2, <2>4, <3>1, <3>3 DEF PedidoDebido
    <3> QED  BY <3>2, <3>3
  <2>6. tablas[x] # "liberadas" /\ "SUSP" \notin respuestasMemoria
    BY <1>2, <2>2, <2>4 DEF TablasSegunLugar, RespuestasEsperadas
  <2>7. \A p \in Pcb : SinTablas(p)' <=> SinTablas(p)
    BY <2>2 DEF SinTablas
  <2>8. /\ UnPedidoPorProceso'
        /\ \A i \in DOMAIN colaKernel' :
              colaKernel'[i] = m \/ (i \in DOMAIN colaKernel /\ colaKernel'[i] = colaKernel[i])
    <3> HIDE DEF m
    <3>1. m.id = x
      BY DEF m
    <3> QED  BY <1>5, <2>2, <2>5, <3>1
  <2>9. PedidosDebidos'
    BY <1>2, <2>1, <2>2, <2>6, <2>8 DEF PedidosDebidos, PedidoDebido, Terminando
  <2> QED
    BY <1>2, <2>2, <2>6, <2>7, <2>8, <2>9
    DEF PedidosInv, RespuestasEsperadas, TablasSegunLugar, Terminando
<1>16. CASE Suspendido
  <2>1. \A p \in Pcb : SinTablas(p)' <=> SinTablas(p)
    BY <1>16 DEF Suspendido, SinTablas
  <2> QED
    BY <1>2, <1>16, <2>1
    DEF Suspendido, PedidosInv, PedidosDebidos, UnPedidoPorProceso, RespuestasEsperadas,
        TablasSegunLugar, PedidoDebido, Terminando
<1>17. CASE HiloKernel
  <2>1. PICK x \in Pcb : x = colaKernel[1].id
    BY <1>3, <1>4, <1>17 DEF HiloKernel
  <2>2. /\ colaKernel # <<>> /\ colaKernel' = Tail(colaKernel)
        /\ 1 \in DOMAIN colaKernel /\ Head(colaKernel) = colaKernel[1]
        /\ UNCHANGED <<varsMain, varsColas, varsAready, varsExec, varsBlock, varsFin>>
    BY <1>3, <1>17 DEF HiloKernel
  <2>3. \A i \in DOMAIN colaKernel' :
           i + 1 \in DOMAIN colaKernel /\ colaKernel'[i] = colaKernel[i + 1]
    BY <1>3, <2>2
  <2>4. \A i \in DOMAIN colaKernel' : i \in Nat /\ i + 1 # 1
    BY <1>3, <2>2
  <2>5. UnPedidoPorProceso'
    BY <1>2, <2>3, <2>4 DEF UnPedidoPorProceso
  <2>6. \A i \in DOMAIN colaKernel' : colaKernel[i + 1].id # x /\ colaKernel[i + 1].id \in Pcb
    BY <1>2, <1>4, <2>1, <2>2, <2>3, <2>4 DEF UnPedidoPorProceso
  <2>7. PedidoDebido(colaKernel[1]) /\ tablas[x] # "liberadas"
    BY <1>2, <2>1, <2>2 DEF PedidosDebidos
  <2>8. \A p : Terminando(p)' <=> Terminando(p)
    BY <2>2 DEF Terminando
  <2>9. CASE colaKernel[1].codigo = "CREAR"
    <3>1. /\ tablas' = [tablas EXCEPT ![x] = "creadas"]
          /\ respuestasMemoria' = respuestasMemoria \union {"CREAR"}
          /\ pcAready = "espera_crear" /\ x = pcbAready /\ "CREAR" \notin respuestasMemoria
      BY <1>17, <2>1, <2>2, <2>7, <2>9 DEF HiloKernel, PedidoDebido
    <3>2. ~SinTablas(x)'
      <4>1. /\ ~Contains(estado_new, x) /\ x < id_nuevo_proceso
            /\ ~(pcMain = "push_new" /\ x = id_nuevo_proceso - 1)
        BY <3>1, LugaresDistintos DEF AreadyConPcb
      <4> QED  BY <1>1, <2>2, <3>1, <4>1 DEF SinTablas
    <3>3. \A p \in Pcb : p # x => (SinTablas(p)' <=> SinTablas(p))
      BY <2>2, <3>1 DEF SinTablas
    <3>4. TablasSegunLugar'
      BY <1>1, <1>2, <2>8, <3>1, <3>2, <3>3 DEF TablasSegunLugar, TypeMem
    <3>5. PedidosDebidos'
      <4> SUFFICES ASSUME NEW i \in DOMAIN colaKernel', NEW m, m = colaKernel'[i]
                   PROVE  PedidoDebido(m)' /\ tablas'[m.id] # "liberadas"
        BY DEF PedidosDebidos
      <4>1. m.id # x /\ m.id \in Pcb /\ PedidoDebido(m) /\ tablas[m.id] # "liberadas"
        BY <1>2, <2>3, <2>6 DEF PedidosDebidos
      <4>2. tablas'[m.id] # "liberadas"
        BY <1>1, <3>1, <4>1 DEF TypeMem
      <4>3. PedidoDebido(m)'
        BY <2>2, <2>8, <3>1, <4>1 DEF PedidoDebido
      <4> QED  BY <4>2, <4>3
    <3>6. RespuestasEsperadas'
      BY <1>2, <2>2, <3>1 DEF RespuestasEsperadas
    <3> QED  BY <2>5, <3>4, <3>5, <3>6 DEF PedidosInv
  <2>10. CASE colaKernel[1].codigo = "SUSP"
    <3>1. /\ tablas' = tablas
          /\ respuestasMemoria' = respuestasMemoria \union {"SUSP"}
          /\ pcBlock = "espera_susp" /\ x = ultimoIO.pcb
      BY <1>17, <2>1, <2>2, <2>7, <2>10 DEF HiloKernel, PedidoDebido
    <3>2. \A p \in Pcb : SinTablas(p)' <=> SinTablas(p)
      BY <2>2, <3>1 DEF SinTablas
    <3>3. TablasSegunLugar'
      BY <1>2, <2>8, <3>1, <3>2 DEF TablasSegunLugar
    <3>4. PedidosDebidos'
      <4> SUFFICES ASSUME NEW i \in DOMAIN colaKernel', NEW m, m = colaKernel'[i]
                   PROVE  PedidoDebido(m)' /\ tablas'[m.id] # "liberadas"
        BY DEF PedidosDebidos
      <4>1. m.id # x /\ m.id \in Pcb /\ PedidoDebido(m) /\ tablas[m.id] # "liberadas"
        BY <1>2, <2>3, <2>6 DEF PedidosDebidos
      <4> QED  BY <2>2, <2>8, <3>1, <4>1 DEF PedidoDebido
    <3>5. RespuestasEsperadas'
      BY <1>2, <2>2, <3>1 DEF RespuestasEsperadas
    <3> QED  BY <2>5, <3>3, <3>4, <3>5 DEF PedidosInv
  <2>11. CASE colaKernel[1].codigo = "FIN"
    <3>1. /\ tablas' = [tablas EXCEPT ![x] = "liberadas"]
          /\ respuestasMemoria' = respuestasMemoria
          /\ Terminando(x)
      BY <1>17, <2>1, <2>2, <2>7, <2>11 DEF HiloKernel, PedidoDebido
    <3>2. \A p \in Pcb : SinTablas(p)' <=> SinTablas(p)
      BY <2>2, <3>1 DEF SinTablas
    <3>3. ~SinTablas(x)
      BY <3>1, LugaresDistintos
    <3>4. TablasSegunLugar'
      BY <1>1, <1>2, <2>8, <3>1, <3>2, <3>3 DEF TablasSegunLugar, TypeMem
    <3>5. PedidosDebidos'
      <4> SUFFICES ASSUME NEW i \in DOMAIN colaKernel', NEW m, m = colaKernel'[i]
                   PROVE  PedidoDebido(m)' /\ tablas'[m.id] # "liberadas"
        BY DEF PedidosDebidos
      <4>1. m.id # x /\ m.id \in Pcb /\ PedidoDebido(m) /\ tablas[m.id] # "liberadas"
        BY <1>2, <2>3, <2>6 DEF PedidosDebidos
      <4>2. tablas'[m.id] # "liberadas"
        BY <1>1, <3>1, <4>1 DEF TypeMem
      <4>3. PedidoDebido(m)'
        BY <2>2, <2>8, <3>1, <4>1 DEF PedidoDebido
      <4> QED  BY <4>2, <4>3
    <3>6. RespuestasEsperadas'
      BY <1>2, <2>2, <3>1 DEF RespuestasEsperadas
    <3> QED  BY <2>5, <3>4, <3>5, <3>6 DEF PedidosInv
  <2> QED  BY <1>3, <2>2, <2>7, <2>9, <2>10, <2>11 DEF PedidoDebido
<1>18. CASE CPU \/ Terminado \/ UNCHANGED vars
  <2>1. UNCHANGED <<varsMain, estado_new, varsAready, pcExec, pcbExec, varsBlock, varsMem, varsFin>>
    BY <1>18 DEF CPU, CPUEjecutaIO, CPUEjecutaExit, CPUInterrumpida, Responde, Terminado, vars
  <2>2. \A p \in Pcb : SinTablas(p)' <=> SinTablas(p)
    BY <2>1 DEF SinTablas
  <2> QED
    BY <1>2, <2>1, <2>2
    DEF PedidosInv, PedidosDebidos, UnPedidoPorProceso, RespuestasEsperadas,
        TablasSegunLugar, PedidoDebido, Terminando
<1> QED
  BY <1>6, <1>7, <1>8, <1>9, <1>10, <1>11, <1>12, <1>13, <1>14, <1>15, <1>16, <1>17, <1>18
  DEF Next, HiloMain, HiloAready, HiloExec, HiloBlock

\* Nothing was asked when the threads are created, and nobody has tables.
LEMMA PedidosIniciales == Init => PedidosInv
<1> SUFFICES ASSUME Init PROVE PedidosInv
  OBVIOUS
<1>1. \A p \in Pcb : p >= 0 /\ ~Contains(<<>>, p)
  BY CotasAssumption DEF Pcb, Contains
<1> QED
  BY <1>1
  DEF Init, PedidosInv, PedidosDebidos, UnPedidoPorProceso, RespuestasEsperadas,
      TablasSegunLugar, SinTablas

\* The requests the three threads make of Memoria are in order in every run.
THEOREM PedidosCorrectos == Spec => [](IInv /\ PedidosInv)
<1>1. Init => IInv /\ PedidosInv
  BY InvarianteInicial, PedidosIniciales
<1>2. IInv /\ PedidosInv /\ [Next]_vars => IInv' /\ PedidosInv'
  BY InvariantePreservado, PedidosPreservados
<1> QED  BY <1>1, <1>2, PTL DEF Spec

\* Memoria is asked to create the structures of a process once and before
\* anything else, never after its end, and a process runs only once they exist.
THEOREM MemoriaEnOrden == Spec => []PeticionesEnOrden
<1>1. ASSUME IInv, PedidosInv
      PROVE  PeticionesEnOrden
  <2>1. /\ TypeMem /\ PedidosDebidos /\ UnPedidoPorProceso /\ TablasSegunLugar
        /\ TypeExec
    BY <1>1 DEF IInv, TypeOK, PedidosInv
  <2>2. pcExec = "espera_cpu" => tablas[pcbExec] = "creadas"
    <3> SUFFICES ASSUME pcExec = "espera_cpu" PROVE tablas[pcbExec] = "creadas"
      OBVIOUS
    <3>1. pcbExec \in Pcb /\ ~SinTablas(pcbExec) /\ pcbExec \notin finalizadas
      BY <1>1, <2>1, LugaresDistintos DEF TypeExec, ExecConPcb
    <3> QED  BY <2>1, <3>1 DEF TablasSegunLugar, Terminando, TypeMem
  <2>3. ASSUME NEW i \in DOMAIN colaKernel
        PROVE  LET m == colaKernel[i]
                   antes == {colaKernel[j].codigo : j \in {k \in 1..i-1 : colaKernel[k].id = m.id}}
               IN  IF m.codigo = "CREAR" THEN tablas[m.id] = "sin_crear" /\ antes = {}
                                         ELSE tablas[m.id] = "creadas" /\ "FIN" \notin antes
    <3>1. /\ Len(colaKernel) \in Nat /\ DOMAIN colaKernel = 1..Len(colaKernel)
          /\ colaKernel[i].id \in Pcb
      <4> DEFINE Pedidos == [codigo : {"CREAR", "SUSP", "FIN"}, id : Pcb]
      <4>1. colaKernel \in Seq(Pedidos)
        BY <2>1 DEF TypeMem
      <4>2. \A m \in Pedidos : m.id \in Pcb
        OBVIOUS
      <4> HIDE DEF Pedidos
      <4> QED  BY <4>1, <4>2, PosicionesDeCola
    <3>2. {k \in 1..i-1 : colaKernel[k].id = colaKernel[i].id} = {}
      BY <2>1, <3>1 DEF UnPedidoPorProceso
    <3>3. PICK x \in Pcb : x = colaKernel[i].id
      BY <3>1
    <3>4. PedidoDebido(colaKernel[i]) /\ tablas[x] # "liberadas"
      BY <2>1, <3>3 DEF PedidosDebidos
    <3>5. CASE colaKernel[i].codigo = "CREAR"
      <4>1. SinTablas(x)
        BY <3>3, <3>4, <3>5 DEF PedidoDebido, SinTablas
      <4> QED  BY <2>1, <3>2, <3>3, <3>5, <4>1 DEF TablasSegunLugar
    <3>6. CASE colaKernel[i].codigo # "CREAR"
      <4>1. ~SinTablas(x)
        BY <1>1, <3>3, <3>4, <3>6, LugaresDistintos DEF PedidoDebido, BlockConPcb
      <4>2. tablas[x] = "creadas"
        BY <2>1, <3>4, <4>1 DEF TablasSegunLugar, TypeMem
      <4> QED  BY <3>2, <3>3, <3>6, <4>2
    <3> QED  BY <3>5, <3>6
  <2> QED  BY <2>2, <2>3 DEF PeticionesEnOrden
<1> QED  BY <1>1, PedidosCorrectos, PTL

-----------------------------------------------------------------------------
(* The order of arrival *)

\* NEW holds the processes in the order they connected, the one on its way to
\* NEW connected last, and the one Aready has Memoria create structures for
\* is the first of those without them.
NewEnOrden ==
    \A i, j \in DOMAIN estado_new : i < j => estado_new[i] < estado_new[j]

PorLlegarAlFinal ==
    pcMain = "push_new" => \A p \in Pcb : Contains(estado_new, p) => p < id_nuevo_proceso - 1

PrimeroElMasViejo ==
    pcAready = "espera_crear" => \A p \in Pcb : SinTablas(p) => pcbAready <= p

OrdenInv == NewEnOrden /\ PorLlegarAlFinal /\ PrimeroElMasViejo

\* Every step keeps the order of arrival.
LEMMA OrdenPreservado ==
    ASSUME IInv, OrdenInv, [Next]_vars
    PROVE  OrdenInv'
<1> USE DEF NULO, varsMain, varsColas, varsSem, varsAready, varsExec, varsBlock,
            varsMem, varsCPU, varsFin
<1>1. /\ TypeMain /\ TypeAready /\ estado_new \in Seq(Pcb) /\ id_nuevo_proceso \in Nat
      /\ \A p \in Pcb : p \in Nat
      /\ NewEnOrden /\ PorLlegarAlFinal /\ PrimeroElMasViejo
  BY CotasAssumption DEF IInv, TypeOK, TypeMain, TypeColas, OrdenInv, Pcb
<1>2. \A p \in Pcb : Contains(estado_new, p) => p < id_nuevo_proceso
  BY LugaresDistintos
<1>3. CASE ManejarProceso
  <2>1. NewEnOrden'
    BY <1>1, <1>3 DEF ManejarProceso, NewEnOrden
  <2>2. PorLlegarAlFinal'
    BY <1>1, <1>2, <1>3 DEF ManejarProceso, PorLlegarAlFinal
  <2>3. \A p \in Pcb : SinTablas(p)' => SinTablas(p)
    BY <1>1, <1>3 DEF ManejarProceso, SinTablas
  <2>4. PrimeroElMasViejo'
    BY <1>1, <1>3, <2>3 DEF ManejarProceso, PrimeroElMasViejo
  <2> QED  BY <2>1, <2>2, <2>4 DEF OrdenInv
<1>4. CASE IngresarANew
  <2>1. PICK x \in Pcb : x = id_nuevo_proceso - 1
    BY <1>1, <1>4, CotasAssumption DEF TypeMain, Pcb, IngresarANew
  <2>2. /\ estado_new' = Append(estado_new, x) /\ pcMain = "push_new" /\ pcMain' = "post_new"
        /\ pcAready # "espera_crear" /\ pcAready' = pcAready
    BY <1>4, <2>1 DEF IngresarANew
  <2> DEFINE n == Len(estado_new)
  <2>3. /\ n \in Nat /\ DOMAIN estado_new = 1..n /\ DOMAIN estado_new' = 1..n+1
        /\ estado_new'[n + 1] = x
        /\ \A i \in DOMAIN estado_new : estado_new'[i] = estado_new[i] /\ estado_new[i] \in Pcb
    BY <1>1, <2>2, PosicionesDeCola
  <2>4. \A i \in DOMAIN estado_new : estado_new[i] < x
    <3>1. \A i \in DOMAIN estado_new : Contains(estado_new, estado_new[i])
      BY <2>3 DEF Contains
    <3> QED  BY <1>1, <2>1, <2>2, <2>3, <3>1 DEF PorLlegarAlFinal
  <2>5. NewEnOrden'
    <3> HIDE DEF n
    <3> SUFFICES ASSUME NEW i \in 1..n+1, NEW j \in 1..n+1, i < j
                 PROVE  estado_new'[i] < estado_new'[j]
      BY <2>3 DEF NewEnOrden
    <3>1. i \in 1..n /\ (j = n + 1 \/ j \in 1..n)
      BY <2>3
    <3>2. i \in DOMAIN estado_new /\ estado_new'[i] = estado_new[i]
      BY <2>3, <3>1
    <3>3. CASE j = n + 1
      <4>1. estado_new'[j] = x
        BY <2>3, <3>3
      <4> QED  BY <2>4, <3>2, <4>1
    <3>4. CASE j \in 1..n
      <4>1. j \in DOMAIN estado_new /\ estado_new'[j] = estado_new[j]
        BY <2>3, <3>4
      <4>2. estado_new[i] < estado_new[j]
        BY <1>1, <3>2, <4>1 DEF NewEnOrden
      <4> QED  BY <3>2, <4>1, <4>2
    <3> QED  BY <3>1, <3>3, <3>4
  <2> QED  BY <2>2, <2>5 DEF OrdenInv, PorLlegarAlFinal, PrimeroElMasViejo
<1>5. CASE PopNew
  <2>1. PICK x \in Pcb : x = Head(estado_new)
    BY <1>1, <1>5, Largos DEF PopNew
  <2>2. /\ estado_new # <<>> /\ estado_new' = Tail(estado_new) /\ pcbAready' = x
        /\ UNCHANGED varsMain
    BY <1>5, <2>1 DEF PopNew
  <2> DEFINE n == Len(estado_new)
  <2>3. /\ n \in Nat /\ DOMAIN estado_new = 1..n /\ 1 \in DOMAIN estado_new
        /\ x = estado_new[1] /\ DOMAIN estado_new' = 1..n-1
        /\ \A i \in DOMAIN estado_new : estado_new[i] \in Pcb
        /\ \A i \in DOMAIN estado_new' :
              i + 1 \in DOMAIN estado_new /\ estado_new'[i] = estado_new[i + 1]
    BY <1>1, <2>1, <2>2, PosicionesDeCola
  <2>4. NewEnOrden'
    <3> HIDE DEF n
    <3> SUFFICES ASSUME NEW i \in 1..n-1, NEW j \in 1..n-1, i < j
                 PROVE  estado_new'[i] < estado_new'[j]
      BY <2>3 DEF NewEnOrden
    <3>1. i + 1 < j + 1 /\ i + 1 \in DOMAIN estado_new /\ j + 1 \in DOMAIN estado_new
      BY <2>3
    <3> QED  BY <1>1, <2>3, <3>1 DEF NewEnOrden
  <2>5. \A p \in Pcb : Contains(estado_new', p) => Contains(estado_new, p)
    BY <1>1, <2>2, ContieneEnCola
  <2>6. PorLlegarAlFinal'
    BY <1>1, <2>2, <2>5 DEF PorLlegarAlFinal
  <2>7. \A p \in Pcb : Contains(estado_new, p) => x <= p
    <3> SUFFICES ASSUME NEW p \in Pcb, Contains(estado_new, p) PROVE x <= p
      OBVIOUS
    <3>1. PICK i \in 1..n : estado_new[i] = p
      BY <2>3 DEF Contains
    <3>2. i = 1 \/ 1 < i
      BY <2>3
    <3> QED  BY <1>1, <2>3, <3>1, <3>2, SMTT(20) DEF NewEnOrden
  <2>8. Contains(estado_new, x) /\ x < id_nuevo_proceso
    BY <1>1, <1>2, <2>1, <2>2, ContieneEnCola
  <2>9. \A p \in Pcb : SinTablas(p)' => x <= p
    BY <1>1, <2>2, <2>5, <2>7, <2>8 DEF SinTablas, PorLlegarAlFinal
  <2>10. PrimeroElMasViejo'
    BY <2>2, <2>9 DEF PrimeroElMasViejo
  <2> QED  BY <2>4, <2>6, <2>10 DEF OrdenInv
<1>6. CASE HiloMain /\ ~ManejarProceso /\ ~IngresarANew
  BY <1>1, <1>6
  DEF HiloMain, PostNew, OrdenInv, NewEnOrden, PorLlegarAlFinal, PrimeroElMasViejo, SinTablas
<1>7. CASE HiloAready /\ ~PopNew
  BY <1>1, <1>7
  DEF HiloAready, EsperaPcb, EsperaGrado, Elige, PopSuspReady, EstructurasCreadas, AgregaReady,
      InterrumpeAready, PostReadyAready,
      OrdenInv, NewEnOrden, PorLlegarAlFinal, PrimeroElMasViejo
<1>8. CASE HiloExec \/ CPU \/ Terminado \/ UNCHANGED vars
  <2>1. UNCHANGED <<varsMain, estado_new, varsAready, respuestasMemoria>>
    BY <1>8
    DEF HiloExec, EsperaReady, PlanificaFIFO, PlanificaSRT, Despacha, VuelvePorIO, PostBlock,
        VuelvePorInterrupcion, PostReadyExec, VuelvePorExit, AvisaConsola, PostGradoExec,
        CPU, CPUEjecutaIO, CPUEjecutaExit, CPUInterrumpida, Responde, Terminado, vars
  <2> QED
    BY <1>1, <2>1 DEF OrdenInv, NewEnOrden, PorLlegarAlFinal, PrimeroElMasViejo, SinTablas
<1>9. CASE HiloBlock
  <2>1. /\ UNCHANGED <<varsMain, estado_new, varsAready>>
        /\ "CREAR" \in respuestasMemoria' <=> "CREAR" \in respuestasMemoria
    BY <1>9
    DEF HiloBlock, EsperaBlock, PopBlocked, TerminaIO, InterrumpeBlock, PostReadyBlock,
        PideSuspender, Suspendido, PostGradoBlock, TerminaIOSuspendido, PostSusp
  <2> QED
    BY <1>1, <2>1 DEF OrdenInv, NewEnOrden, PorLlegarAlFinal, PrimeroElMasViejo, SinTablas
<1>10. CASE HiloKernel
  <2>1. /\ UNCHANGED <<varsMain, estado_new, varsAready>>
        /\ "CREAR" \in respuestasMemoria => "CREAR" \in respuestasMemoria'
    BY <1>10 DEF HiloKernel
  <2> QED
    BY <1>1, <2>1 DEF OrdenInv, NewEnOrden, PorLlegarAlFinal, PrimeroElMasViejo, SinTablas
<1> QED
  BY <1>3, <1>4, <1>5, <1>6, <1>7, <1>8, <1>9, <1>10 DEF Next

\* Processes enter memory for the first time in the order their consoles
\* connected, whatever suspended processes are admitted in between.
THEOREM LlegadaRespetada == Spec => CreacionEnOrdenDeLlegada
<1> DEFINE EnOrden == \A p, q \in Pcb :
               (p < q /\ tablas[q] = "sin_crear" /\ tablas'[q] # "sin_crear")
                 => tablas'[p] # "sin_crear"
<1>1. ASSUME IInv, PedidosInv, OrdenInv, [Next]_vars
      PROVE  EnOrden
  <2>1. /\ TypeMem /\ PedidosDebidos /\ TablasSegunLugar /\ PrimeroElMasViejo
        /\ \A p \in Pcb : p \in Nat
    BY <1>1, CotasAssumption DEF IInv, TypeOK, PedidosInv, OrdenInv, Pcb
  <2>2. CASE HiloKernel
    <3> SUFFICES ASSUME NEW p \in Pcb, NEW q \in Pcb, p < q, tablas[q] = "sin_crear",
                        tablas'[q] # "sin_crear", tablas'[p] = "sin_crear"
                 PROVE  FALSE
      OBVIOUS
    <3>1. PICK m : /\ m = Head(colaKernel) /\ PedidoDebido(m) /\ m.id \in Pcb
      <4> DEFINE Pedidos == [codigo : {"CREAR", "SUSP", "FIN"}, id : Pcb]
      <4>1. colaKernel \in Seq(Pedidos) /\ colaKernel # <<>> /\ \A m \in Pedidos : m.id \in Pcb
        BY <2>1, <2>2 DEF TypeMem, HiloKernel
      <4> HIDE DEF Pedidos
      <4>2. /\ Head(colaKernel) \in Pedidos /\ 1 \in DOMAIN colaKernel
            /\ Head(colaKernel) = colaKernel[1]
        BY <4>1, Largos, PosicionesDeCola
      <4> QED  BY <2>1, <4>1, <4>2 DEF PedidosDebidos
    <3>2. q = m.id /\ m.codigo \in {"CREAR", "FIN"}
      BY <2>1, <2>2, <3>1 DEF HiloKernel, TypeMem
    <3>3. SinTablas(q)
      BY <2>1 DEF TablasSegunLugar
    <3>4. pcAready = "espera_crear" /\ q = pcbAready
      BY <1>1, <3>1, <3>2, <3>3, LugaresDistintos DEF PedidoDebido
    <3>5. tablas[p] = "sin_crear"
      BY <2>1, <2>2, <3>1, <3>2 DEF HiloKernel, TypeMem
    <3> QED  BY <2>1, <3>4, <3>5 DEF TablasSegunLugar, PrimeroElMasViejo
  <2>3. CASE ~HiloKernel
    <3>1. UNCHANGED tablas
      BY <1>1, <2>3
      DEF Next, vars, HiloMain, HiloAready, HiloExec, HiloBlock, CPU, Terminado,
          ManejarProceso, IngresarANew, PostNew, EsperaPcb, EsperaGrado, Elige, PopSuspReady,
          PopNew, EstructurasCreadas, AgregaReady, InterrumpeAready, PostReadyAready,
          EsperaReady, PlanificaFIFO, PlanificaSRT, Despacha, VuelvePorIO, PostBlock,
          VuelvePorInterrupcion, PostReadyExec, VuelvePorExit, AvisaConsola, PostGradoExec,
          EsperaBlock, PopBlocked, TerminaIO, InterrumpeBlock, PostReadyBlock, PideSuspender,
          Suspendido, PostGradoBlock, TerminaIOSuspendido, PostSusp, CPUEjecutaIO,
          CPUEjecutaExit, CPUInterrumpida, Responde, varsMem
    <3> QED  BY <3>1
  <2> QED  BY <2>2, <2>3
<1>2. Init => OrdenInv
  BY DEF Init, OrdenInv, NewEnOrden, PorLlegarAlFinal, PrimeroElMasViejo
<1>3. IInv /\ OrdenInv /\ [Next]_vars => OrdenInv'
  BY OrdenPreservado
<1>4. IInv /\ PedidosInv /\ OrdenInv /\ [Next]_vars => [EnOrden]_vars
  BY <1>1
<1> HIDE DEF EnOrden
<1>5. Spec => [][EnOrden]_vars
  BY <1>2, <1>3, <1>4, PedidosCorrectos, PTL DEF Spec
<1> QED  BY <1>5 DEF EnOrden, CreacionEnOrdenDeLlegada
-----------------------------------------------------------------------------
(* The state of a process and the place that holds it *)

\* The places of each state, by the counts of CadaPcbEnUnLugar.
LugarNew(p)    == \/ pcMain = "push_new" /\ p = id_nuevo_proceso - 1
                  \/ Veces(estado_new, p) > 0
LugarReady(p)  == \/ Veces(estado_ready, p) > 0
                  \/ AreadyConPcb /\ pcbAready = p
                  \/ pcExec = "despacha" /\ ~SRT /\ pcbExec = p
LugarExec(p)   == pcExec \in {"espera_cpu", "avisa_consola"} /\ pcbExec = p
LugarBlocked(p) == \/ VecesIO(estado_blocked, p) > 0
                   \/ pcBlock \in {"duerme", "suspende", "espera_susp"} /\ ultimoIO.pcb = p
LugarSuspBlocked(p) == pcBlock \in {"post_grado", "duerme_resto"} /\ ultimoIO.pcb = p
LugarSuspReady(p) == Veces(estado_susp_ready, p) > 0

\* Each process is in the state of the place that holds it, and in no other.
EstadosPorLugar ==
    \A p \in Pcb :
       /\ estado[p] \in {"inexistente", "new", "ready", "exec", "blocked",
                         "susp_blocked", "susp_ready", "exit"}
       /\ estado[p] = "inexistente" <=> p >= id_nuevo_proceso
       /\ estado[p] = "exit" <=> p \in finalizadas
       /\ estado[p] = "new" <=> LugarNew(p)
       /\ estado[p] = "ready" <=> LugarReady(p)
       /\ estado[p] = "exec" <=> LugarExec(p)
       /\ estado[p] = "blocked" <=> LugarBlocked(p)
       /\ estado[p] = "susp_blocked" <=> LugarSuspBlocked(p)
       /\ estado[p] = "susp_ready" <=> LugarSuspReady(p)

\* A process waits for I/O iff it counts in the list.
LEMMA VecesIOBasico ==
    ASSUME NEW S, NEW s \in Seq(S), NEW p
    PROVE  /\ VecesIO(s, p) \in Nat
           /\ (\E i \in DOMAIN s : s[i].pcb = p) <=> VecesIO(s, p) > 0
<1> DEFINE B == {i \in DOMAIN s : s[i].pcb = p}
<1>1. Len(s) \in Nat /\ DOMAIN s = 1..Len(s)
  BY LenProperties
<1>2. B \subseteq 1..Len(s)
  BY <1>1
<1>3. IsFiniteSet(B) /\ Cardinality(B) \in Nat
  BY <1>1, <1>2, IndicesFinitos
<1>4. Cardinality(B) = 0 <=> B = {}
  BY <1>3, FS_EmptySet
<1>5. (\E i \in DOMAIN s : s[i].pcb = p) <=> B # {}
  OBVIOUS
<1> HIDE DEF B
<1>6. VecesIO(s, p) = Cardinality(B)
  BY DEF VecesIO, B
<1> QED  BY <1>3, <1>4, <1>5, <1>6

\* The mapping estado, which asks its questions in order, agrees with the places:
\* a process is in one of them only.
LEMMA EstadoSegunLugar == IInv => EstadosPorLugar
<1> SUFFICES ASSUME IInv, NEW p \in Pcb
             PROVE  EstadosPorLugar!(p)
  BY DEF EstadosPorLugar
<1> USE DEF Uno
<1>1. /\ p \in Nat /\ id_nuevo_proceso \in Nat /\ TypeColas /\ FinalizadasConectadas
      /\ Apariciones(p) = Uno(p < id_nuevo_proceso /\ p \notin finalizadas)
  BY CotasAssumption DEF IInv, TypeOK, TypeMain, CadaPcbEnUnLugar, Pcb
<1>2. /\ Veces(estado_new, p) \in Nat /\ Veces(estado_ready, p) \in Nat
      /\ Veces(estado_susp_ready, p) \in Nat /\ VecesIO(estado_blocked, p) \in Nat
  BY <1>1, VecesNaturales
<1>3. /\ Contains(estado_new, p) <=> Veces(estado_new, p) > 0
      /\ Contains(estado_susp_ready, p) <=> Veces(estado_susp_ready, p) > 0
      /\ (\E i \in DOMAIN estado_blocked : estado_blocked[i].pcb = p)
           <=> VecesIO(estado_blocked, p) > 0
  BY <1>1, VecesBasico, VecesIOBasico DEF TypeColas
<1>4. estado[p] =
        CASE p >= id_nuevo_proceso -> "inexistente"
          [] p \in finalizadas -> "exit"
          [] LugarNew(p) -> "new"
          [] LugarSuspReady(p) -> "susp_ready"
          [] LugarSuspBlocked(p) -> "susp_blocked"
          [] LugarBlocked(p) -> "blocked"
          [] LugarExec(p) -> "exec"
          [] OTHER -> "ready"
  BY <1>3 DEF estado, LugarNew, LugarSuspReady, LugarSuspBlocked, LugarBlocked, LugarExec
<1>5. ASSUME Apariciones(p) = 0
      PROVE  /\ ~LugarNew(p) /\ ~LugarReady(p) /\ ~LugarExec(p) /\ ~LugarBlocked(p)
             /\ ~LugarSuspBlocked(p) /\ ~LugarSuspReady(p)
  <2> DEFINE m == Uno(pcMain = "push_new" /\ p = id_nuevo_proceso - 1)
             a == Uno(AreadyConPcb /\ pcbAready = p)
             x == Uno(ExecConPcb /\ pcbExec = p)
             b == Uno(BlockConPcb /\ ultimoIO.pcb = p)
             n == Veces(estado_new, p)
             s == Veces(estado_susp_ready, p)
             r == Veces(estado_ready, p)
             k == VecesIO(estado_blocked, p)
  <2>0. n \in Nat /\ s \in Nat /\ r \in Nat /\ k \in Nat
    BY <1>2
  <2>1. m \in Nat /\ a \in Nat /\ x \in Nat /\ b \in Nat
    OBVIOUS
  <2>2. m + n + s + r + k + a + x + b = 0
    BY <1>5 DEF Apariciones
  <2> HIDE DEF m, a, x, b, n, s, r, k
  <2>3. m = 0 /\ a = 0 /\ x = 0 /\ b = 0 /\ n = 0 /\ s = 0 /\ r = 0 /\ k = 0
    BY <2>0, <2>1, <2>2
  <2> QED
    BY <2>3 DEF m, a, x, b, n, s, r, k, LugarNew, LugarReady, LugarExec, LugarBlocked,
       LugarSuspBlocked, LugarSuspReady, ExecConPcb, BlockConPcb
<1>6. CASE p >= id_nuevo_proceso \/ p \in finalizadas
  <2>1. Apariciones(p) = 0 /\ (p \in finalizadas => ~(p >= id_nuevo_proceso))
    BY <1>1, <1>6 DEF FinalizadasConectadas
  <2> QED BY <1>4, <1>5, <1>6, <2>1
<1>7. CASE ~(p >= id_nuevo_proceso) /\ p \notin finalizadas
  <2>1. Apariciones(p) = 1
    BY <1>1, <1>7
  <2>2. LugarNew(p) \/ LugarReady(p) \/ LugarExec(p) \/ LugarBlocked(p)
          \/ LugarSuspBlocked(p) \/ LugarSuspReady(p)
    BY <1>1, <1>2, <2>1 DEF Apariciones, LugarNew, LugarReady, LugarExec, LugarBlocked,
       LugarSuspBlocked, LugarSuspReady, ExecConPcb, BlockConPcb
  <2>3. /\ LugarNew(p) => ~LugarReady(p) /\ ~LugarExec(p) /\ ~LugarBlocked(p)
                            /\ ~LugarSuspBlocked(p) /\ ~LugarSuspReady(p)
        /\ LugarReady(p) => ~LugarExec(p) /\ ~LugarBlocked(p)
                            /\ ~LugarSuspBlocked(p) /\ ~LugarSuspReady(p)
    BY <1>1, <1>2, <2>1 DEF Apariciones, LugarNew, LugarReady, LugarExec, LugarBlocked,
       LugarSuspBlocked, LugarSuspReady, ExecConPcb, BlockConPcb
  <2>4. /\ LugarExec(p) => ~LugarBlocked(p) /\ ~LugarSuspBlocked(p) /\ ~LugarSuspReady(p)
        /\ LugarBlocked(p) => ~LugarSuspBlocked(p) /\ ~LugarSuspReady(p)
        /\ LugarSuspBlocked(p) => ~LugarSuspReady(p)
    BY <1>1, <1>2, <2>1 DEF Apariciones, LugarNew, LugarReady, LugarExec, LugarBlocked,
       LugarSuspBlocked, LugarSuspReady, ExecConPcb, BlockConPcb
  <2> QED BY <1>4, <1>7, <2>2, <2>3, <2>4
<1> QED  BY <1>6, <1>7

\* The same in the two states of a step.
LEMMA EstadoAntesYDespues ==
    IInv /\ IInv' => EstadosPorLugar /\ EstadosPorLugar'
BY EstadoSegunLugar, PTL

\* The step leaves p where it was, whatever hands of one state it goes through.
EnElMismoLugar(p) ==
    /\ (p >= id_nuevo_proceso)' <=> p >= id_nuevo_proceso
    /\ (p \in finalizadas)' <=> p \in finalizadas
    /\ LugarNew(p)' <=> LugarNew(p)
    /\ LugarReady(p)' <=> LugarReady(p)
    /\ LugarExec(p)' <=> LugarExec(p)
    /\ LugarBlocked(p)' <=> LugarBlocked(p)
    /\ LugarSuspBlocked(p)' <=> LugarSuspBlocked(p)
    /\ LugarSuspReady(p)' <=> LugarSuspReady(p)

\* A process that stays in its place keeps its state.
LEMMA MismoLugarMismoEstado ==
    ASSUME EstadosPorLugar, EstadosPorLugar', NEW p \in Pcb, EnElMismoLugar(p)
    PROVE  estado'[p] = estado[p]
<1>1. EstadosPorLugar!(p) /\ EstadosPorLugar!(p)'
  BY DEF EstadosPorLugar
<1> HIDE DEF LugarNew, LugarReady, LugarExec, LugarBlocked, LugarSuspBlocked, LugarSuspReady
<1> QED  BY <1>1 DEF EnElMismoLugar

\* A step that moves no process is a stutter of the diagram.
LEMMA NadieSeMueve ==
    ASSUME EstadosPorLugar, EstadosPorLugar', \A p \in Pcb : EnElMismoLugar(p)
    PROVE  UNCHANGED estado
<1>1. \A p \in Pcb : estado'[p] = estado[p]
  BY MismoLugarMismoEstado
<1>2. estado = [p \in Pcb |-> estado[p]] /\ estado' = [p \in Pcb |-> estado'[p]]
  BY DEF estado
<1> HIDE DEF estado
<1> QED  BY <1>1, <1>2

\* A step that moves one process only is an edge of the diagram.
LEMMA UnoSeMueve ==
    ASSUME EstadosPorLugar, EstadosPorLugar', NEW x \in Pcb, NEW desde, NEW hasta,
           estado[x] = desde, estado'[x] = hasta,
           \A p \in Pcb : p # x => EnElMismoLugar(p)
    PROVE  CicloDeVida!Pasa(x, desde, hasta)
<1>1. \A p \in Pcb : p # x => estado'[p] = estado[p]
  BY MismoLugarMismoEstado
<1>2. estado = [p \in Pcb |-> estado[p]] /\ estado' = [p \in Pcb |-> estado'[p]]
  BY DEF estado
<1>3. estado' = [estado EXCEPT ![x] = hasta]
  <2> HIDE DEF estado
  <2> QED  BY <1>1, <1>2
<1> QED  BY <1>3 DEF CicloDeVida!Pasa

-----------------------------------------------------------------------------
(* The degree of multiprogramming, counted over the processes *)

\* The elements of a list are at most as many as its positions.
LEMMA ImagenDeLista ==
    ASSUME NEW S, NEW s \in Seq(S), NEW f, f = [i \in 1..Len(s) |-> f[i]]
    PROVE  /\ IsFiniteSet({f[i] : i \in 1..Len(s)})
           /\ Cardinality({f[i] : i \in 1..Len(s)}) \in Nat
           /\ Cardinality({f[i] : i \in 1..Len(s)}) <= Len(s)
<1> DEFINE T == {f[i] : i \in 1..Len(s)}
<1>0. Len(s) \in Nat /\ Len(s) \in Int /\ 1 \in Int
  BY LenProperties
<1>1. IsFiniteSet(1..Len(s)) /\ Cardinality(1..Len(s)) = Len(s)
  <2>1. /\ IsFiniteSet(1..Len(s))
        /\ Cardinality(1..Len(s)) = IF 1 > Len(s) THEN 0 ELSE Len(s) - 1 + 1
    BY <1>0, FS_Interval, Zenon
  <2> QED  BY <1>0, <2>1
<1>2. f \in Surjection(1..Len(s), T)
  BY DEF Surjection
<1>3. IsFiniteSet(T) /\ Cardinality(T) <= Len(s)
  BY <1>1, <1>2, FS_Surjection
<1> QED  BY <1>3, FS_CardinalityType

\* A thread holds one process or none.
LEMMA ALoSumoUno ==
    ASSUME NEW c \in BOOLEAN, NEW x
    PROVE  IsFiniteSet({y \in {x} : c}) /\ Cardinality({y \in {x} : c}) = Uno(c)
<1>1. CASE c
  <2>1. {y \in {x} : c} = {x}
    BY <1>1
  <2> QED  BY <1>1, <2>1, FS_Singleton DEF Uno
<1>2. CASE ~c
  <2>1. {y \in {x} : c} = {}
    BY <1>2
  <2> QED  BY <1>2, <2>1, FS_EmptySet DEF Uno
<1> QED  BY <1>1, <1>2

\* A union has at most the elements of its two parts.
LEMMA UnionAcotada ==
    ASSUME NEW S, NEW T, IsFiniteSet(S), IsFiniteSet(T)
    PROVE  /\ IsFiniteSet(S \union T)
           /\ Cardinality(S \union T) <= Cardinality(S) + Cardinality(T)
<1>1. IsFiniteSet(S \cap T)
  BY FS_Intersection
<1>2. /\ Cardinality(S) \in Nat /\ Cardinality(T) \in Nat /\ Cardinality(S \cap T) \in Nat
  BY <1>1, FS_CardinalityType
<1>3. IsFiniteSet(S \union T)
      /\ Cardinality(S \union T) = Cardinality(S) + Cardinality(T) - Cardinality(S \cap T)
  BY FS_Union
<1> QED  BY <1>2, <1>3

\* When Aready is about to take a PCB out of NEW or SUSPENDED-READY, the token
\* it took from sem_multiprogramacion is a place in the degree: fewer than
\* GRADO_MULTIPROGRAMACION processes compete.
LEMMA HayLugarAlAdmitir ==
    ASSUME IInv, pcAready \in {"pop_new", "pop_susp"}
    PROVE  CicloDeVida!HayLugar
<1> DEFINE enDisco == pcBlock \in {"duerme", "suspende", "espera_susp"}
           R == {estado_ready[i] : i \in 1..Len(estado_ready)}
           B == {estado_blocked[i].pcb : i \in 1..Len(estado_blocked)}
           E == {y \in {pcbExec} : ExecConPcb}
           D == {y \in {ultimoIO.pcb} : enDisco}
           Pedidos == [pcb : Pcb, tiempoBloqueo : TiemposIO]
<1>1. /\ estado_ready \in Seq(Pcb) /\ estado_blocked \in Seq(Pedidos)
      /\ Len(estado_ready) \in Nat /\ Len(estado_blocked) \in Nat
      /\ sem_multiprogramacion \in Nat /\ GRADO_MULTIPROGRAMACION \in Nat
      /\ DOMAIN estado_ready = 1..Len(estado_ready)
      /\ DOMAIN estado_blocked = 1..Len(estado_blocked)
  BY LenProperties, CotasAssumption DEF IInv, TypeOK, TypeColas, TypeSem
<1> HIDE DEF Pedidos
<1>2. IsFiniteSet(R) /\ Cardinality(R) \in Nat /\ Cardinality(R) <= Len(estado_ready)
  <2>1. estado_ready = [i \in 1..Len(estado_ready) |-> estado_ready[i]]
    BY <1>1
  <2> QED  BY <1>1, <2>1, ImagenDeLista
<1>3. IsFiniteSet(B) /\ Cardinality(B) \in Nat /\ Cardinality(B) <= Len(estado_blocked)
  <2> DEFINE f == [i \in 1..Len(estado_blocked) |-> estado_blocked[i].pcb]
  <2>1. f = [i \in 1..Len(estado_blocked) |-> f[i]]
    OBVIOUS
  <2>2. B = {f[i] : i \in 1..Len(estado_blocked)}
    OBVIOUS
  <2> HIDE DEF f, B
  <2>3. /\ IsFiniteSet({f[i] : i \in 1..Len(estado_blocked)})
        /\ Cardinality({f[i] : i \in 1..Len(estado_blocked)}) \in Nat
        /\ Cardinality({f[i] : i \in 1..Len(estado_blocked)}) <= Len(estado_blocked)
    BY <1>1, <2>1, ImagenDeLista
  <2> QED  BY <2>2, <2>3
<1>4. IsFiniteSet(E) /\ Cardinality(E) = Uno(ExecConPcb)
  BY ALoSumoUno DEF ExecConPcb
<1>5. IsFiniteSet(D) /\ Cardinality(D) = Uno(enDisco)
  <2>1. enDisco \in BOOLEAN
    OBVIOUS
  <2> HIDE DEF enDisco
  <2> QED  BY <2>1, ALoSumoUno
<1>6. CicloDeVida!Compiten \subseteq (R \union B) \union (E \union D)
  <2> SUFFICES ASSUME NEW p \in Pcb, estado[p] \in {"ready", "exec", "blocked"}
               PROVE  p \in R \union B \union E \union D
    BY DEF CicloDeVida!Compiten
  <2>1. LugarReady(p) \/ LugarExec(p) \/ LugarBlocked(p)
    BY EstadoSegunLugar DEF EstadosPorLugar
  <2>2. CASE LugarReady(p)
    <3>1. Veces(estado_ready, p) > 0 => \E i \in 1..Len(estado_ready) : estado_ready[i] = p
      BY <1>1, VecesBasico DEF Contains
    <3> QED  BY <2>2, <3>1 DEF LugarReady, AreadyConPcb, ExecConPcb
  <2>3. CASE LugarExec(p)
    BY <2>3 DEF LugarExec, ExecConPcb
  <2>4. CASE LugarBlocked(p)
    <3>1. VecesIO(estado_blocked, p) > 0 => \E i \in 1..Len(estado_blocked) : estado_blocked[i].pcb = p
      BY <1>1, VecesIOBasico
    <3> QED  BY <2>4, <3>1 DEF LugarBlocked
  <2> QED  BY <2>1, <2>2, <2>3, <2>4
<1> HIDE DEF R, B, E, D
<1> DEFINE RB == R \union B
           ED == E \union D
           U == RB \union ED
<1>7. IsFiniteSet(RB) /\ Cardinality(RB) <= Cardinality(R) + Cardinality(B)
  BY <1>2, <1>3, UnionAcotada
<1>8. IsFiniteSet(ED) /\ Cardinality(ED) <= Cardinality(E) + Cardinality(D)
  BY <1>4, <1>5, UnionAcotada
<1>9. IsFiniteSet(U) /\ Cardinality(U) <= Cardinality(RB) + Cardinality(ED)
  BY <1>7, <1>8, UnionAcotada
<1>10. Cardinality(CicloDeVida!Compiten) <= Cardinality(U) /\ IsFiniteSet(CicloDeVida!Compiten)
  BY <1>6, <1>9, FS_Subset
<1>11. /\ Cardinality(RB) \in Nat /\ Cardinality(ED) \in Nat /\ Cardinality(U) \in Nat
       /\ Cardinality(CicloDeVida!Compiten) \in Nat
  BY <1>7, <1>8, <1>9, <1>10, FS_CardinalityType
<1> HIDE DEF RB, ED, U
<1>12. Len(estado_ready) + Len(estado_blocked) + Uno(ExecConPcb) + Uno(enDisco) < GRADO_MULTIPROGRAMACION
  <2>1. GradoContado /\ AreadyAdmitiendo
    BY DEF IInv, AreadyAdmitiendo
  <2> QED  BY <1>1, <2>1 DEF GradoContado, BlockConPcb, Uno
<1>13. Uno(ExecConPcb) \in Nat /\ Uno(enDisco) \in Nat
  BY DEF Uno
<1>14. Cardinality(CicloDeVida!Compiten) < GRADO_MULTIPROGRAMACION
  <2> HIDE DEF enDisco
  <2>1. Cardinality(RB) <= Len(estado_ready) + Len(estado_blocked)
    BY <1>1, <1>2, <1>3, <1>7, <1>11
  <2>2. Cardinality(ED) <= Uno(ExecConPcb) + Uno(enDisco)
    BY <1>4, <1>5, <1>8, <1>11, <1>13
  <2>3. Cardinality(CicloDeVida!Compiten) <= Cardinality(RB) + Cardinality(ED)
    BY <1>9, <1>10, <1>11
  <2> DEFINE c == Cardinality(CicloDeVida!Compiten)
             rb == Cardinality(RB)
             ed == Cardinality(ED)
             lr == Len(estado_ready)
             lb == Len(estado_blocked)
             x == Uno(ExecConPcb)
             d == Uno(enDisco)
             g == GRADO_MULTIPROGRAMACION
  <2>4. /\ c \in Nat /\ rb \in Nat /\ ed \in Nat /\ lr \in Nat /\ lb \in Nat
        /\ x \in Nat /\ d \in Nat /\ g \in Nat
    BY <1>1, <1>11, <1>13
  <2>5. rb <= lr + lb /\ ed <= x + d /\ c <= rb + ed /\ lr + lb + x + d < g
    BY <1>12, <2>1, <2>2, <2>3
  <2> HIDE DEF c, rb, ed, lr, lb, x, d, g
  <2>6. c < g
    BY <2>4, <2>5
  <2> QED  BY <2>6 DEF c, g
<1>15. CicloDeVida!Cardinality(CicloDeVida!Compiten) = Cardinality(CicloDeVida!Compiten)
  BY Zenon DEF CicloDeVida!Cardinality, Cardinality
<1> QED  BY <1>14, <1>15 DEF CicloDeVida!HayLugar

-----------------------------------------------------------------------------
(* The simulation *)

\* Every step of the threads is a step of the diagram or a stutter.
LEMMA PasoDeCicloDeVida ==
    ASSUME IInv, IInv', [Next]_vars
    PROVE  [CicloDeVida!Next]_estado
<1> USE DEF NULO, varsMain, varsColas, varsSem, varsAready, varsExec, varsBlock,
            varsMem, varsCPU, varsFin
<1>1. /\ EstadosPorLugar /\ EstadosPorLugar'
      /\ TypeMain /\ TypeColas /\ TypeAready /\ TypeExec /\ TypeBlock /\ TypeCPU
      /\ id_nuevo_proceso \in Nat /\ FinalizadasConectadas
  BY EstadoAntesYDespues, CotasAssumption DEF IInv, TypeOK, TypeMain
<1>2. ASSUME \A p \in Pcb : EnElMismoLugar(p)
      PROVE  UNCHANGED estado
  BY <1>1, <1>2, NadieSeMueve
<1>3. ASSUME NEW x \in Pcb, NEW desde, NEW hasta, estado[x] = desde, estado'[x] = hasta,
             \A p \in Pcb : p # x => EnElMismoLugar(p)
      PROVE  CicloDeVida!Pasa(x, desde, hasta)
  BY <1>1, <1>3, UnoSeMueve
<1> USE DEF EnElMismoLugar, LugarNew, LugarReady, LugarExec, LugarBlocked, LugarSuspBlocked,
            LugarSuspReady, AreadyConPcb
\* The steps that move no process.
<1>4. CASE \/ PostNew \/ EsperaPcb \/ EsperaGrado \/ Elige \/ EstructurasCreadas
           \/ InterrumpeAready \/ PostReadyAready
  BY <1>1, <1>2, <1>4
  DEF PostNew, EsperaPcb, EsperaGrado, Elige, EstructurasCreadas, InterrumpeAready, PostReadyAready
<1>5. CASE \/ EsperaReady \/ PlanificaSRT \/ PostBlock \/ PostReadyExec \/ VuelvePorExit
           \/ PostGradoExec
  BY <1>1, <1>2, <1>5
  DEF EsperaReady, PlanificaSRT, PostBlock, PostReadyExec, VuelvePorExit, PostGradoExec
<1>6. CASE \/ EsperaBlock \/ InterrumpeBlock \/ PostReadyBlock \/ PideSuspender
           \/ PostGradoBlock \/ PostSusp
  BY <1>1, <1>2, <1>6
  DEF EsperaBlock, InterrumpeBlock, PostReadyBlock, PideSuspender, PostGradoBlock, PostSusp
<1>7. CASE HiloKernel \/ CPU \/ Terminado \/ UNCHANGED vars
  BY <1>1, <1>2, <1>7
  DEF HiloKernel, CPU, CPUEjecutaIO, CPUEjecutaExit, CPUInterrumpida, Responde, Terminado, vars
\* The PCB changes hands inside ready or new.
<1>8. CASE IngresarANew
  <2>1. id_nuevo_proceso - 1 \in Pcb /\ estado_new' = Append(estado_new, id_nuevo_proceso - 1)
    BY <1>1, <1>8, CotasAssumption DEF TypeMain, Pcb, IngresarANew
  <2>2. \A p : /\ Veces(estado_new, p) \in Nat
               /\ Veces(estado_new', p) = Veces(estado_new, p) + Uno(id_nuevo_proceso - 1 = p)
    BY <1>1, <2>1, VecesAlAgregar DEF TypeColas
  <2>3. \A p \in Pcb : EnElMismoLugar(p)
    BY <1>1, <1>8, <2>2 DEF IngresarANew, Uno
  <2> QED  BY <1>2, <2>3
<1>9. CASE AgregaReady
  <2>1. pcbAready \in Pcb /\ estado_ready' = Append(estado_ready, pcbAready)
    BY <1>1, <1>9 DEF TypeAready, AgregaReady
  <2>2. \A p : /\ Veces(estado_ready, p) \in Nat
               /\ Veces(estado_ready', p) = Veces(estado_ready, p) + Uno(pcbAready = p)
    BY <1>1, <2>1, VecesAlAgregar DEF TypeColas
  <2>3. \A p \in Pcb : EnElMismoLugar(p)
    BY <1>1, <1>9, <2>2 DEF AgregaReady, Uno
  <2> QED  BY <1>2, <2>3
<1>10. CASE PlanificaFIFO
  <2>1. estado_ready # <<>> /\ estado_ready' = Tail(estado_ready) /\ Head(estado_ready) \in Pcb
    BY <1>1, <1>10, Largos DEF TypeColas, PlanificaFIFO
  <2>2. \A p : /\ Veces(estado_ready, p) \in Nat /\ Veces(estado_ready', p) \in Nat
               /\ Veces(estado_ready', p) = Veces(estado_ready, p) - Uno(Head(estado_ready) = p)
    <3>1. estado_ready' \in Seq(Pcb)
      BY <1>1, <2>1, Largos DEF TypeColas
    <3> QED  BY <1>1, <2>1, <3>1, VecesEnCola, VecesBasico DEF TypeColas
  <2>3. Veces(estado_ready, Head(estado_ready)) > 0
    BY <2>1, <2>2 DEF Uno
  <2>4. ASSUME NEW p \in Pcb
        PROVE  LugarReady(p)' <=> LugarReady(p)
    <3>1. CASE p = Head(estado_ready)
      BY <1>10, <2>3, <3>1 DEF PlanificaFIFO
    <3>2. CASE p # Head(estado_ready)
      BY <1>1, <1>10, <2>2, <3>2 DEF PlanificaFIFO, Uno, TypeExec
    <3> QED  BY <3>1, <3>2
  <2>5. \A p \in Pcb : EnElMismoLugar(p)
    BY <1>1, <1>10, <2>4 DEF PlanificaFIFO, TypeExec
  <2> QED  BY <1>2, <2>5
\* The ten edges of the diagram.
<1>11. CASE ManejarProceso
  <2>0. PICK x \in Pcb : x = id_nuevo_proceso
    BY <1>1, <1>11, CotasAssumption DEF ManejarProceso, TypeMain, Pcb
  <2>1. estado[x] = "inexistente"
    BY <1>1, <2>0, CotasAssumption DEF Pcb, EstadosPorLugar
  <2>2. LugarNew(x)'
    BY <1>1, <1>11, <2>0 DEF ManejarProceso
  <2>3. estado'[x] = "new"
    BY <1>1, <2>1, <2>2 DEF EstadosPorLugar
  <2>4. \A p \in Pcb : p # x => EnElMismoLugar(p)
    BY <1>1, <1>11, <2>0, CotasAssumption DEF ManejarProceso, Pcb
  <2>5. CicloDeVida!Crear(x)
    BY <1>3, <2>1, <2>3, <2>4 DEF CicloDeVida!Crear
  <2> QED  BY <2>1, <2>5 DEF CicloDeVida!Next
<1>12. CASE PopNew
  <2>0. PICK x \in Pcb : x = Head(estado_new)
    BY <1>1, <1>12, Largos DEF PopNew, TypeColas
  <2>1. /\ x = Head(estado_new) /\ estado_new # <<>> /\ estado_new' = Tail(estado_new)
        /\ pcbAready' = x /\ pcAready = "pop_new" /\ pcAready' = "espera_crear"
    BY <1>12, <2>0 DEF PopNew
  <2>2. \A p : /\ Veces(estado_new, p) \in Nat /\ Veces(estado_new', p) \in Nat
               /\ Veces(estado_new', p) = Veces(estado_new, p) - Uno(x = p)
    <3>1. estado_new' \in Seq(Pcb)
      BY <1>1, <2>1, Largos DEF TypeColas
    <3> QED  BY <1>1, <2>1, <3>1, VecesEnCola, VecesBasico, ZenonT(40) DEF TypeColas
  <2>3. LugarNew(x) /\ LugarReady(x)'
    BY <2>1, <2>2 DEF Uno
  <2>4. estado[x] = "new" /\ estado'[x] = "ready"
    BY <1>1, <2>1, <2>3 DEF EstadosPorLugar
  <2>5. \A p \in Pcb : p # x => EnElMismoLugar(p)
    BY <1>1, <1>12, <2>1, <2>2 DEF PopNew, Uno
  <2>6. CicloDeVida!Admitir(x)
    BY <1>3, <2>1, <2>4, <2>5, HayLugarAlAdmitir DEF CicloDeVida!Admitir
  <2> QED  BY <2>1, <2>6 DEF CicloDeVida!Next
<1>13. CASE PopSuspReady
  <2>0. PICK x \in Pcb : x = Head(estado_susp_ready)
    BY <1>1, <1>13, Largos DEF PopSuspReady, TypeColas
  <2>1. /\ x = Head(estado_susp_ready) /\ estado_susp_ready # <<>> /\ estado_susp_ready' = Tail(estado_susp_ready)
        /\ pcbAready' = x /\ pcAready = "pop_susp" /\ pcAready' = "add_ready"
    BY <1>13, <2>0 DEF PopSuspReady
  <2>2. \A p : /\ Veces(estado_susp_ready, p) \in Nat /\ Veces(estado_susp_ready', p) \in Nat
               /\ Veces(estado_susp_ready', p) = Veces(estado_susp_ready, p) - Uno(x = p)
    <3>1. estado_susp_ready' \in Seq(Pcb)
      BY <1>1, <2>1, Largos DEF TypeColas
    <3> QED  BY <1>1, <2>1, <3>1, VecesEnCola, VecesBasico, ZenonT(40) DEF TypeColas
  <2>3. LugarSuspReady(x) /\ LugarReady(x)'
    BY <2>1, <2>2 DEF Uno
  <2>4. estado[x] = "susp_ready" /\ estado'[x] = "ready"
    BY <1>1, <2>1, <2>3 DEF EstadosPorLugar
  <2>5. \A p \in Pcb : p # x => EnElMismoLugar(p)
    BY <1>1, <1>13, <2>1, <2>2 DEF PopSuspReady, Uno
  <2>6. CicloDeVida!Readmitir(x)
    BY <1>3, <2>1, <2>4, <2>5, HayLugarAlAdmitir DEF CicloDeVida!Readmitir
  <2> QED  BY <2>1, <2>6 DEF CicloDeVida!Next
<1>14. CASE Despacha
  <2>1. pcbExec \in Pcb /\ pcExec = "despacha" /\ pcExec' = "espera_cpu" /\ pcbExec' = pcbExec
    BY <1>1, <1>14 DEF Despacha, TypeExec
  <2>2. \A p : /\ Veces(estado_ready, p) \in Nat
               /\ Veces(estado_ready', p) = Veces(estado_ready, p) - Uno(SRT /\ pcbExec = p)
    BY <1>1, <1>14, VecesNaturales, DespachaQuita
  <2>3. LugarReady(pcbExec)
    BY <2>1 DEF IInv, ElegidoEnReady
  <2>4. LugarExec(pcbExec)'
    BY <2>1
  <2>5. estado[pcbExec] = "ready" /\ estado'[pcbExec] = "exec"
    BY <1>1, <2>1, <2>3, <2>4 DEF EstadosPorLugar
  <2>6. \A p \in Pcb : p # pcbExec => EnElMismoLugar(p)
    BY <1>1, <1>14, <2>2 DEF Despacha, Uno
  <2>7. CicloDeVida!CPULibre
    BY <1>1, <2>1 DEF CicloDeVida!CPULibre, EstadosPorLugar
  <2>8. CicloDeVida!Despachar(pcbExec)
    BY <1>3, <2>1, <2>5, <2>6, <2>7 DEF CicloDeVida!Despachar
  <2> QED  BY <2>1, <2>8 DEF CicloDeVida!Next
<1>15. CASE VuelvePorIO
  <2> DEFINE e == [pcb |-> pcbExec, tiempoBloqueo |-> respuestaCPU.tiempoBloqueo]
             Pedidos == [pcb : Pcb, tiempoBloqueo : TiemposIO]
  <2>1. PICK x \in Pcb : x = pcbExec
    BY <1>1, <1>15 DEF TypeExec, VuelvePorIO
  <2>2. /\ e \in Pedidos /\ e.pcb = x /\ estado_blocked \in Seq(Pedidos)
        /\ estado_blocked' = Append(estado_blocked, e)
    BY <1>1, <1>15, <2>1 DEF TypeColas, TypeExec, TypeCPU, SinRespuesta, VuelvePorIO
  <2> HIDE DEF e, Pedidos
  <2>3. \A p : /\ VecesIO(estado_blocked, p) \in Nat
               /\ VecesIO(estado_blocked', p) = VecesIO(estado_blocked, p) + Uno(x = p)
    BY <2>2, VecesIOAlAgregar
  <2>4. LugarExec(x) /\ LugarBlocked(x)'
    BY <1>15, <2>1, <2>3 DEF VuelvePorIO, Uno
  <2>5. estado[x] = "exec" /\ estado'[x] = "blocked"
    BY <1>1, <2>1, <2>4 DEF EstadosPorLugar
  <2>6. \A p \in Pcb : p # x => EnElMismoLugar(p)
    BY <1>1, <1>15, <2>1, <2>3 DEF VuelvePorIO, Uno
  <2>7. CicloDeVida!Bloquear(x)
    BY <1>3, <2>5, <2>6 DEF CicloDeVida!Bloquear
  <2> QED  BY <2>7 DEF CicloDeVida!Next
<1>16. CASE VuelvePorInterrupcion
  <2>1. PICK x \in Pcb : x = pcbExec
    BY <1>1, <1>16 DEF TypeExec, VuelvePorInterrupcion
  <2>2. estado_ready' = Append(estado_ready, x)
    BY <1>16, <2>1 DEF VuelvePorInterrupcion
  <2>3. \A p : /\ Veces(estado_ready, p) \in Nat
               /\ Veces(estado_ready', p) = Veces(estado_ready, p) + Uno(x = p)
    BY <1>1, <2>2, VecesAlAgregar DEF TypeColas
  <2>4. LugarExec(x) /\ LugarReady(x)'
    BY <1>16, <2>1, <2>3 DEF VuelvePorInterrupcion, Uno
  <2>5. estado[x] = "exec" /\ estado'[x] = "ready"
    BY <1>1, <2>1, <2>4 DEF EstadosPorLugar
  <2>6. \A p \in Pcb : p # x => EnElMismoLugar(p)
    BY <1>1, <1>16, <2>1, <2>3 DEF VuelvePorInterrupcion, Uno
  <2>7. CicloDeVida!Desalojar(x)
    BY <1>3, <2>5, <2>6 DEF CicloDeVida!Desalojar
  <2> QED  BY <2>7 DEF CicloDeVida!Next
<1>17. CASE AvisaConsola
  <2>1. PICK x \in Pcb : x = pcbExec
    BY <1>1, <1>17 DEF TypeExec, AvisaConsola
  <2>2. LugarExec(x) /\ x \in finalizadas'
    BY <1>17, <2>1 DEF AvisaConsola
  <2>3. estado[x] = "exec" /\ estado'[x] = "exit"
    BY <1>1, <2>1, <2>2 DEF EstadosPorLugar
  <2>4. \A p \in Pcb : p # x => EnElMismoLugar(p)
    BY <1>1, <1>17, <2>1 DEF AvisaConsola
  <2>5. CicloDeVida!Finalizar(x)
    BY <1>3, <2>3, <2>4 DEF CicloDeVida!Finalizar
  <2> QED  BY <2>5 DEF CicloDeVida!Next
<1>18. CASE PopBlocked
  <2> DEFINE Pedidos == [pcb : Pcb, tiempoBloqueo : TiemposIO]
  <2>1. /\ estado_blocked \in Seq(Pedidos) /\ estado_blocked # <<>>
        /\ estado_blocked' = Tail(estado_blocked) /\ ultimoIO' = Head(estado_blocked)
        /\ pcBlock = "pop" /\ pcBlock' \in {"suspende", "duerme"}
        /\ UNCHANGED <<varsMain, estado_new, estado_ready, estado_susp_ready, varsAready,
                       varsExec, varsFin>>
    BY <1>1, <1>18 DEF TypeColas, PopBlocked
  <2>2. \A p : /\ VecesIO(estado_blocked, p) \in Nat /\ VecesIO(estado_blocked', p) \in Nat
               /\ VecesIO(estado_blocked', p)
                    = VecesIO(estado_blocked, p) - Uno(Head(estado_blocked).pcb = p)
    <3> HIDE DEF Pedidos
    <3>1. estado_blocked' \in Seq(Pedidos)
      BY <2>1, Largos
    <3> QED  BY <2>1, <3>1, VecesIOEnCola, VecesBasico
  <2>3. ASSUME NEW p \in Pcb
        PROVE  LugarBlocked(p)' <=> LugarBlocked(p)
    <3>1. CASE p = Head(estado_blocked).pcb
      <4>1. VecesIO(estado_blocked, p) > 0
        BY <2>2, <3>1 DEF Uno
      <4> QED  BY <2>1, <3>1, <4>1
    <3>2. CASE p # Head(estado_blocked).pcb
      <4>1. VecesIO(estado_blocked', p) = VecesIO(estado_blocked, p)
        BY <2>2, <3>2 DEF Uno
      <4> QED  BY <2>1, <3>2, <4>1
    <3> QED  BY <3>1, <3>2
  <2>4. \A p \in Pcb : EnElMismoLugar(p)
    BY <2>1, <2>3
  <2> QED  BY <1>2, <2>4
<1>19. CASE TerminaIO
  <2>1. PICK x \in Pcb : x = ultimoIO.pcb
    BY <1>1, <1>19 DEF TypeBlock, BlockConPcb, TerminaIO
  <2>2. estado_ready' = Append(estado_ready, x)
    BY <1>19, <2>1 DEF TerminaIO
  <2>3. \A p : /\ Veces(estado_ready, p) \in Nat
               /\ Veces(estado_ready', p) = Veces(estado_ready, p) + Uno(x = p)
    BY <1>1, <2>2, VecesAlAgregar DEF TypeColas
  <2>4. LugarBlocked(x) /\ LugarReady(x)'
    BY <1>19, <2>1, <2>3 DEF TerminaIO, Uno
  <2>5. estado[x] = "blocked" /\ estado'[x] = "ready"
    BY <1>1, <2>1, <2>4 DEF EstadosPorLugar
  <2>6. \A p \in Pcb : p # x => EnElMismoLugar(p)
    BY <1>1, <1>19, <2>1, <2>3 DEF TerminaIO, Uno
  <2>7. CicloDeVida!Desbloquear(x)
    BY <1>3, <2>5, <2>6 DEF CicloDeVida!Desbloquear
  <2> QED  BY <2>7 DEF CicloDeVida!Next
<1>20. CASE Suspendido
  <2>1. PICK x \in Pcb : x = ultimoIO.pcb
    BY <1>1, <1>20 DEF TypeBlock, BlockConPcb, Suspendido
  <2>2. LugarBlocked(x) /\ LugarSuspBlocked(x)'
    BY <1>20, <2>1 DEF Suspendido
  <2>3. estado[x] = "blocked" /\ estado'[x] = "susp_blocked"
    BY <1>1, <2>1, <2>2 DEF EstadosPorLugar
  <2>4. \A p \in Pcb : p # x => EnElMismoLugar(p)
    BY <1>1, <1>20, <2>1 DEF Suspendido
  <2>5. CicloDeVida!Suspender(x)
    BY <1>3, <2>3, <2>4 DEF CicloDeVida!Suspender
  <2> QED  BY <2>5 DEF CicloDeVida!Next
<1>21. CASE TerminaIOSuspendido
  <2>1. PICK x \in Pcb : x = ultimoIO.pcb
    BY <1>1, <1>21 DEF TypeBlock, BlockConPcb, TerminaIOSuspendido
  <2>2. estado_susp_ready' = Append(estado_susp_ready, x)
    BY <1>21, <2>1 DEF TerminaIOSuspendido
  <2>3. \A p : /\ Veces(estado_susp_ready, p) \in Nat
               /\ Veces(estado_susp_ready', p) = Veces(estado_susp_ready, p) + Uno(x = p)
    BY <1>1, <2>2, VecesAlAgregar DEF TypeColas
  <2>4. LugarSuspBlocked(x) /\ LugarSuspReady(x)'
    BY <1>21, <2>1, <2>3 DEF TerminaIOSuspendido, Uno
  <2>5. estado[x] = "susp_blocked" /\ estado'[x] = "susp_ready"
    BY <1>1, <2>1, <2>4 DEF EstadosPorLugar
  <2>6. \A p \in Pcb : p # x => EnElMismoLugar(p)
    BY <1>1, <1>21, <2>1, <2>3 DEF TerminaIOSuspendido, Uno
  <2>7. CicloDeVida!TerminarIO(x)
    BY <1>3, <2>5, <2>6 DEF CicloDeVida!TerminarIO
  <2> QED  BY <2>7 DEF CicloDeVida!Next
<1> QED
  BY <1>4, <1>5, <1>6, <1>7, <1>8, <1>9, <1>10, <1>11, <1>12, <1>13, <1>14, <1>15, <1>16,
     <1>17, <1>18, <1>19, <1>20, <1>21
  DEF Next, HiloMain, HiloAready, HiloExec, HiloBlock

\* No process exists when the threads are created.
LEMMA CicloDeVidaInicial == Init => CicloDeVida!Init
<1> SUFFICES ASSUME Init PROVE CicloDeVida!Init
  OBVIOUS
<1>1. EstadosPorLugar
  BY InvarianteInicial, EstadoSegunLugar
<1>2. \A p \in Pcb : estado[p] = "inexistente"
  BY <1>1, CotasAssumption DEF Init, EstadosPorLugar, Pcb
<1>3. estado = [p \in Pcb |-> estado[p]]
  BY DEF estado
<1> HIDE DEF estado
<1> QED  BY <1>2, <1>3 DEF CicloDeVida!Init

\* The four threads, with their queues and semaphores, implement the seven-state
\* diagram: a process is admitted only when there is a place in the degree,
\* dispatched only when the CPU is free, and ends only from the CPU.
THEOREM RefinaCicloDeVida == Spec => CumpleCicloDeVida
<1>1. Init => CicloDeVida!Init
  BY CicloDeVidaInicial
<1>2. IInv /\ IInv' /\ [Next]_vars => [CicloDeVida!Next]_estado
  BY PasoDeCicloDeVida
<1> QED
  BY <1>1, <1>2, Invariante, PTL DEF Spec, CumpleCicloDeVida, CicloDeVida!Spec

=============================================================================
