-------------------------- MODULE SerializacionProofs --------------------------
(***************************************************************************)
(* Theorems about Serializacion and TablasPaginas: packets of programs of  *)
(* any length, and tables of any size.                                     *)
(***************************************************************************)
EXTENDS Serializacion, TablasPaginas, SequenceTheorems, TLAPS

-----------------------------------------------------------------------------
(* Packets, in cells of a set C that has the numbers *)

Instrucciones(C) == Seq([identificador : C, parametro1 : C, parametro2 : C])

PCBs(C) == [id : C, tamanioProceso : C, PC : C, tablaDePaginas : C, estimacionRafaga : C,
            lengthUltimaRafaga : C, instrucciones : Instrucciones(C)]

\* Each instruction is three cells.
LEMMA InstruccionesEnCeldas ==
    ASSUME NEW C, NEW is \in Instrucciones(C)
    PROVE  /\ serializarInstrucciones(is) \in Seq(C)
           /\ Len(is) \in Nat /\ Len(serializarInstrucciones(is)) = 3 * Len(is)
           /\ \A i \in 1..Len(is) :
                 /\ serializarInstrucciones(is)[3 * i - 2] = is[i].identificador
                 /\ serializarInstrucciones(is)[3 * i - 1] = is[i].parametro1
                 /\ serializarInstrucciones(is)[3 * i] = is[i].parametro2
<1> DEFINE n == Len(is)
           s == serializarInstrucciones(is)
<1>1. /\ n \in Nat /\ is \in Seq([identificador : C, parametro1 : C, parametro2 : C])
      /\ \A i \in 1..n : is[i] \in [identificador : C, parametro1 : C, parametro2 : C]
  BY LenProperties, ElementOfSeq DEF Instrucciones
<1> HIDE DEF n
<1>2. \A k \in 1..3*n : /\ (k - 1) \div 3 + 1 \in 1..n
                        /\ k % 3 \in {0, 1, 2}
  BY <1>1
<1>3. \A i \in 1..n : /\ 3 * i - 2 \in 1..3*n /\ 3 * i - 1 \in 1..3*n /\ 3 * i \in 1..3*n
                      /\ (3 * i - 2) % 3 = 1 /\ (3 * i - 1) % 3 = 2 /\ (3 * i) % 3 = 0
                      /\ (3 * i - 3) \div 3 + 1 = i /\ (3 * i - 2) \div 3 + 1 = i
                      /\ (3 * i - 1) \div 3 + 1 = i
  BY <1>1
<1>4. s = [k \in 1..3*n |->
             LET i == is[(k - 1) \div 3 + 1] IN
             CASE k % 3 = 1 -> i.identificador
               [] k % 3 = 2 -> i.parametro1
               [] k % 3 = 0 -> i.parametro2]
  BY DEF serializarInstrucciones, n
<1> HIDE DEF s
<1>5. \A k \in 1..3*n : s[k] \in C
  <2> TAKE k \in 1..3*n
  <2> DEFINE e == is[(k - 1) \div 3 + 1]
  <2>1. e \in [identificador : C, parametro1 : C, parametro2 : C]
    BY <1>1, <1>2
  <2>2. s[k] = CASE k % 3 = 1 -> e.identificador
                 [] k % 3 = 2 -> e.parametro1
                 [] k % 3 = 0 -> e.parametro2
    BY <1>4
  <2> HIDE DEF e
  <2>3. k % 3 \in {0, 1, 2}
    BY <1>2
  <2> QED  BY <2>1, <2>2, <2>3
<1>6. s \in Seq(C) /\ Len(s) = 3 * n
  <2>1. 3 * n \in Nat
    BY <1>1
  <2>2. DOMAIN s = 1..3*n
    BY <1>4
  <2>3. s = [k \in 1..3*n |-> s[k]]
    BY <1>4, <2>2
  <2> HIDE DEF n
  <2>4. s \in [1..3*n -> C]
    BY <1>5, <2>3
  <2> QED  BY <2>1, <2>2, <2>4
<1>7. \A i \in 1..n : /\ s[3 * i - 2] = is[i].identificador
                      /\ s[3 * i - 1] = is[i].parametro1
                      /\ s[3 * i] = is[i].parametro2
  <2> TAKE i \in 1..n
  <2>1. /\ 3 * i - 2 \in 1..3*n /\ 3 * i - 1 \in 1..3*n /\ 3 * i \in 1..3*n
        /\ (3 * i - 2) % 3 = 1 /\ (3 * i - 1) % 3 = 2 /\ (3 * i) % 3 = 0
        /\ (3 * i - 2 - 1) \div 3 + 1 = i /\ (3 * i - 1 - 1) \div 3 + 1 = i
        /\ (3 * i - 1) \div 3 + 1 = i
    BY <1>1, <1>3
  <2>2. s[3 * i - 2] = is[i].identificador
    <3>1. /\ 3 * i - 2 \in 1..3*n /\ (3 * i - 2) % 3 = 1 /\ (3 * i - 2 - 1) \div 3 + 1 = i
      BY <2>1
    <3>2. s[3 * i - 2] = LET e == is[(3 * i - 2 - 1) \div 3 + 1] IN
                         CASE (3 * i - 2) % 3 = 1 -> e.identificador
                           [] (3 * i - 2) % 3 = 2 -> e.parametro1
                           [] (3 * i - 2) % 3 = 0 -> e.parametro2
      BY <1>4, <3>1, Zenon
    <3> QED  BY <3>1, <3>2
  <2>3. s[3 * i - 1] = is[i].parametro1
    BY <1>4, <2>1
  <2>4. s[3 * i] = is[i].parametro2
    BY <1>4, <2>1
  <2> QED  BY <2>2, <2>3, <2>4
<1> QED  BY <1>1, <1>6, <1>7 DEF n, s

\* What is read back from an offset on is what was written there.
LEMMA InstruccionesIdaYVuelta ==
    ASSUME NEW C, NEW is \in Instrucciones(C), NEW stream \in Seq(C), NEW offset \in Nat \ {0},
           Len(stream) = offset + 3 * Len(is), stream[offset] = Len(is),
           \A k \in 1..3*Len(is) : stream[offset + k] = serializarInstrucciones(is)[k]
    PROVE  deserializarInstrucciones(stream, offset) = is
<1> DEFINE n == Len(is)
           s == serializarInstrucciones(is)
           d == deserializarInstrucciones(stream, offset)
<1>1. /\ n \in Nat /\ DOMAIN stream = 1..offset+3*n
      /\ \A i \in 1..n : /\ s[3 * i - 2] = is[i].identificador
                         /\ s[3 * i - 1] = is[i].parametro1
                         /\ s[3 * i] = is[i].parametro2
      /\ is = [i \in 1..n |-> is[i]]
      /\ \A i \in 1..n : is[i] \in [identificador : C, parametro1 : C, parametro2 : C]
  BY InstruccionesEnCeldas, LenProperties, ElementOfSeq DEF Instrucciones
<1>2. \A k \in 1..3*n : stream[offset + k] = s[k]
  OBVIOUS
<1> HIDE DEF s
<1>3. Celda(stream, offset) = n
  BY <1>1 DEF Celda
<1>4. d = [i \in 1..n |->
             [identificador |-> Celda(stream, offset + 3 * i - 2),
              parametro1 |-> Celda(stream, offset + 3 * i - 1),
              parametro2 |-> Celda(stream, offset + 3 * i)]]
  BY <1>3 DEF deserializarInstrucciones
<1> HIDE DEF n
<1>5. ASSUME NEW i \in 1..n
      PROVE  [identificador |-> Celda(stream, offset + 3 * i - 2),
              parametro1 |-> Celda(stream, offset + 3 * i - 1),
              parametro2 |-> Celda(stream, offset + 3 * i)] = is[i]
  <2>1. /\ 3 * i - 2 \in 1..3*n /\ 3 * i - 1 \in 1..3*n /\ 3 * i \in 1..3*n
        /\ offset + 3 * i - 2 = offset + (3 * i - 2)
        /\ offset + 3 * i - 1 = offset + (3 * i - 1)
        /\ \A k \in 1..3*n : offset + k \in 1..offset+3*n
    BY <1>1
  <2>2. /\ Celda(stream, offset + 3 * i - 2) = s[3 * i - 2]
        /\ Celda(stream, offset + 3 * i - 1) = s[3 * i - 1]
        /\ Celda(stream, offset + 3 * i) = s[3 * i]
    BY <1>1, <1>2, <2>1 DEF Celda
  <2> QED  BY <1>1, <2>2
<1> QED  BY <1>1, <1>4, <1>5

\* A packet as long as what is written in it carries exactly that.
LEMMA PaqueteExacto ==
    ASSUME NEW C, NEW e, NEW cod, serializarEstructura(e, cod) \in Seq(C),
           tamanioEstructura(e, cod) = Len(serializarEstructura(e, cod))
    PROVE  /\ armarPaqueteCon(e, cod).stream = serializarEstructura(e, cod)
           /\ armarPaqueteCon(e, cod).escrito = armarPaqueteCon(e, cod).size
<1> DEFINE w == serializarEstructura(e, cod)
<1>1. Len(w) \in Nat /\ w = [k \in 1..Len(w) |-> w[k]]
  BY LenProperties
<1> HIDE DEF w
<1>2. [k \in 1..Len(w) |-> IF k <= Len(w) THEN w[k] ELSE BASURA] = w
  BY <1>1
<1> QED  BY <1>2 DEF armarPaqueteCon, w

\* What follows a prefix is found after its length.
LEMMA TrasElPrefijo ==
    ASSUME NEW C, NEW previo \in Seq(C), NEW resto \in Seq(C), NEW k \in 1..Len(resto)
    PROVE  /\ Len(previo) + k \in DOMAIN (previo \o resto)
           /\ (previo \o resto)[Len(previo) + k] = resto[k]
<1> DEFINE st == previo \o resto
           o == Len(previo)
           l == Len(resto)
<1>1. o \in Nat /\ l \in Nat
  BY LenProperties
<1>2. /\ st \in Seq(C) /\ Len(st) = o + l
      /\ \A m \in 1..o+l : st[m] = IF m <= o THEN previo[m] ELSE resto[m - o]
  BY ConcatProperties, Zenon
<1>3. DOMAIN st = 1..o+l
  BY <1>2, LenProperties, Zenon
<1>4. k \in 1..l
  OBVIOUS
<1> HIDE DEF st, o, l
<1>5. PICK m \in 1..o+l : m = o + k /\ ~(m <= o) /\ m - o = k
  BY <1>1, <1>4
<1>6. st[m] = resto[k]
  BY <1>2, <1>5
<1> QED  BY <1>3, <1>5, <1>6, Zenon DEF st, o

\* A PCB with any program: what is allocated is what is written, and the one that
\* is received is the one that was sent.
LEMMA PCBEnCeldas ==
    ASSUME NEW C, Nat \subseteq C, NEW p \in PCBs(C)
    PROVE  /\ serializarPCB(p) \in Seq(C)
           /\ Len(serializarPCB(p)) = TamanioPCB(p) /\ TamanioPCB(p) \in Nat
           /\ \A previo \in Seq(C) :
                 deserializarPCB(previo \o serializarPCB(p), Len(previo)) = p
<1> DEFINE is == p.instrucciones
           n == Len(is)
           cabecera == <<p.id, p.tamanioProceso, p.PC, p.tablaDePaginas, p.estimacionRafaga,
                         p.lengthUltimaRafaga, n>>
           s == serializarInstrucciones(is)
           w == serializarPCB(p)
<1>1. is \in Instrucciones(C)
  BY DEF PCBs
<1>2. s \in Seq(C) /\ n \in Nat /\ Len(s) = 3 * n
  BY <1>1, InstruccionesEnCeldas
<1>3. cabecera \in Seq(C) /\ Len(cabecera) = 7
  BY <1>2 DEF PCBs
<1>4. w = cabecera \o s
  BY DEF serializarPCB
<1>5. /\ cabecera[1] = p.id /\ cabecera[2] = p.tamanioProceso /\ cabecera[3] = p.PC
      /\ cabecera[4] = p.tablaDePaginas /\ cabecera[5] = p.estimacionRafaga
      /\ cabecera[6] = p.lengthUltimaRafaga /\ cabecera[7] = n
  OBVIOUS
<1> HIDE DEF cabecera, s, w
<1>6. /\ w \in Seq(C) /\ Len(w) = 7 + 3 * n
      /\ \A k \in 1..7 : w[k] = cabecera[k]
      /\ \A k \in 1..3*n : w[7 + k] = s[k]
  <2>0. /\ w \in Seq(C) /\ Len(w) = Len(cabecera) + Len(s)
        /\ \A k \in 1..Len(cabecera)+Len(s) :
              w[k] = IF k <= Len(cabecera) THEN cabecera[k] ELSE s[k - Len(cabecera)]
    BY <1>2, <1>3, <1>4, ConcatProperties, Zenon
  <2>1. /\ w \in Seq(C) /\ Len(w) = 7 + 3 * n
        /\ \A k \in 1..7+3*n : w[k] = IF k <= 7 THEN cabecera[k] ELSE s[k - 7]
    <3> HIDE DEF n
    <3> QED  BY <1>2, <1>3, <2>0
  <2>2. \A k \in 1..7 : k \in 1..7+3*n /\ k <= 7
    BY <1>2
  <2>3. \A k \in 1..3*n : 7 + k \in 1..7+3*n /\ ~(7 + k <= 7) /\ 7 + k - 7 = k
    BY <1>2
  <2>4. \A k \in 1..7 : w[k] = cabecera[k]
    BY <2>1, <2>2
  <2>5. \A k \in 1..3*n : w[7 + k] = s[k]
    BY <2>1, <2>3
  <2> QED  BY <2>1, <2>4, <2>5
<1>7. ASSUME NEW previo \in Seq(C)
      PROVE  deserializarPCB(previo \o w, Len(previo)) = p
  <2> DEFINE o == Len(previo)
             st == previo \o w
  <2>1. o \in Nat
    BY LenProperties
  <2>2. st \in Seq(C) /\ Len(st) = o + Len(w)
    <3>1. w \in Seq(C)
      BY <1>6
    <3> QED  BY <3>1, ConcatProperties, Zenon
  <2> HIDE DEF o, st
  <2>3. \A k \in 1..7+3*n : o + k \in DOMAIN st /\ st[o + k] = w[k]
    <3>1. w \in Seq(C) /\ 1..Len(w) = 1..7+3*n
      BY <1>6
    <3> QED  BY <3>1, TrasElPrefijo, Zenon DEF o, st
  <2>4. \A k \in 1..7 : Celda(st, o + k) = cabecera[k]
    <3>1. \A k \in 1..7 : k \in 1..7+3*n
      BY <1>2
    <3> QED  BY <1>6, <2>3, <3>1 DEF Celda
  <2>5. deserializarInstrucciones(st, o + 7) = is
    <3>1. o + 7 \in Nat \ {0} /\ Len(st) = o + 7 + 3 * n
      <4>1. Len(st) = o + (7 + 3 * n)
        BY <1>6, <2>2, Zenon
      <4> HIDE DEF n
      <4> QED  BY <1>2, <2>1, <4>1
    <3>2. st[o + 7] = n
      <4>1. 7 \in 1..7+3*n /\ 7 \in 1..7
        BY <1>2
      <4> QED  BY <1>5, <1>6, <2>3, <4>1
    <3>3. \A k \in 1..3*n : st[o + 7 + k] = s[k]
      <4> TAKE k \in 1..3*n
      <4>1. 7 + k \in 1..7+3*n /\ o + (7 + k) = o + 7 + k
        BY <1>2, <2>1
      <4> QED  BY <1>6, <2>3, <4>1
    <3> QED  BY <1>1, <2>2, <3>1, <3>2, <3>3, InstruccionesIdaYVuelta DEF s
  <2>6. deserializarPCB(st, o) =
           [id |-> p.id, tamanioProceso |-> p.tamanioProceso, PC |-> p.PC,
            tablaDePaginas |-> p.tablaDePaginas, estimacionRafaga |-> p.estimacionRafaga,
            lengthUltimaRafaga |-> p.lengthUltimaRafaga, instrucciones |-> is]
    BY <1>5, <2>4, <2>5 DEF deserializarPCB
  <2>7. deserializarPCB(st, o) = p
    BY <2>6 DEF PCBs
  <2> QED  BY <2>7 DEF o, st
<1>8. TamanioPCB(p) = 7 + 3 * n
  BY DEF TamanioPCB
<1> QED  BY <1>2, <1>6, <1>7, <1>8 DEF w

\* What the console sends, with any number of instructions.
LEMMA ProcesoEnCeldas ==
    ASSUME NEW C, Nat \subseteq C, NEW tam \in C, NEW is \in Instrucciones(C),
           NEW p, p = [tamanioProceso |-> tam, instrucciones |-> is]
    PROVE  /\ serializarProceso(p) \in Seq(C)
           /\ Len(serializarProceso(p)) = 2 + 3 * Len(is)
           /\ deserializarProceso(serializarProceso(p)) = p
<1> DEFINE n == Len(is)
           cabecera == <<tam, n>>
           s == serializarInstrucciones(is)
           w == serializarProceso(p)
<1>1. s \in Seq(C) /\ n \in Nat /\ Len(s) = 3 * n
  BY InstruccionesEnCeldas
<1>2. /\ cabecera \in Seq(C) /\ Len(cabecera) = 2
      /\ cabecera[1] = tam /\ cabecera[2] = n
  BY <1>1
<1>3. w = cabecera \o s
  BY DEF serializarProceso
<1> HIDE DEF cabecera, s, w
<1>4. w \in Seq(C) /\ Len(w) = Len(cabecera) + Len(s)
  BY <1>1, <1>2, <1>3, ConcatProperties, Zenon
<1>5. Len(w) = 2 + 3 * n
  <2> HIDE DEF n
  <2> QED  BY <1>1, <1>2, <1>4
<1>6. \A k \in 1..3*n : w[2 + k] = s[k]
  <2>1. \A k \in 1..Len(s) : w[Len(cabecera) + k] = s[k]
    <3>1. s \in Seq(C) /\ cabecera \in Seq(C)
      BY <1>1, <1>2
    <3> QED  BY <3>1, <1>3, TrasElPrefijo, Zenon
  <2> HIDE DEF n
  <2> QED  BY <1>1, <1>2, <2>1
<1>7. w[1] = tam /\ w[2] = n /\ 1 \in DOMAIN w /\ 2 \in DOMAIN w
  <2>1. \A k \in 1..Len(cabecera)+Len(s) :
           w[k] = IF k <= Len(cabecera) THEN cabecera[k] ELSE s[k - Len(cabecera)]
    <3>1. s \in Seq(C) /\ cabecera \in Seq(C)
      BY <1>1, <1>2
    <3> QED  BY <3>1, <1>3, ConcatProperties, Zenon
  <2> HIDE DEF n
  <2>2. 1 \in 1..Len(cabecera)+Len(s) /\ 2 \in 1..Len(cabecera)+Len(s)
    BY <1>1, <1>2
  <2>3. DOMAIN w = 1..Len(cabecera)+Len(s)
    BY <1>4, LenProperties, Zenon
  <2> QED  BY <1>2, <2>1, <2>2, <2>3
<1>8. deserializarInstrucciones(w, 2) = is
  BY <1>4, <1>5, <1>6, <1>7, InstruccionesIdaYVuelta DEF s
<1>9. deserializarProceso(w) = p
  BY <1>7, <1>8 DEF deserializarProceso, Celda
<1> QED  BY <1>4, <1>5, <1>9 DEF w

\* What the switch of each function does with the codes of a process and of a PCB.
LEMMA PorCodigo ==
    ASSUME NEW e
    PROVE  /\ serializarEstructura(e, "PROCESO") = serializarProceso(e)
           /\ tamanioEstructura(e, "PROCESO") = 2 + 3 * Len(e.instrucciones)
           /\ serializarEstructura(e, "PCB_EJECUTADO_IO") = serializarIO(e)
           /\ tamanioEstructura(e, "PCB_EJECUTADO_IO") = 1 + TamanioPCB(e.pcb)
           /\ \A cod \in CodigosPCB : /\ serializarEstructura(e, cod) = serializarPCB(e)
                                      /\ tamanioEstructura(e, cod) = TamanioPCB(e)
<1>1. /\ serializarEstructura(e, "PROCESO") = serializarProceso(e)
      /\ serializarEstructura(e, "PCB_EJECUTADO_IO") = serializarIO(e)
  BY DEF serializarEstructura, CodigosPCB, CodigosUINT32, CodigosConsulta
<1>2. /\ tamanioEstructura(e, "PROCESO") = 2 + 3 * Len(e.instrucciones)
      /\ tamanioEstructura(e, "PCB_EJECUTADO_IO") = 1 + TamanioPCB(e.pcb)
  BY DEF tamanioEstructura, CodigosPCB, CodigosUINT32, CodigosConsulta
<1>3. ASSUME NEW cod \in CodigosPCB
      PROVE  serializarEstructura(e, cod) = serializarPCB(e)
  BY <1>3 DEF serializarEstructura, CodigosPCB, CodigosUINT32, CodigosConsulta
<1>4. ASSUME NEW cod \in CodigosPCB
      PROVE  tamanioEstructura(e, cod) = TamanioPCB(e)
  BY <1>4 DEF tamanioEstructura, CodigosPCB, CodigosUINT32, CodigosConsulta
<1> QED  BY <1>1, <1>2, <1>3, <1>4

\* A process crosses from its console to the Kernel exactly: whatever its length,
\* the buffer is as long as what is written in it, and the same process is read.
THEOREM ProcesoIntacto ==
    ASSUME NEW C, Nat \subseteq C, NEW tam \in C, NEW is \in Instrucciones(C)
    PROVE  LET p == [tamanioProceso |-> tam, instrucciones |-> is]
               paquete == armarPaqueteCon(p, "PROCESO")
           IN  /\ paquete.escrito = paquete.size
               /\ deserializarProceso(paquete.stream) = p
<1> DEFINE p == [tamanioProceso |-> tam, instrucciones |-> is]
<1>1. /\ serializarProceso(p) \in Seq(C)
      /\ Len(serializarProceso(p)) = 2 + 3 * Len(is)
      /\ deserializarProceso(serializarProceso(p)) = p
  BY ProcesoEnCeldas
<1>2. /\ serializarEstructura(p, "PROCESO") = serializarProceso(p)
      /\ tamanioEstructura(p, "PROCESO") = 2 + 3 * Len(is)
  BY PorCodigo
<1> HIDE DEF p
<1> QED  BY <1>1, <1>2, PaqueteExacto DEF p

\* A PCB crosses exactly between the Kernel, the CPU and Memoria, with any of the
\* codes that carry one and with any program.
THEOREM PCBIntacto ==
    ASSUME NEW C, Nat \subseteq C, NEW p \in PCBs(C), NEW cod \in CodigosPCB
    PROVE  LET paquete == armarPaqueteCon(p, cod)
           IN  /\ paquete.escrito = paquete.size
               /\ deserializarPCB(paquete.stream, 0) = p
<1>1. /\ serializarPCB(p) \in Seq(C)
      /\ Len(serializarPCB(p)) = TamanioPCB(p)
      /\ \A previo \in Seq(C) : deserializarPCB(previo \o serializarPCB(p), Len(previo)) = p
  BY PCBEnCeldas
<1>2. deserializarPCB(serializarPCB(p), 0) = p
  <2>1. <<>> \in Seq(C) /\ Len(<<>>) = 0
    OBVIOUS
  <2>2. <<>> \o serializarPCB(p) = serializarPCB(p)
    BY <1>1, ConcatEmptySeq, Zenon
  <2>3. deserializarPCB(<<>> \o serializarPCB(p), Len(<<>>)) = p
    BY <1>1, <2>1, Zenon
  <2> QED  BY <2>1, <2>2, <2>3
<1>3. /\ serializarEstructura(p, cod) = serializarPCB(p)
      /\ tamanioEstructura(p, cod) = TamanioPCB(p)
  BY PorCodigo
<1> QED  BY <1>1, <1>2, <1>3, PaqueteExacto

\* So does the PCB that leaves for an I/O, behind the time of its block.
THEOREM IOIntacta ==
    ASSUME NEW C, Nat \subseteq C, NEW p \in PCBs(C), NEW tiempo \in C
    PROVE  LET io == [tiempoBloqueo |-> tiempo, pcb |-> p]
               paquete == armarPaqueteCon(io, "PCB_EJECUTADO_IO")
           IN  /\ paquete.escrito = paquete.size
               /\ deserializarIO(paquete.stream) = io
<1> DEFINE io == [tiempoBloqueo |-> tiempo, pcb |-> p]
           previo == <<tiempo>>
           v == serializarPCB(p)
           w == previo \o v
<1>1. /\ v \in Seq(C) /\ Len(v) = TamanioPCB(p) /\ TamanioPCB(p) \in Nat
      /\ \A a \in Seq(C) : deserializarPCB(a \o v, Len(a)) = p
  BY PCBEnCeldas
<1>2. previo \in Seq(C) /\ Len(previo) = 1 /\ previo[1] = tiempo
  OBVIOUS
<1>3. serializarEstructura(io, "PCB_EJECUTADO_IO") = w
  <2>1. io.tiempoBloqueo = tiempo /\ io.pcb = p
    OBVIOUS
  <2> HIDE DEF io
  <2> QED  BY <2>1, PorCodigo, Zenon DEF serializarIO
<1>4. tamanioEstructura(io, "PCB_EJECUTADO_IO") = 1 + TamanioPCB(p)
  BY PorCodigo
<1> HIDE DEF previo, v
<1>5. w \in Seq(C) /\ Len(w) = Len(previo) + Len(v)
  BY <1>1, <1>2, ConcatProperties, Zenon
<1>6. Len(w) = 1 + TamanioPCB(p)
  BY <1>1, <1>2, <1>5
<1>7. w[1] = tiempo /\ 1 \in DOMAIN w
  <2>1. \A k \in 1..Len(previo)+Len(v) :
           w[k] = IF k <= Len(previo) THEN previo[k] ELSE v[k - Len(previo)]
    BY <1>1, <1>2, ConcatProperties, Zenon
  <2>2. 1 \in 1..Len(previo)+Len(v)
    BY <1>1, <1>2
  <2>3. DOMAIN w = 1..Len(previo)+Len(v)
    BY <1>5, LenProperties, Zenon
  <2> HIDE DEF w
  <2> QED  BY <1>2, <2>1, <2>2, <2>3
<1>8. deserializarPCB(w, 1) = p
  BY <1>1, <1>2, Zenon
<1> HIDE DEF w
<1>9. deserializarIO(w) = io
  BY <1>7, <1>8 DEF deserializarIO, Celda
<1> HIDE DEF io
<1>10. /\ serializarEstructura(io, "PCB_EJECUTADO_IO") \in Seq(C)
       /\ tamanioEstructura(io, "PCB_EJECUTADO_IO")
             = Len(serializarEstructura(io, "PCB_EJECUTADO_IO"))
  BY <1>3, <1>4, <1>5, <1>6
<1> QED  BY <1>3, <1>9, <1>10, PaqueteExacto DEF io

-----------------------------------------------------------------------------
(* Page tables, of any size *)

\* Quotient and remainder.
LEMMA Division ==
    ASSUME NEW a \in Nat, NEW b \in Nat \ {0}
    PROVE  /\ a \div b \in Nat /\ a % b \in 0..b-1
           /\ a = (a \div b) * b + (a % b)
<1>1. a \div b \in Nat /\ a % b \in 0..b-1
  OBVIOUS
<1>2. a % b = a - b * (a \div b)
  OBVIOUS
<1> DEFINE q == a \div b
           r == a % b
<1>3. q \in Nat /\ r \in Nat /\ r = a - b * q
  BY <1>1, <1>2
<1> HIDE DEF q, r
<1>4. a = q * b + r
  BY <1>3
<1>5. a = (a \div b) * b + (a % b)
  BY <1>4 DEF q, r
<1> QED  BY <1>1, <1>5

\* The walk of the CPU: an address inside the process finds an entry of the tables
\* that Memoria made, the one that was given the number of its page in the swap
\* file, and the physical address stays inside the frame.
THEOREM RecorridoCorrecto ==
    ASSUME NEW tamanio \in Nat, NEW direccion \in Nat, direccion < tamanio,
           NEW marco \in Nat, NEW t,
           t = [tamanio_pagina |-> TAM_PAGINA, paginas_por_tabla |-> ENTRADAS_POR_TABLA]
    PROVE  LET pagina == obtenerNumeroPagina(t, direccion)
               entrada1 == obtenerEntradaTabla1erNivel(t, pagina)
               entrada2 == obtenerEntradaTabla2doNivel(t, pagina)
               desplazamiento == obtenerDesplazamiento(t, direccion, pagina)
               fisica == obtenerDireccionFisica(t, desplazamiento, marco)
               marcos == marcosProceso(tamanio)
           IN  /\ entrada1 + 1 \in 1..Tablas(marcos)
               /\ entrada2 + 1 \in 1..Entradas(marcos, entrada1 + 1)
               /\ ID_EN_SWAP(entrada1 + 1, entrada2 + 1) = pagina
               /\ marco * TAM_PAGINA <= fisica /\ fisica < (marco + 1) * TAM_PAGINA
<1> DEFINE T == TAM_PAGINA
           E == ENTRADAS_POR_TABLA
           pagina == direccion \div T
           e1 == pagina \div E
           e2 == pagina % E
           d == direccion - pagina * T
           marcos == (tamanio + T - 1) \div T
           completas == marcos \div E
           resto == marcos % E
<1>1. T \in Nat \ {0} /\ E \in Nat \ {0}
  BY TablasAssumption
<1> HIDE DEF T, E
<1>2. pagina \in Nat /\ d \in 0..T-1 /\ direccion = pagina * T + d
  <2>1. pagina \in Nat /\ direccion % T \in 0..T-1 /\ direccion = pagina * T + (direccion % T)
    BY <1>1, Division
  <2> DEFINE r == direccion % T
  <2>2. r \in 0..T-1 /\ direccion = pagina * T + r
    BY <2>1
  <2> HIDE DEF r, pagina
  <2> QED  BY <1>1, <2>1, <2>2
<1>3. /\ marcos \in Nat
      /\ \E r \in 0..T-1 : tamanio + T - 1 = marcos * T + r
  BY <1>1, Division
<1>4. e1 \in Nat /\ e2 \in 0..E-1 /\ pagina = e1 * E + e2
  BY <1>1, <1>2, Division
<1>5. completas \in Nat /\ resto \in 0..E-1 /\ marcos = completas * E + resto
  BY <1>1, <1>3, Division
<1> HIDE DEF pagina, e1, e2, d, marcos, completas, resto
<1>6. pagina < marcos
  <2>1. PICK r \in 0..T-1 : tamanio + T - 1 = marcos * T + r
    BY <1>3
  <2>2. pagina * T <= direccion /\ tamanio <= marcos * T
    BY <1>1, <1>2, <1>3, <2>1
  <2>3. pagina * T < marcos * T
    BY <1>1, <1>2, <1>3, <2>2
  <2> QED  BY <1>1, <1>2, <1>3, <2>3
<1>7. e1 < completas \/ (e1 = completas /\ e2 < resto)
  <2>1. e1 <= completas
    <3> SUFFICES ASSUME completas + 1 <= e1 PROVE FALSE
      BY <1>4, <1>5
    <3>1. (completas + 1) * E <= e1 * E
      BY <1>1, <1>4, <1>5
    <3>2. (completas + 1) * E = completas * E + E
      BY <1>1, <1>5
    <3> QED  BY <1>1, <1>4, <1>5, <1>6, <3>1, <3>2
  <2> QED  BY <1>1, <1>4, <1>5, <1>6, <2>1
<1>8. /\ Tablas(marcos) = completas + (IF resto > 0 THEN 1 ELSE 0)
      /\ Entradas(marcos, e1 + 1) = IF e1 + 1 <= completas THEN E ELSE resto
      /\ ID_EN_SWAP(e1 + 1, e2 + 1) = ((e1 + 1) - 1) * E + (e2 + 1) - 1
  <2>1. Tablas(marcos) = completas + (IF resto > 0 THEN 1 ELSE 0)
    BY Zenon DEF Tablas, completas, resto, E
  <2>2. Entradas(marcos, e1 + 1) = IF e1 + 1 <= completas THEN E ELSE resto
    BY Zenon DEF Entradas, completas, resto, E
  <2>3. ID_EN_SWAP(e1 + 1, e2 + 1) = ((e1 + 1) - 1) * E + (e2 + 1) - 1
    <3>1. \A u, j : ID_EN_SWAP(u, j) = (u - 1) * E + j - 1
      BY Zenon DEF ID_EN_SWAP, E
    <3> QED  BY <3>1, Zenon
  <2> QED  BY <2>1, <2>2, <2>3, Zenon
<1>9. e1 + 1 \in 1..Tablas(marcos) /\ e2 + 1 \in 1..Entradas(marcos, e1 + 1)
  BY <1>1, <1>4, <1>5, <1>7, <1>8
<1>10. ID_EN_SWAP(e1 + 1, e2 + 1) = pagina
  <2>1. (e1 + 1) - 1 = e1 /\ e1 * E \in Nat
    BY <1>1, <1>4
  <2> QED  BY <1>4, <1>8, <2>1
<1>11. marco * T <= d + marco * T /\ d + marco * T < (marco + 1) * T
  <2>1. (marco + 1) * T = marco * T + T /\ marco * T \in Nat
    BY <1>1
  <2> QED  BY <1>1, <1>2, <2>1
<1>12. /\ obtenerNumeroPagina(t, direccion) = pagina
       /\ obtenerEntradaTabla1erNivel(t, pagina) = e1
       /\ obtenerEntradaTabla2doNivel(t, pagina) = e2
       /\ obtenerDesplazamiento(t, direccion, pagina) = d
       /\ obtenerDireccionFisica(t, d, marco) = d + marco * T
       /\ marcosProceso(tamanio) = marcos
  BY DEF obtenerNumeroPagina, obtenerEntradaTabla1erNivel, obtenerEntradaTabla2doNivel,
         obtenerDesplazamiento, obtenerDireccionFisica, marcosProceso,
         pagina, e1, e2, d, marcos, T, E
<1> QED  BY <1>9, <1>10, <1>11, <1>12, Zenon DEF T

=============================================================================
