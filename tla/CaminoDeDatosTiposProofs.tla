---------------------- MODULE CaminoDeDatosTiposProofs ----------------------
(***************************************************************************)
(* The first layer of the inductive invariant of CaminoDeDatos, for every  *)
(* script, size of process, of page and of table: what each part holds and *)
(* what each packet carries, whatever a recv cuts.  From it, that no packet is *)
(* longer or shorter than its structure, and the frame that each access uses. *)
(***************************************************************************)
EXTENDS CaminoDeDatosInv, SerializacionProofs, WellFoundedInduction, SequenceTheorems, TLAPS

-----------------------------------------------------------------------------
(* The lines of a script *)

\* A line after its identifier was read: one of the instructions, with its parameters.
Lineas == [identificador : Identificadores, parametro1 : Nat, parametro2 : Nat]

\* A set of naturals that is not empty has a least element: an argument by least
\* counterexample takes the place of an induction below.
LEMMA Minimo ==
    ASSUME NEW T, T \subseteq Nat, T # {}
    PROVE  \E x \in T : \A y \in T : x <= y
<1> DEFINE R == OpToRel(<, Nat)
<1>1. IsWellFoundedOn(R, Nat)
  BY NatLessThanWellFounded
<1>2. \A x, y \in Nat : y < x => <<y, x>> \in R
  BY DEF OpToRel
<1> HIDE DEF R
<1>3. PICK x \in T : \A y \in T : ~(<<y, x>> \in R)
  BY <1>1, WFMin
<1>4. ASSUME NEW y \in T PROVE x <= y
  <2>1. x \in Nat /\ y \in Nat
    OBVIOUS
  <2>2. ~(y < x)
    BY <1>3, <1>2, <2>1, Zenon
  <2> QED BY <2>1, <2>2
<1> QED BY <1>4

\* A line stands for a list of lines: as many NO_OP as it says, or itself.
LEMMA ExpandeTipo ==
    ASSUME NEW l \in Lineas
    PROVE  Expande(l) \in Seq(Lineas)
<1>1. CASE l.identificador = "NO_OP"
  <2> DEFINE n == IF l.parametro1 > 1 THEN l.parametro1 ELSE 1
  <2>1. n \in Nat
    BY DEF Lineas
  <2>2. Expande(l) = [j \in 1..n |-> [l EXCEPT !.parametro2 = j]]
    BY <1>1 DEF Expande
  <2> HIDE DEF n
  <2>3. \A j \in 1..n : [l EXCEPT !.parametro2 = j] \in Lineas
    BY <2>1 DEF Lineas
  <2> QED BY <2>1, <2>2, <2>3
<1>2. CASE l.identificador # "NO_OP"
  BY <1>2 DEF Expande
<1> QED BY <1>1, <1>2

\* The function by which obtenerInstrucciones goes through the lines, as an equation.
PasoDe(lineas, g, n) == IF n = 0 THEN <<>> ELSE g[n-1] \o Expande(lineas[n])
EsRecorrido(lineas, g, m) == g = [n \in 0..m |-> PasoDe(lineas, g, n)]

\* There is such a function: the definition by recursion is well founded.
LEMMA HayRecorrido ==
    ASSUME NEW lineas, NEW l \in Nat
    PROVE  \E g : EsRecorrido(lineas, g, l)
<1> DEFINE T == {m \in Nat : ~ \E g : EsRecorrido(lineas, g, m)}
<1>1. SUFFICES ASSUME T # {} PROVE FALSE
  OBVIOUS
<1>2. PICK m \in T : \A y \in T : m <= y
  <2>1. T \subseteq Nat
    OBVIOUS
  <2> HIDE DEF T
  <2> QED BY <1>1, <2>1, Minimo, Zenon
<1>3. m \in Nat /\ ~ \E g : EsRecorrido(lineas, g, m)
  OBVIOUS
<1>4. CASE m = 0
  <2> DEFINE g == [n \in 0..0 |-> <<>>]
  <2>1. EsRecorrido(lineas, g, 0)
    BY DEF EsRecorrido, PasoDe
  <2> QED BY <1>3, <1>4, <2>1
<1>5. CASE m # 0
  <2>1. m - 1 \in Nat /\ ~(m <= m - 1)
    BY <1>3, <1>5
  <2>2. PICK g : EsRecorrido(lineas, g, m - 1)
    BY <1>2, <2>1
  <2> DEFINE h == [n \in 0..m |-> IF n = m THEN g[m-1] \o Expande(lineas[m]) ELSE g[n]]
  <2>3. ASSUME NEW n \in 0..m PROVE h[n] = PasoDe(lineas, h, n)
    <3>1. CASE n = m
      <4>1. h[m - 1] = g[m - 1] /\ h[m] = g[m-1] \o Expande(lineas[m])
        BY <1>3, <2>1
      <4> QED BY <1>5, <3>1, <4>1 DEF PasoDe
    <3>2. CASE n # m
      <4>1. n \in 0..m-1 /\ h[n] = g[n]
        BY <1>3, <3>2
      <4>2. g[n] = PasoDe(lineas, g, n)
        BY <2>2, <4>1 DEF EsRecorrido
      <4>3. n # 0 => h[n - 1] = g[n - 1]
        BY <1>3, <4>1
      <4> QED BY <4>1, <4>2, <4>3 DEF PasoDe
    <3> QED BY <3>1, <3>2
  <2>4. EsRecorrido(lineas, h, m)
    <3>1. h = [n \in 0..m |-> h[n]]
      OBVIOUS
    <3> HIDE DEF h
    <3> QED BY <2>3, <3>1 DEF EsRecorrido
  <2> QED BY <1>3, <2>4
<1> QED BY <1>4, <1>5

\* What the lines of a script expand to is a list of lines
\* (inicializacion.c:9-57): no line of it can be the first that is not.
LEMMA InstruccionesTipo ==
    ASSUME NEW lineas \in Seq(Lineas)
    PROVE  obtenerInstrucciones(lineas) \in Seq(Lineas)
<1> DEFINE l == Len(lineas)
           g == CHOOSE g : EsRecorrido(lineas, g, l)
<1>1. l \in Nat /\ \A n \in 1..l : lineas[n] \in Lineas
  OBVIOUS
<1>2. EsRecorrido(lineas, g, l)
  BY <1>1, HayRecorrido
<1>3. obtenerInstrucciones(lineas) = g[l]
  BY DEF obtenerInstrucciones, EsRecorrido, PasoDe
<1> HIDE DEF g, l
<1> DEFINE T == {m \in 0..l : g[m] \notin Seq(Lineas)}
<1>4. T = {}
  <2> SUFFICES ASSUME T # {} PROVE FALSE
    OBVIOUS
  <2>1. T \subseteq Nat
    BY <1>1
  <2>2. PICK m \in T : \A y \in T : m <= y
    <3> HIDE DEF T
    <3> QED BY <2>1, Minimo, Zenon
  <2>3. g[m] = PasoDe(lineas, g, m)
    BY <1>2 DEF EsRecorrido
  <2>4. CASE m = 0
    <3>1. g[m] = <<>>
      BY <2>3, <2>4 DEF PasoDe
    <3>2. <<>> \in Seq(Lineas)
      BY EmptySeq, Zenon
    <3> QED  BY <3>1, <3>2
  <2>5. CASE m # 0
    <3>1. m - 1 \in 0..l /\ ~(m <= m - 1) /\ m \in 1..l
      BY <1>1, <2>5
    <3>2. g[m - 1] \in Seq(Lineas)
      BY <2>2, <3>1
    <3>3. Expande(lineas[m]) \in Seq(Lineas)
      BY <1>1, <3>1, ExpandeTipo
    <3>4. g[m] \in Seq(Lineas)
      BY <2>3, <2>5, <3>2, <3>3, ConcatProperties DEF PasoDe
    <3> QED BY <3>4
  <2> QED BY <2>4, <2>5
<1> QED BY <1>1, <1>3, <1>4

\* A script that the console can read gives a list of instructions.
LEMMA GuionTipo ==
    ASSUME NEW g, g.lineas \in Seq(LINEA),
           ~ConsolaCae(g)
    PROVE  /\ leerInstrucciones(g) \in Seq(Lineas)
           /\ obtenerInstrucciones(leerInstrucciones(g)) \in Seq(Lineas)
<1> DEFINE ls == g.lineas
           es == leerInstrucciones(g)
<1>1. ls \in Seq(LINEA) /\ Len(ls) \in Nat /\ \A k \in 1..Len(ls) : ls[k] \in LINEA
  <2> QED  BY LenProperties, ElementOfSeq
<1>2. es \in Seq(LINEA)
  <2>1. CASE Ultima(g).identificador = "EXIT"
    <3> QED  BY <1>1, <2>1 DEF leerInstrucciones
  <2>2. CASE Ultima(g).identificador # "EXIT"
    <3>1. es = SubSeq(ls, 1, Len(ls) - 1)
      BY <2>2 DEF leerInstrucciones
    <3>2. Len(ls) - 1 \in Int /\ \A k \in 1..Len(ls)-1 : ls[k] \in LINEA
      BY <1>1
    <3> HIDE DEF ls
    <3>3. SubSeq(ls, 1, Len(ls) - 1) \in Seq(LINEA)
      BY <3>2, SubSeqProperties
    <3> QED  BY <3>1, <3>3
  <2> QED  BY <2>1, <2>2
<1>3. \A k \in DOMAIN es : Conocida(es[k])
  BY DEF ConsolaCae
<1> HIDE DEF es
<1>4. Len(es) \in Nat /\ DOMAIN es = 1..Len(es) /\ \A k \in 1..Len(es) : es[k] \in Lineas
  <2>1. Len(es) \in Nat /\ DOMAIN es = 1..Len(es) /\ \A k \in 1..Len(es) : es[k] \in LINEA
    <3> QED  BY <1>2, LenProperties, ElementOfSeq
  <2> QED  BY <1>3, <2>1 DEF Conocida, Lineas, LINEA
<1>5. es \in Seq(Lineas)
  <2>1. es = [k \in 1..Len(es) |-> es[k]]
    <3> QED  BY <1>2
  <2> DEFINE n == Len(es)
  <2>2. n \in Nat /\ \A k \in 1..n : es[k] \in Lineas
    BY <1>4
  <2>3. es = [k \in 1..n |-> es[k]]
    BY <2>1
  <2> HIDE DEF n
  <2> QED  BY <2>2, <2>3
<1> QED  BY <1>5, InstruccionesTipo DEF es

-----------------------------------------------------------------------------
(* Packets *)

\* What a cell of a stream may hold: the abstract T of SerializacionProofs.
Celdas == Int \union Identificadores \union {BASURA}

\* A list of elements of a set is one of a larger set.
LEMMA SeqMonotona ==
    ASSUME NEW S, NEW T, S \subseteq T
    PROVE  Seq(S) \subseteq Seq(T)
<1>1. SUFFICES ASSUME NEW s \in Seq(S) PROVE s \in Seq(T)
  OBVIOUS
<1>2. Len(s) \in Nat /\ s \in [1..Len(s) -> S]
  BY LenProperties, Zenon
<1> DEFINE n == Len(s)
<1>3. n \in Nat /\ s \in [1..n -> T]
  BY <1>2
<1> HIDE DEF n
<1> QED  BY <1>3

\* Two sequences one after the other, cell by cell.
LEMMA Concatena ==
    ASSUME NEW C, NEW a \in Seq(C), NEW b \in Seq(C)
    PROVE  /\ a \o b \in Seq(C) /\ Len(a) \in Nat /\ Len(b) \in Nat
           /\ Len(a \o b) = Len(a) + Len(b)
           /\ DOMAIN (a \o b) = 1..Len(a)+Len(b)
           /\ \A k \in 1..Len(a) : (a \o b)[k] = a[k]
           /\ \A k \in 1..Len(b) : (a \o b)[Len(a) + k] = b[k]
<1> DEFINE w == a \o b
           n == Len(a)
           m == Len(b)
<1>1. /\ w \in Seq(C) /\ n \in Nat /\ m \in Nat /\ Len(w) = n + m
      /\ \A k \in 1..n+m : w[k] = IF k <= n THEN a[k] ELSE b[k - n]
  BY ConcatProperties, LenProperties, Zenon
<1>2. DOMAIN w = 1..n+m
  BY <1>1, LenProperties, Zenon
<1> HIDE DEF w, n, m
<1>3. \A k \in 1..n : w[k] = a[k]
  BY <1>1
<1>4. ASSUME NEW k \in 1..m PROVE w[n + k] = b[k]
  <2>1. n + k \in 1..n+m /\ ~(n + k <= n) /\ n + k - n = k
    BY <1>1
  <2>2. w[n + k] = b[n + k - n]
    BY <1>1, <2>1
  <2> QED  BY <2>1, <2>2
<1> QED  BY <1>1, <1>2, <1>3, <1>4, Zenon DEF w, n, m

\* What is sent fits in cells, so the lemmas of SerializacionProofs speak of it.
LEMMA EnCeldas ==
    /\ Nat \subseteq Celdas /\ Int \subseteq Celdas /\ BASURA \in Celdas
    /\ INSTR \subseteq [identificador : Celdas, parametro1 : Celdas, parametro2 : Celdas]
    /\ Seq(INSTR) \subseteq Instrucciones(Celdas)
    /\ PCB \subseteq PCBs(Celdas)
<1>1. /\ Nat \subseteq Celdas /\ Int \subseteq Celdas /\ BASURA \in Celdas
      /\ INSTR \subseteq [identificador : Celdas, parametro1 : Celdas, parametro2 : Celdas]
  BY DEF Celdas, INSTR
<1> HIDE DEF Celdas, INSTR
<1>2. Seq(INSTR) \subseteq Instrucciones(Celdas)
  BY <1>1, SeqMonotona, Zenon DEF Instrucciones
<1> HIDE DEF Instrucciones
<1>3. PCB \subseteq PCBs(Celdas)
  BY <1>1, <1>2 DEF PCB, PCBs
<1> QED  BY <1>1, <1>2, <1>3

\* The seventh cell of a PCB counts its instructions.
LEMMA SetimaCelda ==
    ASSUME NEW p \in PCB
    PROVE  /\ Len(p.instrucciones) \in Nat /\ TamanioPCB(p) = 7 + 3 * Len(p.instrucciones)
           /\ serializarPCB(p)[7] = Len(p.instrucciones)
<1> DEFINE n == Len(p.instrucciones)
           cabecera == <<p.id, p.tamanioProceso, p.PC, p.tablaDePaginas, p.estimacionRafaga,
                         p.lengthUltimaRafaga, n>>
           s == serializarInstrucciones(p.instrucciones)
<1>1. p \in PCBs(Celdas) /\ Nat \subseteq Celdas /\ p.instrucciones \in Instrucciones(Celdas)
  BY EnCeldas DEF PCBs
<1>2. s \in Seq(Celdas) /\ n \in Nat
  BY <1>1, InstruccionesEnCeldas
<1>3. cabecera \in Seq(Celdas) /\ Len(cabecera) = 7 /\ cabecera[7] = n
  BY <1>1, <1>2 DEF PCBs
<1> HIDE DEF cabecera, s
<1>4. (cabecera \o s)[7] = cabecera[7]
  <2>1. \A k \in 1..Len(cabecera) : (cabecera \o s)[k] = cabecera[k]
    BY <1>2, <1>3, Concatena
  <2>2. 7 \in 1..Len(cabecera)
    BY <1>3
  <2> QED  BY <2>1, <2>2, Zenon
<1>5. serializarPCB(p) = cabecera \o s
  BY DEF serializarPCB, cabecera, s
<1> QED  BY <1>2, <1>3, <1>4, <1>5 DEF TamanioPCB

\* The fields of a packet.
LEMMA Armado ==
    ASSUME NEW e, NEW cod
    PROVE  LET p == armarPaqueteCon(e, cod) IN
           /\ p.codigo = cod /\ p.size = tamanioEstructura(e, cod)
           /\ p.escrito = Len(serializarEstructura(e, cod))
           /\ p.stream = [k \in 1..p.size |-> IF k <= p.escrito THEN serializarEstructura(e, cod)[k]
                                                ELSE BASURA]
  BY DEF armarPaqueteCon

\* A packet has the code it is built with.
LEMMA Codigo == \A e, cod : armarPaqueteCon(e, cod).codigo = cod
  BY DEF armarPaqueteCon

\* A PCB comes out of the packet that is built from it, whose packet was written
\* exactly as long as it was allocated (estructuras.c:103-160, 319-488).
LEMMA ArmaPCB ==
    ASSUME NEW p \in PCB, NEW cod \in CodigosPCB
    PROVE  LET paquete == armarPaqueteCon(p, cod) IN
           /\ paquete.codigo = cod /\ PcbDe(paquete) = p
           /\ paquete.escrito = paquete.size
           /\ paquete.size = 7 + 3 * Len(p.instrucciones)
           /\ paquete.stream \in Seq(Celdas) /\ Len(paquete.stream) = paquete.size
           /\ Celda(paquete.stream, 7) = Len(p.instrucciones)
<1> DEFINE w == serializarPCB(p)
           paquete == armarPaqueteCon(p, cod)
<1>1. p \in PCBs(Celdas) /\ Nat \subseteq Celdas /\ p.instrucciones \in Instrucciones(Celdas)
      /\ p = [id |-> p.id, tamanioProceso |-> p.tamanioProceso, PC |-> p.PC,
            tablaDePaginas |-> p.tablaDePaginas, estimacionRafaga |-> p.estimacionRafaga,
            lengthUltimaRafaga |-> p.lengthUltimaRafaga, instrucciones |-> p.instrucciones]
  BY EnCeldas DEF PCBs
<1>2. w \in Seq(Celdas) /\ Len(w) = TamanioPCB(p)
  BY <1>1, PCBEnCeldas
<1>3. serializarEstructura(p, cod) = w /\ tamanioEstructura(p, cod) = TamanioPCB(p)
  BY PorCodigo
<1>4. paquete.stream = w /\ paquete.escrito = paquete.size
  BY <1>2, <1>3, PaqueteExacto
<1>5. paquete.codigo = cod /\ paquete.size = TamanioPCB(p)
  BY <1>3, Armado, Zenon
<1>6. deserializarPCB(paquete.stream, 0) = p
  BY <1>1, PCBIntacto, Zenon
<1>7. Celda(paquete.stream, 7) = Len(p.instrucciones)
      /\ TamanioPCB(p) = 7 + 3 * Len(p.instrucciones)
  <2>1. /\ Len(p.instrucciones) \in Nat /\ TamanioPCB(p) = 7 + 3 * Len(p.instrucciones)
        /\ w[7] = Len(p.instrucciones)
    BY SetimaCelda
  <2>2. DOMAIN w = 1..Len(w)
    BY <1>2, LenProperties, Zenon
  <2>3. 7 \in DOMAIN w
    <3> HIDE DEF w
    <3> QED  BY <1>2, <2>1, <2>2
  <2> QED BY <1>4, <2>1, <2>3 DEF Celda
<1> HIDE DEF w, paquete
<1>8. paquete.size = 7 + 3 * Len(p.instrucciones)
  BY <1>5, <1>7
<1> QED  BY <1>2, <1>4, <1>5, <1>6, <1>7, <1>8 DEF PcbDe, paquete

\* The same for an IO, its time and its PCB in one packet (estructuras.c:228-244).
LEMMA ArmaIO ==
    ASSUME NEW io \in TIO
    PROVE  LET paquete == armarPaqueteCon(io, "PCB_EJECUTADO_IO") IN
           /\ paquete.codigo = "PCB_EJECUTADO_IO" /\ IoDe(paquete) = io
           /\ paquete.escrito = paquete.size
           /\ paquete.size = 8 + 3 * Len(io.pcb.instrucciones)
           /\ paquete.stream \in Seq(Celdas) /\ Len(paquete.stream) = paquete.size
           /\ Celda(paquete.stream, 8) = Len(io.pcb.instrucciones)
<1> DEFINE p == io.pcb
           w == serializarPCB(p)
           paquete == armarPaqueteCon(io, "PCB_EJECUTADO_IO")
           previo == <<io.tiempoBloqueo>>
           st == previo \o w
<1>0. io = [tiempoBloqueo |-> io.tiempoBloqueo, pcb |-> io.pcb] /\ io.tiempoBloqueo \in Nat
      /\ p \in PCB
  BY DEF TIO
<1>1. p \in PCBs(Celdas) /\ Nat \subseteq Celdas /\ io.tiempoBloqueo \in Celdas
  BY <1>0, EnCeldas
<1>2. w \in Seq(Celdas) /\ Len(w) = TamanioPCB(p) /\ TamanioPCB(p) \in Nat
  BY <1>1, PCBEnCeldas
<1>3. serializarEstructura(io, "PCB_EJECUTADO_IO") = st
      /\ tamanioEstructura(io, "PCB_EJECUTADO_IO") = 1 + TamanioPCB(p)
  BY PorCodigo DEF serializarIO
<1>4. previo \in Seq(Celdas) /\ Len(previo) = 1
  BY <1>1
<1> HIDE DEF w, previo
<1>5. st \in Seq(Celdas) /\ Len(st) = 1 + TamanioPCB(p) /\ DOMAIN st = 1..1+TamanioPCB(p)
      /\ \A k \in 1..TamanioPCB(p) : st[1 + k] = w[k]
  <2>1. st \in Seq(Celdas) /\ Len(st) = Len(previo) + Len(w) /\ DOMAIN st = 1..Len(previo)+Len(w)
    BY <1>2, <1>4, Concatena
  <2>2. \A k \in 1..Len(w) : st[Len(previo) + k] = w[k]
    BY <1>2, <1>4, TrasElPrefijo, Zenon
  <2> HIDE DEF st
  <2>3. \A k \in 1..TamanioPCB(p) : st[1 + k] = w[k]
    BY <1>2, <1>4, <2>2, Zenon
  <2> QED  BY <1>2, <1>4, <2>1, <2>3
<1> HIDE DEF st
<1>6. paquete.stream = st /\ paquete.escrito = paquete.size
  BY <1>3, <1>5, PaqueteExacto
<1>7. paquete.codigo = "PCB_EJECUTADO_IO" /\ paquete.size = 1 + TamanioPCB(p)
  BY <1>3, Armado, Zenon
<1>8. deserializarIO(paquete.stream) = io
  BY <1>0, <1>1, IOIntacta, Zenon
<1>9. TamanioPCB(p) = 7 + 3 * Len(p.instrucciones) /\ Len(p.instrucciones) \in Nat
        /\ w[7] = Len(p.instrucciones)
  BY <1>0, SetimaCelda DEF w
<1>10. Celda(paquete.stream, 8) = Len(p.instrucciones)
  <2>1. 7 \in 1..TamanioPCB(p) /\ 8 \in 1..1+TamanioPCB(p)
    BY <1>9
  <2>2. st[8] = w[7]
    BY <1>5, <2>1
  <2> QED  BY <1>5, <1>6, <1>9, <2>1, <2>2 DEF Celda
<1>11. paquete.size = 8 + 3 * Len(p.instrucciones)
  <2> HIDE DEF paquete
  <2> QED  BY <1>7, <1>9
<1> QED  BY <1>5, <1>6, <1>7, <1>8, <1>10, <1>11, Zenon DEF IoDe
\* The same for the process that a console sends (estructuras.c:162-226).
LEMMA ArmaProceso ==
    ASSUME NEW p \in PROC
    PROVE  LET paquete == armarPaqueteCon(p, "PROCESO") IN
           /\ paquete.codigo = "PROCESO" /\ ProcesoDe(paquete) = p
           /\ paquete.escrito = paquete.size
           /\ paquete.size = 2 + 3 * Len(p.instrucciones)
           /\ paquete.stream \in Seq(Celdas) /\ Len(paquete.stream) = paquete.size
           /\ Celda(paquete.stream, 2) = Len(p.instrucciones) /\ Len(p.instrucciones) \in Nat
<1> DEFINE is == p.instrucciones
           n == Len(is)
           w == serializarProceso(p)
           paquete == armarPaqueteCon(p, "PROCESO")
           cabecera == <<p.tamanioProceso, n>>
           s == serializarInstrucciones(is)
<1>1. /\ p = [tamanioProceso |-> p.tamanioProceso, instrucciones |-> is]
      /\ p.tamanioProceso \in Nat /\ is \in Seq(INSTR)
  BY DEF PROC
<1>2. Nat \subseteq Celdas /\ p.tamanioProceso \in Celdas /\ is \in Instrucciones(Celdas)
  BY <1>1, EnCeldas
<1>3. w \in Seq(Celdas) /\ Len(w) = 2 + 3 * n
  <2>1. PICK tam \in Celdas, js \in Instrucciones(Celdas) : tam = p.tamanioProceso /\ js = is
    BY <1>2
  <2>2. p = [tamanioProceso |-> tam, instrucciones |-> js]
    BY <1>1, <2>1
  <2>3. serializarProceso(p) \in Seq(Celdas) /\ Len(serializarProceso(p)) = 2 + 3 * Len(js)
    BY <1>2, <2>2, ProcesoEnCeldas
  <2> QED  BY <2>1, <2>3
<1>4. serializarEstructura(p, "PROCESO") = w /\ tamanioEstructura(p, "PROCESO") = 2 + 3 * n
  BY PorCodigo
<1>5. paquete.stream = w /\ paquete.escrito = paquete.size
  BY <1>3, <1>4, PaqueteExacto
<1>6. paquete.codigo = "PROCESO" /\ paquete.size = 2 + 3 * n
  BY <1>4, Armado, Zenon
<1>7. deserializarProceso(paquete.stream) = p
  BY <1>1, <1>2, ProcesoIntacto, Zenon
<1>8. s \in Seq(Celdas) /\ n \in Nat
  BY <1>2, InstruccionesEnCeldas
<1>9. cabecera \in Seq(Celdas) /\ Len(cabecera) = 2 /\ cabecera[2] = n
  BY <1>2, <1>8
<1> HIDE DEF cabecera, s
<1>10. (cabecera \o s)[2] = cabecera[2]
  <2>0. cabecera \in Seq(Celdas) /\ s \in Seq(Celdas)
    BY <1>8, <1>9
  <2>1. \A k \in 1..Len(cabecera) : (cabecera \o s)[k] = cabecera[k]
    BY <2>0, Concatena, Zenon
  <2>2. 2 \in 1..Len(cabecera)
    BY <1>9
  <2> QED  BY <2>1, <2>2, Zenon
<1>11. w = cabecera \o s
  BY DEF serializarProceso, cabecera, s
<1>12. 2 \in DOMAIN w
  <2>1. DOMAIN w = 1..2 + 3 * n
    BY <1>3, LenProperties, Zenon
  <2> HIDE DEF w, n
  <2> QED  BY <1>8, <2>1
<1>13. Celda(paquete.stream, 2) = n
  <2> HIDE DEF n, w, paquete
  <2> QED  BY <1>5, <1>9, <1>10, <1>11, <1>12 DEF Celda
<1> QED  BY <1>3, <1>5, <1>6, <1>7, <1>8, <1>13, Zenon DEF ProcesoDe

\* Packets of a fixed number of cells.
LEMMA ArmaFijo ==
    ASSUME NEW e
    PROVE  /\ \A cod \in CodigosUINT32 :
                 LET paquete == armarPaqueteCon(e, cod) IN
                 /\ paquete.codigo = cod /\ NumeroDe(paquete) = e /\ paquete.stream[1] = e
                 /\ paquete.escrito = paquete.size
           /\ \A cod \in CodigosConsulta :
                 LET paquete == armarPaqueteCon(e, cod) IN
                 /\ paquete.codigo = cod
                 /\ deserializarConsulta(paquete.stream) =
                       [entradaPagina |-> e.entradaPagina, tablaDePaginas |-> e.tablaDePaginas,
                           id |-> e.id]
                 /\ paquete.escrito = paquete.size
           /\ LET paquete == armarPaqueteCon(e, "REQ_WRITE") IN
              /\ paquete.codigo = "REQ_WRITE" /\ paquete.stream[1] = e.direccionFisica
              /\ deserializarPeticion(paquete.stream) =
                    [direccionFisica |-> e.direccionFisica, dato |-> e.dato, id |-> e.id]
              /\ paquete.escrito = paquete.size
           /\ LET paquete == armarPaqueteCon(e, "RES_TRADUCCION_DIRECCIONES") IN
              /\ paquete.codigo = "RES_TRADUCCION_DIRECCIONES"
              /\ deserializarTraduccion(paquete.stream) =
                    [tamanio_pagina |-> e.tamanio_pagina, paginas_por_tabla |-> e.paginas_por_tabla]
              /\ paquete.escrito = paquete.size
<1> USE DEF Celda
<1>1. ASSUME NEW cod \in CodigosUINT32
      PROVE  LET paquete == armarPaqueteCon(e, cod) IN
             /\ paquete.codigo = cod /\ NumeroDe(paquete) = e /\ paquete.stream[1] = e
             /\ paquete.escrito = paquete.size
  <2>1. serializarEstructura(e, cod) = <<e>> /\ tamanioEstructura(e, cod) = 1
    BY <1>1 DEF serializarEstructura, tamanioEstructura, serializarUINT32, CodigosUINT32,
       CodigosPCB, CodigosConsulta
  <2> DEFINE p == armarPaqueteCon(e, cod)
  <2>2. p.codigo = cod /\ p.size = 1 /\ p.escrito = 1 /\ p.stream = [k \in 1..1 |-> e]
    BY <2>1 DEF armarPaqueteCon
  <2> HIDE DEF p
  <2> QED  BY <2>2 DEF p, NumeroDe, deserializarUINT32
<1>2. ASSUME NEW cod \in CodigosConsulta
      PROVE  LET paquete == armarPaqueteCon(e, cod) IN
             /\ paquete.codigo = cod
             /\ deserializarConsulta(paquete.stream) =
                   [entradaPagina |-> e.entradaPagina, tablaDePaginas |-> e.tablaDePaginas,
                       id |-> e.id]
             /\ paquete.escrito = paquete.size
  <2> DEFINE s == <<e.entradaPagina, e.tablaDePaginas, e.id>>
  <2>1. serializarEstructura(e, cod) = s /\ tamanioEstructura(e, cod) = 3
    BY <1>2 DEF serializarEstructura, tamanioEstructura, serializarConsulta, CodigosUINT32,
       CodigosPCB, CodigosConsulta
  <2> DEFINE p == armarPaqueteCon(e, cod)
  <2>2. p.codigo = cod /\ p.size = 3 /\ p.escrito = 3 /\ p.stream = [k \in 1..3 |-> s[k]]
    BY <2>1 DEF armarPaqueteCon
  <2> HIDE DEF p
  <2> QED  BY <2>2 DEF p, deserializarConsulta
<1>3. LET paquete == armarPaqueteCon(e, "REQ_WRITE") IN
      /\ paquete.codigo = "REQ_WRITE" /\ paquete.stream[1] = e.direccionFisica
      /\ deserializarPeticion(paquete.stream) =
            [direccionFisica |-> e.direccionFisica, dato |-> e.dato, id |-> e.id]
      /\ paquete.escrito = paquete.size
  <2> DEFINE s == <<e.direccionFisica, e.dato, e.id>>
             p == armarPaqueteCon(e, "REQ_WRITE")
  <2>1. serializarEstructura(e, "REQ_WRITE") = s /\ tamanioEstructura(e, "REQ_WRITE") = 3
    BY DEF serializarEstructura, tamanioEstructura, serializarPeticion, CodigosUINT32, CodigosPCB,
       CodigosConsulta
  <2>2. p.codigo = "REQ_WRITE" /\ p.size = 3 /\ p.escrito = 3 /\ p.stream = [k \in 1..3 |-> s[k]]
    BY <2>1 DEF armarPaqueteCon
  <2> HIDE DEF p
  <2> QED  BY <2>2 DEF p, deserializarPeticion
<1>4. LET paquete == armarPaqueteCon(e, "RES_TRADUCCION_DIRECCIONES") IN
      /\ paquete.codigo = "RES_TRADUCCION_DIRECCIONES"
      /\ deserializarTraduccion(paquete.stream) =
            [tamanio_pagina |-> e.tamanio_pagina, paginas_por_tabla |-> e.paginas_por_tabla]
      /\ paquete.escrito = paquete.size
  <2> DEFINE s == <<e.tamanio_pagina, e.paginas_por_tabla>>
             p == armarPaqueteCon(e, "RES_TRADUCCION_DIRECCIONES")
  <2>1. serializarEstructura(e, "RES_TRADUCCION_DIRECCIONES") = s
        /\ tamanioEstructura(e, "RES_TRADUCCION_DIRECCIONES") = 2
    BY DEF serializarEstructura, tamanioEstructura, serializarTraduccion, CodigosUINT32, CodigosPCB,
       CodigosConsulta
  <2>2. Len(s) = 2
    OBVIOUS
  <2> HIDE DEF s
  <2>3. p.codigo = "RES_TRADUCCION_DIRECCIONES" /\ p.size = 2 /\ p.escrito = 2
        /\ p.stream = [k \in 1..2 |-> s[k]]
    BY <2>1, <2>2 DEF armarPaqueteCon
  <2> HIDE DEF p
  <2> QED  BY <2>3 DEF p, s, deserializarTraduccion
<1> QED  BY <1>1, <1>2, <1>3, <1>4

\* The message of five characters that asks for the sizes.
LEMMA ArmaSaludo ==
    LET paquete == armarPaqueteCon(<<"h", "o", "l", "a", "0">>, "REQ_TRADUCCION_DIRECCIONES") IN
    paquete.codigo = "REQ_TRADUCCION_DIRECCIONES" /\ paquete.escrito = paquete.size
<1> DEFINE m == <<"h", "o", "l", "a", "0">>
           p == armarPaqueteCon(m, "REQ_TRADUCCION_DIRECCIONES")
<1>1. /\ serializarEstructura(m, "REQ_TRADUCCION_DIRECCIONES") = <<Len(m)>> \o m
      /\ tamanioEstructura(m, "REQ_TRADUCCION_DIRECCIONES") = Len(m) + 1
  BY DEF serializarEstructura, tamanioEstructura, serializarMensaje, CodigosUINT32, CodigosPCB,
     CodigosConsulta
<1> DEFINE D == {"h", "o", "l", "a", "0", 5}
<1>2. Len(m) = 5 /\ m \in Seq(D) /\ <<Len(m)>> \in Seq(D) /\ Len(<<Len(m)>>) = 1
  <2>1. Len(m) = 5
    OBVIOUS
  <2>2. "h" \in D /\ "o" \in D /\ "l" \in D /\ "a" \in D /\ "0" \in D /\ 5 \in D
    OBVIOUS
  <2> HIDE DEF D
  <2>3. m \in Seq(D) /\ <<5>> \in Seq(D) /\ Len(<<5>>) = 1
    BY <2>2
  <2> QED  BY <2>1, <2>3
<1>3. Len(<<Len(m)>> \o m) = Len(<<Len(m)>>) + Len(m)
  BY <1>2, ConcatProperties, Zenon
<1>4. p.codigo = "REQ_TRADUCCION_DIRECCIONES" /\ p.size = 6 /\ p.escrito = 6
  BY <1>1, <1>2, <1>3 DEF armarPaqueteCon
<1> QED  BY <1>4

\* The first eight cells arrive, and all of a packet that fits in a segment.
LEMMA Corte ==
    ASSUME NEW p, p.size \in Nat, NEW s \in Seq(Celdas), p.stream = s, Len(s) = p.size,
           NEW d, p = [codigo |-> p.codigo, size |-> p.size, escrito |-> d, stream |-> s],
           NEW r \in recibirPaquete(p)
    PROVE  /\ \A k \in Nat : Celda(r.stream, k) \in {Celda(s, k), BASURA}
           /\ \A k \in 1..8 : Celda(r.stream, k) = Celda(s, k)
           /\ p.size <= SEGMENTO => r.stream = s
<1> DEFINE size == p.size
<1>1. PICK n \in (IF size < SEGMENTO THEN size ELSE SEGMENTO)..size :
         r = [p EXCEPT !.stream = [k \in 1..size |-> IF k <= n THEN @[k] ELSE BASURA]]
  BY DEF recibirPaquete
<1>2. r.stream = [k \in 1..size |-> IF k <= n THEN s[k] ELSE BASURA]
  BY <1>1
<1>3. DOMAIN s = 1..size /\ s = [k \in 1..size |-> s[k]] /\ size \in Nat
  BY LenProperties
<1>4. n \in Int /\ n <= size /\ (size <= SEGMENTO => n = size) /\ (n >= 8 \/ n = size)
  BY <1>3, CaminoAssumption
<1> HIDE DEF size
<1>5. \A k \in Nat : Celda(r.stream, k) \in {Celda(s, k), BASURA}
  BY <1>2, <1>3 DEF Celda
<1>6. \A k \in 1..8 : Celda(r.stream, k) = Celda(s, k)
  BY <1>2, <1>3, <1>4 DEF Celda
<1>7. size <= SEGMENTO => r.stream = s
  <2> HAVE size <= SEGMENTO
  <2>1. \A k \in 1..size : k <= n
    BY <1>3, <1>4
  <2> QED  BY <1>2, <1>3, <2>1
<1> QED  BY <1>5, <1>6, <1>7 DEF size

\* The instructions that are read from a stream that was cut.
LEMMA InstruccionesCortadas ==
    ASSUME NEW is \in Seq(INSTR), NEW s, NEW r, NEW o \in Nat,
           deserializarInstrucciones(s, o) = is, Celda(s, o) = Len(is), Celda(r, o) = Celda(s, o),
           \A k \in Nat : Celda(r, k) \in {Celda(s, k), BASURA}
    PROVE  /\ deserializarInstrucciones(r, o) \in Seq(INSTR)
           /\ Len(deserializarInstrucciones(r, o)) = Len(is)
<1> DEFINE n == Len(is)
           E(st, i) == [identificador |-> Celda(st, o + 3 * i - 2), parametro1 |-> Celda(st,
               o + 3 * i - 1),
                        parametro2 |-> Celda(st, o + 3 * i)]
           d == deserializarInstrucciones(r, o)
<1>1. n \in Nat /\ \A i \in 1..n : is[i] \in INSTR
  OBVIOUS
<1>2. Celda(s, o) = n /\ Celda(r, o) = n
  OBVIOUS
<1>3. is = [i \in 1..n |-> E(s, i)] /\ d = [i \in 1..n |-> E(r, i)]
  BY <1>2 DEF deserializarInstrucciones
<1> HIDE DEF n, d
<1>4. ASSUME NEW i \in 1..n PROVE E(r, i) \in INSTR
  <2>1. o + 3 * i - 2 \in Nat /\ o + 3 * i - 1 \in Nat /\ o + 3 * i \in Nat
    BY <1>1
  <2>2. E(s, i) \in INSTR
    BY <1>1, <1>3
  <2> QED  BY <2>1, <2>2 DEF INSTR
<1> QED  BY <1>1, <1>3, <1>4 DEF n, d
\* A PCB that is received is the one that was sent, with as many instructions; the
\* fields of those that a segment does not hold may be missing.
LEMMA RecibePCB ==
    ASSUME NEW paquete, NEW codigos \in SUBSET CodigosPCB, LlevaPCB(paquete, codigos),
           NEW r \in recibirPaquete(paquete)
    PROVE  LET p == PcbDe(paquete)
               q == deserializarPCB(r.stream, 0) IN
           /\ q \in PCB
           /\ q = [p EXCEPT !.instrucciones = q.instrucciones]
           /\ q.id = p.id /\ q.tamanioProceso = p.tamanioProceso /\ q.PC = p.PC
           /\ q.tablaDePaginas = p.tablaDePaginas
           /\ Recorte(p.instrucciones, q.instrucciones)
<1> DEFINE p == PcbDe(paquete)
           q == deserializarPCB(r.stream, 0)
           s == paquete.stream
           n == Len(p.instrucciones)
           is == p.instrucciones
           d == deserializarInstrucciones(r.stream, 7)
<1>0. p \in PCB /\ paquete = armarPaqueteCon(p, paquete.codigo) /\ paquete.codigo \in CodigosPCB
  BY DEF LlevaPCB
<1>1. /\ p = deserializarPCB(s, 0) /\ s \in Seq(Celdas) /\ Len(s) = paquete.size
      /\ paquete.size = 7 + 3 * n /\ Celda(s, 7) = n
  BY <1>0, ArmaPCB DEF PcbDe
<1>2. is \in Seq(INSTR) /\ n \in Nat /\ 7 + 3 * n \in Nat
  BY <1>0 DEF PCB
<1>3. paquete = [codigo |-> paquete.codigo, size |-> paquete.size, escrito |-> paquete.escrito,
                 stream |-> s]
  BY <1>0, Zenon DEF armarPaqueteCon
<1> HIDE DEF p, s
<1>4. /\ \A k \in Nat : Celda(r.stream, k) \in {Celda(s, k), BASURA}
      /\ \A k \in 1..8 : Celda(r.stream, k) = Celda(s, k)
      /\ paquete.size <= SEGMENTO => r.stream = s
  BY <1>1, <1>2, <1>3, Corte DEF s
<1>5. deserializarInstrucciones(s, 7) = is
  BY <1>1 DEF deserializarPCB
<1>6. Celda(s, 7) = Len(is) /\ Celda(r.stream, 7) = Celda(s, 7)
  BY <1>1, <1>4
<1>7. d \in Seq(INSTR) /\ Len(d) = n
  <2> HIDE DEF is, d
  <2>1. is \in Seq(INSTR) /\ 7 \in Nat
    BY <1>2
  <2> QED  BY <1>4, <1>5, <1>6, <2>1, InstruccionesCortadas DEF d, is
<1>8. q = [p EXCEPT !.instrucciones = d]
  <2>1. q = [id |-> Celda(s, 1), tamanioProceso |-> Celda(s, 2), PC |-> Celda(s, 3),
             tablaDePaginas |-> Celda(s, 4), estimacionRafaga |-> Celda(s, 5),
             lengthUltimaRafaga |-> Celda(s, 6), instrucciones |-> d]
    <3> HIDE DEF d
    <3> QED  BY <1>4 DEF deserializarPCB, d
  <2>2. p = [id |-> Celda(s, 1), tamanioProceso |-> Celda(s, 2), PC |-> Celda(s, 3),
             tablaDePaginas |-> Celda(s, 4), estimacionRafaga |-> Celda(s, 5),
             lengthUltimaRafaga |-> Celda(s, 6), instrucciones |-> is]
    BY <1>1, <1>5 DEF deserializarPCB
  <2> HIDE DEF q, d, is
  <2> QED  BY <2>1, <2>2
<1>9. q.instrucciones = d
  BY DEF deserializarPCB
<1>10. 8 + 3 * n <= SEGMENTO => d = is
  <2> HAVE 8 + 3 * n <= SEGMENTO
  <2>1. paquete.size <= SEGMENTO
    BY <1>1, <1>2, CaminoAssumption
  <2> QED  BY <1>4, <1>5, <2>1
<1> HIDE DEF q, d
<1>11. q \in PCB /\ q.id = p.id /\ q.tamanioProceso = p.tamanioProceso /\ q.PC = p.PC
      /\ q.tablaDePaginas = p.tablaDePaginas
  <2> HIDE DEF n, is
  <2> QED  BY <1>0, <1>7, <1>8 DEF PCB
<1>12. Recorte(is, d)
  BY <1>7, <1>10 DEF Recorte
<1> QED  BY <1>8, <1>9, <1>11, <1>12 DEF p, q, is

\* An IO that is received has the time and the PCB that were sent, with as many
\* instructions.
LEMMA RecibeIO ==
    ASSUME NEW paquete, LlevaIO(paquete), NEW r \in recibirPaquete(paquete)
    PROVE  LET p == IoDe(paquete).pcb
               io == deserializarIO(r.stream)
               q == io.pcb IN
           /\ io \in TIO /\ io.tiempoBloqueo = IoDe(paquete).tiempoBloqueo
           /\ q.id = p.id /\ q.tamanioProceso = p.tamanioProceso /\ q.PC = p.PC
           /\ q.tablaDePaginas = p.tablaDePaginas
           /\ Recorte(p.instrucciones, q.instrucciones)
<1> DEFINE e == IoDe(paquete)
           p == e.pcb
           io == deserializarIO(r.stream)
           q == io.pcb
           s == paquete.stream
           n == Len(p.instrucciones)
           is == p.instrucciones
           d == deserializarInstrucciones(r.stream, 8)
<1>0. e \in TIO /\ p \in PCB /\ e.tiempoBloqueo \in Nat
      /\ paquete = armarPaqueteCon(e, "PCB_EJECUTADO_IO")
  BY DEF LlevaIO, TIO
<1>1. /\ e = deserializarIO(s) /\ s \in Seq(Celdas) /\ Len(s) = paquete.size
      /\ paquete.size = 8 + 3 * n /\ Celda(s, 8) = n
  BY <1>0, ArmaIO DEF IoDe
<1>2. is \in Seq(INSTR) /\ n \in Nat /\ 8 + 3 * n \in Nat
  BY <1>0 DEF PCB
<1>3. paquete = [codigo |-> paquete.codigo, size |-> paquete.size, escrito |-> paquete.escrito,
                 stream |-> s]
  BY <1>0, Zenon DEF armarPaqueteCon
<1> HIDE DEF e, s
<1>4. /\ \A k \in Nat : Celda(r.stream, k) \in {Celda(s, k), BASURA}
      /\ \A k \in 1..8 : Celda(r.stream, k) = Celda(s, k)
      /\ paquete.size <= SEGMENTO => r.stream = s
  BY <1>1, <1>2, <1>3, Corte DEF s
<1>5. e.tiempoBloqueo = Celda(s, 1) /\ p = deserializarPCB(s, 1)
  BY <1>1 DEF deserializarIO
<1>6. deserializarInstrucciones(s, 8) = is
  BY <1>5 DEF deserializarPCB
<1>7. d \in Seq(INSTR) /\ Len(d) = n
  <2>1. Celda(s, 8) = Len(is) /\ Celda(r.stream, 8) = Celda(s, 8)
    BY <1>1, <1>4
  <2> HIDE DEF is, d
  <2>2. is \in Seq(INSTR) /\ 8 \in Nat
    BY <1>2
  <2> QED  BY <1>4, <1>6, <2>1, <2>2, InstruccionesCortadas DEF d, is
<1>8. q = [p EXCEPT !.instrucciones = d]
  <2>1. q = [id |-> Celda(s, 2), tamanioProceso |-> Celda(s, 3), PC |-> Celda(s, 4),
             tablaDePaginas |-> Celda(s, 5), estimacionRafaga |-> Celda(s, 6),
             lengthUltimaRafaga |-> Celda(s, 7), instrucciones |-> d]
    <3> HIDE DEF d
    <3> QED  BY <1>4 DEF deserializarIO, deserializarPCB, d
  <2>2. p = [id |-> Celda(s, 2), tamanioProceso |-> Celda(s, 3), PC |-> Celda(s, 4),
             tablaDePaginas |-> Celda(s, 5), estimacionRafaga |-> Celda(s, 6),
             lengthUltimaRafaga |-> Celda(s, 7), instrucciones |-> is]
    BY <1>5, <1>6 DEF deserializarPCB
  <2> HIDE DEF q, d, is
  <2> QED  BY <2>1, <2>2
<1>9. q.instrucciones = d /\ io.tiempoBloqueo = Celda(r.stream, 1)
      /\ io = [tiempoBloqueo |-> io.tiempoBloqueo, pcb |-> q]
  BY DEF deserializarIO, deserializarPCB
<1>10. 8 + 3 * n <= SEGMENTO => d = is
  BY <1>1, <1>4, <1>6
<1>11. io.tiempoBloqueo = e.tiempoBloqueo
  BY <1>4, <1>5, <1>9
<1> HIDE DEF io, q, d, p
<1>12. q \in PCB /\ q.id = p.id /\ q.tamanioProceso = p.tamanioProceso /\ q.PC = p.PC
      /\ q.tablaDePaginas = p.tablaDePaginas
  <2> HIDE DEF n, is
  <2> QED  BY <1>0, <1>7, <1>8 DEF PCB
<1>13. io \in TIO
  BY <1>0, <1>9, <1>11, <1>12 DEF TIO
<1>14. Recorte(is, d)
  BY <1>7, <1>10 DEF Recorte
<1> QED  BY <1>9, <1>11, <1>12, <1>13, <1>14 DEF e, p, q, io, is

\* A process that is received has the size that was sent and as many instructions.
LEMMA RecibeProceso ==
    ASSUME NEW paquete, LlevaProceso(paquete), NEW r \in recibirPaquete(paquete)
    PROVE  LET p == ProcesoDe(paquete)
               q == deserializarProceso(r.stream) IN
           /\ q \in PROC /\ q.tamanioProceso = p.tamanioProceso
           /\ Recorte(p.instrucciones, q.instrucciones)
<1> DEFINE p == ProcesoDe(paquete)
           q == deserializarProceso(r.stream)
           s == paquete.stream
           n == Len(p.instrucciones)
           is == p.instrucciones
           d == deserializarInstrucciones(r.stream, 2)
<1>0. p \in PROC /\ p.tamanioProceso \in Nat /\ is \in Seq(INSTR)
      /\ paquete = armarPaqueteCon(p, "PROCESO")
  BY DEF LlevaProceso, PROC
<1>1. /\ p = deserializarProceso(s) /\ s \in Seq(Celdas) /\ Len(s) = paquete.size
      /\ paquete.size = 2 + 3 * n /\ Celda(s, 2) = n /\ n \in Nat
  BY <1>0, ArmaProceso DEF ProcesoDe
<1>2. 2 + 3 * n \in Nat
  BY <1>1
<1>3. paquete = [codigo |-> paquete.codigo, size |-> paquete.size, escrito |-> paquete.escrito,
                 stream |-> s]
  BY <1>0, Zenon DEF armarPaqueteCon
<1> HIDE DEF p, s
<1>4. /\ \A k \in Nat : Celda(r.stream, k) \in {Celda(s, k), BASURA}
      /\ \A k \in 1..8 : Celda(r.stream, k) = Celda(s, k)
      /\ paquete.size <= SEGMENTO => r.stream = s
  BY <1>1, <1>2, <1>3, Corte DEF s
<1>5. p.tamanioProceso = Celda(s, 1) /\ deserializarInstrucciones(s, 2) = is
  BY <1>1 DEF deserializarProceso
<1>6. d \in Seq(INSTR) /\ Len(d) = n
  <2>1. Celda(s, 2) = Len(is) /\ Celda(r.stream, 2) = Celda(s, 2)
    BY <1>1, <1>4
  <2> HIDE DEF is, d
  <2>2. is \in Seq(INSTR) /\ 2 \in Nat
    BY <1>0
  <2> QED  BY <1>4, <1>5, <2>1, <2>2, InstruccionesCortadas DEF d, is
<1>7. q = [tamanioProceso |-> p.tamanioProceso, instrucciones |-> d]
  <2> HIDE DEF d
  <2> QED  BY <1>4, <1>5 DEF deserializarProceso, d
<1>8. 8 + 3 * n <= SEGMENTO => d = is
  <2> HAVE 8 + 3 * n <= SEGMENTO
  <2>1. paquete.size <= SEGMENTO
    BY <1>1, CaminoAssumption
  <2> QED  BY <1>4, <1>5, <2>1
<1> HIDE DEF q, d
<1>9. q \in PROC /\ q.tamanioProceso = p.tamanioProceso /\ q.instrucciones = d
  <2> HIDE DEF n, is
  <2> QED  BY <1>0, <1>6, <1>7 DEF PROC
<1>10. Recorte(is, d)
  BY <1>6, <1>8 DEF Recorte
<1> QED  BY <1>9, <1>10 DEF p, q, is

-----------------------------------------------------------------------------
(* Which steps may change each variable *)

\* Which steps may change each variable.
LEMMA QuienCambia ==
    ASSUME [Next]_vars
    PROVE  /\ (\E c \in Consolas : ConsolaEnvia(c) \/ ConsolaRecibe(c))
              \/ UNCHANGED consolas
           /\ ((\E c \in Consolas : ConsolaEnvia(c) \/ ConsolaRecibe(c) \/ ManejarProceso(c))
                \/ VuelveExit)
              \/ UNCHANGED redConsola
           /\ (\E c \in Consolas : ManejarProceso(c))
              \/ UNCHANGED id_nuevo_proceso
           /\ ((\E c \in Consolas : ManejarProceso(c)) \/ VuelveExit)
              \/ UNCHANGED consolas_conectadas
           /\ ((\E c \in Consolas : ManejarProceso(c)) \/ PideCrear)
              \/ UNCHANGED estado_new
           /\ (PideCrear \/ RecibeTabla)
              \/ UNCHANGED creando
           /\ (RecibeTabla \/ Despacha \/ VuelveInterrumpido \/ TerminaIO)
              \/ UNCHANGED estado_ready
           /\ (VuelveIO \/ TerminaIO)
              \/ UNCHANGED estado_blocked
           /\ (PideCrear \/ VuelveExit \/ CrearProceso \/ FinProceso)
              \/ UNCHANGED colaKernel
           /\ (RecibeTabla \/ CrearProceso)
              \/ UNCHANGED redCrear
           /\ (CrearProceso)
              \/ UNCHANGED <<tablasPrimerNivel, tablasSegundoNivel>>
           /\ (CrearProceso \/ FinProceso)
              \/ UNCHANGED swap
           /\ (ConsultaEnTabla \/ DaMarco)
              \/ UNCHANGED estadoMemoria
           /\ (Despacha \/ VuelveIO \/ VuelveInterrumpido \/ VuelveExit \/ TerminaInstruccion)
              \/ UNCHANGED redDispatch
           /\ (DaTraduccion \/ ConsultaEnTabla \/ DaMarco \/ Lee \/ Escribe \/ PideTraduccion
              \/ RecibeTraduccion \/ ConsultaTabla \/ ConsultaMarco \/ AccedeAMemoria \/ RecibeDato)
              \/ UNCHANGED redMemoria
           /\ (CPU)
              \/ UNCHANGED cpu
           /\ ((\E c \in Consolas : ManejarProceso(c)) \/ Fetch)
              \/ UNCHANGED historia
<1>1. ASSUME NEW c \in Consolas, ConsolaEnvia(c)
      PROVE UNCHANGED <<id_nuevo_proceso, consolas_conectadas, estado_new, creando, estado_ready,
          estado_blocked, colaKernel, redCrear, <<tablasPrimerNivel, tablasSegundoNivel>>, swap,
              estadoMemoria, redDispatch, redMemoria, cpu, historia>>
  BY <1>1 DEF ConsolaEnvia, varsKernel, varsMemoria, varsTablas, varsCPU, varsConsola
<1>2. ASSUME NEW c \in Consolas, ConsolaRecibe(c)
      PROVE UNCHANGED <<id_nuevo_proceso, consolas_conectadas, estado_new, creando, estado_ready,
          estado_blocked, colaKernel, redCrear, <<tablasPrimerNivel, tablasSegundoNivel>>, swap,
              estadoMemoria, redDispatch, redMemoria, cpu, historia>>
  BY <1>2 DEF ConsolaRecibe, varsKernel, varsMemoria, varsTablas, varsCPU, varsConsola
<1>3. ASSUME NEW c \in Consolas, ManejarProceso(c)
      PROVE UNCHANGED <<consolas, creando, estado_ready, estado_blocked, colaKernel, redCrear,
          <<tablasPrimerNivel, tablasSegundoNivel>>, swap, estadoMemoria, redDispatch, redMemoria,
              cpu>>
  BY <1>3 DEF ManejarProceso, varsKernel, varsMemoria, varsTablas, varsCPU
<1>4. ASSUME PideCrear PROVE
                 UNCHANGED <<consolas, redConsola, id_nuevo_proceso, consolas_conectadas,
                     estado_ready, estado_blocked, redCrear,
                         <<tablasPrimerNivel, tablasSegundoNivel>>, swap, estadoMemoria,
                             redDispatch, redMemoria, cpu, historia>>
  BY <1>4 DEF PideCrear, varsConsola, varsKernel, varsMemoria, varsTablas, varsCPU
<1>5. ASSUME RecibeTabla PROVE
                 UNCHANGED <<consolas, redConsola, id_nuevo_proceso, consolas_conectadas,
                     estado_new, estado_blocked, colaKernel,
                         <<tablasPrimerNivel, tablasSegundoNivel>>, swap, estadoMemoria,
                             redDispatch, redMemoria, cpu, historia>>
  BY <1>5 DEF RecibeTabla, varsConsola, varsKernel, varsMemoria, varsTablas, varsCPU
<1>6. ASSUME Despacha PROVE UNCHANGED <<consolas, redConsola, id_nuevo_proceso, consolas_conectadas,
                 estado_new, creando, estado_blocked, colaKernel, redCrear,
                     <<tablasPrimerNivel, tablasSegundoNivel>>, swap, estadoMemoria, redMemoria,
                         cpu, historia>>
  BY <1>6 DEF Despacha, varsConsola, varsKernel, varsMemoria, varsTablas, varsCPU
<1>7. ASSUME VuelveIO PROVE UNCHANGED <<consolas, redConsola, id_nuevo_proceso, consolas_conectadas,
                 estado_new, creando, estado_ready, colaKernel, redCrear,
                     <<tablasPrimerNivel, tablasSegundoNivel>>, swap, estadoMemoria, redMemoria,
                         cpu, historia>>
  BY <1>7 DEF VuelveIO, varsConsola, varsKernel, varsMemoria, varsTablas, varsCPU
<1>8. ASSUME VuelveInterrumpido
      PROVE UNCHANGED <<consolas, redConsola, id_nuevo_proceso, consolas_conectadas, estado_new,
          creando, estado_blocked, colaKernel, redCrear, <<tablasPrimerNivel, tablasSegundoNivel>>,
              swap, estadoMemoria, redMemoria, cpu, historia>>
  BY <1>8 DEF VuelveInterrumpido, varsConsola, varsKernel, varsMemoria, varsTablas, varsCPU
<1>9. ASSUME VuelveExit PROVE
                 UNCHANGED <<consolas, id_nuevo_proceso, estado_new, creando, estado_ready,
                     estado_blocked, redCrear, <<tablasPrimerNivel, tablasSegundoNivel>>, swap,
                         estadoMemoria, redMemoria, cpu, historia>>
  BY <1>9 DEF VuelveExit, varsConsola, varsKernel, varsMemoria, varsTablas, varsCPU
<1>10. ASSUME TerminaIO PROVE
                  UNCHANGED <<consolas, redConsola, id_nuevo_proceso, consolas_conectadas,
                      estado_new, creando, colaKernel, redCrear,
                          <<tablasPrimerNivel, tablasSegundoNivel>>, swap, estadoMemoria,
                              redDispatch, redMemoria, cpu, historia>>
  BY <1>10 DEF TerminaIO, varsConsola, varsKernel, varsMemoria, varsTablas, varsCPU
<1>11. ASSUME CrearProceso
       PROVE UNCHANGED <<consolas, redConsola, id_nuevo_proceso, consolas_conectadas, estado_new,
           creando, estado_ready, estado_blocked, estadoMemoria, redDispatch, redMemoria, cpu,
               historia>>
  BY <1>11 DEF CrearProceso, crearTablas, varsConsola, varsKernel, varsMemoria, varsTablas, varsCPU
<1>12. ASSUME FinProceso PROVE
                  UNCHANGED <<consolas, redConsola, id_nuevo_proceso, consolas_conectadas,
                      estado_new, creando, estado_ready, estado_blocked, redCrear,
                          <<tablasPrimerNivel, tablasSegundoNivel>>, estadoMemoria, redDispatch,
                              redMemoria, cpu, historia>>
  BY <1>12 DEF FinProceso, varsConsola, varsKernel, varsMemoria, varsTablas, varsCPU
<1>13. ASSUME DaTraduccion
       PROVE UNCHANGED <<consolas, redConsola, id_nuevo_proceso, consolas_conectadas, estado_new,
           creando, estado_ready, estado_blocked, colaKernel, redCrear,
               <<tablasPrimerNivel, tablasSegundoNivel>>, swap, estadoMemoria, redDispatch, cpu,
                   historia>>
  BY <1>13 DEF DaTraduccion, ContestaCPU, varsConsola, varsKernel, varsMemoria, varsTablas, varsCPU
<1>14. ASSUME ConsultaEnTabla
       PROVE UNCHANGED <<consolas, redConsola, id_nuevo_proceso, consolas_conectadas, estado_new,
           creando, estado_ready, estado_blocked, colaKernel, redCrear,
               <<tablasPrimerNivel, tablasSegundoNivel>>, swap, redDispatch, cpu, historia>>
  BY <1>14 DEF ConsultaEnTabla, ContestaCPU, CaeMemoria, varsConsola, varsKernel, varsMemoria,
     varsTablas, varsCPU
<1>15. ASSUME DaMarco PROVE UNCHANGED <<consolas, redConsola, id_nuevo_proceso, consolas_conectadas,
                  estado_new, creando, estado_ready, estado_blocked, colaKernel, redCrear,
                      <<tablasPrimerNivel, tablasSegundoNivel>>, swap, redDispatch, cpu, historia>>
  BY <1>15 DEF DaMarco, ContestaCPU, CaeMemoria, varsConsola, varsKernel, varsMemoria, varsTablas,
     varsCPU
<1>16. ASSUME Lee PROVE UNCHANGED <<consolas, redConsola, id_nuevo_proceso, consolas_conectadas,
                  estado_new, creando, estado_ready, estado_blocked, colaKernel, redCrear,
                      <<tablasPrimerNivel, tablasSegundoNivel>>, swap, estadoMemoria, redDispatch,
                          cpu, historia>>
  BY <1>16 DEF Lee, ContestaCPU, varsConsola, varsKernel, varsMemoria, varsTablas, varsCPU
<1>17. ASSUME Escribe PROVE UNCHANGED <<consolas, redConsola, id_nuevo_proceso, consolas_conectadas,
                  estado_new, creando, estado_ready, estado_blocked, colaKernel, redCrear,
                      <<tablasPrimerNivel, tablasSegundoNivel>>, swap, estadoMemoria, redDispatch,
                          cpu, historia>>
  BY <1>17 DEF Escribe, ContestaCPU, varsConsola, varsKernel, varsMemoria, varsTablas, varsCPU
<1>18. ASSUME PideTraduccion
       PROVE UNCHANGED <<consolas, redConsola, id_nuevo_proceso, consolas_conectadas, estado_new,
           creando, estado_ready, estado_blocked, colaKernel, redCrear,
               <<tablasPrimerNivel, tablasSegundoNivel>>, swap, estadoMemoria, redDispatch,
                   historia>>
  BY <1>18 DEF PideTraduccion, varsConsola, varsKernel, varsMemoria, varsTablas, varsCPU
<1>19. ASSUME RecibeTraduccion
       PROVE UNCHANGED <<consolas, redConsola, id_nuevo_proceso, consolas_conectadas, estado_new,
           creando, estado_ready, estado_blocked, colaKernel, redCrear,
               <<tablasPrimerNivel, tablasSegundoNivel>>, swap, estadoMemoria, redDispatch,
                   historia>>
  BY <1>19 DEF RecibeTraduccion, varsConsola, varsKernel, varsMemoria, varsTablas, varsCPU
<1>20. ASSUME RecibePcb PROVE
                  UNCHANGED <<consolas, redConsola, id_nuevo_proceso, consolas_conectadas,
                      estado_new, creando, estado_ready, estado_blocked, colaKernel, redCrear,
                          <<tablasPrimerNivel, tablasSegundoNivel>>, swap, estadoMemoria,
                              redDispatch, redMemoria, historia>>
  BY <1>20 DEF RecibePcb, varsConsola, varsKernel, varsMemoria, varsTablas, varsCPU
<1>21. ASSUME Fetch PROVE UNCHANGED <<consolas, redConsola, id_nuevo_proceso, consolas_conectadas,
                  estado_new, creando, estado_ready, estado_blocked, colaKernel, redCrear,
                      <<tablasPrimerNivel, tablasSegundoNivel>>, swap, estadoMemoria, redDispatch,
                          redMemoria>>
  BY <1>21 DEF Fetch, varsConsola, varsKernel, varsMemoria, varsTablas, varsCPU
<1>22. ASSUME ConsultaTabla
       PROVE UNCHANGED <<consolas, redConsola, id_nuevo_proceso, consolas_conectadas, estado_new,
           creando, estado_ready, estado_blocked, colaKernel, redCrear,
               <<tablasPrimerNivel, tablasSegundoNivel>>, swap, estadoMemoria, redDispatch,
                   historia>>
  BY <1>22 DEF ConsultaTabla, PideAMemoria, varsConsola, varsKernel, varsMemoria, varsTablas,
     varsCPU
<1>23. ASSUME ConsultaMarco
       PROVE UNCHANGED <<consolas, redConsola, id_nuevo_proceso, consolas_conectadas, estado_new,
           creando, estado_ready, estado_blocked, colaKernel, redCrear,
               <<tablasPrimerNivel, tablasSegundoNivel>>, swap, estadoMemoria, redDispatch,
                   historia>>
  BY <1>23 DEF ConsultaMarco, PideAMemoria, varsConsola, varsKernel, varsMemoria, varsTablas,
     varsCPU
<1>24. ASSUME AccedeAMemoria
       PROVE UNCHANGED <<consolas, redConsola, id_nuevo_proceso, consolas_conectadas, estado_new,
           creando, estado_ready, estado_blocked, colaKernel, redCrear,
               <<tablasPrimerNivel, tablasSegundoNivel>>, swap, estadoMemoria, redDispatch,
                   historia>>
  BY <1>24 DEF AccedeAMemoria, PideAMemoria, varsConsola, varsKernel, varsMemoria, varsTablas,
     varsCPU
<1>25. ASSUME RecibeDato PROVE
                  UNCHANGED <<consolas, redConsola, id_nuevo_proceso, consolas_conectadas,
                      estado_new, creando, estado_ready, estado_blocked, colaKernel, redCrear,
                          <<tablasPrimerNivel, tablasSegundoNivel>>, swap, estadoMemoria,
                              redDispatch, historia>>
  BY <1>25 DEF RecibeDato, varsConsola, varsKernel, varsMemoria, varsTablas, varsCPU
<1>26. ASSUME TerminaInstruccion
       PROVE UNCHANGED <<consolas, redConsola, id_nuevo_proceso, consolas_conectadas, estado_new,
           creando, estado_ready, estado_blocked, colaKernel, redCrear,
               <<tablasPrimerNivel, tablasSegundoNivel>>, swap, estadoMemoria, redMemoria,
                   historia>>
  BY <1>26 DEF TerminaInstruccion, varsConsola, varsKernel, varsMemoria, varsTablas, varsCPU
<1>27. ASSUME Detenido \/ UNCHANGED vars
       PROVE UNCHANGED <<consolas, redConsola, id_nuevo_proceso, consolas_conectadas, estado_new,
           creando, estado_ready, estado_blocked, colaKernel, redCrear,
               <<tablasPrimerNivel, tablasSegundoNivel>>, swap, estadoMemoria, redDispatch,
                   redMemoria, cpu, historia>>
  BY <1>27 DEF Detenido, vars, varsConsola, varsKernel, varsMemoria, varsTablas, varsCPU
<1> QED  BY <1>1, <1>2, <1>3, <1>4, <1>5, <1>6, <1>7, <1>8, <1>9, <1>10, <1>11, <1>12, <1>13, <1>14,
        <1>15, <1>16, <1>17, <1>18, <1>19, <1>20, <1>21, <1>22, <1>23, <1>24, <1>25, <1>26, <1>27,
            Zenon
         DEF Next, Consola, Kernel, Memoria, CPU

-----------------------------------------------------------------------------
(* The consoles, the Kernel and Memoria *)

\* What a console sends is a process.
LEMMA ProgramaTipo ==
    ASSUME NEW c \in Consolas, NEW argv \in Argumentos[c], ~ConsolaCae(argv[1])
    PROVE  [tamanioProceso |-> argv[2],
        instrucciones |-> obtenerInstrucciones(leerInstrucciones(argv[1]))] \in PROC
<1>1. argv[1].lineas \in Seq(LINEA) /\ argv[2] \in Nat
  BY ArgumentosAssumption
<1>2. obtenerInstrucciones(leerInstrucciones(argv[1])) \in Seq(Lineas)
  BY <1>1, GuionTipo
<1>3. Lineas \subseteq INSTR
  BY DEF Lineas, INSTR
<1>4. obtenerInstrucciones(leerInstrucciones(argv[1])) \in Seq(INSTR)
  BY <1>2, <1>3, SeqMonotona, Zenon
<1> QED  BY <1>1, <1>4 DEF PROC

\* A packet that is built carries what it is built from.
LEMMA LlevanLoArmado ==
    /\ \A p \in PCB : \A cod \in CodigosPCB : \A cods : cod \in cods =>
         LlevaPCB(armarPaqueteCon(p, cod), cods)
    /\ \A io \in TIO : LlevaIO(armarPaqueteCon(io, "PCB_EJECUTADO_IO"))
    /\ \A p \in PROC : LlevaProceso(armarPaqueteCon(p, "PROCESO"))
    /\ \A n \in Int : \A cod \in CodigosUINT32 : \A cods : cod \in cods =>
         LlevaNumero(armarPaqueteCon(n, cod), cods)
<1>1. ASSUME NEW p \in PCB, NEW cod \in CodigosPCB, NEW cods, cod \in cods
      PROVE LlevaPCB(armarPaqueteCon(p, cod), cods)
  <2>1. armarPaqueteCon(p, cod).codigo = cod /\ PcbDe(armarPaqueteCon(p, cod)) = p
    BY ArmaPCB, Zenon
  <2> QED  BY <1>1, <2>1, Zenon DEF LlevaPCB
<1>2. ASSUME NEW io \in TIO PROVE LlevaIO(armarPaqueteCon(io, "PCB_EJECUTADO_IO"))
  <2>1. armarPaqueteCon(io, "PCB_EJECUTADO_IO").codigo = "PCB_EJECUTADO_IO"
        /\ IoDe(armarPaqueteCon(io, "PCB_EJECUTADO_IO")) = io
    BY ArmaIO, Zenon
  <2> QED  BY <1>2, <2>1, Zenon DEF LlevaIO
<1>3. ASSUME NEW p \in PROC PROVE LlevaProceso(armarPaqueteCon(p, "PROCESO"))
  <2>1. armarPaqueteCon(p, "PROCESO").codigo = "PROCESO"
        /\ ProcesoDe(armarPaqueteCon(p, "PROCESO")) = p
    BY ArmaProceso, Zenon
  <2> QED  BY <1>3, <2>1, Zenon DEF LlevaProceso
<1>4. ASSUME NEW n \in Int, NEW cod \in CodigosUINT32, NEW cods, cod \in cods
      PROVE LlevaNumero(armarPaqueteCon(n, cod), cods)
  <2>1. armarPaqueteCon(n, cod).codigo = cod /\ NumeroDe(armarPaqueteCon(n, cod)) = n
    BY ArmaFijo, Zenon
  <2> QED  BY <1>4, <2>1, Zenon DEF LlevaNumero
<1> QED  BY <1>1, <1>2, <1>3, <1>4, Zenon

\* The consoles keep what they were given, and each connection carries a process, an
\* answer or nothing.
LEMMA PasoConsola ==
    ASSUME InvTipos, [Next]_vars PROVE TiposConsola'
<1>0. TiposConsola
  BY DEF InvTipos
<1>1. CASE UNCHANGED <<consolas, redConsola>>
  BY <1>0, <1>1 DEF TiposConsola
<1>2. ASSUME NEW c \in Consolas, ConsolaEnvia(c) PROVE TiposConsola'
  <2>1. PICK argv \in Argumentos[c] :
          /\ consolas' = [consolas EXCEPT ![c].guion = argv[1], ![c].tamanio = argv[2],
                             ![c].estado = IF ConsolaCae(argv[1]) THEN "caida" ELSE "espera"]
          /\ redConsola' = [redConsola EXCEPT ![c] =
                               IF ConsolaCae(argv[1]) THEN NULO
                               ELSE armarPaqueteCon(
                                       [tamanioProceso |-> argv[2], instrucciones |->
                                          obtenerInstrucciones(leerInstrucciones(argv[1]))],
                                       "PROCESO")]
    BY <1>2 DEF ConsolaEnvia
  <2> DEFINE p == [tamanioProceso |-> argv[2],
          instrucciones |-> obtenerInstrucciones(leerInstrucciones(argv[1]))]
             q == IF ConsolaCae(argv[1]) THEN NULO ELSE armarPaqueteCon(p, "PROCESO")
             e == IF ConsolaCae(argv[1]) THEN "caida" ELSE "espera"
             k == [consolas[c] EXCEPT !.guion = argv[1], !.tamanio = argv[2], !.estado = e]
  <2>2. q = NULO \/ LlevaProceso(q)
    BY ProgramaTipo, LlevanLoArmado, Zenon
  <2>3. argv[2] \in Nat /\ argv[1] \in GUIONES /\ e \in {"caida", "espera"}
    BY ArgumentosAssumption DEF GUIONES
  <2>4. redConsola' = [redConsola EXCEPT ![c] = q] /\ consolas' = [consolas EXCEPT ![c] = k]
    <3>1. redConsola' = [redConsola EXCEPT ![c] = q]
      BY <2>1
    <3>2. consolas' = [consolas EXCEPT ![c].guion = argv[1], ![c].tamanio = argv[2], ![c].estado =
              e]
      BY <2>1
    <3>3. consolas \in [Consolas -> CONSOLA]
      BY <1>0 DEF TiposConsola
    <3> HIDE DEF e
    <3> QED  BY <3>1, <3>2, <3>3
  <2> HIDE DEF q, e
  <2>5. k \in CONSOLA
    BY <1>0, <2>3 DEF TiposConsola, CONSOLA
  <2> HIDE DEF k
  <2> QED  BY <1>0, <2>2, <2>4, <2>5 DEF TiposConsola
<1>3. ASSUME NEW c \in Consolas, ConsolaRecibe(c) PROVE TiposConsola'
  <2>1. /\ redConsola[c] # NULO /\ redConsola[c].codigo = "RES_FIN_PROCESO"
        /\ consolas' = [consolas EXCEPT ![c].estado = "respondida", ![c].respuesta =
             NumeroDe(redConsola[c])]
        /\ redConsola' = [redConsola EXCEPT ![c] = NULO]
    BY <1>3 DEF ConsolaRecibe, LlegaCon, NumeroDe
  <2>2. NumeroDe(redConsola[c]) \in Int
    BY <1>0, <2>1 DEF TiposConsola, LlevaProceso, LlevaNumero
  <2> DEFINE n == NumeroDe(redConsola[c])
             k == [consolas[c] EXCEPT !.estado = "respondida", !.respuesta = n]
  <2> HIDE DEF n
  <2>3. k \in CONSOLA /\ consolas' = [consolas EXCEPT ![c] = k]
    BY <1>0, <2>1, <2>2 DEF TiposConsola, CONSOLA, n
  <2> HIDE DEF k
  <2> QED  BY <1>0, <2>1, <2>3 DEF TiposConsola
<1>4. ASSUME NEW c \in Consolas, ManejarProceso(c) PROVE TiposConsola'
  BY <1>0, <1>4 DEF TiposConsola, ManejarProceso
<1>5. CASE VuelveExit
  <2>1. PICK r \in recibirPaquete(redDispatch) : \E conectada \in consolas_conectadas :
             redConsola' = [redConsola EXCEPT ![conectada.socket] =
                                  armarPaqueteCon(deserializarPCB(r.stream, 0).id,
                                      "RES_FIN_PROCESO")]
    BY <1>5 DEF VuelveExit
  <2>2. PICK conectada \in consolas_conectadas :
             redConsola' = [redConsola EXCEPT ![conectada.socket] =
                                  armarPaqueteCon(deserializarPCB(r.stream, 0).id,
                                      "RES_FIN_PROCESO")]
    BY <2>1
  <2>3. deserializarPCB(r.stream, 0) \in PCB
    <3>1. redDispatch # NULO /\ redDispatch.codigo = "PCB_EJECUTADO_EXIT"
      BY <1>5 DEF VuelveExit, LlegaCon
    <3>2. LlevaPCB(redDispatch, CodigosPCB)
      BY <3>1 DEF InvTipos, Dispatch, LlevaIO, LlevaPCB, CodigosPCB
    <3> QED  BY <3>2, RecibePCB
  <2> DEFINE id == deserializarPCB(r.stream, 0).id
             q == armarPaqueteCon(id, "RES_FIN_PROCESO")
  <2>4. id \in Int
    BY <2>3 DEF PCB
  <2> HIDE DEF id
  <2>5. LlevaNumero(q, {"RES_FIN_PROCESO"})
    BY <2>4, LlevanLoArmado DEF CodigosUINT32
  <2>6. redConsola' = [redConsola EXCEPT ![conectada.socket] = q] /\ UNCHANGED consolas
    BY <1>5, <2>2 DEF VuelveExit, id
  <2> HIDE DEF q
  <2> QED  BY <1>0, <2>5, <2>6 DEF TiposConsola
<1> QED  BY <1>1, <1>2, <1>3, <1>4, <1>5, QuienCambia, Zenon

\* What comes back from the CPU, with no PCB in it.
LEMMA VueltaDeLaCPU ==
    ASSUME InvTipos, redDispatch # NULO, redDispatch.codigo # "REQ_PCB_A_EJECUTAR"
    PROVE  /\ cpu.fase \notin ConPcb /\ cpu.pcb = NULO
           /\ redDispatch.codigo = "PCB_EJECUTADO_IO" => LlevaIO(redDispatch)
           /\ redDispatch.codigo # "PCB_EJECUTADO_IO" => LlevaPCB(redDispatch, CodigosPCB)
<1>1. \/ LlevaPCB(redDispatch, {"REQ_PCB_A_EJECUTAR", "PCB_EJECUTADO_EXIT",
           "PCB_EJECUTADO_INTERRUPCION"})
      \/ LlevaIO(redDispatch)
  BY DEF InvTipos, Dispatch
<1>2. cpu.fase \notin ConPcb /\ cpu.pcb = NULO
  BY DEF InvTipos, Dispatch
<1> QED  BY <1>1, <1>2 DEF LlevaPCB, LlevaIO, CodigosPCB

\* Whatever is on the connection of dispatch, it is a PCB or an IO.
LEMMA EnVuelo ==
    ASSUME InvTipos, redDispatch # NULO
    PROVE  /\ redDispatch.codigo = "PCB_EJECUTADO_IO" => LlevaIO(redDispatch)
           /\ redDispatch.codigo # "PCB_EJECUTADO_IO" => LlevaPCB(redDispatch, CodigosPCB)
<1>1. \/ LlevaPCB(redDispatch, {"REQ_PCB_A_EJECUTAR", "PCB_EJECUTADO_EXIT",
           "PCB_EJECUTADO_INTERRUPCION"})
      \/ LlevaIO(redDispatch)
  BY DEF InvTipos, Dispatch
<1> QED  BY <1>1 DEF LlevaPCB, LlevaIO, CodigosPCB

\* A PCB with its estimation updated is a PCB.
LEMMA TrasLaRafaga ==
    ASSUME NEW p \in PCB
    PROVE  TrasIO(p) \in PCB /\ TrasInterrupcion(p) \in PCB
<1>1. p.estimacionRafaga \in Int /\ p.lengthUltimaRafaga \in Int
  BY DEF PCB
<1>2. (p.estimacionRafaga - p.lengthUltimaRafaga) % UINT32 \in Int
  BY <1>1, CaminoAssumption
<1>3. (NUM_ALFA * p.lengthUltimaRafaga + (DEN_ALFA - NUM_ALFA) * p.estimacionRafaga) \div DEN_ALFA
        \in Int
  BY <1>1, CaminoAssumption
<1>4. ASSUME NEW e \in Int PROVE [p EXCEPT !.estimacionRafaga = e] \in PCB
  BY DEF PCB
<1> QED  BY <1>2, <1>3, <1>4 DEF TrasIO, TrasInterrupcion

\* The queues of the Kernel hold PCBs, and each id it gave has its history.
LEMMA PasoKernel ==
    ASSUME InvTipos, [Next]_vars PROVE TiposKernel'
<1>0. /\ TiposKernel /\ Cola
      /\ id_nuevo_proceso \in Nat /\ estado_new \in Seq(PCB) /\ creando \in PCB \union {NULO}
      /\ estado_ready \subseteq PCB /\ estado_blocked \subseteq TIO
      /\ historia \in Seq(HISTORIA) /\ Len(historia) = id_nuevo_proceso
      /\ consolas_conectadas \subseteq [id : Nat, socket : Consolas]
  BY DEF InvTipos, TiposKernel
<1>1. /\ id_nuevo_proceso' \in Nat /\ historia' \in Seq(HISTORIA)
      /\ Len(historia') = id_nuevo_proceso'
  <2>1. CASE UNCHANGED <<id_nuevo_proceso, historia>>
    BY <1>0, <2>1
  <2>2. ASSUME NEW c \in Consolas, ManejarProceso(c)
        PROVE  /\ id_nuevo_proceso' \in Nat /\ historia' \in Seq(HISTORIA)
               /\ Len(historia') = id_nuevo_proceso'
    <3>1. [consola |-> c, ejecutadas |-> <<>>] \in HISTORIA
      BY DEF HISTORIA
    <3>2. /\ id_nuevo_proceso' = id_nuevo_proceso + 1
          /\ historia' = Append(historia, [consola |-> c, ejecutadas |-> <<>>])
      BY <2>2 DEF ManejarProceso
    <3>3. historia' \in Seq(HISTORIA) /\ Len(historia') = Len(historia) + 1
      BY <1>0, <3>1, <3>2, AppendProperties, Zenon
    <3> QED  BY <1>0, <3>2, <3>3
  <2>3. CASE Fetch
    <3>1. id_nuevo_proceso' = id_nuevo_proceso
      BY <2>3 DEF Fetch, varsKernel
    <3>2. CASE UNCHANGED historia
      BY <1>0, <3>1, <3>2
    <3>3. CASE /\ Ejecutable(cpu.pcb)
               /\ historia' = [historia EXCEPT ![cpu.pcb.id + 1].ejecutadas =
                    Append(@, fetch(cpu.pcb))]
      <4>1. cpu.pcb \in PCB
        BY <2>3 DEF Fetch, InvTipos, Dispatch, ConPcb
      <4>2. fetch(cpu.pcb) \in INSTR
        <5>1. cpu.pcb.instrucciones \in Seq(INSTR)
              /\ cpu.pcb.PC + 1 \in 1..Len(cpu.pcb.instrucciones)
          BY <3>3, <4>1 DEF Ejecutable, PCB
        <5> QED  BY <5>1, ElementOfSeq, Zenon DEF fetch
      <4> DEFINE k == cpu.pcb.id + 1
                 i == fetch(cpu.pcb)
      <4>3. historia' = [historia EXCEPT ![k].ejecutadas = Append(@, i)]
        BY <3>3
      <4>4. DOMAIN historia = 1..Len(historia) /\ Len(historia) \in Nat
            /\ \A j \in 1..Len(historia) : historia[j] \in HISTORIA
        BY <1>0
      <4> HIDE DEF k, i
      <4>5. \A j \in 1..Len(historia) : historia'[j] \in HISTORIA
        BY <4>2, <4>3, <4>4, AppendProperties DEF HISTORIA, i
      <4>6. DOMAIN historia' = 1..Len(historia)
            /\ historia' = [j \in 1..Len(historia) |-> historia'[j]]
        BY <4>3, <4>4
      <4>7. historia' \in Seq(HISTORIA) /\ Len(historia') = Len(historia)
        <5> DEFINE h == historia'
                   n == Len(historia)
        <5> HIDE DEF h, n
        <5>1. n \in Nat /\ h = [j \in 1..n |-> h[j]] /\ \A j \in 1..n : h[j] \in HISTORIA
          BY <4>4, <4>5, <4>6 DEF h, n
        <5>2. h \in Seq(HISTORIA) /\ Len(h) = n
          BY <5>1
        <5> QED  BY <5>2 DEF h, n
      <4> QED  BY <1>0, <3>1, <4>7
    <3> QED  BY <2>3, <3>2, <3>3, Zenon DEF Fetch
  <2> QED  BY <2>1, <2>2, <2>3, QuienCambia, Zenon
<1>2. consolas_conectadas' \subseteq [id : Nat, socket : Consolas]
  <2>1. ASSUME NEW c \in Consolas, ManejarProceso(c)
        PROVE  consolas_conectadas' \subseteq [id : Nat, socket : Consolas]
    BY <1>0, <2>1 DEF ManejarProceso
  <2>2. CASE VuelveExit
    <3>1. consolas_conectadas' \subseteq consolas_conectadas
      BY <2>2 DEF VuelveExit
    <3> QED  BY <1>0, <3>1
  <2> QED  BY <1>0, <2>1, <2>2, QuienCambia
<1>3. estado_new' \in Seq(PCB)
  <2>1. ASSUME NEW c \in Consolas, ManejarProceso(c) PROVE estado_new' \in Seq(PCB)
    <3>1. PICK r \in recibirPaquete(redConsola[c]) :
             estado_new' = Append(estado_new, iniciarPcb(deserializarProceso(r.stream)))
      BY <2>1 DEF ManejarProceso
    <3>2. LlevaProceso(redConsola[c])
      BY <2>1 DEF ManejarProceso, LlegaCon, InvTipos, TiposConsola, LlevaNumero
    <3> DEFINE q == deserializarProceso(r.stream)
    <3>3. q \in PROC
      BY <3>2, RecibeProceso
    <3> HIDE DEF q
    <3>4. iniciarPcb(q) \in PCB
      BY <1>0, <3>3, CaminoAssumption DEF iniciarPcb, PCB, PROC
    <3> QED  BY <1>0, <3>1, <3>4, AppendProperties, Zenon DEF q
  <2>2. CASE PideCrear
    BY <1>0, <2>2, HeadTailProperties, Zenon DEF PideCrear
  <2> QED  BY <1>0, <2>1, <2>2, QuienCambia, Zenon
<1>4. creando' \in PCB \union {NULO}
  <2>1. CASE PideCrear
    <3>1. Head(estado_new) \in PCB /\ creando' = Head(estado_new)
      BY <1>0, <2>1, HeadTailProperties, Zenon DEF PideCrear
    <3> QED  BY <3>1
  <2>2. CASE RecibeTabla
    BY <2>2 DEF RecibeTabla
  <2> QED  BY <1>0, <2>1, <2>2, QuienCambia
<1>5. estado_ready' \subseteq PCB
  <2>1. CASE RecibeTabla
    <3>1. creando \in PCB /\ NumeroDe(redCrear) \in Int
      BY <1>0, <2>1 DEF RecibeTabla, Cola, LlevaNumero
    <3>2. [creando EXCEPT !.tablaDePaginas = NumeroDe(redCrear)] \in PCB
      BY <3>1 DEF PCB
    <3> QED  BY <1>0, <2>1, <3>2 DEF RecibeTabla, NumeroDe
  <2>2. CASE Despacha
    BY <1>0, <2>2 DEF Despacha
  <2>3. CASE VuelveInterrumpido
    <3>1. PICK r \in recibirPaquete(redDispatch) :
             estado_ready' = estado_ready \union {TrasInterrupcion(deserializarPCB(r.stream, 0))}
      BY <2>3 DEF VuelveInterrumpido
    <3>2. LlevaPCB(redDispatch, CodigosPCB)
      BY <2>3, VueltaDeLaCPU DEF VuelveInterrumpido, LlegaCon
    <3>3. deserializarPCB(r.stream, 0) \in PCB
      BY <3>2, RecibePCB
    <3> QED  BY <1>0, <3>1, <3>3, TrasLaRafaga
  <2>4. CASE TerminaIO
    <3>1. PICK io \in estado_blocked : estado_ready' = estado_ready \union {io.pcb}
      BY <2>4 DEF TerminaIO
    <3>2. io.pcb \in PCB
      BY <1>0 DEF TIO
    <3> QED  BY <1>0, <3>1, <3>2
  <2> QED  BY <1>0, <2>1, <2>2, <2>3, <2>4, QuienCambia
<1>6. estado_blocked' \subseteq TIO
  <2>1. CASE VuelveIO
    <3>1. PICK r \in recibirPaquete(redDispatch) :
             estado_blocked' = estado_blocked \union {[deserializarIO(r.stream) EXCEPT !.pcb =
                 TrasIO(@)]}
      BY <2>1 DEF VuelveIO
    <3>2. LlevaIO(redDispatch)
      BY <2>1, VueltaDeLaCPU DEF VuelveIO, LlegaCon
    <3> DEFINE io == deserializarIO(r.stream)
    <3>3. io \in TIO
      BY <3>2, RecibeIO
    <3> HIDE DEF io
    <3>4. TrasIO(io.pcb) \in PCB
      BY <3>3, TrasLaRafaga DEF TIO
    <3>5. [io EXCEPT !.pcb = TrasIO(@)] \in TIO
      BY <3>3, <3>4 DEF TIO
    <3> QED  BY <1>0, <3>1, <3>5 DEF io
  <2>2. CASE TerminaIO
    BY <1>0, <2>2 DEF TerminaIO
  <2> QED  BY <1>0, <2>1, <2>2, QuienCambia
<1> QED  BY <1>1, <1>2, <1>3, <1>4, <1>5, <1>6 DEF TiposKernel

\* A list with one more at its end, whatever it holds.
LEMMA SecuenciaAgrega ==
    ASSUME NEW s, EsSecuencia(s), NEW e
    PROVE  /\ EsSecuencia(Append(s, e)) /\ Len(s) \in Nat /\ DOMAIN s = 1..Len(s)
           /\ Len(Append(s, e)) = Len(s) + 1
           /\ \A k \in 1..Len(s) : Append(s, e)[k] = s[k]
           /\ Append(s, e)[Len(s) + 1] = e
<1> DEFINE R == {s[k] : k \in DOMAIN s}
           T == R \union {e}
           a == Append(s, e)
           n == Len(s)
<1>0. s \in Seq(R)
  BY DEF EsSecuencia
<1>1. R \subseteq T /\ e \in T
  OBVIOUS
<1> HIDE DEF R, T
<1>2. s \in Seq(T)
  BY <1>0, <1>1, SeqMonotona, Zenon
<1>3. /\ a \in Seq(T) /\ Len(a) = n + 1 /\ n \in Nat /\ DOMAIN s = 1..n
      /\ \A k \in 1..n : a[k] = s[k]
      /\ a[n + 1] = e
  <2>1. n \in Nat /\ DOMAIN s = 1..n
    BY <1>2, LenProperties, Zenon
  <2>2. /\ a \in Seq(T) /\ Len(a) = n + 1 /\ a[n + 1] = e
        /\ \A k \in 1..n : a[k] = s[k]
    BY <1>1, <1>2, AppendProperties
  <2> QED  BY <2>1, <2>2
<1> HIDE DEF a, n
<1>4. EsSecuencia(a)
  <2> DEFINE m == Len(a)
             U == {a[k] : k \in DOMAIN a}
  <2>1. m \in Nat /\ a = [k \in 1..m |-> a[k]] /\ \A k \in 1..m : a[k] \in U
    BY <1>3
  <2> HIDE DEF m, U
  <2>2. a \in Seq(U)
    BY <2>1
  <2> QED  BY <2>2 DEF EsSecuencia, U
<1> QED  BY <1>3, <1>4 DEF a, n

\* A list without its head, whatever it holds.
LEMMA SecuenciaSaca ==
    ASSUME NEW s, EsSecuencia(s), s # <<>>
    PROVE  /\ EsSecuencia(Tail(s)) /\ Len(s) \in Nat /\ Len(s) >= 1 /\ DOMAIN s = 1..Len(s)
           /\ Head(s) = s[1]
           /\ Len(Tail(s)) = Len(s) - 1
           /\ \A k \in 1..Len(s)-1 : Tail(s)[k] = s[k + 1]
<1> DEFINE R == {s[k] : k \in DOMAIN s}
           a == Tail(s)
           n == Len(s)
<1>0. s \in Seq(R)
  BY DEF EsSecuencia
<1> HIDE DEF R
<1>1. /\ a \in Seq(R) /\ Len(a) = n - 1 /\ n \in Nat \ {0} /\ DOMAIN s = 1..n
      /\ \A k \in 1..Len(a) : a[k] = s[k + 1]
  BY <1>0, HeadTailProperties, LenProperties, EmptySeq, Zenon
<1>2. Head(s) = s[1]
  BY <1>0
<1> HIDE DEF a, n
<1>4. EsSecuencia(a)
  <2> DEFINE m == Len(a)
             U == {a[k] : k \in DOMAIN a}
  <2>1. m \in Nat /\ a = [k \in 1..m |-> a[k]] /\ \A k \in 1..m : a[k] \in U
    BY <1>1
  <2> HIDE DEF m, U
  <2>2. a \in Seq(U)
    BY <2>1
  <2> QED  BY <2>2 DEF EsSecuencia, U
<1> QED  BY <1>1, <1>2, <1>4 DEF a, n

\* What the Kernel asks of Memoria.
CodigosCola == {"REQ_CREAR_PROCESO", "REQ_FIN_PROCESO"}

\* The queue of requests holds PCBs, and one creation at most, that of the PCB whose
\* answer the Kernel waits for (planificador.c:33-60, 245-262).
LEMMA PasoCola ==
    ASSUME InvTipos, [Next]_vars PROVE Cola'
<1> DEFINE n == Len(colaKernel)
           Crear(k) == colaKernel[k].codigo = "REQ_CREAR_PROCESO"
<1>0. /\ EsSecuencia(colaKernel) /\ Len(colaKernel) \in Nat
      /\ \A k \in 1..Len(colaKernel) : LlevaPCB(colaKernel[k], CodigosCola)
      /\ \A k \in 1..Len(colaKernel) : colaKernel[k].codigo = "REQ_CREAR_PROCESO" =>
             /\ creando # NULO /\ redCrear = NULO /\ PcbDe(colaKernel[k]) = creando
             /\ \A j \in 1..Len(colaKernel) : colaKernel[j].codigo = "REQ_CREAR_PROCESO" => j = k
      /\ redCrear # NULO => creando # NULO /\ LlevaNumero(redCrear, {"RES_CREAR_PROCESO"})
  BY SecuenciaAgrega DEF InvTipos, Cola, CodigosCola
<1> SUFFICES /\ EsSecuencia(colaKernel)'
             /\ \A k \in 1..Len(colaKernel') : LlevaPCB(colaKernel'[k], CodigosCola)
             /\ \A k \in 1..Len(colaKernel') : colaKernel'[k].codigo = "REQ_CREAR_PROCESO" =>
                  /\ creando' # NULO /\ redCrear' = NULO /\ PcbDe(colaKernel'[k]) = creando'
                  /\ \A j \in 1..Len(colaKernel') : colaKernel'[j].codigo = "REQ_CREAR_PROCESO" =>
                       j = k
             /\ redCrear' # NULO => creando' # NULO /\ LlevaNumero(redCrear', {"RES_CREAR_PROCESO"})
  BY DEF Cola, CodigosCola, EsSecuencia
<1>1. CASE UNCHANGED <<colaKernel, creando, redCrear>>
  BY <1>0, <1>1 DEF EsSecuencia
<1>2. CASE PideCrear
  <2> DEFINE p == Head(estado_new)
             e == armarPaqueteCon(p, "REQ_CREAR_PROCESO")
  <2>1. creando = NULO /\ creando' = p /\ colaKernel' = Append(colaKernel, e)
        /\ redCrear' = redCrear
    BY <1>2 DEF PideCrear
  <2>2. p \in PCB /\ p # NULO
    BY <1>2, HeadTailProperties, NuloAssumption, Zenon DEF PideCrear, InvTipos, TiposKernel
  <2>3. LlevaPCB(e, CodigosCola) /\ e.codigo = "REQ_CREAR_PROCESO" /\ PcbDe(e) = p
    BY <2>2, LlevanLoArmado, ArmaPCB DEF CodigosCola, CodigosPCB
  <2> HIDE DEF e, p
  <2>4. /\ EsSecuencia(colaKernel') /\ Len(colaKernel') = n + 1
        /\ \A k \in 1..n : colaKernel'[k] = colaKernel[k]
        /\ colaKernel'[n + 1] = e
    BY <1>0, <2>1, SecuenciaAgrega
  <2>5. \A k \in 1..n : ~Crear(k)
    BY <1>0, <2>1
  <2>6. \A k \in 1..n+1 : k \in 1..n \/ k = n + 1
    BY <1>0
  <2> HIDE DEF n
  <2>7. redCrear = NULO
    BY <1>0, <2>1
  <2>8. \A k \in 1..Len(colaKernel') : LlevaPCB(colaKernel'[k], CodigosCola)
    BY <1>0, <2>3, <2>4, <2>6 DEF n
  <2>9. \A k \in 1..Len(colaKernel') : colaKernel'[k].codigo = "REQ_CREAR_PROCESO" => k = n + 1
    BY <2>4, <2>5, <2>6
  <2> QED  BY <2>1, <2>2, <2>3, <2>4, <2>7, <2>8, <2>9 DEF EsSecuencia
<1>3. CASE RecibeTabla
  BY <1>0, <1>3 DEF RecibeTabla, EsSecuencia
<1>4. CASE VuelveExit
  <2>1. PICK r \in recibirPaquete(redDispatch) :
            colaKernel' = Append(colaKernel, armarPaqueteCon(deserializarPCB(r.stream, 0),
                "REQ_FIN_PROCESO"))
    BY <1>4 DEF VuelveExit
  <2> DEFINE p == deserializarPCB(r.stream, 0)
             e == armarPaqueteCon(p, "REQ_FIN_PROCESO")
  <2>2. p \in PCB
    <3>1. redDispatch # NULO /\ redDispatch.codigo = "PCB_EJECUTADO_EXIT"
      BY <1>4 DEF VuelveExit, LlegaCon
    <3> QED  BY <3>1, VueltaDeLaCPU, RecibePCB
  <2> HIDE DEF p
  <2>3. LlevaPCB(e, CodigosCola) /\ e.codigo = "REQ_FIN_PROCESO"
    BY <2>2, LlevanLoArmado, ArmaPCB DEF CodigosCola, CodigosPCB
  <2>4. UNCHANGED <<creando, redCrear>> /\ colaKernel' = Append(colaKernel, e)
    BY <1>4, <2>1 DEF VuelveExit, p
  <2> HIDE DEF e
  <2>5. /\ EsSecuencia(colaKernel') /\ Len(colaKernel') = n + 1
        /\ \A k \in 1..n : colaKernel'[k] = colaKernel[k]
        /\ colaKernel'[n + 1] = e
    BY <1>0, <2>4, SecuenciaAgrega
  <2>6. \A k \in 1..n+1 : k \in 1..n \/ k = n + 1
    BY <1>0
  <2> HIDE DEF n
  <2>7. \A k \in 1..Len(colaKernel') : LlevaPCB(colaKernel'[k], CodigosCola)
    BY <1>0, <2>3, <2>5, <2>6 DEF n
  <2>8. \A k \in 1..Len(colaKernel') : colaKernel'[k].codigo = "REQ_CREAR_PROCESO" => k \in 1..n
        /\ colaKernel'[k] = colaKernel[k]
    BY <2>3, <2>5, <2>6
  <2> QED  BY <1>0, <2>4, <2>5, <2>7, <2>8 DEF EsSecuencia, n
<1>5. CASE CrearProceso \/ FinProceso
  <2>1. colaKernel # <<>> /\ colaKernel' = Tail(colaKernel) /\ creando' = creando
    BY <1>5 DEF CrearProceso, FinProceso, varsKernel
  <2>2. /\ EsSecuencia(colaKernel') /\ n \in Nat /\ n >= 1 /\ Len(colaKernel') = n - 1
        /\ \A k \in 1..n-1 : colaKernel'[k] = colaKernel[k + 1]
        /\ Head(colaKernel) = colaKernel[1]
    BY <1>0, <2>1, SecuenciaSaca
  <2>3. \A k \in 1..Len(colaKernel') : k \in 1..n-1 /\ k + 1 \in 1..n /\ k + 1 # 1
    BY <2>2
  <2> HIDE DEF n
  <2>4. \A k \in 1..Len(colaKernel') : LlevaPCB(colaKernel'[k], CodigosCola)
    BY <1>0, <2>2, <2>3 DEF n
  <2>5. CASE FinProceso
    <3>1. redCrear' = redCrear
      BY <2>5 DEF FinProceso
    <3>2. ASSUME NEW k \in 1..Len(colaKernel'), colaKernel'[k].codigo = "REQ_CREAR_PROCESO"
          PROVE  /\ creando # NULO /\ redCrear = NULO /\ PcbDe(colaKernel'[k]) = creando
                 /\ \A j \in 1..Len(colaKernel') : colaKernel'[j].codigo = "REQ_CREAR_PROCESO" =>
                      j = k
      <4>1. k + 1 \in 1..Len(colaKernel) /\ colaKernel'[k] = colaKernel[k + 1]
        BY <2>2, <2>3 DEF n
      <4>2. \A j \in 1..Len(colaKernel') : colaKernel'[j].codigo = "REQ_CREAR_PROCESO" =>
                j + 1 = k + 1
        BY <1>0, <2>2, <2>3, <3>2, <4>1 DEF n
      <4>3. \A j \in 1..Len(colaKernel') : j + 1 = k + 1 => j = k
        OBVIOUS
      <4>4. /\ creando # NULO /\ redCrear = NULO /\ PcbDe(colaKernel'[k]) = creando
        BY <1>0, <3>2, <4>1
      <4> QED  BY <4>2, <4>3, <4>4
    <3> QED  BY <1>0, <2>1, <2>2, <2>4, <3>1, <3>2 DEF EsSecuencia
  <2>6. CASE CrearProceso
    <3>1. /\ colaKernel[1].codigo = "REQ_CREAR_PROCESO"
          /\ redCrear' = armarPaqueteCon(Len(tablasPrimerNivel), "RES_CREAR_PROCESO")
      BY <2>2, <2>6 DEF CrearProceso
    <3>2. 1 \in 1..Len(colaKernel)
      BY <2>2 DEF n
    <3>3. \A k \in 1..Len(colaKernel') : colaKernel'[k].codigo # "REQ_CREAR_PROCESO"
      BY <1>0, <2>2, <2>3, <3>1, <3>2 DEF n
    <3>4. creando # NULO
      BY <1>0, <3>1, <3>2
    <3>5. Len(tablasPrimerNivel) \in Int
      BY LenProperties DEF InvTipos, TiposMemoria
    <3>6. LlevaNumero(redCrear', {"RES_CREAR_PROCESO"})
      BY <3>1, <3>5, LlevanLoArmado DEF CodigosUINT32
    <3> QED  BY <2>1, <2>2, <2>4, <3>3, <3>4, <3>6 DEF EsSecuencia
  <2> QED  BY <1>5, <2>5, <2>6
<1> QED  BY <1>1, <1>2, <1>3, <1>4, <1>5, QuienCambia, Zenon

\* The numbers of pages, tables and entries are naturals.
LEMMA Medidas ==
    ASSUME NEW tamanio \in Nat
    PROVE  /\ marcosProceso(tamanio) \in Nat /\ Tablas(marcosProceso(tamanio)) \in Nat
           /\ \A t \in Nat \ {0} : Entradas(marcosProceso(tamanio), t) \in Nat
           /\ \A t, j \in Nat \ {0} : ID_EN_SWAP(t, j) \in Nat
<1> DEFINE E == ENTRADAS_POR_TABLA
           m == marcosProceso(tamanio)
<1>1. E \in Nat \ {0} /\ TAM_PAGINA \in Nat \ {0}
  BY TablasAssumption
<1>2. m \in Nat
  <2>1. tamanio + TAM_PAGINA - 1 \in Nat
    BY <1>1
  <2> QED  BY <1>1, <2>1, Division DEF marcosProceso
<1> HIDE DEF m
<1>3. m \div E \in Nat /\ m % E \in Nat
  BY <1>1, <1>2
<1>4. \A t, j \in Nat \ {0} : (t - 1) * E + j - 1 \in Nat
  <2> TAKE t \in Nat \ {0}, j \in Nat \ {0}
  <2>1. (t - 1) * E \in Nat
    BY <1>1
  <2> QED  BY <2>1
<1> QED  BY <1>1, <1>2, <1>3, <1>4 DEF Tablas, Entradas, ID_EN_SWAP, m

\* The process whose tables are made is the one that the Kernel waits for.
LEMMA CreaLasDeCreando ==
    ASSUME InvTipos, CrearProceso
    PROVE  /\ creando \in PCB
           /\ colaKernel # <<>> /\ 1 \in 1..Len(colaKernel)
                /\ colaKernel[1].codigo = "REQ_CREAR_PROCESO"
           /\ crearTablas(creando.id, creando.tamanioProceso)
           /\ swap' = swap \union {[id |-> creando.id,
                                    tamanio |-> marcosProceso(creando.tamanioProceso) * TAM_PAGINA]}
<1>1. colaKernel # <<>> /\ Head(colaKernel).codigo = "REQ_CREAR_PROCESO" /\ EsSecuencia(colaKernel)
  BY DEF CrearProceso, InvTipos, Cola
<1>2. Head(colaKernel) = colaKernel[1] /\ 1 \in 1..Len(colaKernel)
  BY <1>1, SecuenciaSaca
<1>3. LlevaPCB(Head(colaKernel), CodigosPCB) /\ PcbDe(Head(colaKernel)) = creando
  BY <1>1, <1>2 DEF InvTipos, Cola, LlevaPCB, CodigosPCB
<1>4. PICK r \in recibirPaquete(Head(colaKernel)) :
        LET p == deserializarPCB(r.stream, 0) IN
          /\ crearTablas(p.id, p.tamanioProceso)
          /\ swap' = swap \union
                {[id |-> p.id, tamanio |-> marcosProceso(p.tamanioProceso) * TAM_PAGINA]}
  BY DEF CrearProceso
<1> DEFINE p == deserializarPCB(r.stream, 0)
<1>5. p.id = creando.id /\ p.tamanioProceso = creando.tamanioProceso
  BY <1>3, RecibePCB
<1>6. creando \in PCB
  BY <1>3 DEF LlevaPCB
<1>7. /\ crearTablas(p.id, p.tamanioProceso)
      /\ swap' = swap \union {[id |-> p.id,
           tamanio |-> marcosProceso(p.tamanioProceso) * TAM_PAGINA]}
  BY <1>4
<1> HIDE DEF p
<1> QED  BY <1>1, <1>2, <1>5, <1>6, <1>7

\* Memoria forgets the swap file of the process in the request at the head.
LEMMA BorraElDeLaCabeza ==
    ASSUME InvTipos, FinProceso
    PROVE  /\ colaKernel # <<>> /\ 1 \in 1..Len(colaKernel)
                /\ colaKernel[1].codigo = "REQ_FIN_PROCESO"
           /\ swap' = {f \in swap : f.id # PcbDe(colaKernel[1]).id}
<1>1. colaKernel # <<>> /\ Head(colaKernel).codigo = "REQ_FIN_PROCESO" /\ EsSecuencia(colaKernel)
  BY DEF FinProceso, InvTipos, Cola
<1>2. Head(colaKernel) = colaKernel[1] /\ 1 \in 1..Len(colaKernel)
  BY <1>1, SecuenciaSaca
<1>3. LlevaPCB(Head(colaKernel), CodigosPCB)
  BY <1>1, <1>2 DEF InvTipos, Cola, LlevaPCB, CodigosPCB
<1>4. PICK r \in recibirPaquete(Head(colaKernel)) : swap' =
          {f \in swap : f.id # deserializarPCB(r.stream, 0).id}
  BY DEF FinProceso
<1>5. deserializarPCB(r.stream, 0).id = PcbDe(Head(colaKernel)).id
  BY <1>3, RecibePCB
<1> QED  BY <1>1, <1>2, <1>4, <1>5

\* The tables that are appended.
TablasNuevas(id, tamanio) ==
    [t \in 1..Tablas(marcosProceso(tamanio)) |->
        [j \in 1..Entradas(marcosProceso(tamanio), t) |-> [id |-> id, paginaSwap |-> ID_EN_SWAP(t,
            j)]]]
\* The first level table of a process that is created.
TablaNueva(id, tamanio, desde) ==
    [t \in 1..Tablas(marcosProceso(tamanio)) |-> [id |-> id, tablaSegundoNivel |-> desde + t - 1]]

\* The tables of a process that is created are tables, as many as its pages need.
LEMMA TablasNuevasTipo ==
    ASSUME NEW id \in Nat, NEW tamanio \in Nat, NEW desde \in Nat
    PROVE  /\ TablasNuevas(id, tamanio) \in Seq(Seq([id : Nat, paginaSwap : Nat]))
           /\ Len(TablasNuevas(id, tamanio)) = Tablas(marcosProceso(tamanio))
           /\ TablaNueva(id, tamanio, desde) \in Seq([id : Nat, tablaSegundoNivel : Nat])
<1> DEFINE m == marcosProceso(tamanio)
           n == Tablas(m)
           R == [id : Nat, paginaSwap : Nat]
           e(t) == [j \in 1..Entradas(m, t) |-> [id |-> id, paginaSwap |-> ID_EN_SWAP(t, j)]]
<1>1. n \in Nat /\ (\A t \in Nat \ {0} : Entradas(m, t) \in Nat)
      /\ (\A t, j \in Nat \ {0} : ID_EN_SWAP(t, j) \in Nat)
  BY Medidas
<1>2. TablasNuevas(id, tamanio) = [t \in 1..n |-> e(t)]
  BY DEF TablasNuevas
<1>3. TablaNueva(id, tamanio, desde) =
          [t \in 1..n |-> [id |-> id, tablaSegundoNivel |-> desde + t - 1]]
  BY DEF TablaNueva
<1> HIDE DEF n, m
<1>4. ASSUME NEW t \in 1..n PROVE e(t) \in Seq(R)
  <2> DEFINE k == Entradas(m, t)
  <2>1. t \in Nat \ {0} /\ k \in Nat
    BY <1>1
  <2>2. \A j \in 1..k : [id |-> id, paginaSwap |-> ID_EN_SWAP(t, j)] \in R
    BY <1>1, <2>1
  <2>3. e(t) = [j \in 1..k |-> [id |-> id, paginaSwap |-> ID_EN_SWAP(t, j)]]
    OBVIOUS
  <2> HIDE DEF R, k, e
  <2> QED  BY <2>1, <2>2, <2>3
<1> HIDE DEF R, e
<1>5. [t \in 1..n |-> e(t)] \in Seq(Seq(R)) /\ Len([t \in 1..n |-> e(t)]) = n
  BY <1>1, <1>4
<1>6. [t \in 1..n |-> [id |-> id, tablaSegundoNivel |-> desde + t - 1]] \in Seq([id : Nat,
          tablaSegundoNivel : Nat])
  <2>1. \A t \in 1..n : desde + t - 1 \in Nat
    BY <1>1
  <2> QED  BY <1>1, <2>1
<1> QED  BY <1>2, <1>3, <1>5, <1>6 DEF R, n, m

\* A creation appends the tables of the process at the end of both lists
\* (memoria.c:96-175).
LEMMA CreaTablas ==
    ASSUME InvTipos, CrearProceso
    PROVE  /\ tablasSegundoNivel' = tablasSegundoNivel \o TablasNuevas(creando.id,
                creando.tamanioProceso)
           /\ tablasPrimerNivel' = Append(tablasPrimerNivel,
                  TablaNueva(creando.id, creando.tamanioProceso, Len(tablasSegundoNivel)))
<1>1. crearTablas(creando.id, creando.tamanioProceso)
  BY CreaLasDeCreando
<1> QED  BY <1>1 DEF crearTablas, TablasNuevas, TablaNueva

\* Memoria keeps lists of tables.
LEMMA PasoMemoria ==
    ASSUME InvTipos, [Next]_vars PROVE TiposMemoria'
<1> DEFINE T1 == Seq([id : Nat, tablaSegundoNivel : Nat])
           T2 == Seq([id : Nat, paginaSwap : Nat])
<1>0. tablasPrimerNivel \in Seq(T1) /\ tablasSegundoNivel \in Seq(T2)
      /\ swap \subseteq [id : Nat, tamanio : Nat]
  BY DEF InvTipos, TiposMemoria
<1>1. CASE UNCHANGED <<tablasPrimerNivel, tablasSegundoNivel, swap>>
  BY <1>1 DEF InvTipos, TiposMemoria
<1>2. CASE FinProceso
  <2>1. swap' \subseteq swap
    BY <1>2, BorraElDeLaCabeza
  <2>2. UNCHANGED <<tablasPrimerNivel, tablasSegundoNivel>>
    BY <1>2 DEF FinProceso, varsTablas
  <2> QED  BY <1>0, <2>1, <2>2 DEF TiposMemoria
<1>3. CASE CrearProceso
  <2>1. creando \in PCB
    BY <1>3, CreaLasDeCreando
  <2> DEFINE id == creando.id
             tam == creando.tamanioProceso
             desde == Len(tablasSegundoNivel)
             n2 == TablasNuevas(id, tam)
             n1 == TablaNueva(id, tam, desde)
  <2>2. id \in Nat /\ tam \in Nat /\ marcosProceso(tam) \in Nat /\ desde \in Nat
    BY <1>0, <2>1, Medidas, LenProperties DEF PCB
  <2>3. n2 \in Seq(T2) /\ n1 \in T1
    BY <2>2, TablasNuevasTipo
  <2>4. /\ tablasSegundoNivel' = tablasSegundoNivel \o n2
        /\ tablasPrimerNivel' = Append(tablasPrimerNivel, n1)
    BY <1>3, CreaTablas
  <2>5. swap' = swap \union {[id |-> id, tamanio |-> marcosProceso(tam) * TAM_PAGINA]}
    BY <1>3, CreaLasDeCreando
  <2> HIDE DEF T1, T2, n1, n2
  <2>6. tablasSegundoNivel' \in Seq(T2) /\ tablasPrimerNivel' \in Seq(T1)
    BY <1>0, <2>3, <2>4, ConcatProperties, AppendProperties, Zenon
  <2>7. marcosProceso(tam) * TAM_PAGINA \in Nat
    BY <2>2, TablasAssumption
  <2>8. swap' \subseteq [id : Nat, tamanio : Nat]
    BY <1>0, <2>2, <2>5, <2>7
  <2> QED  BY <2>6, <2>8 DEF TiposMemoria, T1, T2
<1> QED  BY <1>1, <1>2, <1>3, QuienCambia, Zenon

-----------------------------------------------------------------------------
(* The CPU *)

\* An executable instruction has its parameters, and it asks for a list of accesses.
LEMMA AccesosTipo ==
    ASSUME NEW p \in PCB, Ejecutable(p)
    PROVE  /\ fetch(p) \in [identificador : Identificadores \union {BASURA}, parametro1 : Nat,
                parametro2 : Nat]
           /\ AccesosDe(fetch(p)) \in Seq(ACCESO)
<1> DEFINE i == fetch(p)
<1>1. i \in INSTR
  <2>1. p.instrucciones \in Seq(INSTR) /\ p.PC + 1 \in 1..Len(p.instrucciones)
    BY DEF Ejecutable, PCB
  <2> QED  BY <2>1, ElementOfSeq, Zenon DEF fetch
<1>2. \A campo \in DOMAIN i : i[campo] # BASURA
  BY DEF Ejecutable
<1> HIDE DEF i
<1>3. i \in [identificador : Identificadores \union {BASURA}, parametro1 : Nat, parametro2 : Nat]
  BY <1>1, <1>2 DEF INSTR
<1>4. /\ Lectura(i.parametro1) \in ACCESO /\ Lectura(i.parametro2) \in ACCESO
      /\ Escritura(i.parametro1) \in ACCESO
  BY <1>3 DEF Lectura, Escritura, ACCESO
<1> HIDE DEF ACCESO
<1>5. AccesosDe(i) \in Seq(ACCESO)
  BY <1>4 DEF AccesosDe
<1> QED  BY <1>3, <1>5 DEF i

\* What the CPU knows when it is executing.
LEMMA EnEjecucion ==
    ASSUME InvTipos, cpu.fase \in ConPcb
    PROVE  /\ cpu.pcb \in PCB /\ redDispatch.codigo = "REQ_PCB_A_EJECUTAR"
           /\ cpu.traduccion = TAMANIOS
           /\ cpu.fase \in Ejecuta => Ejecutable(cpu.pcb)
  BY DEF InvTipos, TiposCPU, Dispatch, ConPcb, Ejecuta

\* The answer that the CPU reads in each phase is the one of its question.
LEMMA RespuestaDeMemoria ==
    ASSUME InvTipos
    PROVE  /\ cpu.fase = "traduccion" /\ LlegaCon(redMemoria, {"RES_TRADUCCION_DIRECCIONES"})
                => deserializarTraduccion(redMemoria.stream) = TAMANIOS
           /\ cpu.fase = "tabla" /\ LlegaCon(redMemoria, {"RES_TABLA_SEGUNDO_NIVEL"})
                => LlevaNumero(redMemoria, {"RES_TABLA_SEGUNDO_NIVEL"})
           /\ cpu.fase = "marco" /\ LlegaCon(redMemoria, {"RES_MARCO"}) =>
                LlevaNumero(redMemoria, {"RES_MARCO"})
           /\ cpu.fase = "dato" /\ LlegaCon(redMemoria, {"RES_READ", "RES_WRITE"})
                => LlevaNumero(redMemoria, {"RES_READ", "RES_WRITE"})
           /\ cpu.fase \in {"tabla", "marco", "dato"} =>
                /\ cpu.accesos # <<>> /\ Head(cpu.accesos) \in ACCESO
                     /\ Tail(cpu.accesos) \in Seq(ACCESO)
<1>1. cpu.accesos # <<>> => Head(cpu.accesos) \in ACCESO /\ Tail(cpu.accesos) \in Seq(ACCESO)
  <2>1. cpu.accesos \in Seq(ACCESO)
    BY DEF InvTipos, TiposCPU, REGISTROS
  <2> QED  BY <2>1, HeadTailProperties, Zenon
<1>2. cpu.fase \in {"tabla", "marco", "dato"} => cpu.accesos # <<>>
  BY DEF InvTipos, TiposCPU
<1>3. /\ cpu.fase = "traduccion" => EnTraduccion
      /\ cpu.fase = "tabla" => EnTabla
      /\ cpu.fase = "marco" => EnMarco
      /\ cpu.fase = "dato" => EnDato
  BY DEF InvTipos, Consultas
<1>4. ASSUME cpu.fase = "traduccion", LlegaCon(redMemoria, {"RES_TRADUCCION_DIRECCIONES"})
      PROVE deserializarTraduccion(redMemoria.stream) = TAMANIOS
  <2>1. redMemoria.codigo = "RES_TRADUCCION_DIRECCIONES"
    BY <1>4 DEF LlegaCon
  <2>2. redMemoria = armarPaqueteCon(TAMANIOS, "RES_TRADUCCION_DIRECCIONES")
    BY <1>3, <1>4, <2>1, ArmaSaludo DEF EnTraduccion
  <2>3. deserializarTraduccion(redMemoria.stream) = [tamanio_pagina |-> TAMANIOS.tamanio_pagina,
            paginas_por_tabla |-> TAMANIOS.paginas_por_tabla]
    BY <2>2, ArmaFijo
  <2> QED  BY <2>3 DEF TAMANIOS
<1>5. ASSUME cpu.fase = "tabla", LlegaCon(redMemoria, {"RES_TABLA_SEGUNDO_NIVEL"})
      PROVE LlevaNumero(redMemoria, {"RES_TABLA_SEGUNDO_NIVEL"})
  <2>1. redMemoria.codigo = "RES_TABLA_SEGUNDO_NIVEL"
    BY <1>5 DEF LlegaCon
  <2>2. \A e : armarPaqueteCon(e, "REQ_TABLA_SEGUNDO_NIVEL").codigo = "REQ_TABLA_SEGUNDO_NIVEL"
    BY Armado
  <2> QED  BY <1>3, <1>5, <2>1, <2>2, Zenon DEF EnTabla
<1>6. ASSUME cpu.fase = "marco", LlegaCon(redMemoria, {"RES_MARCO"})
      PROVE LlevaNumero(redMemoria, {"RES_MARCO"})
  <2>1. redMemoria.codigo = "RES_MARCO"
    BY <1>6 DEF LlegaCon
  <2>2. Head(cpu.accesos).codigo \in {"REQ_MARCO_LECTURA", "REQ_MARCO_ESCRITURA"}
    BY <1>1, <1>2, <1>6 DEF ACCESO
  <2>3. \A e : armarPaqueteCon(e, Head(cpu.accesos).codigo).codigo = Head(cpu.accesos).codigo
    BY Armado
  <2>4. Head(cpu.accesos).codigo # "RES_MARCO"
    BY <2>2
  <2> QED  BY <1>3, <1>6, <2>1, <2>3, <2>4, Zenon DEF EnMarco
<1>7. ASSUME cpu.fase = "dato", LlegaCon(redMemoria, {"RES_READ", "RES_WRITE"})
      PROVE LlevaNumero(redMemoria, {"RES_READ", "RES_WRITE"})
  <2>1. redMemoria.codigo \in {"RES_READ", "RES_WRITE"}
    BY <1>7 DEF LlegaCon
  <2>2. (\A e : armarPaqueteCon(e, "REQ_READ").codigo = "REQ_READ")
        /\ (\A e : armarPaqueteCon(e, "REQ_WRITE").codigo = "REQ_WRITE")
    BY Armado
  <2>3. redMemoria.codigo # "REQ_READ" /\ redMemoria.codigo # "REQ_WRITE"
    BY <2>1
  <2> QED  BY <1>3, <1>7, <2>2, <2>3, Zenon DEF EnDato
<1> QED  BY <1>1, <1>2, <1>4, <1>5, <1>6, <1>7

\* The CPU executes only what is executable, with the sizes that Memoria told it.
LEMMA PasoCPU ==
    ASSUME InvTipos, [Next]_vars PROVE TiposCPU'
<1> DEFINE P == PCB \union {NULO}
           S == Seq(ACCESO)
<1>0. /\ cpu \in REGISTROS
      /\ cpu.fase \notin {"inicio", "traduccion"} => cpu.traduccion = TAMANIOS
      /\ cpu.fase \in Ejecuta => Ejecutable(cpu.pcb)
      /\ cpu.fase \in {"tabla", "marco", "dato"} => cpu.accesos # <<>>
      /\ REGISTROS = [fase : FASES, traduccion : {NULO, TAMANIOS}, pcb : P, PC_inicial : Nat,
           accesos : S, marco : Int, dato : Int]
  BY DEF InvTipos, TiposCPU, REGISTROS
<1>0a. <<>> \in S
  BY EmptySeq, Zenon
<1>0b. NULO \in P
  OBVIOUS
<1> USE DEF FASES, Ejecuta, TiposCPU
<1>1. CASE UNCHANGED cpu
  BY <1>0, <1>1 DEF Ejecutable, fetch
<1>2. CASE PideTraduccion
  <2> HIDE DEF P, S
  <2> QED  BY <1>0, <1>2 DEF PideTraduccion
<1>3. CASE RecibeTraduccion
  <2>1. cpu' = [cpu EXCEPT !.fase = "ocioso", !.traduccion = TAMANIOS]
    BY <1>3, RespuestaDeMemoria DEF RecibeTraduccion
  <2> HIDE DEF P, S
  <2> QED  BY <1>0, <2>1
<1>4. CASE RecibePcb
  <2>1. PICK r \in recibirPaquete(redDispatch) :
          cpu' = [cpu EXCEPT !.fase = "fetch", !.pcb = deserializarPCB(r.stream, 0), !.PC_inicial =
              deserializarPCB(r.stream, 0).PC]
    BY <1>4 DEF RecibePcb
  <2> DEFINE p == deserializarPCB(r.stream, 0)
  <2>2. p \in PCB
    <3>1. LlevaPCB(redDispatch, CodigosPCB)
      BY <1>4, EnVuelo DEF RecibePcb, LlegaCon
    <3> QED  BY <3>1, RecibePCB
  <2>3. cpu' = [cpu EXCEPT !.fase = "fetch", !.pcb = p, !.PC_inicial = p.PC] /\ cpu.fase = "ocioso"
    BY <1>4, <2>1 DEF RecibePcb
  <2> HIDE DEF p
  <2>4. p \in P /\ p.PC \in Nat
    BY <2>2 DEF PCB
  <2> HIDE DEF P, S
  <2> QED  BY <1>0, <2>3, <2>4
<1>5. CASE Fetch
  <2>1. CASE Ejecutable(cpu.pcb)
        /\ cpu' = [cpu EXCEPT !.fase = "execute", !.accesos = AccesosDe(fetch(cpu.pcb))]
    <3>1. cpu.pcb \in PCB /\ cpu.fase = "fetch"
      BY <1>5, EnEjecucion DEF Fetch, ConPcb
    <3> DEFINE a == AccesosDe(fetch(cpu.pcb))
    <3>2. a \in S
      BY <2>1, <3>1, AccesosTipo
    <3>3. cpu' = [cpu EXCEPT !.fase = "execute", !.accesos = a]
      BY <2>1
    <3> HIDE DEF P, S, a
    <3>4. cpu' \in REGISTROS /\ cpu'.fase = "execute" /\ cpu'.pcb = cpu.pcb
          /\ cpu'.traduccion = cpu.traduccion
      BY <1>0, <3>2, <3>3
    <3>5. Ejecutable(cpu.pcb)'
      BY <2>1, <3>4 DEF Ejecutable, fetch
    <3> QED  BY <1>0, <3>1, <3>4, <3>5
  <2>2. CASE cpu' = [cpu EXCEPT !.fase = "caida"]
    <3> HIDE DEF P, S
    <3> QED  BY <1>0, <1>5, <2>2 DEF Fetch
  <2> QED  BY <1>5, <2>1, <2>2 DEF Fetch
<1>6. CASE ConsultaTabla \/ ConsultaMarco
  <2>1. PICK f \in {"tabla", "marco"} : cpu' = [cpu EXCEPT !.fase = f]
    BY <1>6 DEF ConsultaTabla, ConsultaMarco
  <2>2. cpu.fase \in {"execute", "tabla"} /\ cpu.accesos # <<>>
    BY <1>0, <1>6 DEF ConsultaTabla, ConsultaMarco
  <2> HIDE DEF P, S
  <2>3. /\ cpu' \in REGISTROS /\ cpu'.fase \in Ejecuta /\ cpu'.pcb = cpu.pcb
             /\ cpu'.traduccion = cpu.traduccion
        /\ cpu'.accesos = cpu.accesos
    BY <1>0, <2>1
  <2>4. Ejecutable(cpu.pcb)'
    BY <1>0, <2>2, <2>3 DEF Ejecutable, fetch
  <2> QED  BY <1>0, <2>2, <2>3, <2>4
<1>7. CASE AccedeAMemoria
  <2> DEFINE marco == NumeroDe(redMemoria)
  <2>1. cpu.fase = "marco" /\ cpu' = [cpu EXCEPT !.fase = "dato", !.marco = marco]
    BY <1>7 DEF AccedeAMemoria, NumeroDe
  <2>2. marco \in Int
    BY <1>7, RespuestaDeMemoria DEF AccedeAMemoria, LlevaNumero
  <2> HIDE DEF marco, P, S
  <2>3. /\ cpu' \in REGISTROS /\ cpu'.fase = "dato" /\ cpu'.pcb = cpu.pcb
             /\ cpu'.traduccion = cpu.traduccion
        /\ cpu'.accesos = cpu.accesos
    BY <1>0, <2>1, <2>2
  <2>4. Ejecutable(cpu.pcb)'
    BY <1>0, <2>1, <2>3 DEF Ejecutable, fetch
  <2> QED  BY <1>0, <2>1, <2>3, <2>4
<1>8. CASE RecibeDato
  <2> DEFINE d == IF redMemoria.codigo = "RES_READ" THEN NumeroDe(redMemoria) ELSE 0
             a == Tail(cpu.accesos)
  <2>1. cpu.fase = "dato" /\ cpu' = [cpu EXCEPT !.fase = "execute", !.accesos = a, !.dato = d]
    BY <1>8 DEF RecibeDato, NumeroDe
  <2>2. d \in Int /\ a \in S
    BY <1>8, RespuestaDeMemoria DEF RecibeDato, LlevaNumero
  <2> HIDE DEF d, a, P, S
  <2>3. /\ cpu' \in REGISTROS /\ cpu'.fase = "execute" /\ cpu'.pcb = cpu.pcb
             /\ cpu'.traduccion = cpu.traduccion
    BY <1>0, <2>1, <2>2
  <2>4. Ejecutable(cpu.pcb)'
    BY <1>0, <2>1, <2>3 DEF Ejecutable, fetch
  <2> QED  BY <1>0, <2>1, <2>3, <2>4
<1>9. CASE TerminaInstruccion
  <2>1. cpu.fase = "execute"
    BY <1>9 DEF TerminaInstruccion
  <2>2. cpu.pcb \in PCB
    BY <2>1, EnEjecucion DEF ConPcb
  <2> DEFINE z == 0
  <2>2a. z \in Int /\ z \in Nat
    OBVIOUS
  <2>3. CASE cpu' = [cpu EXCEPT !.fase = "ocioso", !.pcb = NULO, !.PC_inicial = 0, !.marco = 0,
            !.dato = 0]
    <3>1. cpu' = [cpu EXCEPT !.fase = "ocioso", !.pcb = NULO, !.PC_inicial = z, !.marco = z,
              !.dato = z]
      BY <2>3
    <3> HIDE DEF P, S, z
    <3>2. cpu' \in REGISTROS /\ cpu'.fase = "ocioso" /\ cpu'.traduccion = cpu.traduccion
      BY <1>0, <1>0b, <2>2a, <3>1
    <3> QED  BY <1>0, <2>1, <3>2
  <2>4. CASE cpu' = [cpu EXCEPT !.pcb.PC = @ + 1, !.fase = "fetch", !.marco = 0, !.dato = 0]
    <3> DEFINE p == [cpu.pcb EXCEPT !.PC = @ + 1]
    <3>1. p \in P
      BY <2>2 DEF PCB
    <3>2. cpu' = [cpu EXCEPT !.pcb = p, !.fase = "fetch", !.marco = z, !.dato = z]
      BY <2>4
    <3> HIDE DEF P, S, p, z
    <3>3. cpu' \in REGISTROS /\ cpu'.fase = "fetch" /\ cpu'.traduccion = cpu.traduccion
      BY <1>0, <2>2a, <3>1, <3>2
    <3> QED  BY <1>0, <2>1, <3>3
  <2> QED  BY <1>9, <2>3, <2>4, Zenon DEF TerminaInstruccion, Contesta
<1> HIDE DEF TiposCPU, FASES, Ejecuta
<1> QED  BY <1>1, <1>2, <1>3, <1>4, <1>5, <1>6, <1>7, <1>8, <1>9, QuienCambia, Zenon DEF CPU

-----------------------------------------------------------------------------
(* The connection of dispatch *)

\* What each step of the CPU leaves in its registers.
LEMMA Registros ==
    ASSUME InvTipos
    PROVE  /\ PideTraduccion => cpu.fase = "inicio" /\ cpu'.fase = "traduccion"
                /\ cpu'.pcb = cpu.pcb
           /\ RecibeTraduccion => cpu.fase = "traduccion" /\ cpu'.fase = "ocioso"
                /\ cpu'.pcb = cpu.pcb
           /\ RecibePcb => /\ cpu.fase = "ocioso" /\ cpu'.fase = "fetch"
                           /\ \E r \in recibirPaquete(redDispatch) : cpu'.pcb =
                                deserializarPCB(r.stream, 0)
           /\ Fetch => /\ cpu.fase = "fetch" /\ cpu'.pcb = cpu.pcb
                       /\ \/ Ejecutable(cpu.pcb) /\ cpu'.fase = "execute"
                             /\ historia' = [historia EXCEPT ![cpu.pcb.id + 1].ejecutadas =
                                  Append(@, fetch(cpu.pcb))]
                          \/ cpu'.fase = "caida" /\ historia' = historia
           /\ ConsultaTabla => /\ cpu.fase = "execute" /\ cpu'.fase = "tabla" /\ cpu'.pcb = cpu.pcb
                               /\ cpu'.accesos = cpu.accesos /\ cpu'.marco = cpu.marco
           /\ ConsultaMarco => /\ cpu.fase = "tabla" /\ cpu'.fase = "marco" /\ cpu'.pcb = cpu.pcb
                               /\ cpu'.accesos = cpu.accesos /\ cpu'.marco = cpu.marco
           /\ AccedeAMemoria => /\ cpu.fase = "marco" /\ cpu'.fase = "dato" /\ cpu'.pcb = cpu.pcb
                                /\ cpu'.accesos = cpu.accesos /\ cpu'.marco = NumeroDe(redMemoria)
           /\ RecibeDato => cpu.fase = "dato" /\ cpu'.fase = "execute" /\ cpu'.pcb = cpu.pcb
           /\ TerminaInstruccion =>
                /\ cpu.fase = "execute"
                /\ LET i == fetch(cpu.pcb) IN
                   \/ /\ cpu'.fase = "ocioso" /\ cpu'.pcb = NULO
                      /\ \/ redDispatch' = armarPaqueteCon(Avanza(cpu.pcb),
                              "PCB_EJECUTADO_INTERRUPCION")
                         \/ /\ i.identificador = "IO"
                            /\ redDispatch' = armarPaqueteCon([tiempoBloqueo |-> i.parametro1,
                                 pcb |-> Avanza(cpu.pcb)], "PCB_EJECUTADO_IO")
                         \/ /\ i.identificador = "EXIT"
                            /\ redDispatch' = armarPaqueteCon(Avanza(cpu.pcb), "PCB_EJECUTADO_EXIT")
                   \/ /\ cpu'.fase = "fetch" /\ cpu'.pcb = [cpu.pcb EXCEPT !.PC = @ + 1]
                      /\ i.identificador \notin {"IO", "EXIT"} /\ redDispatch' = redDispatch
<1>0. cpu \in REGISTROS
  BY DEF InvTipos, TiposCPU
<1> DEFINE P == PCB \union {NULO}
           S == Seq(ACCESO)
<1>0a. cpu \in [fase : FASES, traduccion : {NULO, TAMANIOS}, pcb : P, PC_inicial : Nat, accesos : S,
           marco : Int, dato : Int]
  BY <1>0 DEF REGISTROS
<1>0b. DOMAIN cpu = {"fase", "traduccion", "pcb", "PC_inicial", "accesos", "marco", "dato"}
       /\ cpu = [k \in {"fase", "traduccion", "pcb", "PC_inicial", "accesos", "marco",
            "dato"} |-> cpu[k]]
  <2> HIDE DEF P, S
  <2> QED  BY <1>0a
<1>1. ASSUME PideTraduccion
      PROVE  cpu.fase = "inicio" /\ cpu'.fase = "traduccion" /\ cpu'.pcb = cpu.pcb
  BY <1>0b, <1>1 DEF PideTraduccion
<1>2. ASSUME RecibeTraduccion
      PROVE  cpu.fase = "traduccion" /\ cpu'.fase = "ocioso" /\ cpu'.pcb = cpu.pcb
  <2>1. cpu.fase = "traduccion"
        /\ cpu' = [cpu EXCEPT !.fase = "ocioso", !.traduccion =
             deserializarTraduccion(redMemoria.stream)]
    BY <1>2 DEF RecibeTraduccion
  <2> DEFINE t == deserializarTraduccion(redMemoria.stream)
  <2> HIDE DEF t
  <2>2. cpu' = [cpu EXCEPT !.fase = "ocioso", !.traduccion = t]
    BY <2>1 DEF t
  <2> QED  BY <1>0b, <2>1, <2>2
<1>3. ASSUME RecibePcb
      PROVE  /\ cpu.fase = "ocioso" /\ cpu'.fase = "fetch"
             /\ \E r \in recibirPaquete(redDispatch) : cpu'.pcb = deserializarPCB(r.stream, 0)
  <2>1. PICK r \in recibirPaquete(redDispatch) :
          cpu' = [cpu EXCEPT !.fase = "fetch", !.pcb = deserializarPCB(r.stream, 0), !.PC_inicial =
              deserializarPCB(r.stream, 0).PC]
    BY <1>3 DEF RecibePcb
  <2> DEFINE p == deserializarPCB(r.stream, 0)
             n == p.PC
  <2> HIDE DEF p, n
  <2>2. cpu' = [cpu EXCEPT !.fase = "fetch", !.pcb = p, !.PC_inicial = n]
    BY <2>1 DEF p, n
  <2>3. cpu'.fase = "fetch" /\ cpu'.pcb = p
    BY <1>0b, <2>2
  <2> QED  BY <1>3, <2>3 DEF RecibePcb, p
<1>4. ASSUME Fetch
      PROVE  /\ cpu.fase = "fetch" /\ cpu'.pcb = cpu.pcb
             /\ \/ Ejecutable(cpu.pcb) /\ cpu'.fase = "execute"
                   /\ historia' = [historia EXCEPT ![cpu.pcb.id + 1].ejecutadas =
                        Append(@, fetch(cpu.pcb))]
                \/ cpu'.fase = "caida" /\ historia' = historia
  <2> DEFINE a == AccesosDe(fetch(cpu.pcb))
             H == historia' = [historia EXCEPT ![cpu.pcb.id + 1].ejecutadas =
                 Append(@, fetch(cpu.pcb))]
             X == cpu' = [cpu EXCEPT !.fase = "execute", !.accesos = a]
             C == cpu' = [cpu EXCEPT !.fase = "caida"]
             E == Ejecutable(cpu.pcb)
  <2>1. /\ cpu.fase = "fetch"
        /\ (E /\ X /\ H) \/ (C /\ historia' = historia)
    BY <1>4 DEF Fetch
  <2>2. X => cpu'.pcb = cpu.pcb /\ cpu'.fase = "execute"
    <3> HIDE DEF a
    <3> QED  BY <1>0b
  <2>3. C => cpu'.pcb = cpu.pcb /\ cpu'.fase = "caida"
    BY <1>0b
  <2> HIDE DEF H, X, C, E
  <2>4. cpu'.pcb = cpu.pcb /\ ((E /\ cpu'.fase = "execute" /\ H) \/ (cpu'.fase = "caida"
        /\ historia' = historia))
    BY <2>1, <2>2, <2>3
  <2> QED  BY <2>1, <2>4 DEF E, H
<1>5. ASSUME ConsultaTabla
      PROVE  /\ cpu.fase = "execute" /\ cpu'.fase = "tabla" /\ cpu'.pcb = cpu.pcb
             /\ cpu'.accesos = cpu.accesos /\ cpu'.marco = cpu.marco
  BY <1>0b, <1>5 DEF ConsultaTabla
<1>6. ASSUME ConsultaMarco
      PROVE  /\ cpu.fase = "tabla" /\ cpu'.fase = "marco" /\ cpu'.pcb = cpu.pcb
             /\ cpu'.accesos = cpu.accesos /\ cpu'.marco = cpu.marco
  BY <1>0b, <1>6 DEF ConsultaMarco
<1>7. ASSUME AccedeAMemoria
      PROVE  /\ cpu.fase = "marco" /\ cpu'.fase = "dato" /\ cpu'.pcb = cpu.pcb
             /\ cpu'.accesos = cpu.accesos /\ cpu'.marco = NumeroDe(redMemoria)
  <2> DEFINE m == NumeroDe(redMemoria)
  <2>1. cpu.fase = "marco" /\ cpu' = [cpu EXCEPT !.fase = "dato", !.marco = m]
    BY <1>7 DEF AccedeAMemoria, NumeroDe
  <2> HIDE DEF m
  <2>2. /\ cpu.fase = "marco" /\ cpu'.fase = "dato" /\ cpu'.pcb = cpu.pcb
        /\ cpu'.accesos = cpu.accesos /\ cpu'.marco = m
    BY <1>0b, <2>1
  <2> QED  BY <2>2 DEF m
<1>8. ASSUME RecibeDato
      PROVE  cpu.fase = "dato" /\ cpu'.fase = "execute" /\ cpu'.pcb = cpu.pcb
  <2> DEFINE d == IF redMemoria.codigo = "RES_READ" THEN NumeroDe(redMemoria) ELSE 0
             a == Tail(cpu.accesos)
  <2>1. cpu.fase = "dato" /\ cpu' = [cpu EXCEPT !.fase = "execute", !.accesos = a, !.dato = d]
    BY <1>8 DEF RecibeDato, NumeroDe
  <2> HIDE DEF d, a
  <2> QED  BY <1>0b, <2>1
<1>9. ASSUME TerminaInstruccion
      PROVE  /\ cpu.fase = "execute"
             /\ LET i == fetch(cpu.pcb) IN
                   \/ /\ cpu'.fase = "ocioso" /\ cpu'.pcb = NULO
                      /\ \/ redDispatch' = armarPaqueteCon(Avanza(cpu.pcb),
                              "PCB_EJECUTADO_INTERRUPCION")
                         \/ /\ i.identificador = "IO"
                            /\ redDispatch' = armarPaqueteCon([tiempoBloqueo |-> i.parametro1,
                                 pcb |-> Avanza(cpu.pcb)], "PCB_EJECUTADO_IO")
                         \/ /\ i.identificador = "EXIT"
                            /\ redDispatch' = armarPaqueteCon(Avanza(cpu.pcb), "PCB_EJECUTADO_EXIT")
                   \/ /\ cpu'.fase = "fetch" /\ cpu'.pcb = [cpu.pcb EXCEPT !.PC = @ + 1]
                      /\ i.identificador \notin {"IO", "EXIT"} /\ redDispatch' = redDispatch
  <2> DEFINE i == fetch(cpu.pcb)
             z == 0
             OC == cpu' = [cpu EXCEPT !.fase = "ocioso", !.pcb = NULO, !.PC_inicial = 0, !.marco =
                 0, !.dato = 0]
             p == [cpu.pcb EXCEPT !.PC = @ + 1]
             FE == cpu' = [cpu EXCEPT !.pcb.PC = @ + 1, !.fase = "fetch", !.marco = 0, !.dato = 0]
             R1 == redDispatch' = armarPaqueteCon(Avanza(cpu.pcb), "PCB_EJECUTADO_INTERRUPCION")
             R2 == i.identificador = "IO"
                 /\ redDispatch' = armarPaqueteCon([tiempoBloqueo |-> i.parametro1,
                      pcb |-> Avanza(cpu.pcb)], "PCB_EJECUTADO_IO")
             R3 == i.identificador = "EXIT"
                 /\ redDispatch' = armarPaqueteCon(Avanza(cpu.pcb), "PCB_EJECUTADO_EXIT")
             R4 == i.identificador \notin {"IO", "EXIT"} /\ redDispatch' = redDispatch
  <2>0. /\ cpu.fase = "execute"
        /\ \/ R1 /\ OC
           \/ i.identificador = "IO"
                /\ redDispatch' = armarPaqueteCon([tiempoBloqueo |-> i.parametro1,
                     pcb |-> Avanza(cpu.pcb)], "PCB_EJECUTADO_IO") /\ OC
           \/ i.identificador = "EXIT"
                /\ redDispatch' = armarPaqueteCon(Avanza(cpu.pcb), "PCB_EJECUTADO_EXIT") /\ OC
           \/ i.identificador \notin {"IO", "EXIT"} /\ FE /\ redDispatch' = redDispatch
    BY <1>9, Zenon DEF TerminaInstruccion, Contesta
  <2>1. cpu.fase = "execute" /\ ((OC /\ (R1 \/ R2 \/ R3)) \/ (FE /\ R4))
    <3> HIDE DEF OC, FE, R1
    <3> QED  BY <2>0
  <2>2. OC => cpu' = [cpu EXCEPT !.fase = "ocioso", !.pcb = NULO, !.PC_inicial = z, !.marco = z,
            !.dato = z]
    OBVIOUS
  <2>3. FE => cpu' = [cpu EXCEPT !.pcb = p, !.fase = "fetch", !.marco = z, !.dato = z]
    OBVIOUS
  <2> HIDE DEF z, OC, FE, p, R1, R2, R3, R4
  <2>4. OC => cpu'.fase = "ocioso" /\ cpu'.pcb = NULO
    BY <1>0b, <2>2
  <2>5. FE => cpu'.fase = "fetch" /\ cpu'.pcb = p
    BY <1>0b, <2>3
  <2> QED  BY <2>1, <2>4, <2>5 DEF p, R1, R2, R3, R4
<1> QED  BY <1>1, <1>2, <1>3, <1>4, <1>5, <1>6, <1>7, <1>8, <1>9, Zenon

\* The PCB that the CPU gives back is the one it was given, one instruction ahead.
LEMMA AvanzaTipo ==
    ASSUME InvTipos, cpu.fase \in Ejecuta
    PROVE  /\ Avanza(cpu.pcb) \in PCB
           /\ [tiempoBloqueo |-> fetch(cpu.pcb).parametro1, pcb |-> Avanza(cpu.pcb)] \in TIO
           /\ Avanza(cpu.pcb).PC = cpu.pcb.PC + 1 /\ Avanza(cpu.pcb).id = cpu.pcb.id
           /\ Avanza(cpu.pcb).tamanioProceso = cpu.pcb.tamanioProceso
           /\ Avanza(cpu.pcb).tablaDePaginas = cpu.pcb.tablaDePaginas
           /\ Avanza(cpu.pcb).instrucciones = cpu.pcb.instrucciones
<1> DEFINE p == cpu.pcb
           l == cpu.pcb.PC + 1 - cpu.PC_inicial
           n == cpu.pcb.PC + 1
<1>1. p \in PCB /\ Ejecutable(p)
  BY EnEjecucion DEF ConPcb
<1>2. cpu.PC_inicial \in Nat /\ p.PC \in Nat
  BY <1>1 DEF InvTipos, TiposCPU, REGISTROS, PCB
<1>3. n \in Nat /\ l \in Int
  BY <1>2
<1>4. Avanza(p) = [p EXCEPT !.PC = n, !.lengthUltimaRafaga = l]
  BY DEF Avanza
<1>5. fetch(p).parametro1 \in Nat
  BY <1>1, AccesosTipo
<1> HIDE DEF n, l, p
<1>6. /\ Avanza(p) \in PCB
      /\ Avanza(p).PC = n /\ Avanza(p).id = p.id /\ Avanza(p).tamanioProceso = p.tamanioProceso
      /\ Avanza(p).tablaDePaginas = p.tablaDePaginas /\ Avanza(p).instrucciones = p.instrucciones
  BY <1>1, <1>3, <1>4 DEF PCB
<1> QED  BY <1>5, <1>6 DEF p, n, TIO

\* The connection of dispatch carries the PCB that is running, in one direction.
LEMMA PasoDispatch ==
    ASSUME InvTipos, [Next]_vars PROVE Dispatch'
<1> DEFINE Cods == {"REQ_PCB_A_EJECUTAR", "PCB_EJECUTADO_EXIT", "PCB_EJECUTADO_INTERRUPCION"}
           Forma == redDispatch = NULO \/ LlevaPCB(redDispatch, Cods) \/ LlevaIO(redDispatch)
           EnFase == IF cpu.fase \in ConPcb THEN cpu.pcb \in PCB
               /\ redDispatch.codigo = "REQ_PCB_A_EJECUTAR"
                     ELSE cpu.pcb = NULO
           Antes == cpu.fase \in {"inicio", "traduccion"} => redDispatch = NULO
<1>0. Forma /\ EnFase /\ Antes
  BY DEF InvTipos, Dispatch
<1> SUFFICES Forma' /\ EnFase' /\ Antes'
  BY DEF Dispatch
<1>1. CASE UNCHANGED <<cpu, redDispatch>>
  BY <1>0, <1>1
<1>2. CASE Despacha
  <2>1. PICK p \in estado_ready : redDispatch' = armarPaqueteCon(p, "REQ_PCB_A_EJECUTAR")
    BY <1>2 DEF Despacha
  <2>2. cpu.fase = "ocioso" /\ cpu' = cpu
    BY <1>2 DEF Despacha, varsCPU
  <2>3. p \in PCB
    BY DEF InvTipos, TiposKernel
  <2>4. LlevaPCB(redDispatch', Cods)
    BY <2>1, <2>3, LlevanLoArmado DEF CodigosPCB
  <2> QED  BY <1>0, <2>2, <2>4 DEF ConPcb, Ejecuta
<1>3. CASE VuelveIO \/ VuelveInterrumpido \/ VuelveExit
  <2>1. redDispatch # NULO /\ redDispatch.codigo # "REQ_PCB_A_EJECUTAR"
    BY <1>3 DEF VuelveIO, VuelveInterrumpido, VuelveExit, LlegaCon
  <2>2. redDispatch' = NULO /\ cpu' = cpu
    BY <1>3 DEF VuelveIO, VuelveInterrumpido, VuelveExit, varsCPU
  <2> QED  BY <1>0, <2>1, <2>2, VueltaDeLaCPU
<1>4. CASE RecibePcb
  <2>1. /\ cpu.fase = "ocioso" /\ cpu'.fase = "fetch"
        /\ \E r \in recibirPaquete(redDispatch) : cpu'.pcb = deserializarPCB(r.stream, 0)
    BY <1>4, Registros
  <2>2. redDispatch # NULO /\ redDispatch.codigo = "REQ_PCB_A_EJECUTAR"
        /\ redDispatch' = redDispatch
    BY <1>4 DEF RecibePcb, LlegaCon
  <2>3. cpu'.pcb \in PCB
    BY <2>1, <2>2, EnVuelo, RecibePCB
  <2> QED  BY <1>0, <2>1, <2>2, <2>3 DEF ConPcb
<1>5. CASE TerminaInstruccion
  <2>1. cpu.fase = "execute" /\ cpu.pcb \in PCB /\ redDispatch.codigo = "REQ_PCB_A_EJECUTAR"
    BY <1>5, Registros, EnEjecucion DEF ConPcb, Ejecuta
  <2>2. CASE /\ cpu'.fase = "ocioso" /\ cpu'.pcb = NULO
             /\ \/ redDispatch' = armarPaqueteCon(Avanza(cpu.pcb), "PCB_EJECUTADO_INTERRUPCION")
                \/ redDispatch' = armarPaqueteCon([tiempoBloqueo |-> fetch(cpu.pcb).parametro1,
                     pcb |-> Avanza(cpu.pcb)], "PCB_EJECUTADO_IO")
                \/ redDispatch' = armarPaqueteCon(Avanza(cpu.pcb), "PCB_EJECUTADO_EXIT")
    <3>1. Forma'
      BY <2>1, <2>2, AvanzaTipo, LlevanLoArmado DEF CodigosPCB, Ejecuta
    <3> QED  BY <2>2, <3>1 DEF ConPcb, Ejecuta
  <2>3. CASE cpu'.fase = "fetch" /\ cpu'.pcb = [cpu.pcb EXCEPT !.PC = @ + 1]
        /\ redDispatch' = redDispatch
    <3>1. cpu'.pcb \in PCB
      <4>1. \A p \in PCB : [p EXCEPT !.PC = @ + 1] \in PCB
        BY DEF PCB
      <4> QED  BY <2>1, <2>3, <4>1, Zenon
    <3> QED  BY <1>0, <2>1, <2>3, <3>1 DEF ConPcb
  <2> QED  BY <1>5, <2>2, <2>3, Registros, Zenon
<1>6. CASE PideTraduccion \/ RecibeTraduccion \/ Fetch \/ ConsultaTabla \/ ConsultaMarco
      \/ AccedeAMemoria \/ RecibeDato
  <2>1. redDispatch' = redDispatch
    BY <1>6 DEF PideTraduccion, RecibeTraduccion, Fetch, ConsultaTabla, ConsultaMarco,
       AccedeAMemoria, RecibeDato, PideAMemoria
  <2>2. /\ cpu'.pcb = cpu.pcb
        /\ \/ cpu.fase = "inicio" /\ cpu'.fase = "traduccion"
           \/ cpu.fase = "traduccion" /\ cpu'.fase = "ocioso"
           \/ cpu.fase \in ConPcb /\ cpu'.fase \in ConPcb
    BY <1>6, Registros DEF ConPcb, Ejecuta
  <2> QED  BY <1>0, <2>1, <2>2 DEF ConPcb, Ejecuta
<1> QED  BY <1>1, <1>2, <1>3, <1>4, <1>5, <1>6, QuienCambia, Zenon DEF CPU

-----------------------------------------------------------------------------
(* The connection of the CPU with Memoria *)

\* A question of the CPU comes in the phase that asks it.
LEMMA FaseDeLaConsulta ==
    ASSUME InvTipos, redMemoria # NULO
    PROVE  /\ redMemoria.codigo \in {"REQ_TRADUCCION_DIRECCIONES"} => cpu.fase = "traduccion"
           /\ redMemoria.codigo \in {"REQ_TABLA_SEGUNDO_NIVEL"} => cpu.fase = "tabla"
           /\ redMemoria.codigo \in {"REQ_MARCO_LECTURA", "REQ_MARCO_ESCRITURA"} =>
                cpu.fase = "marco"
           /\ redMemoria.codigo \in {"REQ_READ", "REQ_WRITE"} => cpu.fase = "dato"
<1>1. cpu.fase = "traduccion" => redMemoria.codigo \in {"REQ_TRADUCCION_DIRECCIONES",
          "RES_TRADUCCION_DIRECCIONES"}
  <2>1. cpu.fase = "traduccion" => EnTraduccion
    BY DEF InvTipos, Consultas
  <2>2. armarPaqueteCon(TAMANIOS, "RES_TRADUCCION_DIRECCIONES").codigo =
            "RES_TRADUCCION_DIRECCIONES"
    BY Armado
  <2> QED  BY <2>1, <2>2, ArmaSaludo DEF EnTraduccion
<1>2. cpu.fase = "tabla" => redMemoria.codigo \in {"REQ_TABLA_SEGUNDO_NIVEL",
          "RES_TABLA_SEGUNDO_NIVEL"}
  <2>1. \A e : armarPaqueteCon(e, "REQ_TABLA_SEGUNDO_NIVEL").codigo = "REQ_TABLA_SEGUNDO_NIVEL"
    BY Armado
  <2>2. ASSUME EnTabla PROVE redMemoria.codigo \in {"REQ_TABLA_SEGUNDO_NIVEL",
                   "RES_TABLA_SEGUNDO_NIVEL"}
    BY <2>1, <2>2 DEF EnTabla, LlevaNumero
  <2> QED  BY <2>2 DEF InvTipos, Consultas
<1>3. cpu.fase = "marco" => redMemoria.codigo \in {"REQ_MARCO_LECTURA", "REQ_MARCO_ESCRITURA",
          "RES_MARCO"}
  <2> HAVE cpu.fase = "marco"
  <2>1. \A e : armarPaqueteCon(e, Head(cpu.accesos).codigo).codigo = Head(cpu.accesos).codigo
    BY Codigo, Zenon
  <2>2. Head(cpu.accesos).codigo \in {"REQ_MARCO_LECTURA", "REQ_MARCO_ESCRITURA"}
    BY RespuestaDeMemoria DEF ACCESO
  <2>3. EnMarco
    BY DEF InvTipos, Consultas
  <2> QED  BY <2>1, <2>2, <2>3 DEF EnMarco, LlevaNumero
<1>4. cpu.fase = "dato" => redMemoria.codigo \in {"REQ_READ", "REQ_WRITE", "RES_READ", "RES_WRITE"}
  <2>1. (\A e : armarPaqueteCon(e, "REQ_READ").codigo = "REQ_READ")
        /\ (\A e : armarPaqueteCon(e, "REQ_WRITE").codigo = "REQ_WRITE")
    BY Armado
  <2>2. cpu.fase = "dato" => EnDato
    BY DEF InvTipos, Consultas
  <2> QED  BY <2>1, <2>2 DEF EnDato, LlevaNumero
<1>5. cpu.fase \in {"traduccion", "tabla", "marco", "dato"}
  BY DEF InvTipos, Consultas
<1> QED  BY <1>1, <1>2, <1>3, <1>4, <1>5

\* The entry that Memoria finds is one of its tables.
LEMMA EntradaTipo ==
    ASSUME InvTipos, NEW consulta
    PROVE  HayEntrada(tablasPrimerNivel, consulta) =>
              EntradaDe(tablasPrimerNivel, consulta).tablaSegundoNivel \in Nat
<1> DEFINE R == [id : Nat, tablaSegundoNivel : Nat]
           T == tablasPrimerNivel
           i == consulta.tablaDePaginas
           j == consulta.entradaPagina
<1>1. SUFFICES ASSUME HayEntrada(T, consulta) PROVE EntradaDe(T, consulta) \in R
  OBVIOUS
<1>2. T \in Seq(Seq(R))
  BY DEF InvTipos, TiposMemoria
<1> HIDE DEF R, T, i, j
<1>3. Len(T) \in Nat /\ i \in 0..Len(T)-1 /\ j \in 0..Len(T[i+1])-1
  BY <1>1, <1>2, LenProperties DEF HayEntrada, Hay, Toma, i, j
<1>4. i + 1 \in 1..Len(T)
  BY <1>3
<1>5. T[i+1] \in Seq(R)
  BY <1>2, <1>4, ElementOfSeq, Zenon
<1>6. j + 1 \in 1..Len(T[i+1])
  BY <1>3, <1>5, LenProperties
<1>7. T[i+1][j+1] \in R
  BY <1>5, <1>6, ElementOfSeq, Zenon
<1> QED  BY <1>7 DEF EntradaDe, Toma, i, j

\* The arithmetic of the addresses is of whole numbers.
LEMMA Enteros ==
    ASSUME InvTipos, cpu.fase \in {"tabla", "marco", "dato"}
    PROVE  Direccion \in Nat /\ Fisica \in Int
<1>1. Direccion \in Nat
  BY RespuestaDeMemoria DEF ACCESO, Direccion
<1>2. cpu.marco \in Int
  BY DEF InvTipos, TiposCPU, REGISTROS
<1>3. TAM_PAGINA \in Nat \ {0}
  BY TablasAssumption
<1>4. Direccion \div TAM_PAGINA \in Int
  BY <1>1, <1>3
<1> DEFINE q == Direccion \div TAM_PAGINA
           d == Direccion
<1> HIDE DEF q, d
<1>5. d - q * TAM_PAGINA + cpu.marco * TAM_PAGINA \in Int
  <2>1. q \in Int /\ d \in Int
    BY <1>1, <1>4 DEF q, d
  <2>2. q * TAM_PAGINA \in Int /\ cpu.marco * TAM_PAGINA \in Int
    BY <1>2, <1>3, <2>1
  <2> QED  BY <2>1, <2>2
<1> QED  BY <1>1, <1>5 DEF Fisica, q, d

\* The connection of the CPU with Memoria carries the question of the phase of the CPU
\* or its answer.
LEMMA PasoConsultas ==
    ASSUME InvTipos, [Next]_vars PROVE Consultas'
<1>0. Consultas
  BY DEF InvTipos
<1>1. CASE UNCHANGED <<cpu, redMemoria>>
  <2>1. /\ EnTraduccion' = EnTraduccion /\ EnTabla' = EnTabla /\ EnMarco' = EnMarco
             /\ EnDato' = EnDato
    BY <1>1 DEF EnTraduccion, EnTabla, EnMarco, EnDato, Entrada1, Entrada2, Fisica, Direccion,
       Consultado
  <2> QED  BY <1>0, <1>1, <2>1 DEF Consultas
<1>2. CASE DaTraduccion
  <2>1. cpu.fase = "traduccion"
    BY <1>2, FaseDeLaConsulta DEF DaTraduccion, Atiende, LlegaCon
  <2>2. cpu' = cpu /\ redMemoria' = armarPaqueteCon(TAMANIOS, "RES_TRADUCCION_DIRECCIONES")
    BY <1>2 DEF DaTraduccion, ContestaCPU, TAMANIOS, varsCPU
  <2> QED  BY <2>1, <2>2 DEF Consultas, EnTraduccion
<1>3. CASE ConsultaEnTabla
  <2>1. cpu.fase = "tabla"
    BY <1>3, FaseDeLaConsulta DEF ConsultaEnTabla, Atiende, LlegaCon
  <2> DEFINE consulta == deserializarConsulta(redMemoria.stream)
             n == EntradaDe(tablasPrimerNivel, consulta).tablaSegundoNivel
  <2>2. CASE HayEntrada(tablasPrimerNivel, consulta) /\ ContestaCPU(n, "RES_TABLA_SEGUNDO_NIVEL")
    <3>1. n \in Int
      BY <2>2, EntradaTipo
    <3> HIDE DEF n
    <3>2. cpu' = cpu /\ redMemoria' = armarPaqueteCon(n, "RES_TABLA_SEGUNDO_NIVEL")
      BY <2>2 DEF ContestaCPU, varsCPU
    <3>3. LlevaNumero(redMemoria', {"RES_TABLA_SEGUNDO_NIVEL"})
      BY <3>1, <3>2, LlevanLoArmado DEF CodigosUINT32
    <3> QED  BY <2>1, <3>2, <3>3 DEF Consultas, EnTabla
  <2>3. CASE CaeMemoria
    BY <1>1, <2>3 DEF CaeMemoria, varsCPU
  <2> QED  BY <1>3, <2>2, <2>3, Zenon DEF ConsultaEnTabla
<1>4. CASE DaMarco
  <2>1. cpu.fase = "marco"
    BY <1>4, FaseDeLaConsulta DEF DaMarco, Atiende, LlegaCon
  <2>2. CASE \E marco \in 0..CANTIDAD_FRAMES-1 : ContestaCPU(marco, "RES_MARCO")
    <3>1. PICK marco \in 0..CANTIDAD_FRAMES-1 : ContestaCPU(marco, "RES_MARCO")
      BY <2>2
    <3>2. cpu' = cpu /\ redMemoria' = armarPaqueteCon(marco, "RES_MARCO")
      BY <3>1 DEF ContestaCPU, varsCPU
    <3>3. marco \in Int
      BY CaminoAssumption
    <3>4. LlevaNumero(redMemoria', {"RES_MARCO"})
      BY <3>2, <3>3, LlevanLoArmado DEF CodigosUINT32
    <3> QED  BY <2>1, <3>2, <3>4 DEF Consultas, EnMarco
  <2>3. CASE CaeMemoria
    BY <1>1, <2>3 DEF CaeMemoria, varsCPU
  <2> QED  BY <1>4, <2>2, <2>3, Zenon DEF DaMarco
<1>5. CASE Lee
  <2>1. cpu.fase = "dato" /\ redMemoria.codigo = "REQ_READ"
    BY <1>5, FaseDeLaConsulta DEF Lee, Atiende, LlegaCon
  <2>2. NumeroDe(redMemoria) = Fisica
    <3>1. \A e : armarPaqueteCon(e, "REQ_WRITE").codigo = "REQ_WRITE"
      BY Armado
    <3>2. redMemoria = armarPaqueteCon(Fisica, "REQ_READ")
      BY <2>1, <3>1 DEF InvTipos, Consultas, EnDato, LlevaNumero
    <3> QED  BY <3>2, ArmaFijo DEF CodigosUINT32
  <2>3. Fisica \in Int
    BY <2>1, Enteros
  <2> DEFINE n == NumeroDe(redMemoria)
  <2>4. n \in Int
    BY <2>2, <2>3
  <2>5. cpu' = cpu /\ redMemoria' = armarPaqueteCon(n, "RES_READ")
    BY <1>5 DEF Lee, ContestaCPU, varsCPU, NumeroDe
  <2> HIDE DEF n
  <2>6. LlevaNumero(redMemoria', {"RES_READ", "RES_WRITE"})
    BY <2>4, <2>5, LlevanLoArmado DEF CodigosUINT32
  <2> QED  BY <2>1, <2>5, <2>6 DEF Consultas, EnDato
<1>6. CASE Escribe
  <2>1. cpu.fase = "dato"
    BY <1>6, FaseDeLaConsulta DEF Escribe, Atiende, LlegaCon
  <2>2. cpu' = cpu /\ redMemoria' = armarPaqueteCon(1, "RES_WRITE")
    BY <1>6 DEF Escribe, ContestaCPU, varsCPU
  <2>3. LlevaNumero(redMemoria', {"RES_READ", "RES_WRITE"})
    BY <2>2, LlevanLoArmado DEF CodigosUINT32
  <2> QED  BY <2>1, <2>2, <2>3 DEF Consultas, EnDato
<1>7. CASE PideTraduccion
  <2>1. cpu'.fase = "traduccion"
        /\ redMemoria' = armarPaqueteCon(<<"h", "o", "l", "a", "0">>, "REQ_TRADUCCION_DIRECCIONES")
    BY <1>7, Registros DEF PideTraduccion
  <2> QED  BY <2>1 DEF Consultas, EnTraduccion
<1>8. CASE RecibeTraduccion \/ RecibeDato
  <2>1. cpu'.fase \in {"ocioso", "execute"} /\ redMemoria' = NULO
    BY <1>8, Registros DEF RecibeTraduccion, RecibeDato
  <2> QED  BY <2>1 DEF Consultas
<1>9. CASE RecibePcb \/ Fetch \/ TerminaInstruccion
  <2>1. cpu.fase \in {"ocioso", "fetch", "execute"}
        /\ cpu'.fase \in {"fetch", "execute", "caida", "ocioso"}
    BY <1>9, Registros
  <2>2. redMemoria' = redMemoria
    BY <1>9 DEF RecibePcb, Fetch, TerminaInstruccion
  <2> QED  BY <1>0, <2>1, <2>2 DEF Consultas
<1>10. CASE ConsultaTabla
  <2>1. cpu.fase = "execute" /\ cpu'.fase = "tabla" /\ cpu'.pcb = cpu.pcb
        /\ cpu'.accesos = cpu.accesos
    BY <1>10, Registros
  <2>2. cpu.traduccion = TAMANIOS
    BY <2>1, EnEjecucion DEF ConPcb, Ejecuta
  <2>3. redMemoria' = armarPaqueteCon([tablaDePaginas |-> cpu.pcb.tablaDePaginas, id |-> cpu.pcb.id,
                                       entradaPagina |-> Entrada1], "REQ_TABLA_SEGUNDO_NIVEL")
    <3>1. obtenerEntradaTabla1erNivel(cpu.traduccion, Pagina) = Entrada1
      BY <2>2 DEF obtenerEntradaTabla1erNivel, Pagina, obtenerNumeroPagina, Entrada1, Direccion,
         TAMANIOS
    <3> QED  BY <1>10, <3>1, Zenon DEF ConsultaTabla, PideAMemoria
  <2>4. Entrada1' = Entrada1
    BY <2>1 DEF Entrada1, Direccion
  <2>5. EnTabla'
    BY <2>1, <2>3, <2>4 DEF EnTabla
  <2> QED  BY <2>1, <2>5 DEF Consultas
<1>11. CASE ConsultaMarco
  <2>1. cpu.fase = "tabla" /\ cpu'.fase = "marco" /\ cpu'.pcb = cpu.pcb
        /\ cpu'.accesos = cpu.accesos
    BY <1>11, Registros
  <2>2. cpu.traduccion = TAMANIOS
    BY <2>1, EnEjecucion DEF ConPcb, Ejecuta
  <2> DEFINE tabla == deserializarUINT32(redMemoria.stream)
             cod == Head(cpu.accesos).codigo
             e == [tablaDePaginas |-> tabla, id |-> cpu.pcb.id, entradaPagina |-> Entrada2]
  <2>3. redMemoria' = armarPaqueteCon(e, cod)
    <3>1. obtenerEntradaTabla2doNivel(cpu.traduccion, Pagina) = Entrada2
      BY <2>2 DEF obtenerEntradaTabla2doNivel, Pagina, obtenerNumeroPagina, Entrada2, Direccion,
         TAMANIOS
    <3> QED  BY <1>11, <3>1, Zenon DEF ConsultaMarco, PideAMemoria
  <2>4. Entrada2' = Entrada2 /\ Head(cpu'.accesos).codigo = cod
    BY <2>1 DEF Entrada2, Direccion
  <2>5. cod \in CodigosConsulta
    BY <2>1, RespuestaDeMemoria DEF ACCESO, CodigosConsulta
  <2> HIDE DEF tabla, cod
  <2>6. Consultado'.tablaDePaginas = tabla
    <3>1. deserializarConsulta(armarPaqueteCon(e, cod).stream) = [entradaPagina |-> e.entradaPagina,
              tablaDePaginas |-> e.tablaDePaginas, id |-> e.id]
      BY <2>5, ArmaFijo
    <3> QED  BY <2>3, <3>1 DEF Consultado
  <2>7. EnMarco'
    BY <2>1, <2>3, <2>4, <2>6 DEF EnMarco
  <2> QED  BY <2>1, <2>7 DEF Consultas
<1>12. CASE AccedeAMemoria
  <2> DEFINE marco == NumeroDe(redMemoria)
             f == Direccion - (Direccion \div TAM_PAGINA) * TAM_PAGINA + marco * TAM_PAGINA
  <2>1. cpu.fase = "marco" /\ cpu'.fase = "dato" /\ cpu'.pcb = cpu.pcb /\ cpu'.accesos = cpu.accesos
        /\ cpu'.marco = marco
    BY <1>12, Registros
  <2>2. cpu.traduccion = TAMANIOS
    BY <2>1, EnEjecucion DEF ConPcb, Ejecuta
  <2>3. Fisica' = f
    BY <2>1 DEF Fisica, Direccion
  <2>4. DireccionFisica(marco) = f
    BY <2>2 DEF DireccionFisica, obtenerDireccionFisica, obtenerDesplazamiento, Pagina,
       obtenerNumeroPagina, Direccion, TAMANIOS
  <2>5. \/ redMemoria' = armarPaqueteCon(f, "REQ_READ")
        \/ \E dato : redMemoria' = armarPaqueteCon([direccionFisica |-> f, id |-> cpu.pcb.id,
             dato |-> dato], "REQ_WRITE")
    <3>1. \/ redMemoria' = armarPaqueteCon(DireccionFisica(marco), "REQ_READ")
          \/ redMemoria' = armarPaqueteCon([direccionFisica |-> DireccionFisica(marco),
               id |-> cpu.pcb.id,
                                 dato |-> IF fetch(cpu.pcb).identificador = "COPY" THEN cpu.dato
                                          ELSE fetch(cpu.pcb).parametro2], "REQ_WRITE")
      BY <1>12, Zenon DEF AccedeAMemoria, PideAMemoria, NumeroDe
    <3> HIDE DEF f, marco
    <3>2. CASE redMemoria' = armarPaqueteCon(DireccionFisica(marco), "REQ_READ")
      BY <2>4, <3>2
    <3> DEFINE dt == IF fetch(cpu.pcb).identificador = "COPY" THEN cpu.dato
            ELSE fetch(cpu.pcb).parametro2
    <3>3. CASE redMemoria' = armarPaqueteCon([direccionFisica |-> DireccionFisica(marco),
              id |-> cpu.pcb.id, dato |-> dt], "REQ_WRITE")
      <4> HIDE DEF dt
      <4> QED  BY <2>4, <3>3
    <3> QED  BY <3>1, <3>2, <3>3
  <2> HIDE DEF f
  <2>6. CASE redMemoria' = armarPaqueteCon(f, "REQ_READ")
    <3>1. EnDato'
      BY <2>3, <2>6 DEF EnDato
    <3> QED  BY <2>1, <3>1 DEF Consultas
  <2>7. CASE \E dato : redMemoria' = armarPaqueteCon([direccionFisica |-> f, id |-> cpu.pcb.id,
            dato |-> dato], "REQ_WRITE")
    <3>1. PICK dato : redMemoria' = armarPaqueteCon([direccionFisica |-> f, id |-> cpu.pcb.id,
              dato |-> dato], "REQ_WRITE")
      BY <2>7
    <3> DEFINE e == [direccionFisica |-> f, id |-> cpu.pcb.id, dato |-> dato]
    <3>2. deserializarPeticion(redMemoria'.stream) = [direccionFisica |-> e.direccionFisica,
              dato |-> e.dato, id |-> e.id]
      BY <3>1, ArmaFijo
    <3>3. deserializarPeticion(redMemoria'.stream).dato = dato
      BY <3>2
    <3>4. EnDato'
      BY <2>1, <2>3, <3>1, <3>3 DEF EnDato
    <3> QED  BY <2>1, <3>4 DEF Consultas
  <2> QED  BY <2>5, <2>6, <2>7
<1> QED  BY <1>1, <1>2, <1>3, <1>4, <1>5, <1>6, <1>7, <1>8, <1>9, <1>10, <1>11, <1>12, QuienCambia,
        Zenon DEF CPU

-----------------------------------------------------------------------------
(* The first layer, and what follows from it *)

\* The first layer of the invariant: whatever a recv cuts, each part holds what its
\* code declares, and each connection carries a packet of the phase it is in
\* (server.c, mmu.c:107-182, estructuras.c:319-488).
THEOREM TiposCorrectos == Spec => []InvTipos
<1>1. Init => InvTipos
  <2> SUFFICES ASSUME Init PROVE InvTipos
    OBVIOUS
  <2> USE DEF Init, InitTablas
  <2>1. TiposConsola
    BY DEF TiposConsola, CONSOLA, GUIONES
  <2>2. TiposKernel
    <3>1. historia \in Seq(HISTORIA) /\ estado_new \in Seq(PCB) /\ Len(historia) = 0
      BY EmptySeq
    <3> QED  BY <3>1 DEF TiposKernel
  <2>3. Cola
    <3>1. EsSecuencia(colaKernel) /\ Len(colaKernel) = 0
      BY EmptySeq DEF EsSecuencia
    <3>2. 1..Len(colaKernel) = {}
      BY <3>1
    <3> QED  BY <3>1, <3>2 DEF Cola
  <2>4. TiposMemoria
    BY EmptySeq DEF TiposMemoria
  <2>5. TiposCPU
    <3>1. cpu.accesos \in Seq(ACCESO)
      BY EmptySeq
    <3> HIDE DEF ACCESO
    <3> QED  BY <3>1 DEF TiposCPU, REGISTROS, FASES, Ejecuta
  <2>6. Dispatch
    BY DEF Dispatch, ConPcb, Ejecuta
  <2>7. Consultas
    BY DEF Consultas
  <2> QED  BY <2>1, <2>2, <2>3, <2>4, <2>5, <2>6, <2>7 DEF InvTipos
<1>2. InvTipos /\ [Next]_vars => InvTipos'
  BY PasoConsola, PasoKernel, PasoCola, PasoMemoria, PasoCPU, PasoDispatch, PasoConsultas
     DEF InvTipos
<1> QED  BY <1>1, <1>2, PTL DEF Spec

\* The packet of a query to the page tables has exactly the bytes its size says.
LEMMA ConsultaExacta ==
    ASSUME NEW e, NEW cod \in CodigosConsulta
    PROVE  armarPaqueteCon(e, cod).escrito = armarPaqueteCon(e, cod).size
<1>1. \A c \in CodigosConsulta : armarPaqueteCon(e, c).escrito = armarPaqueteCon(e, c).size
  BY ArmaFijo
<1> QED  BY <1>1

\* Every packet on the way was written exactly as long as it was allocated: the table
\* of sizes agrees with the serializers for each structure, whatever the scripts and
\* the values they carry (estructuras.c:319-488).
THEOREM PaquetesSiempreExactos == Spec => []PaquetesExactos
<1>1. InvTipos => PaquetesExactos
  <2> SUFFICES ASSUME InvTipos PROVE PaquetesExactos
    OBVIOUS
  <2> DEFINE Exacto(q) == q # NULO => q.escrito = q.size
  <2>1. \A q : (\E cods : LlevaPCB(q, cods) /\ cods \subseteq CodigosPCB) => Exacto(q)
    <3> TAKE q
    <3>1. SUFFICES ASSUME NEW cods, LlevaPCB(q, cods), cods \subseteq CodigosPCB
                   PROVE q.escrito = q.size
      OBVIOUS
    <3>2. PcbDe(q) \in PCB /\ q = armarPaqueteCon(PcbDe(q), q.codigo) /\ q.codigo \in CodigosPCB
      BY <3>1 DEF LlevaPCB
    <3> QED  BY <3>2, ArmaPCB
  <2>2. \A q : LlevaIO(q) => Exacto(q)
    BY ArmaIO DEF LlevaIO
  <2>3. \A q : LlevaProceso(q) => Exacto(q)
    BY ArmaProceso DEF LlevaProceso
  <2>4. \A q, cods : LlevaNumero(q, cods) /\ cods \subseteq CodigosUINT32 => Exacto(q)
    <3> TAKE q, cods
    <3>1. SUFFICES ASSUME LlevaNumero(q, cods), cods \subseteq CodigosUINT32
                   PROVE q.escrito = q.size
      OBVIOUS
    <3>2. q = armarPaqueteCon(NumeroDe(q), q.codigo) /\ q.codigo \in CodigosUINT32
      BY <3>1 DEF LlevaNumero
    <3>3. \A e : \A cod \in CodigosUINT32 : armarPaqueteCon(e, cod).escrito = armarPaqueteCon(e,
              cod).size
      BY ArmaFijo
    <3> QED  BY <3>2, <3>3, Zenon
  <2> HIDE DEF Exacto
  <2>5. \A c \in Consolas : Exacto(redConsola[c])
    <3> TAKE c \in Consolas
    <3>1. CASE redConsola[c] = NULO
      BY <3>1 DEF Exacto
    <3>2. CASE redConsola[c] # NULO
      <4>1. {"RES_FIN_PROCESO"} \subseteq CodigosUINT32
        BY DEF CodigosUINT32
      <4>2. LlevaProceso(redConsola[c]) \/ LlevaNumero(redConsola[c], {"RES_FIN_PROCESO"})
        BY <3>2 DEF InvTipos, TiposConsola
      <4>3. LlevaNumero(redConsola[c], {"RES_FIN_PROCESO"}) => Exacto(redConsola[c])
        BY <2>4, <4>1
      <4> QED  BY <2>3, <4>2, <4>3
    <3> QED  BY <3>1, <3>2
  <2>6. Exacto(redCrear)
    <3>1. {"RES_CREAR_PROCESO"} \subseteq CodigosUINT32
      BY DEF CodigosUINT32
    <3>2. redCrear # NULO => LlevaNumero(redCrear, {"RES_CREAR_PROCESO"})
      BY DEF InvTipos, Cola
    <3> QED  BY <2>4, <3>1, <3>2 DEF Exacto
  <2>7. Exacto(redDispatch)
    <3>1. CodigosPCB \subseteq CodigosPCB
      OBVIOUS
    <3> QED  BY <2>1, <2>2, <3>1, EnVuelo DEF Exacto
  <2>8. \A k \in DOMAIN colaKernel : Exacto(colaKernel[k])
    <3>1. DOMAIN colaKernel = 1..Len(colaKernel)
      BY SecuenciaAgrega DEF InvTipos, Cola
    <3>2. CodigosCola \subseteq CodigosPCB
      BY DEF CodigosCola, CodigosPCB
    <3>3. \A k \in 1..Len(colaKernel) : LlevaPCB(colaKernel[k], CodigosCola)
      BY DEF InvTipos, Cola, CodigosCola
    <3> QED  BY <2>1, <3>1, <3>2, <3>3
  <2>9. Exacto(redMemoria)
    <3>1. CASE cpu.fase = "traduccion"
      <4>1. EnTraduccion
        BY <3>1 DEF InvTipos, Consultas
      <4>2. /\ armarPaqueteCon(TAMANIOS, "RES_TRADUCCION_DIRECCIONES").escrito =
                 armarPaqueteCon(TAMANIOS, "RES_TRADUCCION_DIRECCIONES").size
        BY ArmaFijo
      <4> QED  BY <4>1, <4>2, ArmaSaludo, Zenon DEF EnTraduccion, Exacto
    <3>2. CASE cpu.fase = "tabla"
      <4>1. EnTabla
        BY <3>2 DEF InvTipos, Consultas
      <4>2. {"RES_TABLA_SEGUNDO_NIVEL"} \subseteq CodigosUINT32
            /\ "REQ_TABLA_SEGUNDO_NIVEL" \in CodigosConsulta
        BY DEF CodigosUINT32, CodigosConsulta
      <4>3. \A e : armarPaqueteCon(e, "REQ_TABLA_SEGUNDO_NIVEL").escrito = armarPaqueteCon(e,
                "REQ_TABLA_SEGUNDO_NIVEL").size
        BY <4>2, ConsultaExacta
      <4>4. CASE LlevaNumero(redMemoria, {"RES_TABLA_SEGUNDO_NIVEL"})
        BY <2>4, <4>2, <4>4
      <4> QED  BY <4>1, <4>3, <4>4, Zenon DEF EnTabla, Exacto
    <3>3. CASE cpu.fase = "marco"
      <4>1. EnMarco
        BY <3>3 DEF InvTipos, Consultas
      <4>2. {"RES_MARCO"} \subseteq CodigosUINT32 /\ Head(cpu.accesos).codigo \in CodigosConsulta
        BY <3>3, RespuestaDeMemoria DEF CodigosUINT32, CodigosConsulta, ACCESO
      <4>3. \A e : armarPaqueteCon(e, Head(cpu.accesos).codigo).escrito = armarPaqueteCon(e,
                Head(cpu.accesos).codigo).size
        BY <4>2, ConsultaExacta
      <4>4. CASE LlevaNumero(redMemoria, {"RES_MARCO"})
        BY <2>4, <4>2, <4>4
      <4> QED  BY <4>1, <4>3, <4>4, Zenon DEF EnMarco, Exacto
    <3>4. CASE cpu.fase = "dato"
      <4>1. EnDato
        BY <3>4 DEF InvTipos, Consultas
      <4>2. {"RES_READ", "RES_WRITE"} \subseteq CodigosUINT32 /\ "REQ_READ" \in CodigosUINT32
        BY DEF CodigosUINT32
      <4>3. /\ \A e : armarPaqueteCon(e, "REQ_READ").escrito = armarPaqueteCon(e, "REQ_READ").size
            /\ \A e : armarPaqueteCon(e, "REQ_WRITE").escrito = armarPaqueteCon(e, "REQ_WRITE").size
        <5>1. ASSUME NEW e PROVE armarPaqueteCon(e, "REQ_READ").escrito = armarPaqueteCon(e,
                         "REQ_READ").size
          <6>1. \A cod \in CodigosUINT32 : armarPaqueteCon(e, cod).escrito = armarPaqueteCon(e,
                    cod).size
            BY ArmaFijo
          <6> QED  BY <4>2, <6>1
        <5>2. ASSUME NEW e PROVE armarPaqueteCon(e, "REQ_WRITE").escrito = armarPaqueteCon(e,
                         "REQ_WRITE").size
          BY ArmaFijo, Zenon
        <5> QED  BY <5>1, <5>2
      <4>4. CASE LlevaNumero(redMemoria, {"RES_READ", "RES_WRITE"})
        BY <2>4, <4>2, <4>4
      <4> QED  BY <4>1, <4>3, <4>4, Zenon DEF EnDato, Exacto
    <3>5. CASE cpu.fase \notin {"traduccion", "tabla", "marco", "dato"}
      BY <3>5 DEF InvTipos, Consultas, Exacto
    <3> QED  BY <3>1, <3>2, <3>3, <3>4, <3>5
  <2> QED  BY <2>5, <2>6, <2>7, <2>8, <2>9 DEF PaquetesExactos, Exacto
<1> QED  BY <1>1, TiposCorrectos, PTL

\* Division by four.
LEMMA EntreCuatro ==
    ASSUME NEW a \in Nat
    PROVE  a \div 4 \in Nat /\ a = 4 * (a \div 4) + (a % 4) /\ a % 4 \in 0..3
<1> DEFINE b == 4
<1>1. b \in Nat \ {0}
  OBVIOUS
<1> HIDE DEF b
<1>2. a \div b \in Nat /\ a % b \in 0..b-1 /\ a = (a \div b) * b + (a % b)
  BY <1>1, Division
<1> DEFINE q == a \div 4
           r == a % 4
<1>3. q \in Nat /\ r \in 0..3 /\ a = q * 4 + r
  BY <1>2 DEF b
<1> HIDE DEF q, r
<1>4. a = 4 * q + r
  BY <1>3
<1> QED  BY <1>3, <1>4, Zenon DEF q, r

\* The four bytes of an aligned word are inside one page.
LEMMA PalabraEnElMarco ==
    ASSUME NEW d \in Nat, NEW m \in Int, TAM_PAGINA % 4 = 0, d % 4 = 0
    PROVE  LET f == d - (d \div TAM_PAGINA) * TAM_PAGINA + m * TAM_PAGINA IN
           /\ f % TAM_PAGINA = d % TAM_PAGINA
           /\ f \div TAM_PAGINA = m /\ (f + 3) \div TAM_PAGINA = m
<1> DEFINE T == TAM_PAGINA
           q == d \div T
           r == d % T
           f == d - q * T + m * T
<1>1. T \in Nat \ {0}
  BY TablasAssumption
<1>2. q \in Nat /\ r \in 0..T-1 /\ d = q * T + r
  BY <1>1, Division
<1>3. r % 4 = 0
  <2> DEFINE u == T \div 4
             v == d \div 4
  <2>1. u \in Nat /\ T = 4 * u + (T % 4) /\ v \in Nat /\ d = 4 * v + (d % 4)
    BY <1>1, EntreCuatro
  <2> HIDE DEF u, v, T, q, r
  <2>2. T = 4 * u /\ d = 4 * v
    <3>1. T % 4 = 0 /\ d % 4 = 0
      BY DEF T
    <3> QED  BY <1>1, <2>1, <3>1
  <2>3. q * T = 4 * (q * u)
    <3>1. q * (4 * u) = 4 * (q * u)
      BY <1>2, <2>1
    <3> QED  BY <2>2, <3>1
  <2> DEFINE w == q * u
  <2>4. w \in Int
    BY <1>2, <2>1
  <2> HIDE DEF w
  <2>5. r = 4 * (v - w)
    BY <1>2, <2>1, <2>2, <2>3, <2>4 DEF w
  <2> QED  BY <2>1, <2>4, <2>5
<1>4. r + 3 < T
  <2> DEFINE u == T \div 4
  <2>1. u \in Nat /\ T = 4 * u + (T % 4) /\ T % 4 = 0
    BY <1>1, EntreCuatro
  <2> DEFINE v == r \div 4
  <2>2. v \in Nat /\ r = 4 * v + (r % 4)
    BY <1>1, <1>2, EntreCuatro
  <2> HIDE DEF u, v, T, q, r
  <2>3. T = 4 * u /\ r = 4 * v
    BY <1>1, <1>2, <1>3, <2>1, <2>2
  <2>4. r < T
    BY <1>1, <1>2
  <2> QED  BY <2>1, <2>2, <2>3, <2>4
<1>5. f = m * T + r
  <2> HIDE DEF q, r, T
  <2>1. q * T \in Int /\ m * T \in Int
    BY <1>1, <1>2
  <2> DEFINE a == q * T
             b == m * T
  <2> HIDE DEF a, b
  <2>2. a \in Int /\ b \in Int /\ f = d - a + b /\ d = a + r
    BY <1>2, <2>1 DEF a, b
  <2> HIDE DEF f
  <2>3. f = b + r
    <3>1. r \in Int
      BY <1>1, <1>2
    <3> QED  BY <2>2, <3>1
  <2> QED  BY <2>3 DEF b
<1>6. \A s \in 0..T-1 : (m * T + s) \div T = m /\ (m * T + s) % T = s
  <2> TAKE s \in 0..T-1
  <2> HIDE DEF T
  <2> QED  BY <1>1
<1>7. r + 3 \in 0..T-1 /\ f + 3 = m * T + (r + 3)
  <2> HIDE DEF q, r, T, f
  <2> DEFINE b == m * T
  <2>1. b \in Int
    BY <1>1
  <2> HIDE DEF b
  <2>2. f + 3 = b + (r + 3)
    BY <1>2, <1>5, <2>1 DEF b
  <2> QED  BY <1>1, <1>2, <1>4, <2>2 DEF b
<1> HIDE DEF q, r, T, f
<1>8. f \div T = m /\ f % T = r /\ (f + 3) \div T = m
  BY <1>2, <1>5, <1>6, <1>7
<1> QED  BY <1>8 DEF f, q, r, T

\* The four bytes of an access to an aligned address are in the frame of its page, for
\* every size of page that is a multiple of four, of table and of process
\* (mmu.c:184-190, memoria.c:71-89).
THEOREM AccesosEnElMarco == Spec => []AccesoEnElMarco
<1>1. InvTipos => AccesoEnElMarco
  <2> SUFFICES ASSUME InvTipos, LlegaCon(redMemoria, {"REQ_READ", "REQ_WRITE"}), TAM_PAGINA % 4 = 0,
                   Direccion % 4 = 0
               PROVE  LET fisica == redMemoria.stream[1] IN
                      /\ fisica % TAM_PAGINA = Direccion % TAM_PAGINA
                      /\ fisica \div TAM_PAGINA = cpu.marco
                           /\ (fisica + 3) \div TAM_PAGINA = cpu.marco
    BY DEF AccesoEnElMarco
  <2>1. cpu.fase = "dato" /\ redMemoria.codigo \in {"REQ_READ", "REQ_WRITE"}
    BY FaseDeLaConsulta DEF LlegaCon
  <2>2. redMemoria.stream[1] = Fisica
    <3>1. ~LlevaNumero(redMemoria, {"RES_READ", "RES_WRITE"}) /\ EnDato
      BY <2>1 DEF InvTipos, Consultas, LlevaNumero
    <3>2. CASE redMemoria = armarPaqueteCon(Fisica, "REQ_READ")
      BY <3>2, ArmaFijo DEF CodigosUINT32
    <3> DEFINE e == [direccionFisica |-> Fisica, id |-> cpu.pcb.id,
            dato |-> deserializarPeticion(redMemoria.stream).dato]
    <3>3. CASE redMemoria = armarPaqueteCon(e, "REQ_WRITE")
      <4>1. armarPaqueteCon(e, "REQ_WRITE").stream[1] = e.direccionFisica
        BY ArmaFijo
      <4>2. e.direccionFisica = Fisica
        OBVIOUS
      <4> QED  BY <3>3, <4>1, <4>2
    <3> QED  BY <3>1, <3>2, <3>3, Zenon DEF EnDato
  <2>3. Direccion \in Nat /\ cpu.marco \in Int
    BY <2>1, Enteros DEF InvTipos, TiposCPU, REGISTROS
  <2> DEFINE d == Direccion
             m == cpu.marco
  <2> HIDE DEF d, m
  <2>4. d \in Nat /\ m \in Int /\ d % 4 = 0
    BY <2>3 DEF d, m
  <2>5. LET f == d - (d \div TAM_PAGINA) * TAM_PAGINA + m * TAM_PAGINA IN
           /\ f % TAM_PAGINA = d % TAM_PAGINA
           /\ f \div TAM_PAGINA = m /\ (f + 3) \div TAM_PAGINA = m
    BY <2>4, PalabraEnElMarco
  <2> QED  BY <2>2, <2>5, Zenon DEF Fisica, d, m
<1> QED  BY <1>1, TiposCorrectos, PTL
=============================================================================
