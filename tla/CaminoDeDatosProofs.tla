------------------------ MODULE CaminoDeDatosProofs -------------------------
(***************************************************************************)
(* The second and third layers of the inductive invariant of CaminoDeDatos, *)
(* and the safety theorems that follow: each process keeps its program, its *)
(* size and its tables, Memoria falls only with addresses outside a process, *)
(* and each script is executed once and in order.                          *)
(***************************************************************************)
EXTENDS CaminoDeDatosTiposProofs

-----------------------------------------------------------------------------
(* What a console was given, and the way of a PCB *)

\* A list of elements of S with one more at its end.
LEMMA Agrega ==
    ASSUME NEW S, NEW s \in Seq(S), NEW e \in S
    PROVE  /\ Append(s, e) \in Seq(S) /\ Len(s) \in Nat /\ DOMAIN s = 1..Len(s)
                /\ Len(Append(s, e)) = Len(s) + 1
           /\ \A k \in 1..Len(s) : k \in 1..Len(Append(s, e)) /\ Append(s, e)[k] = s[k]
           /\ Append(s, e)[Len(s) + 1] = e
  OBVIOUS

\* What a console was given does not change after its process has an id.
LEMMA LoDado ==
    ASSUME InvTipos, UnProcesoPorConsola, [Next]_vars
    PROVE  /\ Len(historia) \in Nat /\ Len(historia') \in {Len(historia), Len(historia) + 1}
           /\ \A k \in 1..Len(historia) :
                 /\ k \in 1..Len(historia') /\ historia[k].consola \in Consolas
                 /\ historia'[k].consola = historia[k].consola
                 /\ consolas'[historia[k].consola].tamanio = consolas[historia[k].consola].tamanio
                 /\ consolas'[historia[k].consola].guion = consolas[historia[k].consola].guion
<1>1. historia \in Seq(HISTORIA) /\ Len(historia) = id_nuevo_proceso
      /\ consolas \in [Consolas -> CONSOLA]
  BY DEF InvTipos, TiposKernel, TiposConsola
<1>2. Len(historia) \in Nat /\ DOMAIN historia = 1..Len(historia)
      /\ \A k \in 1..Len(historia) : historia[k].consola \in Consolas
  <2>1. Len(historia) \in Nat /\ DOMAIN historia = 1..Len(historia)
    BY <1>1, LenProperties, Zenon
  <2>2. \A k \in 1..Len(historia) : historia[k] \in HISTORIA
    BY <1>1, ElementOfSeq, Zenon
  <2>3. \A h \in HISTORIA : h.consola \in Consolas
    BY DEF HISTORIA
  <2> QED  BY <2>1, <2>2, <2>3
<1> DEFINE n == Len(historia)
<1>3. /\ Len(historia') \in {n, n + 1}
      /\ \A k \in 1..n : k \in 1..Len(historia') /\ historia'[k].consola = historia[k].consola
  <2>1. CASE UNCHANGED historia
    BY <1>2, <2>1
  <2>2. ASSUME NEW c \in Consolas, ManejarProceso(c)
        PROVE  /\ Len(historia') \in {n, n + 1}
               /\ \A k \in 1..n : k \in 1..Len(historia')
                    /\ historia'[k].consola = historia[k].consola
    <3>1. [consola |-> c, ejecutadas |-> <<>>] \in HISTORIA
      BY DEF HISTORIA
    <3>2. historia' = Append(historia, [consola |-> c, ejecutadas |-> <<>>])
      BY <2>2 DEF ManejarProceso
    <3> DEFINE h == [consola |-> c, ejecutadas |-> <<>>]
    <3> HIDE DEF h
    <3>3. Len(historia') = n + 1 /\ \A k \in 1..n : historia'[k] = historia[k]
      <4> DEFINE S == HISTORIA
      <4>0. historia \in Seq(S) /\ h \in S
        BY <1>1, <3>1 DEF h
      <4> HIDE DEF S
      <4>1. /\ Len(Append(historia, h)) = Len(historia) + 1
            /\ \A k \in 1..Len(historia) : Append(historia, h)[k] = historia[k]
        BY <4>0, Agrega
      <4> QED  BY <3>2, <4>1 DEF h
    <3> QED  BY <1>2, <3>3
  <2>3. CASE Fetch
    <3>1. CASE historia' = historia
      BY <1>2, <3>1
    <3>2. CASE historia' = [historia EXCEPT ![cpu.pcb.id + 1].ejecutadas =
              Append(@, fetch(cpu.pcb))]
      <4>1. DOMAIN historia' = DOMAIN historia
        BY <3>2
      <4>2. historia' \in Seq(HISTORIA)
        BY PasoKernel DEF TiposKernel
      <4>3. DOMAIN historia' = 1..Len(historia') /\ Len(historia') \in Nat
        BY <4>2, LenProperties, Zenon
      <4>4. Len(historia') = n
        <5> DEFINE m == Len(historia')
        <5>1. 1..m = 1..n /\ m \in Nat /\ n \in Nat
          BY <1>2, <4>1, <4>3
        <5> HIDE DEF m, n
        <5> QED  BY <5>1 DEF m
      <4>5. \A k \in 1..n : historia'[k].consola = historia[k].consola
        <5> DEFINE i == cpu.pcb.id + 1
                   l == Append(historia[i].ejecutadas, fetch(cpu.pcb))
        <5>1. historia' = [historia EXCEPT ![i].ejecutadas = l]
          BY <3>2
        <5> HIDE DEF i, l
        <5>2. \A k \in 1..n : historia[k] \in HISTORIA
          BY <1>1
        <5> QED  BY <1>2, <5>1, <5>2 DEF HISTORIA
      <4> QED  BY <1>2, <4>4, <4>5
    <3> QED  BY <2>3, <3>1, <3>2, Zenon DEF Fetch
  <2> QED  BY <2>1, <2>2, <2>3, QuienCambia, Zenon
<1>4. \A k \in 1..n : /\ consolas'[historia[k].consola].tamanio =
                           consolas[historia[k].consola].tamanio
                      /\ consolas'[historia[k].consola].guion = consolas[historia[k].consola].guion
  <2>1. CASE UNCHANGED consolas
    BY <2>1
  <2>2. ASSUME NEW c \in Consolas, ConsolaEnvia(c), NEW k \in 1..n
        PROVE  consolas'[historia[k].consola] = consolas[historia[k].consola]
    <3>1. historia[k].consola # c /\ historia[k].consola \in Consolas
      BY <1>2, <2>2 DEF UnProcesoPorConsola, ConsolaEnvia
    <3>2. \A d \in Consolas : d # c => consolas'[d] = consolas[d]
      BY <1>1, <2>2 DEF ConsolaEnvia
    <3> QED  BY <3>1, <3>2
  <2>3. ASSUME NEW c \in Consolas, ConsolaRecibe(c), NEW k \in 1..n
        PROVE  /\ consolas'[historia[k].consola].tamanio = consolas[historia[k].consola].tamanio
               /\ consolas'[historia[k].consola].guion = consolas[historia[k].consola].guion
    <3> DEFINE r == deserializarUINT32(redConsola[c].stream)
    <3>1. consolas' = [consolas EXCEPT ![c].estado = "respondida", ![c].respuesta = r]
      BY <2>3 DEF ConsolaRecibe
    <3> HIDE DEF r
    <3>2. \A d \in Consolas : consolas'[d].tamanio = consolas[d].tamanio
          /\ consolas'[d].guion = consolas[d].guion
      BY <1>1, <3>1 DEF CONSOLA
    <3> QED  BY <1>2, <3>2
  <2> QED  BY <2>1, <2>2, <2>3, QuienCambia
<1> QED  BY <1>2, <1>3, <1>4

\* What the console of a process was given does not change once the process has an
\* id, nor what depends on it.
LEMMA LoDadoPorId ==
    ASSUME InvTipos, UnProcesoPorConsola, [Next]_vars, NEW id \in Nat, id < Len(historia)
    PROVE  /\ id < Len(historia') /\ historia'[id + 1].consola = historia[id + 1].consola
           /\ TamanioDe(id)' = TamanioDe(id) /\ GuionDe(id)' = GuionDe(id) /\ Leido(id)' = Leido(id)
           /\ Programa(id)' = Programa(id) /\ Entero(id)' = Entero(id)
<1> DEFINE k == id + 1
           n == Len(historia)
           m == Len(historia')
<1>1. n \in Nat /\ m \in {n, n + 1} /\ k \in 1..n
  BY LoDado
<1>2. /\ historia'[k].consola = historia[k].consola
      /\ consolas'[historia[k].consola].tamanio = consolas[historia[k].consola].tamanio
      /\ consolas'[historia[k].consola].guion = consolas[historia[k].consola].guion
  BY <1>1, LoDado
<1> HIDE DEF n, m
<1>3. id < m
  BY <1>1 DEF n
<1>4. TamanioDe(id)' = TamanioDe(id) /\ GuionDe(id)' = GuionDe(id)
  BY <1>2 DEF TamanioDe, GuionDe
<1>5. Leido(id)' = Leido(id) /\ Programa(id)' = Programa(id)
  BY <1>4 DEF Leido, Programa
<1> QED  BY <1>2, <1>3, <1>4, <1>5 DEF m, Entero

-----------------------------------------------------------------------------
\* What a PCB keeps on its way.
Sigue(p, q) ==
    /\ q.id = p.id /\ q.tamanioProceso = p.tamanioProceso /\ q.tablaDePaginas = p.tablaDePaginas
    /\ Recorte(p.instrucciones, q.instrucciones)

\* What a PCB keeps, it keeps from step to step.
LEMMA SigueTransitiva ==
    /\ \A p : Sigue(p, p)
    /\ \A p, q, r : Sigue(p, q) /\ Sigue(q, r) => Sigue(p, r)
BY DEF Sigue, Recorte

\* A PCB keeps its process after a burst.
LEMMA SigueTras ==
    ASSUME NEW p \in PCB
    PROVE  Sigue(p, TrasIO(p)) /\ Sigue(p, TrasInterrupcion(p))
           /\ TrasIO(p).PC = p.PC /\ TrasInterrupcion(p).PC = p.PC
<1>1. ASSUME NEW e PROVE /\ Sigue(p, [p EXCEPT !.estimacionRafaga = e])
                         /\ [p EXCEPT !.estimacionRafaga = e].PC = p.PC
  BY DEF PCB, Sigue, Recorte
<1> QED  BY <1>1 DEF TrasIO, TrasInterrupcion

\* One PCB at most is in the CPU or on its connection.
LEMMA EnCPUTipo ==
    ASSUME InvTipos
    PROVE  EnCPU \subseteq PCB /\ \A p, q \in EnCPU : p = q
<1>1. CASE cpu.fase \in ConPcb
  <2>1. EnCPU = {cpu.pcb}
    BY <1>1 DEF EnCPU
  <2> QED  BY <1>1, <2>1, EnEjecucion
<1>2. CASE cpu.fase \notin ConPcb
  <2>1. CASE redDispatch = NULO
    BY <1>2, <2>1 DEF EnCPU
  <2>2. CASE redDispatch # NULO /\ redDispatch.codigo = "PCB_EJECUTADO_IO"
    <3>1. EnCPU = {IoDe(redDispatch).pcb}
      BY <1>2, <2>2 DEF EnCPU
    <3>2. IoDe(redDispatch) \in TIO
      BY <2>2, EnVuelo DEF LlevaIO
    <3> QED  BY <3>1, <3>2 DEF TIO
  <2>3. CASE redDispatch # NULO /\ redDispatch.codigo # "PCB_EJECUTADO_IO"
    <3>1. EnCPU = {PcbDe(redDispatch)}
      BY <1>2, <2>3 DEF EnCPU
    <3>2. PcbDe(redDispatch) \in PCB
      BY <2>3, EnVuelo DEF LlevaPCB
    <3> QED  BY <3>1, <3>2
  <2> QED  BY <2>1, <2>2, <2>3
<1> QED  BY <1>1, <1>2

\* Where the PCB that the Kernel sent is after each step, and where the others go.
LEMMA Mudanza ==
    ASSUME InvTipos, [Next]_vars
    PROVE  \/ /\ UNCHANGED <<estado_ready, estado_blocked>>
              /\ \A q \in EnCPU' : \E p \in EnCPU : Sigue(p, q)
           \/ /\ RecibeTabla /\ EnCPU' = EnCPU /\ UNCHANGED estado_blocked
              /\ estado_ready' = estado_ready
                   \union {[creando EXCEPT !.tablaDePaginas = NumeroDe(redCrear)]}
           \/ \E p \in estado_ready : /\ estado_ready' = estado_ready \ {p}
                                      /\ EnCPU = {} /\ EnCPU' \subseteq {p}
                                           /\ UNCHANGED estado_blocked
           \/ \E p \in EnCPU, io \in TIO : /\ Sigue(p, io.pcb) /\ EnCPU' = {}
                                                /\ UNCHANGED estado_ready
                                           /\ estado_blocked' = estado_blocked \union {io}
           \/ \E p \in EnCPU, q \in PCB : /\ Sigue(p, q) /\ EnCPU' = {} /\ UNCHANGED estado_blocked
                                          /\ estado_ready' = estado_ready \union {q}
           \/ \E io \in estado_blocked : /\ estado_blocked' = estado_blocked \ {io}
                                              /\ EnCPU' = EnCPU
                                         /\ estado_ready' = estado_ready \union {io.pcb}
<1> DEFINE Quieto == /\ UNCHANGED <<estado_ready, estado_blocked>>
                     /\ \A q \in EnCPU' : \E p \in EnCPU : Sigue(p, q)
<1>1. CASE UNCHANGED <<cpu, redDispatch>>
  <2>1. EnCPU' = EnCPU
    BY <1>1 DEF EnCPU
  <2>2. CASE UNCHANGED <<estado_ready, estado_blocked>>
    BY <2>1, <2>2, SigueTransitiva
  <2>3. CASE RecibeTabla
    BY <2>1, <2>3 DEF RecibeTabla, NumeroDe
  <2>4. CASE TerminaIO
    BY <2>1, <2>4 DEF TerminaIO
  <2>5. CASE Despacha
    <3>1. PICK p \in estado_ready : estado_ready' = estado_ready \ {p}
      BY <2>5 DEF Despacha
    <3>2. EnCPU = {} /\ UNCHANGED estado_blocked
      BY <2>5 DEF Despacha, EnCPU, ConPcb, Ejecuta
    <3> QED  BY <2>1, <3>1, <3>2
  <2>6. CASE VuelveIO \/ VuelveInterrumpido
    <3>1. redDispatch # NULO /\ redDispatch' = NULO
      BY <2>6 DEF VuelveIO, VuelveInterrumpido, LlegaCon
    <3> QED  BY <1>1, <3>1
  <2> QED  BY <2>2, <2>3, <2>4, <2>5, <2>6, QuienCambia, Zenon
<1>2. CASE Despacha
  <2>1. PICK p \in estado_ready : redDispatch' = armarPaqueteCon(p, "REQ_PCB_A_EJECUTAR")
        /\ estado_ready' = estado_ready \ {p}
    BY <1>2 DEF Despacha
  <2>2. cpu.fase = "ocioso" /\ cpu' = cpu /\ redDispatch = NULO /\ UNCHANGED estado_blocked
    BY <1>2 DEF Despacha, varsCPU
  <2>3. p \in PCB
    BY DEF InvTipos, TiposKernel
  <2>4. redDispatch'.codigo = "REQ_PCB_A_EJECUTAR" /\ PcbDe(redDispatch') = p
    BY <2>1, <2>3, ArmaPCB DEF CodigosPCB
  <2>5. EnCPU = {} /\ EnCPU' \subseteq {p}
    BY <2>2, <2>4 DEF EnCPU, ConPcb, Ejecuta
  <2> QED  BY <2>1, <2>2, <2>5
<1>3. CASE VuelveIO
  <2>1. PICK r \in recibirPaquete(redDispatch) :
           estado_blocked' = estado_blocked \union {[deserializarIO(r.stream) EXCEPT !.pcb =
               TrasIO(@)]}
    BY <1>3 DEF VuelveIO
  <2>2. redDispatch # NULO /\ redDispatch.codigo = "PCB_EJECUTADO_IO" /\ redDispatch' = NULO
        /\ cpu' = cpu /\ UNCHANGED estado_ready
    BY <1>3 DEF VuelveIO, LlegaCon, varsCPU
  <2>3. LlevaIO(redDispatch) /\ cpu.fase \notin ConPcb
    BY <2>2, VueltaDeLaCPU
  <2> DEFINE io == deserializarIO(r.stream)
             p == IoDe(redDispatch).pcb
  <2>4. io \in TIO /\ Sigue(p, io.pcb)
    BY <2>3, RecibeIO DEF Sigue
  <2>5. EnCPU = {p} /\ EnCPU' = {}
    BY <2>2, <2>3 DEF EnCPU
  <2> HIDE DEF io, p
  <2> DEFINE b == [io EXCEPT !.pcb = TrasIO(@)]
  <2>6. TrasIO(io.pcb) \in PCB /\ Sigue(io.pcb, TrasIO(io.pcb))
    BY <2>4, TrasLaRafaga, SigueTras DEF TIO
  <2>7. b \in TIO /\ b.pcb = TrasIO(io.pcb)
    BY <2>4, <2>6 DEF TIO
  <2>8. Sigue(p, b.pcb)
    BY <2>4, <2>6, <2>7, SigueTransitiva
  <2>9. estado_blocked' = estado_blocked \union {b}
    BY <2>1 DEF io
  <2> HIDE DEF b
  <2> QED  BY <2>2, <2>5, <2>7, <2>8, <2>9
<1>4. CASE VuelveInterrumpido
  <2>1. PICK r \in recibirPaquete(redDispatch) :
           estado_ready' = estado_ready \union {TrasInterrupcion(deserializarPCB(r.stream, 0))}
    BY <1>4 DEF VuelveInterrumpido
  <2>2. redDispatch # NULO /\ redDispatch.codigo = "PCB_EJECUTADO_INTERRUPCION"
        /\ redDispatch' = NULO /\ cpu' = cpu /\ UNCHANGED estado_blocked
    BY <1>4 DEF VuelveInterrumpido, LlegaCon, varsCPU
  <2>3. LlevaPCB(redDispatch, CodigosPCB) /\ cpu.fase \notin ConPcb
    BY <2>2, VueltaDeLaCPU
  <2> DEFINE q == deserializarPCB(r.stream, 0)
             p == PcbDe(redDispatch)
  <2>4. q \in PCB /\ Sigue(p, q)
    BY <2>3, RecibePCB DEF Sigue
  <2>5. EnCPU = {p} /\ EnCPU' = {}
    BY <2>2, <2>3 DEF EnCPU
  <2> HIDE DEF q, p
  <2>6. TrasInterrupcion(q) \in PCB /\ Sigue(p, TrasInterrupcion(q))
    BY <2>4, TrasLaRafaga, SigueTras, SigueTransitiva
  <2> QED  BY <2>1, <2>2, <2>5, <2>6 DEF q
<1>5. CASE VuelveExit
  <2>1. redDispatch # NULO /\ redDispatch.codigo = "PCB_EJECUTADO_EXIT" /\ redDispatch' = NULO
        /\ cpu' = cpu
        /\ UNCHANGED <<estado_ready, estado_blocked>>
    BY <1>5 DEF VuelveExit, LlegaCon, varsCPU
  <2>2. cpu.fase \notin ConPcb
    BY <2>1, VueltaDeLaCPU
  <2>3. EnCPU' = {}
    BY <2>1, <2>2 DEF EnCPU
  <2> QED  BY <2>1, <2>3
<1>6. CASE CPU
  <2>1. UNCHANGED <<estado_ready, estado_blocked>>
    BY <1>6 DEF CPU, PideTraduccion, RecibeTraduccion, RecibePcb, Fetch, ConsultaTabla,
       ConsultaMarco,
           AccedeAMemoria, RecibeDato, TerminaInstruccion, PideAMemoria, varsKernel
  <2>2. \A q \in EnCPU' : \E p \in EnCPU : Sigue(p, q)
    <3>1. CASE PideTraduccion \/ RecibeTraduccion
      <4>1. /\ redDispatch' = redDispatch
            /\ cpu.fase \in {"inicio", "traduccion"} /\ cpu'.fase \in {"traduccion", "ocioso"}
        BY <3>1, Registros DEF PideTraduccion, RecibeTraduccion
      <4>2. redDispatch = NULO
        BY <4>1 DEF InvTipos, Dispatch
      <4>3. EnCPU' = {}
        BY <4>1, <4>2 DEF EnCPU, ConPcb, Ejecuta
      <4> QED  BY <4>3
    <3>2. CASE RecibePcb
      <4>1. redDispatch # NULO /\ redDispatch.codigo = "REQ_PCB_A_EJECUTAR"
            /\ redDispatch' = redDispatch
        BY <3>2 DEF RecibePcb, LlegaCon
      <4>2. PICK r \in recibirPaquete(redDispatch) : cpu'.pcb = deserializarPCB(r.stream, 0)
        BY <3>2, Registros
      <4>3. cpu.fase = "ocioso" /\ cpu'.fase = "fetch"
        BY <3>2, Registros
      <4>4. LlevaPCB(redDispatch, CodigosPCB)
        BY <4>1, EnVuelo
      <4>5. EnCPU = {PcbDe(redDispatch)} /\ EnCPU' = {cpu'.pcb}
        BY <4>1, <4>3 DEF EnCPU, ConPcb, Ejecuta
      <4>6. Sigue(PcbDe(redDispatch), cpu'.pcb)
        BY <4>2, <4>4, RecibePCB DEF Sigue
      <4> QED  BY <4>5, <4>6
    <3>3. CASE Fetch \/ ConsultaTabla \/ ConsultaMarco \/ AccedeAMemoria \/ RecibeDato
      <4>1. cpu.fase \in ConPcb /\ cpu'.fase \in ConPcb /\ cpu'.pcb = cpu.pcb
        BY <3>3, Registros DEF ConPcb, Ejecuta
      <4>2. EnCPU' = EnCPU
        BY <4>1 DEF EnCPU
      <4> QED  BY <4>2, SigueTransitiva
    <3>4. CASE TerminaInstruccion
      <4>1. cpu.fase = "execute" /\ cpu.fase \in ConPcb /\ EnCPU = {cpu.pcb} /\ cpu.pcb \in PCB
        BY <3>4, Registros, EnEjecucion DEF EnCPU, ConPcb, Ejecuta
      <4>2. CASE cpu'.fase = "ocioso"
            /\ (redDispatch' = armarPaqueteCon(Avanza(cpu.pcb), "PCB_EJECUTADO_INTERRUPCION")
                                          \/ redDispatch' = armarPaqueteCon(Avanza(cpu.pcb),
                                               "PCB_EJECUTADO_EXIT"))
        <5>1. redDispatch'.codigo # "PCB_EJECUTADO_IO" /\ PcbDe(redDispatch') = Avanza(cpu.pcb)
          BY <4>1, <4>2, AvanzaTipo, ArmaPCB DEF CodigosPCB, Ejecuta
        <5>2. EnCPU' \subseteq {Avanza(cpu.pcb)}
          BY <4>2, <5>1 DEF EnCPU, ConPcb, Ejecuta
        <5>3. Sigue(cpu.pcb, Avanza(cpu.pcb))
          BY <4>1, AvanzaTipo DEF Sigue, Recorte, Ejecuta
        <5> QED  BY <4>1, <5>2, <5>3
      <4>3. CASE cpu'.fase = "ocioso"
            /\ redDispatch' = armarPaqueteCon([tiempoBloqueo |-> fetch(cpu.pcb).parametro1,
                 pcb |-> Avanza(cpu.pcb)], "PCB_EJECUTADO_IO")
        <5> DEFINE io == [tiempoBloqueo |-> fetch(cpu.pcb).parametro1, pcb |-> Avanza(cpu.pcb)]
        <5>1. io \in TIO /\ io.pcb = Avanza(cpu.pcb)
          BY <4>1, AvanzaTipo DEF Ejecuta
        <5> HIDE DEF io
        <5>2. redDispatch'.codigo = "PCB_EJECUTADO_IO" /\ IoDe(redDispatch') = io
          BY <4>3, <5>1, ArmaIO DEF io
        <5>3. EnCPU' \subseteq {Avanza(cpu.pcb)}
          BY <4>3, <5>1, <5>2 DEF EnCPU, ConPcb, Ejecuta
        <5>4. Sigue(cpu.pcb, Avanza(cpu.pcb))
          BY <4>1, AvanzaTipo DEF Sigue, Recorte, Ejecuta
        <5> QED  BY <4>1, <5>3, <5>4
      <4>4. CASE cpu'.fase = "fetch" /\ cpu'.pcb = [cpu.pcb EXCEPT !.PC = @ + 1]
        <5>1. EnCPU' = {cpu'.pcb}
          BY <4>4 DEF EnCPU, ConPcb, Ejecuta
        <5>2. Sigue(cpu.pcb, cpu'.pcb)
          BY <4>1, <4>4 DEF Sigue, Recorte, PCB
        <5> QED  BY <4>1, <5>1, <5>2
      <4> QED  BY <3>4, <4>2, <4>3, <4>4, Registros, Zenon
    <3> QED  BY <1>6, <3>1, <3>2, <3>3, <3>4, Zenon DEF CPU
  <2> QED  BY <2>1, <2>2
<1>7. CASE UNCHANGED redDispatch /\ ~CPU
  BY <1>1, <1>7, QuienCambia
<1> QED  BY <1>2, <1>3, <1>4, <1>5, <1>6, <1>7, QuienCambia, Zenon DEF CPU

-----------------------------------------------------------------------------
(* Consoles and their processes *)

\* The history after each step: the same consoles, and one more with a process.
LEMMA CuantosHay ==
    ASSUME InvTipos, UnProcesoPorConsola, [Next]_vars
    PROVE  /\ Len(historia) = id_nuevo_proceso /\ Len(historia') = id_nuevo_proceso'
                /\ id_nuevo_proceso \in Nat
           /\ (\E c \in Consolas : ManejarProceso(c)) \/ id_nuevo_proceso' = id_nuevo_proceso
           /\ \A c \in Consolas : ManejarProceso(c) =>
                 id_nuevo_proceso' = id_nuevo_proceso + 1
                     /\ historia'[id_nuevo_proceso + 1].consola = c
<1>1. Len(historia) = id_nuevo_proceso /\ id_nuevo_proceso \in Nat /\ historia \in Seq(HISTORIA)
  BY DEF InvTipos, TiposKernel
<1>2. Len(historia') = id_nuevo_proceso'
  BY PasoKernel DEF TiposKernel
<1>3. (\E c \in Consolas : ManejarProceso(c)) \/ id_nuevo_proceso' = id_nuevo_proceso
  BY QuienCambia, Zenon
<1>4. ASSUME NEW c \in Consolas, ManejarProceso(c)
      PROVE  id_nuevo_proceso' = id_nuevo_proceso + 1 /\ historia'[id_nuevo_proceso + 1].consola = c
  <2> DEFINE h == [consola |-> c, ejecutadas |-> <<>>]
             S == HISTORIA
  <2>1. h \in S /\ historia \in Seq(S) /\ h.consola = c
    BY <1>1 DEF HISTORIA
  <2>2. historia' = Append(historia, h) /\ id_nuevo_proceso' = id_nuevo_proceso + 1
    BY <1>4 DEF ManejarProceso
  <2> HIDE DEF h, S
  <2>3. Append(historia, h)[Len(historia) + 1] = h
    BY <2>1, Agrega
  <2> QED  BY <1>1, <2>1, <2>2, <2>3
<1> QED  BY <1>1, <1>2, <1>3, <1>4

\* A console sends one process, which gets one id.
LEMMA PasoConsolas ==
    ASSUME InvTipos, UnProcesoPorConsola, Conectadas, [Next]_vars
    PROVE  UnProcesoPorConsola'
<1> DEFINE n == Len(historia)
           De(c) == [tamanioProceso |-> consolas[c].tamanio,
                     instrucciones |-> obtenerInstrucciones(leerInstrucciones(consolas[c].guion))]
           Manda(c) == LlegaCon(redConsola[c], {"PROCESO"}) => ProcesoDe(redConsola[c]) = De(c)
           Espera(c) == consolas[c].estado = "inicio" => redConsola[c] = NULO
           Nuevo(c) == consolas[c].estado = "inicio" \/ LlegaCon(redConsola[c], {"PROCESO"})
           Ajeno(c) == \A k \in 1..Len(historia) : historia[k].consola # c
           Uno == \A j, k \in 1..Len(historia) : historia[j].consola = historia[k].consola => j = k
<1>1. /\ \A c \in Consolas : Manda(c) /\ Espera(c) /\ (Nuevo(c) => Ajeno(c))
      /\ Uno
  BY DEF UnProcesoPorConsola
<1> DEFINE Meta == /\ \A c \in Consolas : Manda(c)' /\ Espera(c)' /\ (Nuevo(c)' => Ajeno(c)')
                   /\ Uno'
<1>2. SUFFICES Meta
  BY DEF UnProcesoPorConsola
<1>3. /\ n \in Nat /\ \A k \in 1..n : historia'[k].consola = historia[k].consola
      /\ Len(historia') = n => (Uno' /\ \A c \in Consolas : Ajeno(c) => Ajeno(c)')
  <2>1. /\ n \in Nat /\ \A k \in 1..n : historia'[k].consola = historia[k].consola
    BY LoDado
  <2> QED  BY <1>1, <2>1
<1>4. consolas \in [Consolas -> CONSOLA] /\ DOMAIN redConsola = Consolas
  BY DEF InvTipos, TiposConsola
<1>5. CASE UNCHANGED <<consolas, redConsola>> /\ ~ \E c \in Consolas : ManejarProceso(c)
  <2>1. Len(historia') = n
    BY <1>5, CuantosHay
  <2>2. \A c \in Consolas : Manda(c)' /\ Espera(c)' /\ (Nuevo(c)' => Nuevo(c))
    BY <1>1, <1>5
  <2>3. Uno' /\ \A c \in Consolas : Ajeno(c) => Ajeno(c)'
    BY <1>3, <2>1
  <2> HIDE DEF Manda, Espera, Nuevo, Ajeno, Uno
  <2> QED  BY <1>1, <2>2, <2>3
<1>6. ASSUME NEW c \in Consolas, ConsolaEnvia(c) PROVE Meta
  <2>1. consolas[c].estado = "inicio" /\ historia' = historia
    BY <1>6 DEF ConsolaEnvia, varsCPU
  <2>2. Ajeno(c)' /\ Uno' /\ \A d \in Consolas : Ajeno(d)' = Ajeno(d)
    BY <1>1, <2>1
  <2>3. PICK argv \in Argumentos[c] :
           /\ consolas' = [consolas EXCEPT ![c].guion = argv[1], ![c].tamanio = argv[2],
                             ![c].estado = IF ConsolaCae(argv[1]) THEN "caida" ELSE "espera"]
           /\ redConsola' = [redConsola EXCEPT ![c] = IF ConsolaCae(argv[1]) THEN NULO
                ELSE armarPaqueteCon([tamanioProceso |-> argv[2],
                        instrucciones |-> obtenerInstrucciones(leerInstrucciones(argv[1]))],
                            "PROCESO")]
    BY <1>6 DEF ConsolaEnvia
  <2>4. ASSUME NEW d \in Consolas, d # c PROVE Manda(d)' /\ Espera(d)' /\ (Nuevo(d)' => Ajeno(d)')
    <3>1. consolas'[d] = consolas[d] /\ redConsola'[d] = redConsola[d]
      BY <1>4, <2>3, <2>4
    <3>2. Manda(d)' = Manda(d) /\ Espera(d)' = Espera(d) /\ Nuevo(d)' = Nuevo(d)
      BY <3>1
    <3> QED  BY <1>1, <2>2, <3>2
  <2>5. /\ consolas'[c].guion = argv[1] /\ consolas'[c].tamanio = argv[2]
        /\ consolas'[c].estado = IF ConsolaCae(argv[1]) THEN "caida" ELSE "espera"
    <3> DEFINE g == argv[1]
               t == argv[2]
               e == IF ConsolaCae(argv[1]) THEN "caida" ELSE "espera"
    <3>1. consolas' = [consolas EXCEPT ![c].guion = g, ![c].tamanio = t, ![c].estado = e]
      BY <2>3
    <3> HIDE DEF g, t, e
    <3>2. consolas'[c].guion = g /\ consolas'[c].tamanio = t /\ consolas'[c].estado = e
      BY <1>4, <3>1 DEF CONSOLA
    <3> QED  BY <3>2 DEF g, t, e
  <2>6. Espera(c)'
    BY <2>5
  <2>7. Manda(c)'
    <3>1. CASE ConsolaCae(argv[1])
      <4>1. redConsola'[c] = NULO
        BY <1>4, <2>3, <3>1
      <4> QED  BY <4>1 DEF LlegaCon
    <3>2. CASE ~ConsolaCae(argv[1])
      <4> DEFINE p == [tamanioProceso |-> argv[2],
              instrucciones |-> obtenerInstrucciones(leerInstrucciones(argv[1]))]
      <4>1. p \in PROC
        BY <3>2, ProgramaTipo
      <4>2. De(c)' = p
        BY <2>5
      <4>3. redConsola'[c] = armarPaqueteCon(p, "PROCESO")
        BY <1>4, <2>3, <3>2
      <4> HIDE DEF p
      <4>4. ProcesoDe(redConsola'[c]) = p
        BY <4>1, <4>3, ArmaProceso
      <4> HIDE DEF De
      <4> QED  BY <4>2, <4>4
    <3> QED  BY <3>1, <3>2
  <2> QED  BY <2>2, <2>4, <2>6, <2>7
<1>7. ASSUME NEW c \in Consolas, ConsolaRecibe(c) PROVE Meta
  <2>1. historia' = historia
    BY <1>7 DEF ConsolaRecibe, varsCPU
  <2> DEFINE v == deserializarUINT32(redConsola[c].stream)
  <2>2. /\ consolas' = [consolas EXCEPT ![c].estado = "respondida", ![c].respuesta = v]
        /\ redConsola' = [redConsola EXCEPT ![c] = NULO]
    BY <1>7 DEF ConsolaRecibe
  <2> HIDE DEF v
  <2>3. /\ \A d \in Consolas : d # c => consolas'[d] = consolas[d] /\ redConsola'[d] = redConsola[d]
        /\ consolas'[c].estado = "respondida" /\ redConsola'[c] = NULO
    BY <1>4, <2>2 DEF CONSOLA
  <2>4. \A d \in Consolas : d # c => Manda(d)' = Manda(d) /\ Espera(d)' = Espera(d)
        /\ Nuevo(d)' = Nuevo(d)
    BY <2>3
  <2>5. Manda(c)' /\ Espera(c)' /\ ~Nuevo(c)'
    BY <2>3 DEF LlegaCon
  <2>6. Uno' /\ \A d \in Consolas : Ajeno(d)' = Ajeno(d)
    BY <1>1, <2>1
  <2> HIDE DEF Manda, Espera, Nuevo, Ajeno, Uno
  <2> QED  BY <1>1, <2>4, <2>5, <2>6
<1>8. ASSUME NEW c \in Consolas, ManejarProceso(c) PROVE Meta
  <2>1. /\ consolas' = consolas /\ redConsola' = [redConsola EXCEPT ![c] = NULO]
        /\ LlegaCon(redConsola[c], {"PROCESO"})
    BY <1>8 DEF ManejarProceso
  <2>2. Len(historia') = n + 1 /\ historia'[n + 1].consola = c
    BY <1>8, CuantosHay
  <2>3. Ajeno(c) /\ consolas[c].estado # "inicio"
    BY <1>1, <2>1 DEF LlegaCon
  <2>4. Uno'
    BY <1>1, <1>3, <2>2, <2>3
  <2>5. \A d \in Consolas : d # c /\ Ajeno(d) => Ajeno(d)'
    BY <1>3, <2>2
  <2>6. \A d \in Consolas : d # c => redConsola'[d] = redConsola[d]
    BY <1>4, <2>1
  <2>7. redConsola'[c] = NULO
    BY <1>4, <2>1
  <2>8. \A d \in Consolas : d # c => Manda(d)' = Manda(d) /\ Espera(d)' = Espera(d)
        /\ Nuevo(d)' = Nuevo(d)
    BY <2>1, <2>6
  <2>9. Manda(c)' /\ Espera(c)' /\ ~Nuevo(c)'
    BY <2>1, <2>3, <2>7 DEF LlegaCon
  <2> HIDE DEF Manda, Espera, Nuevo, Ajeno, Uno
  <2> QED  BY <1>1, <2>4, <2>5, <2>8, <2>9
<1>9. CASE VuelveExit
  <2>1. PICK r \in recibirPaquete(redDispatch) : \E k \in consolas_conectadas :
           redConsola' = [redConsola EXCEPT ![k.socket] = armarPaqueteCon(deserializarPCB(r.stream,
               0).id, "RES_FIN_PROCESO")]
    BY <1>9 DEF VuelveExit
  <2> DEFINE v == deserializarPCB(r.stream, 0).id
  <2>2. PICK k \in consolas_conectadas : redConsola' = [redConsola EXCEPT ![k.socket] =
            armarPaqueteCon(v, "RES_FIN_PROCESO")]
    BY <2>1
  <2> HIDE DEF v
  <2> DEFINE c == k.socket
  <2>3. consolas' = consolas /\ historia' = historia
    BY <1>9 DEF VuelveExit, varsCPU
  <2>4. c \in Consolas /\ ~Ajeno(c)
    <3>1. k \in [id : Nat, socket : Consolas]
      BY DEF InvTipos, TiposKernel
    <3>2. k.id < Len(historia) /\ c = historia[k.id + 1].consola
      BY DEF Conectadas
    <3>3. k.id + 1 \in 1..Len(historia)
      BY <1>3, <3>1, <3>2
    <3> QED  BY <3>1, <3>2, <3>3
  <2>5. consolas[c].estado # "inicio"
    BY <1>1, <2>4
  <2>6. redConsola'[c].codigo = "RES_FIN_PROCESO" /\ \A d \in Consolas : d # c =>
            redConsola'[d] = redConsola[d]
    <3> DEFINE w == armarPaqueteCon(v, "RES_FIN_PROCESO")
    <3>1. w.codigo = "RES_FIN_PROCESO"
      BY Armado
    <3>2. redConsola' = [redConsola EXCEPT ![c] = w]
      BY <2>2
    <3> HIDE DEF w, c
    <3> QED  BY <1>4, <2>4, <3>1, <3>2
  <2>7. Manda(c)' /\ Espera(c)' /\ ~Nuevo(c)'
    BY <2>3, <2>5, <2>6 DEF LlegaCon
  <2>8. \A d \in Consolas : d # c => Manda(d)' = Manda(d) /\ Espera(d)' = Espera(d)
        /\ Nuevo(d)' = Nuevo(d)
    BY <2>3, <2>6
  <2>9. Uno' /\ \A d \in Consolas : Ajeno(d)' = Ajeno(d)
    BY <1>1, <2>3
  <2> HIDE DEF Manda, Espera, Nuevo, Ajeno, Uno, c
  <2> QED  BY <1>1, <2>7, <2>8, <2>9
<1> QED  BY <1>5, <1>6, <1>7, <1>8, <1>9, QuienCambia, Zenon

-----------------------------------------------------------------------------
\* The PCBs that exist, in any place.
Vivos == EnElKernel \union EnCPU
\* What a PCB keeps wherever it goes, its tables apart.
Mismo(p, q) ==
    q.id = p.id /\ q.tamanioProceso = p.tamanioProceso /\ Recorte(p.instrucciones, q.instrucciones)

\* Every one of them is a PCB.
LEMMA VivosTipo ==
    ASSUME InvTipos
    PROVE  Vivos \subseteq PCB
<1>1. {estado_new[k] : k \in DOMAIN estado_new} \subseteq PCB
  <2>1. estado_new \in Seq(PCB)
    BY DEF InvTipos, TiposKernel
  <2> HIDE DEF PCB
  <2> QED  BY <2>1
<1>2. {io.pcb : io \in estado_blocked} \subseteq PCB
  <2>1. estado_blocked \subseteq TIO
    BY DEF InvTipos, TiposKernel
  <2>2. \A io \in TIO : io.pcb \in PCB
    BY DEF TIO
  <2> QED  BY <2>1, <2>2
<1>3. creando \in PCB \union {NULO} /\ estado_ready \subseteq PCB
  BY DEF InvTipos, TiposKernel
<1>4. EnCPU \subseteq PCB
  BY EnCPUTipo
<1> HIDE DEF PCB
<1> QED  BY <1>1, <1>2, <1>3, <1>4 DEF Vivos, EnElKernel

\* Where each PCB comes from.
LEMMA Origen ==
    ASSUME InvTipos, [Next]_vars
    PROVE  \A q \in Vivos' :
              \/ \E p \in Vivos : Mismo(p, q)
              \/ \E c \in Consolas : /\ ManejarProceso(c)
                                     /\ \E r \in recibirPaquete(redConsola[c]) :
                                           q = iniciarPcb(deserializarProceso(r.stream))
<1> DEFINE Viene(q) == \E p \in Vivos : Mismo(p, q)
           Nace(q) == \E c \in Consolas : /\ ManejarProceso(c)
                                     /\ \E r \in recibirPaquete(redConsola[c]) :
                                           q = iniciarPcb(deserializarProceso(r.stream))
<1>0. /\ estado_new \in Seq(PCB) /\ DOMAIN estado_new = 1..Len(estado_new)
      /\ creando \in PCB \union {NULO} /\ estado_ready \subseteq PCB /\ estado_blocked \subseteq TIO
  BY LenProperties DEF InvTipos, TiposKernel
<1>1. \A p \in Vivos : Viene(p)
  BY DEF Mismo, Recorte
<1>1a. \A p \in Vivos : \A q : Sigue(p, q) => Viene(q)
  BY DEF Mismo, Sigue
<1>1b. /\ estado_ready \subseteq Vivos /\ EnCPU \subseteq Vivos
            /\ \A io \in estado_blocked : io.pcb \in Vivos
       /\ creando # NULO => creando \in Vivos
       /\ \A k \in DOMAIN estado_new : estado_new[k] \in Vivos
  BY DEF Vivos, EnElKernel
<1>2. \A k \in DOMAIN estado_new' : Viene(estado_new'[k]) \/ Nace(estado_new'[k])
  <2>1. CASE UNCHANGED estado_new
    BY <1>1, <1>1b, <2>1
  <2>2. ASSUME NEW c \in Consolas, ManejarProceso(c)
        PROVE  \A k \in DOMAIN estado_new' : Viene(estado_new'[k]) \/ Nace(estado_new'[k])
    <3>1. PICK r \in recibirPaquete(redConsola[c]) :
             estado_new' = Append(estado_new, iniciarPcb(deserializarProceso(r.stream)))
      BY <2>2 DEF ManejarProceso
    <3> DEFINE e == iniciarPcb(deserializarProceso(r.stream))
               S == {e} \union PCB
               m == Len(estado_new)
    <3>2. Nace(e)
      BY <2>2
    <3>3. estado_new' = Append(estado_new, e) /\ e \in S /\ PCB \subseteq S
      BY <3>1
    <3> HIDE DEF e, S, Nace, Viene
    <3>4. estado_new \in Seq(S)
      BY <1>0, <3>3, SeqMonotona
    <3>5. /\ m \in Nat /\ DOMAIN estado_new = 1..m /\ Append(estado_new, e) \in Seq(S)
          /\ Len(Append(estado_new, e)) = m + 1
          /\ \A k \in 1..m : Append(estado_new, e)[k] = estado_new[k]
          /\ Append(estado_new, e)[m + 1] = e
      BY <3>3, <3>4, Agrega
    <3>6. DOMAIN estado_new' = 1..(m + 1)
      BY <3>3, <3>5, LenProperties
    <3> HIDE DEF m
    <3> QED  BY <1>1, <1>1b, <3>2, <3>3, <3>5, <3>6
  <2>3. CASE PideCrear
    <3>1. estado_new # <<>> /\ estado_new' = Tail(estado_new)
      BY <2>3 DEF PideCrear
    <3> DEFINE m == Len(estado_new)
    <3>2. /\ m \in Nat \ {0} /\ DOMAIN Tail(estado_new) = 1..(m - 1)
          /\ \A k \in 1..(m - 1) : Tail(estado_new)[k] = estado_new[k + 1]
      <4> HIDE DEF PCB
      <4> QED  BY <1>0, <3>1, HeadTailProperties, LenProperties, EmptySeq
    <3> HIDE DEF m
    <3>3. \A k \in 1..(m - 1) : k + 1 \in 1..m
      BY <3>2
    <3> QED  BY <1>0, <1>1, <1>1b, <3>1, <3>2, <3>3 DEF m
  <2> QED  BY <2>1, <2>2, <2>3, QuienCambia, Zenon
<1>3. creando' # NULO => Viene(creando')
  <2>1. CASE UNCHANGED creando
    BY <1>1, <1>1b, <2>1
  <2>2. CASE PideCrear
    <3>1. estado_new # <<>> /\ creando' = Head(estado_new)
      BY <2>2 DEF PideCrear
    <3>2. Head(estado_new) = estado_new[1] /\ 1 \in DOMAIN estado_new
      <4> HIDE DEF PCB
      <4> QED  BY <1>0, <3>1, HeadTailProperties, LenProperties, EmptySeq
    <3> QED  BY <1>1, <1>1b, <3>1, <3>2
  <2>3. CASE RecibeTabla
    BY <2>3 DEF RecibeTabla
  <2> QED  BY <2>1, <2>2, <2>3, QuienCambia, Zenon
<1>4. \A q \in estado_ready' \union EnCPU' : Viene(q)
  <2>1. CASE RecibeTabla /\ EnCPU' = EnCPU
             /\ estado_ready' = estado_ready
                  \union {[creando EXCEPT !.tablaDePaginas = NumeroDe(redCrear)]}
    <3>1. creando \in PCB /\ creando # NULO
      BY <1>0, <2>1, NuloAssumption DEF RecibeTabla, InvTipos, Cola
    <3> DEFINE v == NumeroDe(redCrear)
    <3> HIDE DEF v
    <3>2. Mismo(creando, [creando EXCEPT !.tablaDePaginas = v])
      BY <3>1 DEF PCB, Mismo, Recorte
    <3>3. Viene([creando EXCEPT !.tablaDePaginas = v])
      BY <1>1b, <3>1, <3>2
    <3> HIDE DEF Viene
    <3> QED  BY <1>1, <1>1b, <2>1, <3>3 DEF v
  <2> HIDE DEF Viene
  <2> QED  BY <1>1, <1>1a, <1>1b, <2>1, Mudanza
<1>5. \A io \in estado_blocked' : Viene(io.pcb)
  <2> HIDE DEF Viene
  <2> QED  BY <1>1, <1>1a, <1>1b, Mudanza
<1> HIDE DEF Viene, Nace
<1>6. \A q \in Vivos' : Viene(q) \/ Nace(q)
  <2>1. \A q \in {estado_new'[k] : k \in DOMAIN estado_new'} : Viene(q) \/ Nace(q)
    BY <1>2
  <2>2. Vivos' = {estado_new'[k] : k \in DOMAIN estado_new'} \union ({creando'} \ {NULO})
              \union estado_ready' \union {io.pcb : io \in estado_blocked'} \union EnCPU'
    BY DEF Vivos, EnElKernel
  <2> QED  BY <1>3, <1>4, <1>5, <2>1, <2>2
<1> QED  BY <1>6 DEF Viene, Nace

-----------------------------------------------------------------------------
(* PCBs, ids and first level tables *)

\* A PCB keeps the size and the instructions of its console wherever it goes.
LEMMA PasoBuenos ==
    ASSUME InvTipos, UnProcesoPorConsola, Buenos, [Next]_vars
    PROVE  Buenos'
<1>1. SUFFICES ASSUME NEW q, q \in Vivos' PROVE Bueno(q)'
  BY DEF Buenos, Vivos
<1>2. ASSUME NEW p \in Vivos, Mismo(p, q) PROVE Bueno(q)'
  <2>1. Bueno(p) /\ p \in PCB /\ p.id \in Nat
    BY VivosTipo DEF Buenos, Vivos, PCB
  <2> DEFINE id == p.id
  <2>2. id \in Nat /\ id < Len(historia)
    BY <2>1 DEF Bueno
  <2>3. id < Len(historia') /\ TamanioDe(id)' = TamanioDe(id) /\ Leido(id)' = Leido(id)
    <3> HIDE DEF id
    <3> QED  BY <2>2, LoDadoPorId
  <2>4. q.id = id /\ q.tamanioProceso = p.tamanioProceso
    BY <1>2 DEF Mismo
  <2>5. p.tamanioProceso = TamanioDe(id) /\ Recorte(Leido(id), p.instrucciones)
    BY <2>1 DEF Bueno
  <2> DEFINE leido == Leido(id)
             is == p.instrucciones
             js == q.instrucciones
  <2>6. Recorte(leido, is) /\ Recorte(is, js)
    BY <1>2, <2>5 DEF Mismo
  <2>7. Recorte(leido, js)
    <3> HIDE DEF leido, is, js
    <3> QED  BY <2>6 DEF Recorte
  <2>8. Leido(q.id)' = leido /\ TamanioDe(q.id)' = q.tamanioProceso /\ q.id < Len(historia')
    BY <2>3, <2>4, <2>5
  <2> HIDE DEF leido, id
  <2> QED  BY <2>7, <2>8 DEF Bueno
<1>3. ASSUME NEW c \in Consolas, ManejarProceso(c), NEW r \in recibirPaquete(redConsola[c]),
             q = iniciarPcb(deserializarProceso(r.stream))
      PROVE  Bueno(q)'
  <2>0. PICK n : n = id_nuevo_proceso
    OBVIOUS
  <2> DEFINE z == deserializarProceso(r.stream)
             p == ProcesoDe(redConsola[c])
  <2>1. LlegaCon(redConsola[c], {"PROCESO"}) /\ consolas' = consolas
    BY <1>3 DEF ManejarProceso
  <2>2. LlevaProceso(redConsola[c])
    <3>1. redConsola[c] # NULO /\ redConsola[c].codigo = "PROCESO"
      BY <2>1 DEF LlegaCon
    <3>2. LlevaProceso(redConsola[c]) \/ LlevaNumero(redConsola[c], {"RES_FIN_PROCESO"})
      BY <3>1 DEF InvTipos, TiposConsola
    <3> QED  BY <3>1, <3>2 DEF LlevaNumero
  <2>3. z.tamanioProceso = p.tamanioProceso /\ Recorte(p.instrucciones, z.instrucciones)
    BY <2>2, RecibeProceso
  <2>4. /\ p.tamanioProceso = consolas[c].tamanio
        /\ p.instrucciones = obtenerInstrucciones(leerInstrucciones(consolas[c].guion))
    <3>1. p = [tamanioProceso |-> consolas[c].tamanio,
               instrucciones |-> obtenerInstrucciones(leerInstrucciones(consolas[c].guion))]
      BY <2>1, Zenon DEF UnProcesoPorConsola
    <3> HIDE DEF p
    <3> QED  BY <3>1
  <2>5. q.id = n /\ q.tamanioProceso = z.tamanioProceso /\ q.instrucciones = z.instrucciones
    BY <1>3, <2>0 DEF iniciarPcb
  <2>6. n \in Nat /\ Len(historia') = n + 1 /\ historia'[n + 1].consola = c
    BY <1>3, <2>0, CuantosHay
  <2> HIDE DEF z, p
  <2>7. TamanioDe(n)' = consolas[c].tamanio /\ GuionDe(n)' = consolas[c].guion
    BY <2>1, <2>6 DEF TamanioDe, GuionDe
  <2>8. Leido(n)' = p.instrucciones
    BY <2>4, <2>7 DEF Leido
  <2>9. n < Len(historia')
    BY <2>6
  <2> QED  BY <2>3, <2>4, <2>5, <2>7, <2>8, <2>9 DEF Bueno
<1> QED  BY <1>1, <1>2, <1>3, Origen

-----------------------------------------------------------------------------
\* What Numeracion counts are naturals.
LEMMA EnterosDeNumeracion ==
    ASSUME InvTipos
    PROVE  /\ id_nuevo_proceso \in Nat /\ Len(estado_new) \in Nat /\ Len(tablasPrimerNivel) \in Nat
           /\ Proximo \in Int
           /\ creando = NULO => Proximo = id_nuevo_proceso - Len(estado_new)
           /\ creando # NULO => Proximo = id_nuevo_proceso - Len(estado_new) - 1
<1>1. id_nuevo_proceso \in Nat /\ Len(estado_new) \in Nat
  <2> HIDE DEF PCB
  <2> QED  BY DEF InvTipos, TiposKernel
<1>2. Len(tablasPrimerNivel) \in Nat
  <2> DEFINE S == Seq([id : Nat, tablaSegundoNivel : Nat])
  <2>1. tablasPrimerNivel \in Seq(S)
    BY DEF InvTipos, TiposMemoria
  <2> HIDE DEF S
  <2> QED  BY <2>1
<1> QED  BY <1>1, <1>2 DEF Proximo

\* The next id to have tables.
LEMMA ElProximo ==
    ASSUME InvTipos, [Next]_vars
    PROVE  /\ RecibeTabla => Proximo' = Proximo + 1
           /\ RecibeTabla \/ Proximo' = Proximo
<1>1. InvTipos
  OBVIOUS
<1>2. id_nuevo_proceso \in Nat /\ estado_new \in Seq(PCB) /\ Len(estado_new) \in Nat
  BY EnterosDeNumeracion DEF InvTipos, TiposKernel
<1>3. CASE UNCHANGED <<id_nuevo_proceso, estado_new, creando>>
  BY <1>3 DEF Proximo, RecibeTabla, InvTipos, Cola
<1>4. ASSUME NEW c \in Consolas, ManejarProceso(c) PROVE Proximo' = Proximo /\ ~RecibeTabla
  <2>1. id_nuevo_proceso' = id_nuevo_proceso + 1 /\ creando' = creando
        /\ \E e : estado_new' = Append(estado_new, e)
    BY <1>4 DEF ManejarProceso
  <2>2. PICK e : estado_new' = Append(estado_new, e)
    BY <2>1
  <2>3. Len(estado_new') = Len(estado_new) + 1
    <3> DEFINE S == PCB \union {e}
    <3>1. estado_new \in Seq(S) /\ e \in S
      BY <1>2, SeqMonotona
    <3> HIDE DEF S
    <3> QED  BY <2>2, <3>1
  <2>4. ~RecibeTabla
    BY <1>2, <2>1 DEF RecibeTabla, varsKernel
  <2> QED  BY <1>2, <2>1, <2>3, <2>4 DEF Proximo
<1>5. CASE PideCrear
  <2>1. creando = NULO /\ estado_new # <<>> /\ creando' = Head(estado_new)
        /\ estado_new' = Tail(estado_new)
        /\ id_nuevo_proceso' = id_nuevo_proceso
    BY <1>5 DEF PideCrear
  <2>2. Head(estado_new) \in PCB /\ Len(Tail(estado_new)) = Len(estado_new) - 1
    <3> HIDE DEF PCB
    <3> QED  BY <1>2, <2>1, HeadTailProperties
  <2>3. creando' # NULO
    BY <2>1, <2>2, NuloAssumption
  <2>4. ~RecibeTabla
    BY <2>3 DEF RecibeTabla
  <2> QED  BY <1>2, <2>1, <2>2, <2>3, <2>4 DEF Proximo
<1>6. CASE RecibeTabla
  <2>1. creando # NULO /\ creando' = NULO /\ UNCHANGED <<id_nuevo_proceso, estado_new>>
    BY <1>6 DEF RecibeTabla, InvTipos, Cola
  <2> QED  BY <1>2, <1>6, <2>1 DEF Proximo
<1> QED  BY <1>3, <1>4, <1>5, <1>6, QuienCambia, Zenon

\* The ids, the first level tables and the PCBs that were created agree in every step:
\* the Kernel asks for one creation at a time (planificador.c:245-262).
LEMMA PasoNumeracion ==
    ASSUME InvTipos, Numeracion, [Next]_vars
    PROVE  Numeracion'
<1> DEFINE n == Len(estado_new)
           t == Len(tablasPrimerNivel)
           Pide == \E k \in 1..Len(colaKernel) : colaKernel[k].codigo = "REQ_CREAR_PROCESO"
           Ids == \A k \in 1..Len(estado_new) : estado_new[k].id =
               id_nuevo_proceso - Len(estado_new) + k - 1
           Dueno == creando # NULO => creando.id = Proximo
           Fuera == \A p \in Despachados : p.id < Proximo /\ p.tablaDePaginas = p.id
           Libre == creando = NULO => Len(tablasPrimerNivel) = Proximo
           Pedida == Pide => Len(tablasPrimerNivel) = Proximo
           Dada == redCrear # NULO => Len(tablasPrimerNivel) = Proximo + 1
               /\ NumeroDe(redCrear) = Proximo
           Justas == Len(tablasPrimerNivel) \in {Proximo, Proximo + 1}
<1>1. Proximo >= 0 /\ Ids /\ Dueno /\ Fuera /\ Libre /\ Pedida /\ Dada /\ Justas
  BY DEF Numeracion
<1>2. id_nuevo_proceso \in Nat /\ n \in Nat /\ t \in Nat /\ Proximo \in Nat
  BY <1>1, EnterosDeNumeracion
<1>3. Proximo' \in Nat
  BY <1>2, ElProximo
<1>4. Ids'
  <2>1. CASE UNCHANGED <<id_nuevo_proceso, estado_new>>
    BY <1>1, <2>1
  <2>2. ASSUME NEW c \in Consolas, ManejarProceso(c) PROVE Ids'
    <3>1. PICK z : estado_new' = Append(estado_new, iniciarPcb(z))
      BY <2>2 DEF ManejarProceso
    <3> DEFINE e == iniciarPcb(z)
               S == PCB \union {e}
    <3>2. e.id = id_nuevo_proceso
      BY DEF iniciarPcb
    <3>3. estado_new' = Append(estado_new, e) /\ id_nuevo_proceso' = id_nuevo_proceso + 1
      BY <2>2, <3>1 DEF ManejarProceso
    <3> HIDE DEF e
    <3>4. estado_new \in Seq(S) /\ e \in S
      BY SeqMonotona DEF InvTipos, TiposKernel
    <3> HIDE DEF S
    <3>5. /\ Len(Append(estado_new, e)) = n + 1
          /\ \A k \in 1..n : Append(estado_new, e)[k] = estado_new[k]
          /\ Append(estado_new, e)[n + 1] = e
      BY <3>4, Agrega
    <3> HIDE DEF n
    <3>6. \A k \in 1..n : estado_new[k].id = id_nuevo_proceso - n + k - 1
      BY <1>1 DEF n
    <3> SUFFICES ASSUME NEW k \in 1..(n + 1)
                 PROVE  estado_new'[k].id = (id_nuevo_proceso + 1) - (n + 1) + k - 1
      BY <3>3, <3>5
    <3>7. CASE k \in 1..n
      <4>1. estado_new'[k].id = id_nuevo_proceso - n + k - 1
        BY <3>3, <3>5, <3>6, <3>7
      <4> QED  BY <1>2, <4>1
    <3>8. CASE k = n + 1
      <4>1. estado_new'[k].id = id_nuevo_proceso
        BY <3>2, <3>3, <3>5, <3>8
      <4> QED  BY <1>2, <3>8, <4>1
    <3> QED  BY <1>2, <3>7, <3>8
  <2>3. CASE PideCrear
    <3>1. estado_new \in Seq(PCB) /\ estado_new # <<>> /\ estado_new' = Tail(estado_new)
          /\ id_nuevo_proceso' = id_nuevo_proceso
      BY <2>3 DEF PideCrear, InvTipos, TiposKernel
    <3>2. Len(Tail(estado_new)) = n - 1
          /\ \A k \in 1..(n - 1) : Tail(estado_new)[k] = estado_new[k + 1]
      <4> HIDE DEF PCB
      <4> QED  BY <3>1, HeadTailProperties
    <3> HIDE DEF n
    <3>3. \A k \in 1..n : estado_new[k].id = id_nuevo_proceso - n + k - 1
      BY <1>1 DEF n
    <3> SUFFICES ASSUME NEW k \in 1..(n - 1)
                 PROVE  estado_new'[k].id = id_nuevo_proceso - (n - 1) + k - 1
      BY <3>1, <3>2
    <3>4. k + 1 \in 1..n
      BY <1>2
    <3>5. estado_new'[k].id = id_nuevo_proceso - n + (k + 1) - 1
      BY <3>1, <3>2, <3>3, <3>4
    <3> QED  BY <1>2, <3>5
  <2> QED  BY <2>1, <2>2, <2>3, QuienCambia, Zenon
<1>5. Dueno'
  <2>1. CASE UNCHANGED creando
    <3>1. creando = NULO \/ ~RecibeTabla
      BY <2>1 DEF RecibeTabla, InvTipos, Cola
    <3> QED  BY <1>1, <2>1, <3>1, ElProximo
  <2>2. CASE RecibeTabla
    BY <2>2 DEF RecibeTabla
  <2>3. CASE PideCrear
    <3>1. estado_new \in Seq(PCB) /\ estado_new # <<>> /\ creando' = Head(estado_new)
          /\ creando = NULO /\ creando' # NULO
      <4>1. estado_new \in Seq(PCB) /\ estado_new # <<>> /\ creando' = Head(estado_new)
            /\ creando = NULO
        BY <2>3 DEF PideCrear, InvTipos, TiposKernel
      <4>2. Head(estado_new) \in PCB
        <5> HIDE DEF PCB
        <5> QED  BY <4>1, HeadTailProperties
      <4> QED  BY <4>1, <4>2, NuloAssumption
    <3>2. Head(estado_new) = estado_new[1] /\ 1 \in 1..n
      <4> HIDE DEF PCB
      <4> QED  BY <3>1, HeadTailProperties, EmptySeq, LenProperties
    <3>3. creando'.id = id_nuevo_proceso - n
      BY <1>1, <1>2, <3>1, <3>2
    <3>4. Proximo = id_nuevo_proceso - n
      BY <3>1, EnterosDeNumeracion
    <3>5. Proximo' = Proximo
      BY <3>1, ElProximo DEF RecibeTabla
    <3> QED  BY <3>3, <3>4, <3>5
  <2> QED  BY <2>1, <2>2, <2>3, QuienCambia, Zenon
<1>6. Fuera'
  <2> DEFINE Bien(p) == p.id < Proximo /\ p.tablaDePaginas = p.id
  <2>1. \A p : Bien(p) /\ p.id \in Int => Bien(p)'
    BY <1>2, ElProximo
  <2>2. /\ \A p \in estado_ready : Bien(p) /\ p \in PCB
        /\ \A p \in EnCPU : Bien(p) /\ p \in PCB
        /\ \A io \in estado_blocked : Bien(io.pcb) /\ io.pcb \in PCB
    BY <1>1, EnCPUTipo DEF Despachados, InvTipos, TiposKernel, TIO
  <2>2a. \A p \in PCB : p.id \in Int
    BY DEF PCB
  <2>3. \A p, q : Bien(p) /\ p \in PCB /\ Sigue(p, q) => Bien(q)'
    BY <2>1, <2>2a DEF Sigue
  <2>3a. \A p : Bien(p) /\ p \in PCB => Bien(p)'
    BY <2>1, <2>2a
  <2>4. \A p \in estado_ready' \union EnCPU' : Bien(p)'
    <3>1. CASE RecibeTabla /\ EnCPU' = EnCPU
             /\ estado_ready' = estado_ready
                  \union {[creando EXCEPT !.tablaDePaginas = NumeroDe(redCrear)]}
      <4>0. PICK v, q : v = NumeroDe(redCrear) /\ q = [creando EXCEPT !.tablaDePaginas = v]
        OBVIOUS
      <4>1. creando \in PCB /\ creando.id = Proximo /\ v = Proximo
        BY <1>1, <3>1, <4>0 DEF RecibeTabla, InvTipos, Cola, TiposKernel
      <4>2. Proximo' = Proximo + 1
        BY <3>1, ElProximo
      <4>3. q.id = Proximo /\ q.tablaDePaginas = Proximo
        BY <4>0, <4>1 DEF PCB
      <4>4. Bien(q)'
        BY <1>2, <4>2, <4>3
      <4> HIDE DEF Bien
      <4> QED  BY <2>2, <2>3a, <3>1, <4>0, <4>4
    <3> HIDE DEF Bien
    <3> QED  BY <2>2, <2>3, <2>3a, <3>1, Mudanza
  <2>5. \A io \in estado_blocked' : Bien(io.pcb)'
    <3> HIDE DEF Bien
    <3> QED  BY <2>2, <2>3, <2>3a, Mudanza
  <2> HIDE DEF Bien
  <2>6. \A p \in Despachados' : Bien(p)'
    BY <2>4, <2>5 DEF Despachados
  <2> QED  BY <2>6 DEF Bien
<1>7. Libre' /\ Pedida' /\ Dada' /\ Justas'
  <2>1. CASE UNCHANGED <<creando, colaKernel, redCrear, tablasPrimerNivel>>
    <3>1. ~RecibeTabla
      BY <2>1 DEF RecibeTabla
    <3>2. Proximo' = Proximo
      BY <3>1, ElProximo
    <3> QED  BY <1>1, <2>1, <3>2
  <2>2. CASE PideCrear
    <3>1. creando = NULO /\ creando' # NULO /\ redCrear' = redCrear
          /\ tablasPrimerNivel' = tablasPrimerNivel
      <4>1. creando = NULO /\ creando' = Head(estado_new) /\ redCrear' = redCrear
            /\ tablasPrimerNivel' = tablasPrimerNivel
            /\ estado_new \in Seq(PCB) /\ estado_new # <<>>
        BY <2>2 DEF PideCrear, varsMemoria, varsTablas, InvTipos, TiposKernel
      <4>2. Head(estado_new) \in PCB
        <5> HIDE DEF PCB
        <5> QED  BY <4>1, HeadTailProperties
      <4> QED  BY <4>1, <4>2, NuloAssumption
    <3>2. Proximo' = Proximo
      BY <3>1, ElProximo DEF RecibeTabla
    <3>3. redCrear = NULO
      BY <3>1 DEF InvTipos, Cola
    <3> QED  BY <1>1, <3>1, <3>2, <3>3
  <2>3. CASE RecibeTabla
    <3>1. creando' = NULO /\ redCrear' = NULO /\ UNCHANGED <<colaKernel, tablasPrimerNivel>>
          /\ redCrear # NULO
      BY <2>3 DEF RecibeTabla, varsMemoria, varsTablas
    <3>2. Proximo' = Proximo + 1 /\ t = Proximo + 1
      BY <1>1, <2>3, <3>1, ElProximo
    <3>3. ~Pide
      BY <3>1 DEF InvTipos, Cola
    <3> QED  BY <3>1, <3>2, <3>3
  <2>4. CASE CrearProceso
    <3>1. creando \in PCB /\ creando # NULO /\ creando' = creando /\ Pide
      <4>1. creando \in PCB /\ Pide /\ creando' = creando
        BY <2>4, CreaLasDeCreando, QuienCambia DEF CrearProceso, varsKernel
      <4> QED  BY <4>1, NuloAssumption
    <3>2. Proximo' = Proximo /\ t = Proximo
      <4>1. ~RecibeTabla
        BY <3>1 DEF RecibeTabla
      <4> QED  BY <1>1, <3>1, <4>1, ElProximo
    <3>3. Len(tablasPrimerNivel') = t + 1
      <4> DEFINE S == Seq([id : Nat, tablaSegundoNivel : Nat])
                 e == TablaNueva(creando.id, creando.tamanioProceso, Len(tablasSegundoNivel))
      <4>1. tablasPrimerNivel' = Append(tablasPrimerNivel, e)
        BY <2>4, CreaTablas
      <4>2. tablasPrimerNivel \in Seq(S)
        BY DEF InvTipos, TiposMemoria
      <4>3. tablasPrimerNivel \in Seq(S \union {e})
        BY <4>2, SeqMonotona
      <4> HIDE DEF S, e
      <4> QED  BY <4>1, <4>3
    <3>4. redCrear' = armarPaqueteCon(t, "RES_CREAR_PROCESO")
      BY <2>4 DEF CrearProceso
    <3>5. NumeroDe(redCrear') = t
      <4>1. \A e : \A cod \in CodigosUINT32 : NumeroDe(armarPaqueteCon(e, cod)) = e
        BY ArmaFijo
      <4>2. "RES_CREAR_PROCESO" \in CodigosUINT32
        BY DEF CodigosUINT32
      <4> QED  BY <3>4, <4>1, <4>2
    <3>6. ~Pide'
      <4>2. Pide' => redCrear' = NULO
        BY PasoCola DEF Cola
      <4>3. CASE redCrear' = NULO
        <5>1. EsSecuencia(colaKernel) /\ colaKernel # <<>> /\ colaKernel' = Tail(colaKernel)
          BY <2>4 DEF CrearProceso, InvTipos, Cola
        <5>2. Len(colaKernel') = Len(colaKernel) - 1
              /\ \A k \in 1..Len(colaKernel)-1 : colaKernel'[k] = colaKernel[k + 1]
          BY <5>1, SecuenciaSaca
        <5>3. Len(colaKernel) \in Nat /\ Len(colaKernel) >= 1
              /\ colaKernel[1].codigo = "REQ_CREAR_PROCESO"
          BY <2>4, <5>1, SecuenciaSaca, CreaLasDeCreando
        <5>4. \A k \in 1..Len(colaKernel)-1 : colaKernel[k + 1].codigo # "REQ_CREAR_PROCESO"
          <6> TAKE k \in 1..Len(colaKernel)-1
          <6>1. k + 1 \in 1..Len(colaKernel) /\ 1 \in 1..Len(colaKernel) /\ k + 1 # 1
            BY <5>3
          <6> QED  BY <5>3, <6>1 DEF InvTipos, Cola
        <5> QED  BY <5>2, <5>4
      <4> QED  BY <4>2, <4>3
    <3> HIDE DEF Pide, t
    <3>7. Len(tablasPrimerNivel') = Proximo' + 1 /\ NumeroDe(redCrear') = Proximo'
      BY <3>2, <3>3, <3>5
    <3> QED  BY <3>1, <3>6, <3>7
  <2>5. CASE VuelveExit \/ FinProceso
    <3>1. UNCHANGED <<creando, redCrear, tablasPrimerNivel>>
      BY <2>5 DEF VuelveExit, FinProceso, varsKernel, varsMemoria, varsTablas
    <3>2. Proximo' = Proximo
      BY <3>1, ElProximo DEF RecibeTabla
    <3>3. Pide' => Pide
      <4>1. CASE VuelveExit
        <5>1. PICK p : colaKernel' = Append(colaKernel, armarPaqueteCon(p, "REQ_FIN_PROCESO"))
          BY <4>1 DEF VuelveExit
        <5> DEFINE w == armarPaqueteCon(p, "REQ_FIN_PROCESO")
        <5>2. w.codigo = "REQ_FIN_PROCESO"
          BY Armado
        <5> HIDE DEF w
        <5>3. /\ Len(colaKernel) \in Nat /\ Len(colaKernel') = Len(colaKernel) + 1
              /\ \A k \in 1..Len(colaKernel) : colaKernel'[k] = colaKernel[k]
              /\ colaKernel'[Len(colaKernel) + 1] = w
          BY <5>1, SecuenciaAgrega DEF InvTipos, Cola, w
        <5> QED  BY <5>2, <5>3
      <4>2. CASE FinProceso
        <5>1. EsSecuencia(colaKernel) /\ colaKernel # <<>> /\ colaKernel' = Tail(colaKernel)
          BY <4>2 DEF FinProceso, InvTipos, Cola
        <5>2. /\ Len(colaKernel) \in Nat /\ Len(colaKernel') = Len(colaKernel) - 1
              /\ \A k \in 1..Len(colaKernel)-1 : colaKernel'[k] = colaKernel[k + 1]
          BY <5>1, SecuenciaSaca
        <5>3. \A k \in 1..Len(colaKernel)-1 : k + 1 \in 1..Len(colaKernel)
          BY <5>2
        <5> QED  BY <5>2, <5>3
      <4> QED  BY <2>5, <4>1, <4>2
    <3> HIDE DEF Pide
    <3> QED  BY <1>1, <3>1, <3>2, <3>3
  <2> QED  BY <2>1, <2>2, <2>3, <2>4, <2>5, QuienCambia, Zenon
<1> HIDE DEF Ids, Dueno, Fuera, Libre, Pedida, Dada, Justas
<1>8. Proximo' >= 0 /\ Ids' /\ Dueno' /\ Fuera' /\ Libre' /\ Pedida' /\ Dada' /\ Justas'
  BY <1>3, <1>4, <1>5, <1>6, <1>7
<1> QED  BY <1>8 DEF Numeracion, Ids, Dueno, Fuera, Libre, Pedida, Dada, Justas

-----------------------------------------------------------------------------
(* The tables of a process, and its place *)

\* Each first level table is of a process that has an id.
LEMMA TablasConDueno ==
    ASSUME InvTipos, Numeracion
    PROVE  /\ Len(tablasPrimerNivel) \in Nat /\ Len(tablasPrimerNivel) <= Len(historia)
           /\ Proximo \in Nat /\ Proximo <= Len(tablasPrimerNivel)
                /\ Len(historia) = id_nuevo_proceso
<1>1. Len(historia) = id_nuevo_proceso /\ Proximo >= 0
      /\ Len(tablasPrimerNivel) \in {Proximo, Proximo + 1}
           /\ (creando = NULO => Len(tablasPrimerNivel) = Proximo)
  BY DEF InvTipos, TiposKernel, Numeracion
<1> QED  BY <1>1, EnterosDeNumeracion

\* The lists of tables only grow.
LEMMA TablasQuedan ==
    ASSUME InvTipos, Numeracion, [Next]_vars
    PROVE  \A id \in Nat : id < Len(tablasPrimerNivel) =>
              /\ id < Len(tablasPrimerNivel')
                   /\ tablasPrimerNivel'[id + 1] = tablasPrimerNivel[id + 1]
<1>1. CASE UNCHANGED tablasPrimerNivel
  BY <1>1
<1>2. CASE CrearProceso
  <2> DEFINE S == Seq([id : Nat, tablaSegundoNivel : Nat])
             e == TablaNueva(creando.id, creando.tamanioProceso, Len(tablasSegundoNivel))
  <2>1. tablasPrimerNivel' = Append(tablasPrimerNivel, e)
    BY <1>2, CreaTablas
  <2>2. tablasPrimerNivel \in Seq(S)
    BY DEF InvTipos, TiposMemoria
  <2>3. tablasPrimerNivel \in Seq(S \union {e}) /\ e \in S \union {e}
    BY <2>2, SeqMonotona
  <2> HIDE DEF S, e
  <2>4. /\ Len(tablasPrimerNivel) \in Nat /\ Len(tablasPrimerNivel') = Len(tablasPrimerNivel) + 1
        /\ \A k \in 1..Len(tablasPrimerNivel) : tablasPrimerNivel'[k] = tablasPrimerNivel[k]
    BY <2>1, <2>3, Agrega
  <2> QED  BY <2>4
<1> QED  BY <1>1, <1>2, QuienCambia, Zenon

\* The tables of a process stay its own while others are created and end: the lists
\* only grow (memoria.c:96-175).
LEMMA PasoTablas ==
    ASSUME InvTipos, UnProcesoPorConsola, Buenos, Numeracion, TablasHechas, [Next]_vars
    PROVE  TablasHechas'
<1> DEFINE n == Len(tablasPrimerNivel)
<1>1. n \in Nat /\ n <= Len(historia)
  BY TablasConDueno
<1>2. \A id \in 0..n-1 : TablaDe(id) /\ TamanioDe(id)' = TamanioDe(id)
  <2> TAKE id \in 0..n-1
  <2>1. id \in Nat /\ id < Len(historia)
    <3>1. Len(historia) \in Nat
      BY TablasConDueno DEF InvTipos, TiposKernel
    <3> QED  BY <1>1, <3>1
  <2>2. TablaDe(id)
    BY DEF TablasHechas
  <2> QED  BY <2>1, <2>2, LoDadoPorId
<1>3. CASE UNCHANGED <<tablasPrimerNivel, tablasSegundoNivel>>
  <2>1. ASSUME NEW id \in 0..n-1 PROVE TablaDe(id)'
    <3>1. TablaDe(id) /\ TamanioDe(id)' = TamanioDe(id)
      BY <1>2
    <3> HIDE DEF n
    <3> QED  BY <1>3, <3>1 DEF TablaDe
  <2> QED  BY <1>3, <2>1 DEF TablasHechas
<1>4. CASE CrearProceso
  <2>0. PICK i, tam : i = creando.id /\ tam = creando.tamanioProceso
    OBVIOUS
  <2>0a. PICK T1, T2, m1, m2 : T1 = tablasPrimerNivel /\ T2 = tablasSegundoNivel /\ m1 = Len(T1)
         /\ m2 = Len(T2)
    OBVIOUS
  <2> DEFINE N1 == TablaNueva(i, tam, m2)
             N2 == TablasNuevas(i, tam)
             m == marcosProceso(tam)
             R1 == Seq([id : Nat, tablaSegundoNivel : Nat])
             R2 == Seq([id : Nat, paginaSwap : Nat])
  <2>1. tablasSegundoNivel' = T2 \o N2 /\ tablasPrimerNivel' = Append(T1, N1)
    BY <1>4, <2>0, <2>0a, CreaTablas
  <2>2. T1 \in Seq(R1) /\ T2 \in Seq(R2) /\ i \in Nat /\ tam \in Nat /\ creando \in PCB
    BY <1>4, <2>0, <2>0a, CreaLasDeCreando DEF InvTipos, TiposMemoria, PCB
  <2>3. m2 \in Nat /\ m1 \in Nat /\ m1 = n
    <3> HIDE DEF R1, R2
    <3> QED  BY <2>0a, <2>2
  <2>4. N2 \in Seq(R2) /\ Len(N2) = Tablas(m) /\ N1 \in R1 /\ Tablas(m) \in Nat
        /\ \A t \in Nat \ {0} : Entradas(m, t) \in Nat
    BY <2>2, <2>3, TablasNuevasTipo, Medidas
  <2>5. /\ N1 = [t \in 1..Tablas(m) |-> [id |-> i, tablaSegundoNivel |-> m2 + t - 1]]
        /\ N2 = [t \in 1..Tablas(m) |-> [j \in 1..Entradas(m, t) |-> [id |-> i,
             paginaSwap |-> ID_EN_SWAP(t, j)]]]
    BY DEF TablaNueva, TablasNuevas
  <2> HIDE DEF N1, N2, R1, R2, m, n
  <2>6. /\ Len(Append(T1, N1)) = m1 + 1 /\ Append(T1, N1)[m1 + 1] = N1
        /\ \A k \in 1..m1 : Append(T1, N1)[k] = T1[k]
    BY <2>0a, <2>2, <2>4, Agrega
  <2>7. /\ Len(T2 \o N2) = m2 + Tablas(m)
        /\ \A k \in 1..m2 : (T2 \o N2)[k] = T2[k]
        /\ \A k \in 1..Tablas(m) : (T2 \o N2)[m2 + k] = N2[k]
    <3>1. /\ Len(T2 \o N2) = Len(T2) + Len(N2)
          /\ \A k \in 1..Len(T2) : (T2 \o N2)[k] = T2[k]
          /\ \A k \in 1..Len(N2) : (T2 \o N2)[Len(T2) + k] = N2[k]
      <4>1. T2 \in Seq(R2) /\ N2 \in Seq(R2)
        BY <2>2, <2>4
      <4>2. PICK a, b : a = T2 /\ b = N2
        OBVIOUS
      <4>3. /\ Len(a \o b) = Len(a) + Len(b)
            /\ \A k \in 1..Len(a) : (a \o b)[k] = a[k]
            /\ \A k \in 1..Len(b) : (a \o b)[Len(a) + k] = b[k]
        BY <4>1, <4>2, Concatena
      <4> QED  BY <4>2, <4>3
    <3> QED  BY <2>0a, <2>4, <3>1
  <2>8. i = n /\ TamanioDe(i)' = tam
    <3>1. creando # NULO /\ creando \in Vivos
      BY <2>2, NuloAssumption DEF Vivos, EnElKernel
    <3>2. Bueno(creando)
      BY <3>1 DEF Buenos, Vivos
    <3>3. creando.id = Proximo /\ n = Proximo
      BY <1>4, <3>1, CreaLasDeCreando DEF Numeracion, n
    <3>4. i < Len(historia) /\ tam = TamanioDe(i)
      BY <2>0, <3>2 DEF Bueno
    <3>5. TamanioDe(i)' = TamanioDe(i)
      BY <2>2, <3>4, LoDadoPorId
    <3> QED  BY <2>0, <3>3, <3>4, <3>5
  <2>9. TablaDe(i)'
    <3>1. tablasPrimerNivel'[i + 1] = N1
      BY <2>1, <2>3, <2>6, <2>8
    <3>2. DOMAIN N1 = 1..Tablas(m) /\ \A t \in 1..Tablas(m) : N1[t].tablaSegundoNivel = m2 + t - 1
      BY <2>5
    <3>3. ASSUME NEW t \in 1..Tablas(m)
          PROVE  /\ Hay(tablasSegundoNivel', m2 + t - 1)
                 /\ Toma(tablasSegundoNivel', m2 + t - 1) = [j \in 1..Entradas(m, t) |-> [id |-> i,
                      paginaSwap |-> ID_EN_SWAP(t, j)]]
      <4>1. (m2 + t - 1) + 1 = m2 + t /\ m2 + t - 1 \in 0..(m2 + Tablas(m)) - 1
        BY <2>3, <2>4
      <4>2. tablasSegundoNivel'[m2 + t] = N2[t] /\ Len(tablasSegundoNivel') = m2 + Tablas(m)
        BY <2>1, <2>7
      <4>3. N2[t] = [j \in 1..Entradas(m, t) |-> [id |-> i, paginaSwap |-> ID_EN_SWAP(t, j)]]
        BY <2>5
      <4>4. Hay(tablasSegundoNivel', m2 + t - 1)
        BY <4>1, <4>2 DEF Hay
      <4>5. Toma(tablasSegundoNivel', m2 + t - 1) = tablasSegundoNivel'[m2 + t]
        BY <4>1 DEF Toma
      <4> QED  BY <4>2, <4>3, <4>4, <4>5
    <3>4. marcosProceso(TamanioDe(i)') = m
      BY <2>8 DEF m
    <3> QED  BY <3>1, <3>2, <3>3, <3>4 DEF TablaDe
  <2>10. ASSUME NEW id \in 0..n-1 PROVE TablaDe(id)'
    <3>1. TablaDe(id) /\ TamanioDe(id)' = TamanioDe(id)
      BY <1>2 DEF n
    <3>2. tablasPrimerNivel'[id + 1] = tablasPrimerNivel[id + 1]
      <4>1. id + 1 \in 1..m1
        BY <2>3
      <4> QED  BY <2>0a, <2>1, <2>6, <4>1
    <3>3. \A v : Hay(tablasSegundoNivel, v) => Hay(tablasSegundoNivel', v)
          /\ Toma(tablasSegundoNivel', v) = Toma(tablasSegundoNivel, v)
      <4> TAKE v
      <4> SUFFICES ASSUME v \in 0..m2-1
                   PROVE  v \in 0..(m2 + Tablas(m))-1 /\ (T2 \o N2)[v + 1] = T2[v + 1]
        BY <2>0a, <2>1, <2>7 DEF Hay, Toma
      <4>1. v + 1 \in 1..m2
        BY <2>3
      <4> QED  BY <2>3, <2>4, <2>7, <4>1
    <3>4. marcosProceso(TamanioDe(id)') = marcosProceso(TamanioDe(id))
      BY <3>1
    <3> QED  BY <3>1, <3>2, <3>3, <3>4 DEF TablaDe
  <2>11. Len(tablasPrimerNivel') = n + 1
    BY <2>1, <2>3, <2>6
  <2>12. 0..(n + 1) - 1 = 0..n-1 \union {n}
    BY <2>3
  <2> QED  BY <2>8, <2>9, <2>10, <2>11, <2>12 DEF TablasHechas
<1> QED  BY <1>3, <1>4, QuienCambia, Zenon

-----------------------------------------------------------------------------
\* A process is dispatched from ready, and comes back to one place.
LEMMA PasoUnSitio ==
    ASSUME InvTipos, Numeracion, UnSitio, [Next]_vars
    PROVE  UnSitio'
<1> DEFINE Sitio(listos, bloqueados, enCPU) ==
              /\ \A p, q \in listos : p.id = q.id => p = q
              /\ \A a, b \in bloqueados : a.pcb.id = b.pcb.id => a = b
              /\ \A p \in listos, a \in bloqueados : p.id # a.pcb.id
              /\ \A p \in enCPU : /\ \A q \in listos : p.id # q.id
                                  /\ \A a \in bloqueados : p.id # a.pcb.id
<1>1. Sitio(estado_ready, estado_blocked, EnCPU)
  BY DEF UnSitio
<1>2. SUFFICES Sitio(estado_ready', estado_blocked', EnCPU')
  BY DEF UnSitio
<1>3. /\ \A p \in estado_ready : p.id < Proximo
      /\ \A p \in EnCPU : p.id < Proximo
      /\ \A io \in estado_blocked : io.pcb.id < Proximo
  BY DEF Numeracion, Despachados
<1>4. \A p, q : Sigue(p, q) => q.id = p.id
  BY DEF Sigue
<1>5. \A p, q \in EnCPU : p = q
  BY EnCPUTipo
<1> DEFINE R == estado_ready
           B == estado_blocked
           C == EnCPU
<1>6. CASE /\ estado_ready' = R /\ estado_blocked' = B
           /\ \A q \in EnCPU' : \E p \in C : Sigue(p, q)
  BY <1>1, <1>4, <1>6
<1>7. CASE /\ RecibeTabla /\ EnCPU' = C /\ estado_blocked' = B
           /\ estado_ready' = R \union {[creando EXCEPT !.tablaDePaginas = NumeroDe(redCrear)]}
  <2> DEFINE v == NumeroDe(redCrear)
             q == [creando EXCEPT !.tablaDePaginas = v]
  <2>1. creando \in PCB /\ creando.id = Proximo
    BY <1>7 DEF RecibeTabla, InvTipos, Cola, TiposKernel, Numeracion
  <2>2. q.id = Proximo
    <3> HIDE DEF v
    <3> QED  BY <2>1 DEF PCB
  <2>3. Proximo \in Nat
    BY TablasConDueno
  <2>4. /\ \A p \in R : p.id # Proximo
        /\ \A p \in C : p.id # Proximo
        /\ \A io \in B : io.pcb.id # Proximo
    BY <1>3, <2>3
  <2>5. estado_ready' = R \union {q} /\ estado_blocked' = B /\ EnCPU' = C
    BY <1>7
  <2> HIDE DEF q, v, R, B, C
  <2> QED  BY <1>1, <2>2, <2>4, <2>5 DEF R, B, C
<1>8. CASE \E p \in R : /\ estado_ready' = R \ {p}
                        /\ C = {} /\ EnCPU' \subseteq {p} /\ estado_blocked' = B
  BY <1>1, <1>8
<1>9. CASE \E p \in C, io \in TIO : /\ Sigue(p, io.pcb) /\ EnCPU' = {} /\ estado_ready' = R
                                    /\ estado_blocked' = B \union {io}
  <2>1. PICK p \in C, io \in TIO : /\ Sigue(p, io.pcb) /\ EnCPU' = {} /\ estado_ready' = R
                                    /\ estado_blocked' = B \union {io}
    BY <1>9
  <2>2. io.pcb.id = p.id
    BY <1>4, <2>1
  <2>3. /\ \A q \in R : p.id # q.id
        /\ \A a \in B : p.id # a.pcb.id
    BY <1>1, <2>1
  <2> HIDE DEF R, B, C
  <2> QED  BY <1>1, <2>1, <2>2, <2>3 DEF R, B
<1>10. CASE \E p \in C, q \in PCB : /\ Sigue(p, q) /\ EnCPU' = {} /\ estado_blocked' = B
                                    /\ estado_ready' = R \union {q}
  <2>1. PICK p \in C, q \in PCB : /\ Sigue(p, q) /\ EnCPU' = {} /\ estado_blocked' = B
                                    /\ estado_ready' = R \union {q}
    BY <1>10
  <2>2. q.id = p.id
    BY <1>4, <2>1
  <2>3. /\ \A x \in R : p.id # x.id
        /\ \A a \in B : p.id # a.pcb.id
    BY <1>1, <2>1
  <2> HIDE DEF R, B, C
  <2> QED  BY <1>1, <2>1, <2>2, <2>3 DEF R, B
<1>11. CASE \E io \in B : /\ estado_blocked' = B \ {io} /\ EnCPU' = C
                          /\ estado_ready' = R \union {io.pcb}
  <2>1. PICK io \in B : /\ estado_blocked' = B \ {io} /\ EnCPU' = C
                        /\ estado_ready' = R \union {io.pcb}
    BY <1>11
  <2>2. /\ \A q \in R : q.id # io.pcb.id
        /\ \A a \in B : a # io => a.pcb.id # io.pcb.id
        /\ \A q \in C : q.id # io.pcb.id
    BY <1>1, <2>1
  <2> HIDE DEF R, B, C
  <2> QED  BY <1>1, <2>1, <2>2 DEF R, B, C
<1> QED  BY <1>6, <1>7, <1>8, <1>9, <1>10, <1>11, Mudanza

-----------------------------------------------------------------------------
(* Connections and swap files *)

\* What VuelveExit takes: the PCB that the CPU gave back and its connection.
LEMMA ElQueTermina ==
    ASSUME InvTipos, UnProcesoPorConsola, Conectadas, VuelveExit
    PROVE  \E p \in PCB, k \in consolas_conectadas :
              /\ p.id \in Nat /\ k.id = p.id /\ k.socket \in Consolas
              /\ \E q \in EnCPU : q.id = p.id
              /\ PcbDe(redDispatch).id = p.id
              /\ colaKernel' = Append(colaKernel, armarPaqueteCon(p, "REQ_FIN_PROCESO"))
              /\ redConsola' = [redConsola EXCEPT ![k.socket] = armarPaqueteCon(p.id,
                   "RES_FIN_PROCESO")]
              /\ consolas_conectadas' = consolas_conectadas \ {k}
              /\ \A j \in consolas_conectadas : j.id = p.id => j = k
<1>1. redDispatch # NULO /\ redDispatch.codigo = "PCB_EJECUTADO_EXIT"
  BY DEF VuelveExit, LlegaCon
<1>2. LlevaPCB(redDispatch, CodigosPCB) /\ cpu.fase \notin ConPcb
  BY <1>1, VueltaDeLaCPU
<1>3. PICK r \in recibirPaquete(redDispatch) :
          LET p == deserializarPCB(r.stream, 0) IN
          \E conectada \in {k \in consolas_conectadas : k.id = p.id} :
             /\ colaKernel' = Append(colaKernel, armarPaqueteCon(p, "REQ_FIN_PROCESO"))
             /\ redConsola' = [redConsola EXCEPT ![conectada.socket] =
                                  armarPaqueteCon(p.id, "RES_FIN_PROCESO")]
             /\ consolas_conectadas' = consolas_conectadas \ {conectada}
  BY DEF VuelveExit
<1> DEFINE p == deserializarPCB(r.stream, 0)
<1>4. PICK k \in consolas_conectadas :
             /\ k.id = p.id
             /\ colaKernel' = Append(colaKernel, armarPaqueteCon(p, "REQ_FIN_PROCESO"))
             /\ redConsola' = [redConsola EXCEPT ![k.socket] = armarPaqueteCon(p.id,
                  "RES_FIN_PROCESO")]
             /\ consolas_conectadas' = consolas_conectadas \ {k}
  BY <1>3
<1>5. p \in PCB /\ p.id = PcbDe(redDispatch).id
  BY <1>2, RecibePCB
<1>6. EnCPU = {PcbDe(redDispatch)}
  BY <1>1, <1>2 DEF EnCPU
<1>7. \A j \in consolas_conectadas : j \in [id : Nat, socket : Consolas]
  BY DEF InvTipos, TiposKernel
<1>8. \A j \in consolas_conectadas : j.socket = historia[j.id + 1].consola
  BY DEF Conectadas
<1> HIDE DEF p
<1>9. ASSUME NEW j \in consolas_conectadas, j.id = p.id PROVE j = k
  <2>1. j.socket = k.socket /\ j.id = k.id
    BY <1>4, <1>8, <1>9
  <2> QED  BY <1>7, <2>1
<1>10. p.id \in Nat /\ k.socket \in Consolas
  BY <1>5, <1>7 DEF PCB
<1> QED  BY <1>4, <1>5, <1>6, <1>9, <1>10

\* A process has its connection and its swap file until it ends, and neither after
\* (planificador.c:166-187, swap.c:13-62).
LEMMA PasoConectadas ==
    ASSUME InvTipos, UnProcesoPorConsola, Buenos, Numeracion, UnSitio, Conectadas, [Next]_vars
    PROVE  Conectadas'
<1> DEFINE n == Len(historia)
           Suya == \A k \in consolas_conectadas : k.id < Len(historia)
               /\ k.socket = historia[k.id + 1].consola
           Tiene == \A p \in EnElKernel \union EnCPU : \E k \in consolas_conectadas : k.id = p.id
           Cerrada(w) == PcbDe(w).id < Len(tablasPrimerNivel) /\
                         \A k \in consolas_conectadas : k.id # PcbDe(w).id
           Cerradas == \A j \in 1..Len(colaKernel) : colaKernel[j].codigo = "REQ_FIN_PROCESO" =>
               Cerrada(colaKernel[j])
           EnDisco == \A k \in consolas_conectadas : k.id < Len(tablasPrimerNivel) =>
              [id |-> k.id, tamanio |-> marcosProceso(TamanioDe(k.id)) * TAM_PAGINA] \in swap
<1>1. Suya /\ Tiene /\ Cerradas /\ EnDisco
  BY DEF Conectadas
<1>2. consolas_conectadas \subseteq [id : Nat, socket : Consolas]
  BY DEF InvTipos, TiposKernel
<1>3. /\ n \in Nat /\ n = id_nuevo_proceso
      /\ \A id \in Nat : id < n =>
            /\ id < Len(historia') /\ historia'[id + 1].consola = historia[id + 1].consola
            /\ TamanioDe(id)' = TamanioDe(id)
  BY CuantosHay, LoDadoPorId
<1>4. /\ Len(tablasPrimerNivel) \in Nat /\ Len(tablasPrimerNivel) <= n
      /\ Len(tablasPrimerNivel') \in Nat /\ Len(tablasPrimerNivel) <= Len(tablasPrimerNivel')
  <2>1. Len(tablasPrimerNivel) \in Nat /\ Len(tablasPrimerNivel) <= n
    BY TablasConDueno
  <2>2. Len(tablasPrimerNivel') \in Nat
    <3> DEFINE S == Seq([id : Nat, tablaSegundoNivel : Nat])
    <3>1. tablasPrimerNivel' \in Seq(S)
      BY PasoMemoria DEF TiposMemoria
    <3> HIDE DEF S
    <3> QED  BY <3>1
  <2>3. \A id \in Nat : id < Len(tablasPrimerNivel) => id < Len(tablasPrimerNivel')
    BY TablasQuedan
  <2> QED  BY <2>1, <2>2, <2>3
<1>5. consolas_conectadas' \subseteq consolas_conectadas \/ \E c \in Consolas : ManejarProceso(c)
  <2>1. CASE VuelveExit
    BY <2>1, ElQueTermina
  <2> QED  BY <2>1, QuienCambia, Zenon
<1>6. ASSUME NEW c \in Consolas, ManejarProceso(c)
      PROVE  /\ consolas_conectadas' = consolas_conectadas \union {[id |-> n, socket |-> c]}
             /\ Len(historia') = n + 1 /\ historia'[n + 1].consola = c
  BY <1>3, <1>6, CuantosHay DEF ManejarProceso
<1>7. Suya'
  <2>1. ASSUME NEW k \in consolas_conectadas PROVE k.id < Len(historia')
               /\ k.socket = historia'[k.id + 1].consola
    <3>1. k.id \in Nat /\ k.id < n /\ k.socket = historia[k.id + 1].consola
      BY <1>1, <1>2
    <3> QED  BY <1>3, <3>1
  <2>2. CASE consolas_conectadas' \subseteq consolas_conectadas
    BY <2>1, <2>2
  <2>3. ASSUME NEW c \in Consolas, ManejarProceso(c) PROVE Suya'
    BY <1>3, <1>6, <2>1, <2>3
  <2> QED  BY <1>5, <2>2, <2>3
<1>8. Tiene'
  <2> SUFFICES ASSUME NEW q, q \in Vivos' PROVE \E k \in consolas_conectadas' : k.id = q.id
    BY DEF Vivos
  <2>1. ASSUME NEW c \in Consolas, ManejarProceso(c) PROVE \E k \in consolas_conectadas' : k.id =
                   q.id
    <3>1. CASE \E p \in Vivos : Mismo(p, q)
      BY <1>1, <1>6, <2>1, <3>1 DEF Vivos, Mismo
    <3>2. CASE \E d \in Consolas : /\ ManejarProceso(d)
                                   /\ \E r \in recibirPaquete(redConsola[d]) :
                                         q = iniciarPcb(deserializarProceso(r.stream))
      <4>0. PICK z : q = iniciarPcb(z)
        BY <3>2
      <4>1. q.id = n
        <5>1. q.id = id_nuevo_proceso
          BY <4>0 DEF iniciarPcb
        <5> QED  BY <1>3, <5>1
      <4> DEFINE k == [id |-> n, socket |-> c]
      <4>2. k \in consolas_conectadas' /\ k.id = n
        BY <1>6, <2>1
      <4> HIDE DEF k, n
      <4> QED  BY <4>1, <4>2
    <3> QED  BY <3>1, <3>2, Origen
  <2>2. CASE ~ \E c \in Consolas : ManejarProceso(c)
    <3>1. PICK p \in Vivos : Mismo(p, q)
      BY <2>2, Origen
    <3>2. q.id = p.id /\ \E k \in consolas_conectadas : k.id = p.id
      BY <1>1, <3>1 DEF Vivos, Mismo
    <3>3. CASE UNCHANGED consolas_conectadas
      BY <3>2, <3>3
    <3>4. CASE VuelveExit
      <4>1. PICK s \in PCB, k \in consolas_conectadas :
              /\ \E x \in EnCPU : x.id = s.id
              /\ s.id \in Nat /\ k.id = s.id
              /\ PcbDe(redDispatch).id = s.id
              /\ consolas_conectadas' = consolas_conectadas \ {k}
              /\ \A j \in consolas_conectadas : j.id = s.id => j = k
        BY <3>4, ElQueTermina
      <4>2. q.id # s.id
        <5>1. /\ estado_new' = estado_new /\ creando' = creando
              /\ estado_ready' = estado_ready /\ estado_blocked' = estado_blocked
              /\ redDispatch' = NULO /\ cpu' = cpu
          BY <3>4 DEF VuelveExit, varsCPU
        <5>2. EnCPU' = {}
          <6>1. redDispatch # NULO /\ redDispatch.codigo # "REQ_PCB_A_EJECUTAR"
            BY <3>4 DEF VuelveExit, LlegaCon
          <6>2. cpu.fase \notin ConPcb
            BY <6>1, VueltaDeLaCPU
          <6> QED  BY <5>1, <6>2 DEF EnCPU
        <5>3. s.id < Proximo /\ Proximo \in Nat
          BY <4>1, TablasConDueno DEF Numeracion, Despachados
        <5>4. \A x \in estado_ready : x.id # s.id
          BY <4>1 DEF UnSitio
        <5>5. \A io \in estado_blocked : io.pcb.id # s.id
          BY <4>1 DEF UnSitio
        <5>6. creando # NULO => creando.id # s.id
          BY <4>1, <5>3 DEF Numeracion
        <5>7. \A x \in DOMAIN estado_new : estado_new[x].id # s.id
          <6>1. DOMAIN estado_new = 1..Len(estado_new)
            <7> HIDE DEF PCB
            <7> QED  BY DEF InvTipos, TiposKernel
          <6> TAKE x \in DOMAIN estado_new
          <6>2. x \in 1..Len(estado_new)
                /\ estado_new[x].id = id_nuevo_proceso - Len(estado_new) + x - 1
            BY <6>1 DEF Numeracion
          <6>3. Proximo <= id_nuevo_proceso - Len(estado_new) /\ id_nuevo_proceso \in Nat
                /\ Len(estado_new) \in Nat
            BY EnterosDeNumeracion
          <6> QED  BY <4>1, <5>3, <6>2, <6>3
        <5> QED  BY <5>1, <5>2, <5>4, <5>5, <5>6, <5>7 DEF Vivos, EnElKernel
      <4> QED  BY <3>2, <4>1, <4>2
    <3> QED  BY <2>2, <3>3, <3>4, QuienCambia, Zenon
  <2> QED  BY <2>1, <2>2
<1>9. \A w : PcbDe(w).id \in Nat /\ Cerrada(w) => Cerrada(w)'
  <2> TAKE w
  <2>0. PICK i : i = PcbDe(w).id
    OBVIOUS
  <2> SUFFICES ASSUME i \in Nat, i < Len(tablasPrimerNivel), \A k \in consolas_conectadas : k.id # i
               PROVE  i < Len(tablasPrimerNivel') /\ \A k \in consolas_conectadas' : k.id # i
    BY <2>0
  <2>1. i < Len(tablasPrimerNivel')
    BY <1>4
  <2>2. ASSUME NEW c \in Consolas, ManejarProceso(c) PROVE \A k \in consolas_conectadas' : k.id # i
    <3>1. i # n
      BY <1>3, <1>4
    <3> QED  BY <1>6, <2>2, <3>1
  <2> QED  BY <1>5, <2>1, <2>2
<1>10. Cerradas'
  <2>0. /\ EsSecuencia(colaKernel)
        /\ \A k \in 1..Len(colaKernel) : PcbDe(colaKernel[k]).id \in Nat
    BY DEF InvTipos, Cola, LlevaPCB, PCB
  <2>0a. Len(colaKernel) \in Nat
    BY <2>0, SecuenciaAgrega
  <2> DEFINE l == Len(colaKernel)
             Buena(w) == w.codigo = "REQ_FIN_PROCESO" => Cerrada(w)
  <2>1. \A k \in 1..l : \A w : w = colaKernel[k] => Buena(w)'
    <3> TAKE k \in 1..l
    <3> TAKE w
    <3> HAVE w = colaKernel[k]
    <3>1. Buena(w) /\ PcbDe(w).id \in Nat
      BY <1>1, <2>0
    <3>2. Cerrada(w) => Cerrada(w)'
      <4> HIDE DEF Cerrada
      <4> QED  BY <1>9, <3>1
    <3> HIDE DEF Cerrada
    <3> QED  BY <3>1, <3>2
  <2> SUFFICES \A k \in 1..Len(colaKernel') : \A w : w = colaKernel'[k] => Buena(w)'
    OBVIOUS
  <2>2. CASE UNCHANGED colaKernel
    <3> HIDE DEF Buena
    <3> QED  BY <2>1, <2>2
  <2>3. ASSUME NEW x, colaKernel' = Append(colaKernel, x), Buena(x)'
        PROVE  \A k \in 1..Len(colaKernel') : \A w : w = colaKernel'[k] => Buena(w)'
    <3>1. /\ Len(colaKernel') = l + 1
          /\ \A k \in 1..l : colaKernel'[k] = colaKernel[k]
          /\ colaKernel'[l + 1] = x
      BY <2>0, <2>3, SecuenciaAgrega
    <3> HIDE DEF Buena, l
    <3> QED  BY <2>0a, <2>1, <2>3, <3>1 DEF l
  <2>4. CASE CrearProceso \/ FinProceso
    <3>1. colaKernel # <<>> /\ colaKernel' = Tail(colaKernel)
      BY <2>4 DEF CrearProceso, FinProceso
    <3>2. /\ Len(colaKernel') = l - 1 /\ \A k \in 1..l-1 : colaKernel'[k] = colaKernel[k + 1]
      BY <2>0, <3>1, SecuenciaSaca
    <3>3. \A k \in 1..l-1 : k + 1 \in 1..l
      BY <2>0a
    <3> HIDE DEF Buena, l
    <3> QED  BY <2>1, <3>2, <3>3
  <2>5. CASE PideCrear
    <3>1. PICK x : x = armarPaqueteCon(Head(estado_new), "REQ_CREAR_PROCESO")
      OBVIOUS
    <3>2. x.codigo = "REQ_CREAR_PROCESO" /\ colaKernel' = Append(colaKernel, x)
      BY <2>5, <3>1, Armado DEF PideCrear
    <3> QED  BY <2>3, <3>2
  <2>6. CASE VuelveExit
    <3>1. PICK s \in PCB, k \in consolas_conectadas :
              /\ \E x \in EnCPU : x.id = s.id
              /\ s.id \in Nat /\ k.id = s.id
              /\ colaKernel' = Append(colaKernel, armarPaqueteCon(s, "REQ_FIN_PROCESO"))
              /\ consolas_conectadas' = consolas_conectadas \ {k}
              /\ \A j \in consolas_conectadas : j.id = s.id => j = k
      BY <2>6, ElQueTermina
    <3>2. PICK x : x = armarPaqueteCon(s, "REQ_FIN_PROCESO")
      OBVIOUS
    <3>3. PcbDe(x) = s
      BY <3>2, ArmaPCB DEF CodigosPCB
    <3>4. s.id < Len(tablasPrimerNivel')
      <4>1. s.id < Proximo /\ Proximo <= Len(tablasPrimerNivel) /\ Proximo \in Nat
        BY <3>1, TablasConDueno DEF Numeracion, Despachados
      <4> QED  BY <1>4, <3>1, <4>1
    <3>5. \A j \in consolas_conectadas' : j.id # s.id
      BY <3>1
    <3>6. Buena(x)'
      BY <3>3, <3>4, <3>5
    <3> QED  BY <2>3, <3>1, <3>2, <3>6
  <2> HIDE DEF Buena
  <2> QED  BY <2>2, <2>4, <2>5, <2>6, QuienCambia, Zenon
<1>11. EnDisco'
  <2> DEFINE Archivo(id, tam) == [id |-> id, tamanio |-> marcosProceso(tam) * TAM_PAGINA]
  <2>1. ASSUME NEW k \in consolas_conectadas', k.id < Len(tablasPrimerNivel)
        PROVE  Archivo(k.id, TamanioDe(k.id)') \in swap
    <3>1. k \in consolas_conectadas
      <4>1. ASSUME NEW c \in Consolas, ManejarProceso(c) PROVE k \in consolas_conectadas
        <5>1. k.id # n
          BY <1>3, <1>4, <2>1
        <5> QED  BY <1>6, <4>1, <5>1
      <4> QED  BY <1>5, <4>1
    <3>2. k.id \in Nat /\ k.id < n
      BY <1>1, <1>2, <3>1
    <3>3. TamanioDe(k.id)' = TamanioDe(k.id)
      BY <1>3, <3>2
    <3> QED  BY <1>1, <2>1, <3>1, <3>3
  <2>2. CASE UNCHANGED <<tablasPrimerNivel, swap>>
    BY <2>1, <2>2
  <2>3. CASE FinProceso
    <3>1. /\ 1 \in 1..Len(colaKernel) /\ colaKernel[1].codigo = "REQ_FIN_PROCESO"
          /\ swap' = {f \in swap : f.id # PcbDe(colaKernel[1]).id}
      BY <2>3, BorraElDeLaCabeza
    <3>2. \A k \in consolas_conectadas : k.id # PcbDe(colaKernel[1]).id
      BY <1>1, <3>1
    <3>3. tablasPrimerNivel' = tablasPrimerNivel /\ consolas_conectadas' = consolas_conectadas
      BY <2>3 DEF FinProceso, varsTablas, varsKernel
    <3> HIDE DEF Archivo
    <3>4. \A k \in consolas_conectadas' : k.id < Len(tablasPrimerNivel') =>
              Archivo(k.id, TamanioDe(k.id)') \in swap'
      <4> TAKE k \in consolas_conectadas'
      <4> HAVE k.id < Len(tablasPrimerNivel')
      <4>1. Archivo(k.id, TamanioDe(k.id)') \in swap
        BY <2>1, <3>3
      <4>2. Archivo(k.id, TamanioDe(k.id)').id = k.id
        BY DEF Archivo
      <4> QED  BY <3>1, <3>2, <3>3, <4>1, <4>2
    <3> QED  BY <3>4 DEF Archivo
  <2>4. CASE CrearProceso
    <3>1. PICK i, tam : i = creando.id /\ tam = creando.tamanioProceso
      OBVIOUS
    <3>2. creando \in PCB /\ creando # NULO /\ creando \in Vivos
      BY <2>4, CreaLasDeCreando, NuloAssumption DEF Vivos, EnElKernel
    <3>3. i \in Nat /\ i = Len(tablasPrimerNivel) /\ i < n /\ tam = TamanioDe(i)
      <4>1. creando.id = Proximo /\ Len(tablasPrimerNivel) = Proximo
        BY <2>4, <3>2, CreaLasDeCreando DEF Numeracion
      <4>2. Bueno(creando)
        BY <3>2 DEF Buenos, Vivos
      <4> QED  BY <3>1, <3>2, <4>1, <4>2 DEF Bueno, PCB
    <3>4. swap' = swap \union {Archivo(i, tam)} /\ TamanioDe(i)' = tam
      BY <1>3, <2>4, <3>1, <3>3, CreaLasDeCreando
    <3>5. consolas_conectadas' = consolas_conectadas
      BY <2>4 DEF CrearProceso, varsKernel
    <3>6. Len(tablasPrimerNivel') = Len(tablasPrimerNivel) + 1
      <4> DEFINE S == Seq([id : Nat, tablaSegundoNivel : Nat])
                 e == TablaNueva(creando.id, creando.tamanioProceso, Len(tablasSegundoNivel))
      <4>1. tablasPrimerNivel' = Append(tablasPrimerNivel, e)
        BY <2>4, CreaTablas
      <4>2. tablasPrimerNivel \in Seq(S)
        BY DEF InvTipos, TiposMemoria
      <4>3. tablasPrimerNivel \in Seq(S \union {e})
        BY <4>2, SeqMonotona
      <4> HIDE DEF S, e
      <4> QED  BY <4>1, <4>3
    <3> HIDE DEF Archivo
    <3>7. \A k \in consolas_conectadas' : k.id < Len(tablasPrimerNivel') =>
              Archivo(k.id, TamanioDe(k.id)') \in swap'
      <4> TAKE k \in consolas_conectadas'
      <4> HAVE k.id < Len(tablasPrimerNivel')
      <4>1. k.id \in Nat
        BY <1>2, <3>5
      <4>2. CASE k.id < Len(tablasPrimerNivel)
        BY <2>1, <3>4, <4>2
      <4>3. CASE k.id = i
        BY <3>4, <4>3
      <4> QED  BY <1>4, <3>3, <3>6, <4>1, <4>2, <4>3
    <3> QED  BY <3>7 DEF Archivo
  <2> HIDE DEF Archivo
  <2> QED  BY <2>2, <2>3, <2>4, QuienCambia, Zenon
<1> HIDE DEF Suya, Tiene, Cerradas, EnDisco
<1>12. Suya' /\ Tiene' /\ Cerradas' /\ EnDisco'
  BY <1>7, <1>8, <1>10, <1>11
<1> QED  BY <1>12 DEF Conectadas, Suya, Tiene, Cerradas, EnDisco

-----------------------------------------------------------------------------
(* The entries of an address *)

\* The entries of an address are in the tables of a process of that size exactly
\* when its page is one of its pages, and they are those of that page.
LEMMA EntradasDePagina ==
    ASSUME NEW tam \in Nat, NEW d \in Nat
    PROVE  LET pagina == d \div TAM_PAGINA
               e1 == (d \div TAM_PAGINA) \div ENTRADAS_POR_TABLA
               e2 == (d \div TAM_PAGINA) % ENTRADAS_POR_TABLA
               m == marcosProceso(tam) IN
           /\ pagina \in Nat /\ e1 \in Nat /\ e2 \in Nat /\ m \in Nat
           /\ d < tam => e1 + 1 \in 1..Tablas(m) /\ e2 + 1 \in 1..Entradas(m, e1 + 1)
           /\ e1 + 1 \in 1..Tablas(m) /\ e2 + 1 \in 1..Entradas(m, e1 + 1) => pagina < m
           /\ ID_EN_SWAP(e1 + 1, e2 + 1) = pagina
<1> DEFINE E == ENTRADAS_POR_TABLA
           pagina == d \div TAM_PAGINA
           e1 == pagina \div E
           e2 == pagina % E
           m == marcosProceso(tam)
           c == m \div E
           r == m % E
<1>1. TAM_PAGINA \in Nat \ {0} /\ E \in Nat \ {0}
  BY TablasAssumption
<1> HIDE DEF E
<1>2. pagina \in Nat /\ m \in Nat
  BY <1>1, Medidas
<1>3. e1 \in Nat /\ e2 \in 0..E-1 /\ pagina = e1 * E + e2
  BY <1>1, <1>2, Division
<1>4. c \in Nat /\ r \in 0..E-1 /\ m = c * E + r
  BY <1>1, <1>2, Division
<1>5. ASSUME d < tam PROVE e1 + 1 \in 1..Tablas(m) /\ e2 + 1 \in 1..Entradas(m, e1 + 1)
  <2> DEFINE t == [tamanio_pagina |-> TAM_PAGINA, paginas_por_tabla |-> ENTRADAS_POR_TABLA]
  <2>1. obtenerNumeroPagina(t, d) = pagina /\ obtenerEntradaTabla1erNivel(t, pagina) = e1
        /\ obtenerEntradaTabla2doNivel(t, pagina) = e2
    BY DEF obtenerNumeroPagina, obtenerEntradaTabla1erNivel, obtenerEntradaTabla2doNivel, E
  <2> HIDE DEF t
  <2>2. LET pag == obtenerNumeroPagina(t, d)
            entrada1 == obtenerEntradaTabla1erNivel(t, pag)
            entrada2 == obtenerEntradaTabla2doNivel(t, pag) IN
        entrada1 + 1 \in 1..Tablas(m) /\ entrada2 + 1 \in 1..Entradas(m, entrada1 + 1)
    BY <1>5, RecorridoCorrecto, 0 \in Nat DEF t
  <2> HIDE DEF e1, e2, m, pagina
  <2> QED  BY <2>1, <2>2, Zenon
<1> HIDE DEF pagina, e1, e2, m, c, r
<1>6. Tablas(m) = c + (IF r > 0 THEN 1 ELSE 0) /\ Entradas(m, e1 + 1) = IF e1 + 1 <= c THEN E ELSE r
  BY Zenon DEF Tablas, Entradas, c, r, E
<1>7. ASSUME e1 + 1 \in 1..Tablas(m), e2 + 1 \in 1..Entradas(m, e1 + 1) PROVE pagina < m
  <2>1. CASE e1 + 1 <= c
    <3>1. (e1 + 1) * E <= c * E
      BY <1>1, <1>3, <1>4, <2>1
    <3>2. (e1 + 1) * E = e1 * E + E
      BY <1>1, <1>3
    <3> QED  BY <1>1, <1>3, <1>4, <3>1, <3>2
  <2>2. CASE ~(e1 + 1 <= c)
    <3>1. e1 = c /\ e2 < r
      BY <1>1, <1>3, <1>4, <1>6, <1>7, <2>2
    <3> QED  BY <1>1, <1>3, <1>4, <3>1
  <2> QED  BY <2>1, <2>2
<1>8. ID_EN_SWAP(e1 + 1, e2 + 1) = pagina
  <2>1. \A u, j : ID_EN_SWAP(u, j) = (u - 1) * E + j - 1
    BY Zenon DEF ID_EN_SWAP, E
  <2>2. ID_EN_SWAP(e1 + 1, e2 + 1) = ((e1 + 1) - 1) * E + (e2 + 1) - 1
    BY <2>1, Zenon
  <2>3. (e1 + 1) - 1 = e1 /\ e1 * E \in Nat
    BY <1>1, <1>3
  <2> QED  BY <1>3, <2>2, <2>3
<1>9. e2 \in Nat
  BY <1>1, <1>3
<1> QED  BY <1>2, <1>3, <1>5, <1>7, <1>8, <1>9 DEF pagina, e1, e2, m, E

-----------------------------------------------------------------------------
\* The process that executes has its tables.
LEMMA DelQueEjecuta ==
    ASSUME InvTipos, Buenos, Numeracion, TablasHechas, cpu.fase \in ConPcb
    PROVE  /\ cpu.pcb.id \in Nat /\ cpu.pcb.id < Len(tablasPrimerNivel)
                /\ cpu.pcb.id < Len(historia)
           /\ cpu.pcb.tablaDePaginas = cpu.pcb.id
           /\ TablaDe(cpu.pcb.id) /\ TamanioDe(cpu.pcb.id) \in Nat
<1>1. cpu.pcb \in EnCPU /\ cpu.pcb \in PCB
  BY EnEjecucion DEF EnCPU
<1>2. cpu.pcb.id < Proximo /\ cpu.pcb.tablaDePaginas = cpu.pcb.id
  BY <1>1 DEF Numeracion, Despachados
<1>3. cpu.pcb.tamanioProceso = TamanioDe(cpu.pcb.id)
  BY <1>1 DEF Buenos, Bueno
<1>4. cpu.pcb.id \in Nat /\ cpu.pcb.tamanioProceso \in Nat
  BY <1>1 DEF PCB
<1>5. Proximo \in Nat /\ Proximo <= Len(tablasPrimerNivel)
      /\ Len(tablasPrimerNivel) <= Len(historia)
      /\ Len(tablasPrimerNivel) \in Nat /\ Len(historia) \in Nat
  BY TablasConDueno DEF InvTipos, TiposKernel
<1>6. cpu.pcb.id < Len(tablasPrimerNivel) /\ cpu.pcb.id < Len(historia)
  <2> DEFINE i == cpu.pcb.id
  <2> HIDE DEF i
  <2>1. i < Len(tablasPrimerNivel) /\ i < Len(historia)
    BY <1>2, <1>4, <1>5 DEF i
  <2> QED  BY <2>1 DEF i
<1>7. TablaDe(cpu.pcb.id)
  BY <1>4, <1>5, <1>6 DEF TablasHechas
<1> QED  BY <1>2, <1>3, <1>4, <1>6, <1>7

\* What the queries of the CPU ask for.
LEMMA LoQueConsulta ==
    ASSUME InvTipos
    PROVE  /\ LlegaCon(redMemoria, {"REQ_TABLA_SEGUNDO_NIVEL"}) =>
                 /\ cpu.fase = "tabla"
                 /\ Consultado.tablaDePaginas = cpu.pcb.tablaDePaginas
                      /\ Consultado.entradaPagina = Entrada1
           /\ LlegaCon(redMemoria, {"REQ_MARCO_LECTURA", "REQ_MARCO_ESCRITURA"}) =>
                 cpu.fase = "marco" /\ Consultado.entradaPagina = Entrada2
<1>1. ASSUME LlegaCon(redMemoria, {"REQ_TABLA_SEGUNDO_NIVEL"})
      PROVE  /\ cpu.fase = "tabla"
             /\ Consultado.tablaDePaginas = cpu.pcb.tablaDePaginas
                  /\ Consultado.entradaPagina = Entrada1
  <2>1. redMemoria # NULO /\ redMemoria.codigo = "REQ_TABLA_SEGUNDO_NIVEL"
    BY <1>1 DEF LlegaCon
  <2>2. cpu.fase = "tabla"
    BY <2>1, FaseDeLaConsulta
  <2> DEFINE e == [tablaDePaginas |-> cpu.pcb.tablaDePaginas, id |-> cpu.pcb.id,
          entradaPagina |-> Entrada1]
  <2>3. redMemoria = armarPaqueteCon(e, "REQ_TABLA_SEGUNDO_NIVEL")
    BY <2>1, <2>2 DEF InvTipos, Consultas, EnTabla, LlevaNumero
  <2>4. deserializarConsulta(armarPaqueteCon(e, "REQ_TABLA_SEGUNDO_NIVEL").stream) =
           [entradaPagina |-> e.entradaPagina, tablaDePaginas |-> e.tablaDePaginas, id |-> e.id]
    BY ArmaFijo DEF CodigosConsulta
  <2> QED  BY <2>2, <2>3, <2>4 DEF Consultado
<1>2. ASSUME LlegaCon(redMemoria, {"REQ_MARCO_LECTURA", "REQ_MARCO_ESCRITURA"})
      PROVE  cpu.fase = "marco" /\ Consultado.entradaPagina = Entrada2
  <2>1. redMemoria # NULO /\ redMemoria.codigo \in {"REQ_MARCO_LECTURA", "REQ_MARCO_ESCRITURA"}
    BY <1>2 DEF LlegaCon
  <2>2. cpu.fase = "marco"
    BY <2>1, FaseDeLaConsulta
  <2> DEFINE e == [tablaDePaginas |-> Consultado.tablaDePaginas, id |-> cpu.pcb.id,
          entradaPagina |-> Entrada2]
             cod == Head(cpu.accesos).codigo
  <2>3. redMemoria = armarPaqueteCon(e, cod)
    BY <2>1, <2>2 DEF InvTipos, Consultas, EnMarco, LlevaNumero
  <2>4. cod \in CodigosConsulta
    BY <2>2, RespuestaDeMemoria DEF ACCESO, CodigosConsulta
  <2>5. deserializarConsulta(armarPaqueteCon(e, cod).stream) =
           [entradaPagina |-> e.entradaPagina, tablaDePaginas |-> e.tablaDePaginas, id |-> e.id]
    BY <2>4, ArmaFijo
  <2>6. e.entradaPagina = Entrada2
    OBVIOUS
  <2> HIDE DEF e, cod
  <2> QED  BY <2>2, <2>3, <2>5, <2>6 DEF Consultado
<1> QED  BY <1>1, <1>2

\* Memoria finds what is asked for an address inside the process.
LEMMA LoQueHay ==
    ASSUME InvTipos, Buenos, Numeracion, TablasHechas, Recorrido
    PROVE  /\ LlegaCon(redMemoria, {"REQ_TABLA_SEGUNDO_NIVEL"}) =>
                 IF HayEntrada(tablasPrimerNivel, Consultado)
                   THEN EntradaPropia(EntradaDe(tablasPrimerNivel, Consultado).tablaSegundoNivel)
                   ELSE Direccion >= TamanioDe(cpu.pcb.id)
           /\ LlegaCon(redMemoria, {"REQ_MARCO_LECTURA", "REQ_MARCO_ESCRITURA"}) =>
                 IF HayEntrada(tablasSegundoNivel, Consultado)
                   THEN /\ EntradaDe(tablasSegundoNivel, Consultado) =
                              [id |-> cpu.pcb.id, paginaSwap |-> Direccion \div TAM_PAGINA]
                        /\ Direccion \div TAM_PAGINA < marcosProceso(TamanioDe(cpu.pcb.id))
                   ELSE Direccion >= TamanioDe(cpu.pcb.id)
<1> DEFINE id == cpu.pcb.id
           tam == TamanioDe(id)
           m == marcosProceso(tam)
           tabla == tablasPrimerNivel[id + 1]
           n == Tablas(m)
           E1 == Entrada1
           E2 == Entrada2
           d == Direccion
<1>0. ASSUME cpu.fase \in {"tabla", "marco"}
      PROVE  /\ id \in Nat /\ id < Len(tablasPrimerNivel) /\ Len(tablasPrimerNivel) \in Nat
             /\ cpu.pcb.tablaDePaginas = id
             /\ DOMAIN tabla = 1..n /\ n \in Nat /\ Len(tabla) = n
             /\ \A t \in 1..n :
                   /\ Hay(tablasSegundoNivel, tabla[t].tablaSegundoNivel)
                   /\ Toma(tablasSegundoNivel, tabla[t].tablaSegundoNivel) =
                         [j \in 1..Entradas(m, t) |-> [id |-> id, paginaSwap |-> ID_EN_SWAP(t, j)]]
             /\ \A t \in Nat \ {0} : Entradas(m, t) \in Nat
             /\ d \in Nat /\ tam \in Nat
             /\ E1 \in Nat /\ E2 \in Nat
             /\ d < tam => E1 + 1 \in 1..n /\ E2 + 1 \in 1..Entradas(m, E1 + 1)
             /\ E1 + 1 \in 1..n /\ E2 + 1 \in 1..Entradas(m, E1 + 1) => d \div TAM_PAGINA < m
             /\ ID_EN_SWAP(E1 + 1, E2 + 1) = d \div TAM_PAGINA
  <2>1. cpu.fase \in ConPcb
    BY <1>0 DEF ConPcb, Ejecuta
  <2>2. /\ id \in Nat /\ id < Len(tablasPrimerNivel)
        /\ cpu.pcb.tablaDePaginas = id /\ TablaDe(id) /\ tam \in Nat
    BY <2>1, DelQueEjecuta
  <2>3. d \in Nat
    BY <1>0, Enteros
  <2>4. Tablas(m) \in Nat /\ \A t \in Nat \ {0} : Entradas(m, t) \in Nat
    <3> HIDE DEF tam
    <3> QED  BY <2>2, Medidas
  <2>5. Len(tablasPrimerNivel) \in Nat
    BY TablasConDueno
  <2>6. /\ DOMAIN tabla = 1..n
        /\ \A t \in 1..n :
              /\ Hay(tablasSegundoNivel, tabla[t].tablaSegundoNivel)
              /\ Toma(tablasSegundoNivel, tabla[t].tablaSegundoNivel) =
                    [j \in 1..Entradas(m, t) |-> [id |-> id, paginaSwap |-> ID_EN_SWAP(t, j)]]
    BY <2>2 DEF TablaDe
  <2>7. Len(tabla) = n
    <3> DEFINE S == Seq([id : Nat, tablaSegundoNivel : Nat])
               T == tablasPrimerNivel
    <3>1. T \in Seq(S)
      BY DEF InvTipos, TiposMemoria
    <3>2. id + 1 \in 1..Len(T)
      <4> HIDE DEF id
      <4> QED  BY <2>2, <2>5
    <3> HIDE DEF S, T, id, n
    <3>3. T[id + 1] \in S
      BY <3>1, <3>2, ElementOfSeq
    <3>4. T[id + 1] \in Seq([id : Nat, tablaSegundoNivel : Nat]) /\ DOMAIN T[id + 1] = 1..n
          /\ n \in Nat
      BY <2>4, <2>6, <3>3 DEF S, T, n
    <3> DEFINE R == [id : Nat, tablaSegundoNivel : Nat]
               u == T[id + 1]
    <3>5. u \in Seq(R) /\ DOMAIN u = 1..n
      BY <3>4
    <3> HIDE DEF R, u
    <3>6. Len(u) \in Nat /\ DOMAIN u = 1..Len(u)
      BY <3>5, LenProperties, Zenon
    <3>7. Len(u) = n
      BY <3>4, <3>5, <3>6
    <3> QED  BY <3>7 DEF u, T
  <2>8. /\ E1 = (d \div TAM_PAGINA) \div ENTRADAS_POR_TABLA
             /\ E2 = (d \div TAM_PAGINA) % ENTRADAS_POR_TABLA
    BY DEF Entrada1, Entrada2
  <2> HIDE DEF tam, d, E1, E2
  <2>9. LET pagina == d \div TAM_PAGINA
            e1 == (d \div TAM_PAGINA) \div ENTRADAS_POR_TABLA
            e2 == (d \div TAM_PAGINA) % ENTRADAS_POR_TABLA IN
           /\ e1 \in Nat /\ e2 \in Nat
           /\ d < tam => e1 + 1 \in 1..Tablas(m) /\ e2 + 1 \in 1..Entradas(m, e1 + 1)
           /\ e1 + 1 \in 1..Tablas(m) /\ e2 + 1 \in 1..Entradas(m, e1 + 1) => pagina < m
           /\ ID_EN_SWAP(e1 + 1, e2 + 1) = pagina
    BY <2>2, <2>3, EntradasDePagina
  <2>10. /\ E1 \in Nat /\ E2 \in Nat
         /\ d < tam => E1 + 1 \in 1..n /\ E2 + 1 \in 1..Entradas(m, E1 + 1)
         /\ E1 + 1 \in 1..n /\ E2 + 1 \in 1..Entradas(m, E1 + 1) => d \div TAM_PAGINA < m
         /\ ID_EN_SWAP(E1 + 1, E2 + 1) = d \div TAM_PAGINA
    BY <2>8, <2>9, Zenon
  <2> HIDE DEF id, m, n, tabla
  <2> QED  BY <2>2, <2>3, <2>4, <2>5, <2>6, <2>7, <2>10 DEF n
<1>1. ASSUME LlegaCon(redMemoria, {"REQ_TABLA_SEGUNDO_NIVEL"})
      PROVE  IF HayEntrada(tablasPrimerNivel, Consultado)
               THEN EntradaPropia(EntradaDe(tablasPrimerNivel, Consultado).tablaSegundoNivel)
               ELSE d >= tam
  <2>1. cpu.fase = "tabla" /\ Consultado.tablaDePaginas = cpu.pcb.tablaDePaginas
        /\ Consultado.entradaPagina = E1
    BY <1>1, LoQueConsulta
  <2>2. Consultado.tablaDePaginas = id
    BY <1>0, <2>1
  <2>3. Hay(tablasPrimerNivel, id) /\ Toma(tablasPrimerNivel, id) = tabla
    <3> HIDE DEF id
    <3> QED  BY <1>0, <2>1 DEF Hay, Toma
  <2>4. HayEntrada(tablasPrimerNivel, Consultado) <=> E1 \in 0..Len(tabla) - 1
    BY <2>1, <2>2, <2>3 DEF HayEntrada, Hay
  <2>5. EntradaDe(tablasPrimerNivel, Consultado) = tabla[E1 + 1]
    BY <2>1, <2>2, <2>3 DEF EntradaDe, Toma
  <2>6. EntradaPropia(tabla[E1 + 1].tablaSegundoNivel) <=> E1 + 1 \in DOMAIN tabla
    BY DEF EntradaPropia
  <2> HIDE DEF id, tabla, n, m, tam, d, E1, E2
  <2>7. CASE E1 \in 0..Len(tabla) - 1
    <3>1. E1 + 1 \in DOMAIN tabla
      BY <1>0, <2>1, <2>7
    <3> QED  BY <2>4, <2>5, <2>6, <2>7, <3>1
  <2>8. CASE E1 \notin 0..Len(tabla) - 1
    <3>1. d >= tam
      BY <1>0, <2>1, <2>8
    <3> QED  BY <2>4, <2>8, <3>1
  <2> QED  BY <2>7, <2>8
<1>2. ASSUME LlegaCon(redMemoria, {"REQ_MARCO_LECTURA", "REQ_MARCO_ESCRITURA"})
      PROVE  IF HayEntrada(tablasSegundoNivel, Consultado)
               THEN /\ EntradaDe(tablasSegundoNivel, Consultado) =
                         [id |-> id, paginaSwap |-> d \div TAM_PAGINA]
                    /\ d \div TAM_PAGINA < m
               ELSE d >= tam
  <2>1. cpu.fase = "marco" /\ Consultado.entradaPagina = E2
    BY <1>2, LoQueConsulta
  <2> DEFINE t == E1 + 1
             k == Entradas(m, t)
             v == tabla[t].tablaSegundoNivel
             f == [j \in 1..k |-> [id |-> id, paginaSwap |-> ID_EN_SWAP(t, j)]]
  <2>2. t \in DOMAIN tabla /\ Consultado.tablaDePaginas = v
    BY <1>2, <2>1 DEF Recorrido, EntradaPropia
  <2>3. Hay(tablasSegundoNivel, v) /\ Toma(tablasSegundoNivel, v) = f /\ t \in 1..n /\ k \in Nat
    <3>1. t \in 1..n /\ t \in Nat \ {0}
      <4> HIDE DEF tabla, n
      <4> QED  BY <1>0, <2>1, <2>2
    <3> HIDE DEF t, tabla, n, m
    <3> QED  BY <1>0, <2>1, <3>1
  <2>4. HayEntrada(tablasSegundoNivel, Consultado) <=> E2 \in 0..Len(f) - 1
    <3> HIDE DEF f, v, E2
    <3> QED  BY <2>1, <2>2, <2>3 DEF HayEntrada, Hay
  <2>5. EntradaDe(tablasSegundoNivel, Consultado) = f[E2 + 1]
    <3> HIDE DEF f, v, E2
    <3> QED  BY <2>1, <2>2, <2>3 DEF EntradaDe, Toma
  <2>6. Len(f) = k
    <3> HIDE DEF k, id, t
    <3> QED  BY <2>3
  <2>7. \A j \in 1..k : f[j] = [id |-> id, paginaSwap |-> ID_EN_SWAP(t, j)]
    <3> HIDE DEF k
    <3> QED  OBVIOUS
  <2>8. /\ E2 \in Nat /\ d \in Nat /\ tam \in Nat
        /\ d < tam => E2 + 1 \in 1..k
        /\ t \in 1..n /\ E2 + 1 \in 1..k => d \div TAM_PAGINA < m
        /\ ID_EN_SWAP(t, E2 + 1) = d \div TAM_PAGINA
    BY <1>0, <2>1
  <2> HIDE DEF id, tabla, n, m, tam, d, E1, E2, k, t, f, v
  <2>9. CASE E2 \in 0..Len(f) - 1
    <3>1. E2 + 1 \in 1..k
      BY <2>3, <2>6, <2>8, <2>9
    <3> QED  BY <2>3, <2>4, <2>5, <2>7, <2>8, <2>9, <3>1
  <2>10. CASE E2 \notin 0..Len(f) - 1
    <3>1. d >= tam
      BY <2>3, <2>6, <2>8, <2>10
    <3> QED  BY <2>4, <2>10, <3>1
  <2> QED  BY <2>9, <2>10
<1> HIDE DEF id, tam, d, m
<1>3. /\ LlegaCon(redMemoria, {"REQ_TABLA_SEGUNDO_NIVEL"}) =>
                 IF HayEntrada(tablasPrimerNivel, Consultado)
                   THEN EntradaPropia(EntradaDe(tablasPrimerNivel, Consultado).tablaSegundoNivel)
                   ELSE d >= tam
      /\ LlegaCon(redMemoria, {"REQ_MARCO_LECTURA", "REQ_MARCO_ESCRITURA"}) =>
                 IF HayEntrada(tablasSegundoNivel, Consultado)
                   THEN /\ EntradaDe(tablasSegundoNivel, Consultado) =
                             [id |-> id, paginaSwap |-> d \div TAM_PAGINA]
                        /\ d \div TAM_PAGINA < m
                   ELSE d >= tam
  BY <1>1, <1>2
<1> QED  BY <1>3 DEF id, tam, d, m

-----------------------------------------------------------------------------
(* The walk of the page tables, and the second layer *)

\* When Memoria fell nothing moves in the CPU, nor on its connection.
LEMMA QuietosTrasCaer ==
    ASSUME InvTipos, Recorrido, estadoMemoria = "caida", [Next]_vars
    PROVE  UNCHANGED <<cpu, redMemoria, estadoMemoria>>
<1>1. \/ cpu.fase = "tabla" /\ redMemoria.codigo = "REQ_TABLA_SEGUNDO_NIVEL"
      \/ cpu.fase = "marco" /\ redMemoria.codigo \in {"REQ_MARCO_LECTURA", "REQ_MARCO_ESCRITURA"}
  BY DEF Recorrido, LlegaCon
<1>2. ~CPU
  <2>1. ~PideTraduccion /\ ~RecibeTraduccion /\ ~RecibePcb /\ ~Fetch /\ ~ConsultaTabla
        /\ ~RecibeDato /\ ~TerminaInstruccion
    BY <1>1, Registros
  <2>2. ~ConsultaMarco
    BY <1>1 DEF ConsultaMarco, LlegaCon
  <2>3. ~AccedeAMemoria
    BY <1>1 DEF AccedeAMemoria, LlegaCon
  <2> QED  BY <2>1, <2>2, <2>3 DEF CPU
<1>3. ~DaTraduccion /\ ~ConsultaEnTabla /\ ~DaMarco /\ ~Lee /\ ~Escribe
  BY DEF DaTraduccion, ConsultaEnTabla, DaMarco, Lee, Escribe, Atiende
<1> QED  BY <1>2, <1>3, QuienCambia, Zenon DEF CPU

\* The walk stays where it is while the lists of tables grow.
LEMMA EntradaQueda ==
    ASSUME InvTipos, Buenos, Numeracion, TablasHechas, [Next]_vars, cpu.fase \in ConPcb,
           cpu'.pcb = cpu.pcb, cpu'.accesos = cpu.accesos
    PROVE  \A v : EntradaPropia(v)' <=> EntradaPropia(v)
<1>1. cpu.pcb.id \in Nat /\ cpu.pcb.id < Len(tablasPrimerNivel)
  BY DelQueEjecuta
<1>2. tablasPrimerNivel'[cpu.pcb.id + 1] = tablasPrimerNivel[cpu.pcb.id + 1]
  BY <1>1, TablasQuedan
<1>3. Entrada1' = Entrada1
  BY DEF Entrada1, Direccion
<1> QED  BY <1>2, <1>3 DEF EntradaPropia

\* The walk of the tables stays in the process that executes, whatever the Kernel asks
\* of Memoria in between (mmu.c:107-182, memoria.c:177-199).
LEMMA PasoRecorrido ==
    ASSUME InvTipos, UnProcesoPorConsola, Buenos, Numeracion, TablasHechas, Recorrido, [Next]_vars
    PROVE  Recorrido'
<1> DEFINE A == cpu.fase = "tabla" /\ LlegaCon(redMemoria, {"RES_TABLA_SEGUNDO_NIVEL"}) =>
        EntradaPropia(NumeroDe(redMemoria))
           B == cpu.fase = "marco" /\ LlegaCon(redMemoria, {"REQ_MARCO_LECTURA",
               "REQ_MARCO_ESCRITURA"})
                   => EntradaPropia(Consultado.tablaDePaginas)
           C == \/ cpu.fase = "tabla" /\ LlegaCon(redMemoria, {"REQ_TABLA_SEGUNDO_NIVEL"})
                \/ cpu.fase = "marco" /\ LlegaCon(redMemoria, {"REQ_MARCO_LECTURA",
                     "REQ_MARCO_ESCRITURA"})
           D == estadoMemoria = "caida" => C /\ Direccion >= TamanioDe(cpu.pcb.id)
<1>1. A /\ B /\ D
  BY DEF Recorrido
<1>2. {"tabla", "marco"} \subseteq ConPcb
  BY DEF ConPcb, Ejecuta
<1>3. A'
  <2> SUFFICES ASSUME cpu'.fase = "tabla", LlegaCon(redMemoria', {"RES_TABLA_SEGUNDO_NIVEL"})
               PROVE  EntradaPropia(NumeroDe(redMemoria))'
    OBVIOUS
  <2>1. CASE UNCHANGED <<cpu, redMemoria>>
    <3>1. EntradaPropia(NumeroDe(redMemoria))
      BY <1>1, <2>1
    <3>2. PICK v : v = NumeroDe(redMemoria)
      OBVIOUS
    <3>3. EntradaPropia(v)'
      BY <1>2, <2>1, <3>1, <3>2, EntradaQueda
    <3>4. v = NumeroDe(redMemoria')
      BY <2>1, <3>2
    <3> QED  BY <3>3, <3>4
  <2>2. CASE ConsultaEnTabla
    <3>1. CASE CaeMemoria
      BY <2>1, <3>1 DEF CaeMemoria, varsCPU
    <3>2. CASE HayEntrada(tablasPrimerNivel, Consultado)
               /\ ContestaCPU(EntradaDe(tablasPrimerNivel, Consultado).tablaSegundoNivel,
                    "RES_TABLA_SEGUNDO_NIVEL")
      <4>1. PICK v : v = EntradaDe(tablasPrimerNivel, Consultado).tablaSegundoNivel
        OBVIOUS
      <4>2. EntradaPropia(v)
        BY <2>2, <3>2, <4>1, LoQueHay DEF ConsultaEnTabla, Atiende
      <4>3. cpu' = cpu /\ redMemoria' = armarPaqueteCon(v, "RES_TABLA_SEGUNDO_NIVEL")
        BY <3>2, <4>1 DEF ContestaCPU, varsCPU
      <4>4. NumeroDe(redMemoria') = v
        <5>1. \A e : \A cod \in CodigosUINT32 : NumeroDe(armarPaqueteCon(e, cod)) = e
          BY ArmaFijo
        <5>2. "RES_TABLA_SEGUNDO_NIVEL" \in CodigosUINT32
          BY DEF CodigosUINT32
        <5> QED  BY <4>3, <5>1, <5>2
      <4>5. EntradaPropia(v)'
        BY <1>2, <4>2, <4>3, EntradaQueda
      <4> QED  BY <4>4, <4>5
    <3> QED  BY <2>2, <3>1, <3>2 DEF ConsultaEnTabla, Consultado
  <2>3. CASE DaTraduccion \/ DaMarco \/ Lee \/ Escribe
    <3>1. cpu' = cpu
      BY <2>3 DEF DaTraduccion, DaMarco, Lee, Escribe, ContestaCPU, CaeMemoria, varsCPU
    <3>2. redMemoria # NULO /\ redMemoria.codigo \in {"REQ_TRADUCCION_DIRECCIONES",
              "REQ_MARCO_LECTURA",
             "REQ_MARCO_ESCRITURA", "REQ_READ", "REQ_WRITE"}
      BY <2>3 DEF DaTraduccion, DaMarco, Lee, Escribe, Atiende, LlegaCon
    <3>3. cpu.fase # "tabla"
      BY <3>2, FaseDeLaConsulta
    <3> QED  BY <3>1, <3>3
  <2>4. CASE CPU
    <3>1. CASE ConsultaTabla
      <4>1. PICK e : redMemoria' = armarPaqueteCon(e, "REQ_TABLA_SEGUNDO_NIVEL")
        BY <3>1 DEF ConsultaTabla, PideAMemoria
      <4>2. redMemoria'.codigo = "REQ_TABLA_SEGUNDO_NIVEL"
        BY <4>1, Armado
      <4> QED  BY <4>2 DEF LlegaCon
    <3>2. ~(PideTraduccion \/ RecibeTraduccion \/ RecibePcb \/ Fetch \/ ConsultaMarco
          \/ AccedeAMemoria \/ RecibeDato \/ TerminaInstruccion)
      BY Registros
    <3> QED  BY <2>4, <3>1, <3>2 DEF CPU
  <2> QED  BY <2>1, <2>2, <2>3, <2>4, QuienCambia, Zenon DEF CPU
<1>4. B'
  <2> SUFFICES ASSUME cpu'.fase = "marco", LlegaCon(redMemoria', {"REQ_MARCO_LECTURA",
                   "REQ_MARCO_ESCRITURA"})
               PROVE  EntradaPropia(Consultado.tablaDePaginas)'
    OBVIOUS
  <2>1. CASE UNCHANGED <<cpu, redMemoria>>
    <3>1. EntradaPropia(Consultado.tablaDePaginas)
      BY <1>1, <2>1
    <3>2. PICK v : v = Consultado.tablaDePaginas
      OBVIOUS
    <3>3. EntradaPropia(v)'
      BY <1>2, <2>1, <3>1, <3>2, EntradaQueda
    <3>4. v = Consultado'.tablaDePaginas
      BY <2>1, <3>2 DEF Consultado
    <3> QED  BY <3>3, <3>4
  <2>2. CASE DaMarco
    <3>1. CASE CaeMemoria
      BY <2>1, <3>1 DEF CaeMemoria, varsCPU
    <3>2. CASE \E marco : ContestaCPU(marco, "RES_MARCO")
      <4>1. PICK marco : redMemoria' = armarPaqueteCon(marco, "RES_MARCO")
        BY <3>2 DEF ContestaCPU
      <4>2. redMemoria'.codigo = "RES_MARCO"
        BY <4>1, Armado
      <4> QED  BY <4>2 DEF LlegaCon
    <3> QED  BY <2>2, <3>1, <3>2 DEF DaMarco
  <2>3. CASE DaTraduccion \/ ConsultaEnTabla \/ Lee \/ Escribe
    <3>1. cpu' = cpu
      BY <2>3 DEF DaTraduccion, ConsultaEnTabla, Lee, Escribe, ContestaCPU, CaeMemoria, varsCPU
    <3>2. redMemoria # NULO /\ redMemoria.codigo \in {"REQ_TRADUCCION_DIRECCIONES",
              "REQ_TABLA_SEGUNDO_NIVEL",
             "REQ_READ", "REQ_WRITE"}
      BY <2>3 DEF DaTraduccion, ConsultaEnTabla, Lee, Escribe, Atiende, LlegaCon
    <3>3. cpu.fase # "marco"
      BY <3>2, FaseDeLaConsulta
    <3> QED  BY <3>1, <3>3
  <2>4. CASE CPU
    <3>1. CASE ConsultaMarco
      <4>1. cpu.fase = "tabla" /\ cpu'.pcb = cpu.pcb /\ cpu'.accesos = cpu.accesos
        BY <3>1, Registros
      <4>2. PICK v, e, cod : /\ v = NumeroDe(redMemoria) /\ cod = Head(cpu.accesos).codigo
                             /\ e.tablaDePaginas = v /\ redMemoria' = armarPaqueteCon(e, cod)
        <5> DEFINE t == NumeroDe(redMemoria)
                   f == [tablaDePaginas |-> t, id |-> cpu.pcb.id,
                         entradaPagina |-> obtenerEntradaTabla2doNivel(cpu.traduccion, Pagina)]
        <5>1. redMemoria' = armarPaqueteCon(f, Head(cpu.accesos).codigo)
          BY <3>1 DEF ConsultaMarco, PideAMemoria, NumeroDe
        <5>2. f.tablaDePaginas = t
          OBVIOUS
        <5> HIDE DEF t, f
        <5> QED  BY <5>1, <5>2 DEF t
      <4>3. cod \in CodigosConsulta
        BY <4>1, <4>2, RespuestaDeMemoria DEF ACCESO, CodigosConsulta
      <4>4. Consultado'.tablaDePaginas = v
        <5>1. deserializarConsulta(armarPaqueteCon(e, cod).stream) =
                 [entradaPagina |-> e.entradaPagina, tablaDePaginas |-> e.tablaDePaginas,
                     id |-> e.id]
          BY <4>3, ArmaFijo
        <5> QED  BY <4>2, <5>1 DEF Consultado
      <4>5. EntradaPropia(v)
        BY <1>1, <3>1, <4>1, <4>2 DEF ConsultaMarco
      <4>6. EntradaPropia(v)'
        BY <1>2, <4>1, <4>5, EntradaQueda
      <4> QED  BY <4>4, <4>6
    <3>2. ~(PideTraduccion \/ RecibeTraduccion \/ RecibePcb \/ Fetch \/ ConsultaTabla
          \/ AccedeAMemoria \/ RecibeDato \/ TerminaInstruccion)
      BY Registros
    <3> QED  BY <2>4, <3>1, <3>2 DEF CPU
  <2> QED  BY <2>1, <2>2, <2>3, <2>4, QuienCambia, Zenon DEF CPU
<1>5. D'
  <2> SUFFICES ASSUME estadoMemoria' = "caida" PROVE C' /\ Direccion' >= TamanioDe(cpu.pcb.id)'
    OBVIOUS
  <2>1. UNCHANGED <<cpu, redMemoria>> /\ C /\ Direccion >= TamanioDe(cpu.pcb.id)
    <3>1. CASE estadoMemoria = "caida"
      BY <1>1, <3>1, QuietosTrasCaer
    <3>2. CASE estadoMemoria # "caida"
      <4>1. ConsultaEnTabla \/ DaMarco
        BY <3>2, QuienCambia
      <4>2. CASE ConsultaEnTabla
        <5>1. LlegaCon(redMemoria, {"REQ_TABLA_SEGUNDO_NIVEL"})
              /\ ~HayEntrada(tablasPrimerNivel, Consultado) /\ CaeMemoria
          <6>1. ~ContestaCPU(EntradaDe(tablasPrimerNivel, Consultado).tablaSegundoNivel,
                    "RES_TABLA_SEGUNDO_NIVEL")
            BY <3>2 DEF ContestaCPU, varsMemoria
          <6> QED  BY <4>2, <6>1 DEF ConsultaEnTabla, Atiende, Consultado
        <5>2. UNCHANGED <<cpu, redMemoria>>
          BY <5>1 DEF CaeMemoria, varsCPU
        <5> QED  BY <5>1, <5>2, LoQueHay, LoQueConsulta
      <4>3. CASE DaMarco
        <5>1. LlegaCon(redMemoria, {"REQ_MARCO_LECTURA", "REQ_MARCO_ESCRITURA"})
              /\ ~HayEntrada(tablasSegundoNivel, Consultado) /\ CaeMemoria
          <6>1. \A marco : ~ContestaCPU(marco, "RES_MARCO")
            BY <3>2 DEF ContestaCPU, varsMemoria
          <6> QED  BY <4>3, <6>1 DEF DaMarco, Atiende, Consultado
        <5>2. UNCHANGED <<cpu, redMemoria>>
          BY <5>1 DEF CaeMemoria, varsCPU
        <5> QED  BY <5>1, <5>2, LoQueHay, LoQueConsulta
      <4> QED  BY <4>1, <4>2, <4>3
    <3> QED  BY <3>1, <3>2
  <2>2. PICK id : id = cpu.pcb.id
    OBVIOUS
  <2>3. TamanioDe(id)' = TamanioDe(id)
    <3>1. id \in Nat /\ id < Len(historia)
      BY <1>2, <2>1, <2>2, DelQueEjecuta
    <3> QED  BY <3>1, LoDadoPorId
  <2>4. C' /\ Direccion' = Direccion /\ TamanioDe(cpu.pcb.id)' = TamanioDe(id)'
    BY <2>1, <2>2 DEF Direccion, TamanioDe
  <2> QED  BY <2>1, <2>2, <2>3, <2>4
<1> QED  BY <1>3, <1>4, <1>5 DEF Recorrido

-----------------------------------------------------------------------------
\* The second layer of the invariant: each process is in one place, with the size and
\* the instructions of its console, its own tables and its own swap file.
THEOREM ProcesosCorrectos == Spec => [](InvTipos /\ InvProcesos)
<1>1. Init => InvProcesos
  <2> SUFFICES ASSUME Init PROVE InvProcesos
    OBVIOUS
  <2> USE DEF Init, InitTablas
  <2>1. Len(historia) = 0 /\ Len(estado_new) = 0 /\ Len(tablasPrimerNivel) = 0
        /\ Len(colaKernel) = 0 /\ 1..0 = {}
        /\ DOMAIN estado_new = {} /\ 0..0-1 = {}
    BY EmptySeq
  <2>2. EnCPU = {} /\ EnElKernel = {}
    BY <2>1 DEF EnCPU, EnElKernel, ConPcb, Ejecuta
  <2>3. UnProcesoPorConsola
    BY <2>1 DEF UnProcesoPorConsola, LlegaCon
  <2>4. Buenos /\ UnSitio /\ TablasHechas
    BY <2>1, <2>2 DEF Buenos, UnSitio, TablasHechas
  <2>5. Proximo = 0 /\ Despachados = {}
    <3>1. id_nuevo_proceso = 0 /\ Len(estado_new) = 0 /\ creando = NULO
      BY <2>1
    <3>2. Proximo = 0
      <4>1. 0 - 0 - 0 = 0
        OBVIOUS
      <4>2. Proximo = 0 - 0 - 0
        BY <3>1, Zenon DEF Proximo
      <4> QED  BY <4>1, <4>2
    <3>3. estado_ready = {} /\ estado_blocked = {}
      OBVIOUS
    <3>4. Despachados = {}
      BY <2>2, <3>3 DEF Despachados
    <3> QED  BY <3>2, <3>4
  <2>6. Numeracion
    BY <2>1, <2>5 DEF Numeracion
  <2>7. Conectadas
    BY <2>1, <2>2 DEF Conectadas
  <2>8. Recorrido
    BY DEF Recorrido
  <2> QED  BY <2>3, <2>4, <2>6, <2>7, <2>8 DEF InvProcesos
<1>2. InvTipos /\ InvProcesos /\ [Next]_vars => InvProcesos'
  BY PasoConsolas, PasoBuenos, PasoNumeracion, PasoTablas, PasoUnSitio, PasoConectadas,
     PasoRecorrido DEF InvProcesos
<1> QED  BY <1>1, <1>2, TiposCorrectos, PTL DEF Spec

\* Memoria reads past a table only for an address past the size of its process
\* (memoria.c:187, 199), for every size of page, table and process.
THEOREM SoloCaePorFuera == Spec => []SoloCaeFuera
<1>1. InvTipos /\ InvProcesos => SoloCaeFuera
  BY DEF InvProcesos, Recorrido, SoloCaeFuera, TamanioDe
<1> QED  BY <1>1, ProcesosCorrectos, PTL

\* The walk of the two levels ends in the page of the address, of the process that
\* executes and inside its swap file, for every size and interleaving
\* (mmu.c:107-182, memoria.c:96-199, swap.c:13-62).
THEOREM PaginasPropias == Spec => []PaginaPropia
<1>1. InvTipos /\ InvProcesos => PaginaPropia
  <2> SUFFICES ASSUME InvTipos, InvProcesos,
                      LlegaCon(redMemoria, {"REQ_MARCO_LECTURA", "REQ_MARCO_ESCRITURA"}),
                      HayEntrada(tablasSegundoNivel, Consultado)
               PROVE  LET entrada == EntradaDe(tablasSegundoNivel, Consultado) IN
                      /\ entrada = [id |-> cpu.pcb.id, paginaSwap |-> Direccion \div TAM_PAGINA]
                      /\ \E f \in swap : f.id = entrada.id
                           /\ (entrada.paginaSwap + 1) * TAM_PAGINA <= f.tamanio
    BY DEF PaginaPropia
  <2> DEFINE id == cpu.pcb.id
             m == marcosProceso(TamanioDe(id))
             pagina == Direccion \div TAM_PAGINA
             f == [id |-> id, tamanio |-> m * TAM_PAGINA]
  <2>1. cpu.fase = "marco" /\ cpu.fase \in ConPcb
    BY LoQueConsulta DEF ConPcb, Ejecuta
  <2>2. EntradaDe(tablasSegundoNivel, Consultado) = [id |-> id, paginaSwap |-> pagina] /\ pagina < m
    BY LoQueHay DEF InvProcesos
  <2>3. id < Len(tablasPrimerNivel) /\ TamanioDe(id) \in Nat
    BY <2>1, DelQueEjecuta DEF InvProcesos
  <2>4. f \in swap
    <3>1. cpu.pcb \in EnCPU
      BY <2>1 DEF EnCPU
    <3>2. PICK k \in consolas_conectadas : k.id = id
      BY <3>1 DEF InvProcesos, Conectadas
    <3> QED  BY <2>3, <3>2 DEF InvProcesos, Conectadas
  <2>5. (pagina + 1) * TAM_PAGINA <= m * TAM_PAGINA
    <3>1. TAM_PAGINA \in Nat \ {0} /\ m \in Nat
      BY <2>3, Medidas, TablasAssumption
    <3>2. pagina \in Nat
      <4>1. Direccion \in Nat
        BY <2>1, Enteros
      <4> HIDE DEF id
      <4> QED  BY <3>1, <4>1, Division
    <3> HIDE DEF pagina, m
    <3>3. m - (pagina + 1) \in Nat
      BY <2>2, <3>1, <3>2
    <3> QED  BY <3>1, <3>2, <3>3
  <2>6. f.id = id /\ f.tamanio = m * TAM_PAGINA
    OBVIOUS
  <2> HIDE DEF id, f, pagina, m
  <2> QED  BY <2>2, <2>4, <2>5, <2>6 DEF id, pagina
<1> QED  BY <1>1, ProcesosCorrectos, PTL

-----------------------------------------------------------------------------
(* Programs, and who executes *)

\* A whole process has the instructions of its script wherever it is.
LEMMA DeEntero ==
    ASSUME InvTipos, Buenos, NEW p \in Vivos, Entero(p.id)
    PROVE  /\ p.instrucciones = Programa(p.id) /\ p.tamanioProceso = TamanioDe(p.id)
           /\ p.id \in Nat /\ p.id < Len(historia) /\ p.PC \in Nat
           /\ Programa(p.id) \in Seq(INSTR) /\ Len(Programa(p.id)) \in Nat
<1>1. Bueno(p) /\ p \in PCB
  BY VivosTipo DEF Buenos, Vivos
<1>2. Leido(p.id) = Programa(p.id)
  BY DEF Leido, Programa, Entero, leerInstrucciones
<1>3. Recorte(Programa(p.id), p.instrucciones)
  BY <1>1, <1>2 DEF Bueno
<1>4. p.instrucciones = Programa(p.id)
  BY <1>3 DEF Recorte, Entero
<1>5. p.instrucciones \in Seq(INSTR) /\ p.id \in Nat /\ p.PC \in Nat
  BY <1>1 DEF PCB
<1> QED  BY <1>1, <1>4, <1>5, LenProperties DEF Bueno

\* Every PCB that the Kernel or the CPU holds has all the instructions of its script
\* and its size, however many times it was serialized, for every script that fits
\* in a segment (inicializacion.c:9-57, estructuras.c:103-244, socket.c:66).
THEOREM ProgramaSiempreIntacto == Spec => []ProgramaIntacto
<1>1. InvTipos /\ InvProcesos => ProgramaIntacto
  <2> SUFFICES ASSUME InvTipos, InvProcesos, NEW p \in Pcbs, Entero(p.id)
               PROVE  p.instrucciones = Programa(p.id) /\ p.tamanioProceso = TamanioDe(p.id)
    BY DEF ProgramaIntacto, TamanioDe
  <2>1. cpu.pcb # NULO => cpu.fase \in ConPcb
    BY DEF InvTipos, Dispatch
  <2>2. p \in Vivos
    BY <2>1 DEF Pcbs, Vivos, EnCPU
  <2> QED  BY <2>2, DeEntero DEF InvProcesos
<1> QED  BY <1>1, ProcesosCorrectos, PTL

-----------------------------------------------------------------------------
\* The process that executes is in no queue of the Kernel.
LEMMA NadieMas ==
    ASSUME InvTipos, Numeracion, UnSitio, cpu.fase \in ConPcb, NEW p \in EnElKernel
    PROVE  p.id # cpu.pcb.id
<1> DEFINE q == cpu.pcb
<1>1. q \in EnCPU /\ q \in PCB
  BY EnEjecucion DEF EnCPU
<1>2. q.id < Proximo /\ q.id \in Nat
  BY <1>1 DEF Numeracion, Despachados, PCB
<1> HIDE DEF q
<1>3. ASSUME NEW k \in DOMAIN estado_new, p = estado_new[k] PROVE p.id # q.id
  <2>1. k \in 1..Len(estado_new)
    <3> HIDE DEF PCB
    <3> QED  BY LenProperties DEF InvTipos, TiposKernel
  <2>2. p.id = id_nuevo_proceso - Len(estado_new) + k - 1
    BY <1>3, <2>1 DEF Numeracion
  <2> QED  BY <1>2, <2>1, <2>2, EnterosDeNumeracion
<1>4. ASSUME creando # NULO, p = creando PROVE p.id # q.id
  BY <1>2, <1>4, EnterosDeNumeracion DEF Numeracion
<1>5. ASSUME p \in estado_ready PROVE p.id # q.id
  BY <1>1, <1>5 DEF UnSitio
<1>6. ASSUME NEW io \in estado_blocked, p = io.pcb PROVE p.id # q.id
  BY <1>1, <1>6 DEF UnSitio
<1> QED  BY <1>3, <1>4, <1>5, <1>6 DEF EnElKernel, q

\* Only the process that executes adds to its history.
LEMMA LoEjecutado ==
    ASSUME InvTipos, UnProcesoPorConsola, [Next]_vars, NEW id \in Nat, id < Len(historia)
    PROVE  \/ Ejecutadas(id)' = Ejecutadas(id)
           \/ /\ Fetch /\ Ejecutable(cpu.pcb) /\ cpu'.fase = "execute" /\ id = cpu.pcb.id
              /\ Ejecutadas(id)' = Append(Ejecutadas(id), fetch(cpu.pcb))
<1> DEFINE n == Len(historia)
           k == id + 1
<1>1. historia \in Seq(HISTORIA) /\ n \in Nat /\ DOMAIN historia = 1..n /\ k \in 1..n
  BY LenProperties DEF InvTipos, TiposKernel
<1>2. CASE UNCHANGED historia
  BY <1>2 DEF Ejecutadas
<1>3. ASSUME NEW c \in Consolas, ManejarProceso(c) PROVE Ejecutadas(id)' = Ejecutadas(id)
  <2> DEFINE h == [consola |-> c, ejecutadas |-> <<>>]
             S == HISTORIA
  <2>1. h \in S /\ historia \in Seq(S)
    BY <1>1 DEF HISTORIA
  <2>2. historia' = Append(historia, h)
    BY <1>3 DEF ManejarProceso
  <2> HIDE DEF h, S
  <2>3. Append(historia, h)[k] = historia[k]
    BY <1>1, <2>1, Agrega
  <2> QED  BY <2>2, <2>3 DEF Ejecutadas
<1>4. CASE Fetch
  <2>1. CASE historia' = historia
    BY <1>2, <2>1
  <2>2. CASE Ejecutable(cpu.pcb) /\ cpu'.fase = "execute"
             /\ historia' = [historia EXCEPT ![cpu.pcb.id + 1].ejecutadas =
                  Append(@, fetch(cpu.pcb))]
    <3> DEFINE i == cpu.pcb.id + 1
               e == fetch(cpu.pcb)
               l == Append(historia[i].ejecutadas, e)
    <3>1. historia' = [historia EXCEPT ![i].ejecutadas = l]
      BY <2>2
    <3>2. cpu.pcb.id \in Nat
      BY <1>4, Registros, EnEjecucion DEF ConPcb, PCB
    <3>3. i = k => id = cpu.pcb.id
      <4> DEFINE j == cpu.pcb.id
      <4>1. j \in Nat
        BY <3>2
      <4> HIDE DEF j
      <4> QED  BY <4>1 DEF j
    <3>4. historia[k] \in HISTORIA
      BY <1>1, ElementOfSeq, Zenon
    <3>5. CASE i = k
      <4>1. historia'[k].ejecutadas = l /\ l = Append(historia[k].ejecutadas, e)
        <5>1. l = Append(historia[k].ejecutadas, e)
          BY <3>5
        <5> HIDE DEF l, i
        <5>2. historia'[k].ejecutadas = l
          BY <1>1, <3>1, <3>4, <3>5 DEF HISTORIA
        <5> QED  BY <5>1, <5>2
      <4>2. Ejecutadas(id)' = l /\ l = Append(Ejecutadas(id), e)
        BY <4>1 DEF Ejecutadas
      <4> QED  BY <1>4, <2>2, <3>3, <3>5, <4>2
    <3>6. CASE i # k
      <4> HIDE DEF i, l
      <4>1. historia'[k] = historia[k]
        BY <1>1, <3>1, <3>6
      <4> QED  BY <4>1 DEF Ejecutadas
    <3> QED  BY <3>5, <3>6
  <2> QED  BY <1>4, <2>1, <2>2, Registros, Zenon
<1> QED  BY <1>2, <1>3, <1>4, QuienCambia

\* The history of a process that enters is empty.
LEMMA NadaEjecutado ==
    ASSUME InvTipos, NEW c \in Consolas, ManejarProceso(c), NEW n, n = id_nuevo_proceso
    PROVE  Ejecutadas(n)' = <<>>
<1> DEFINE h == [consola |-> c, ejecutadas |-> <<>>]
           S == HISTORIA
<1>1. h \in S /\ historia \in Seq(S) /\ h.ejecutadas = <<>> /\ n = Len(historia)
  BY EmptySeq DEF HISTORIA, InvTipos, TiposKernel
<1>2. historia' = Append(historia, h)
  BY DEF ManejarProceso
<1> HIDE DEF h, S
<1>3. Append(historia, h)[Len(historia) + 1] = h
  BY <1>1, Agrega
<1> QED  BY <1>1, <1>2, <1>3 DEF Ejecutadas

\* What is in the CPU, or on its connection, and does not execute.
Parado == IF cpu.fase \in Ejecuta THEN {} ELSE EnCPU

\* Where each PCB that waits comes from, and the instruction that it waits for.
LEMMA QuienEspera ==
    ASSUME InvTipos, [Next]_vars, NEW q, q \in Esperan'
    PROVE  \/ \E p \in Esperan : q.id = p.id /\ q.PC = p.PC
           \/ q.id = id_nuevo_proceso /\ q.PC = 0 /\ \E c \in Consolas : ManejarProceso(c)
           \/ TerminaInstruccion /\ q.id = cpu.pcb.id /\ q.PC = cpu.pcb.PC + 1
<1> DEFINE Viene(e) == \E p \in Esperan : e.id = p.id /\ e.PC = p.PC
           Nace(e) == e.id = id_nuevo_proceso /\ e.PC = 0 /\ \E c \in Consolas : ManejarProceso(c)
           Sale(e) == TerminaInstruccion /\ e.id = cpu.pcb.id /\ e.PC = cpu.pcb.PC + 1
<1>0. /\ estado_new \in Seq(PCB) /\ DOMAIN estado_new = 1..Len(estado_new)
      /\ creando \in PCB \union {NULO} /\ estado_ready \subseteq PCB /\ estado_blocked \subseteq TIO
  BY LenProperties DEF InvTipos, TiposKernel
<1>1. \A p \in Esperan : Viene(p)
  OBVIOUS
<1>2. /\ estado_ready \subseteq Esperan /\ Parado \subseteq Esperan
           /\ \A io \in estado_blocked : io.pcb \in Esperan
      /\ creando # NULO => creando \in Esperan
      /\ \A k \in DOMAIN estado_new : estado_new[k] \in Esperan
  BY DEF Esperan, EnElKernel, Parado
<1>3. \A k \in DOMAIN estado_new' : Viene(estado_new'[k]) \/ Nace(estado_new'[k])
  <2>1. CASE UNCHANGED estado_new
    BY <1>1, <1>2, <2>1
  <2>2. ASSUME NEW c \in Consolas, ManejarProceso(c)
        PROVE  \A k \in DOMAIN estado_new' : Viene(estado_new'[k]) \/ Nace(estado_new'[k])
    <3>1. PICK r \in recibirPaquete(redConsola[c]) :
             estado_new' = Append(estado_new, iniciarPcb(deserializarProceso(r.stream)))
      BY <2>2 DEF ManejarProceso
    <3> DEFINE e == iniciarPcb(deserializarProceso(r.stream))
               S == {e} \union PCB
               m == Len(estado_new)
    <3>2. Nace(e)
      BY <2>2 DEF iniciarPcb
    <3>3. estado_new' = Append(estado_new, e) /\ e \in S /\ PCB \subseteq S
      BY <3>1
    <3> HIDE DEF e, S, Nace, Viene
    <3>4. estado_new \in Seq(S)
      BY <1>0, <3>3, SeqMonotona
    <3>5. /\ m \in Nat /\ DOMAIN estado_new = 1..m /\ Append(estado_new, e) \in Seq(S)
          /\ Len(Append(estado_new, e)) = m + 1
          /\ \A k \in 1..m : Append(estado_new, e)[k] = estado_new[k]
          /\ Append(estado_new, e)[m + 1] = e
      BY <3>3, <3>4, Agrega
    <3>6. DOMAIN estado_new' = 1..(m + 1)
      BY <3>3, <3>5, LenProperties
    <3> HIDE DEF m
    <3> QED  BY <1>1, <1>2, <3>2, <3>3, <3>5, <3>6
  <2>3. CASE PideCrear
    <3>1. estado_new # <<>> /\ estado_new' = Tail(estado_new)
      BY <2>3 DEF PideCrear
    <3> DEFINE m == Len(estado_new)
    <3>2. /\ m \in Nat \ {0} /\ DOMAIN Tail(estado_new) = 1..(m - 1)
          /\ \A k \in 1..(m - 1) : Tail(estado_new)[k] = estado_new[k + 1]
      <4> HIDE DEF PCB
      <4> QED  BY <1>0, <3>1, HeadTailProperties, LenProperties, EmptySeq
    <3> HIDE DEF m
    <3>3. \A k \in 1..(m - 1) : k + 1 \in 1..m
      BY <3>2
    <3> HIDE DEF Viene, Nace
    <3> QED  BY <1>0, <1>1, <1>2, <3>1, <3>2, <3>3 DEF m
  <2> QED  BY <2>1, <2>2, <2>3, QuienCambia, Zenon
<1>4. creando' # NULO => Viene(creando')
  <2>1. CASE UNCHANGED creando
    BY <1>1, <1>2, <2>1
  <2>2. CASE PideCrear
    <3>1. estado_new # <<>> /\ creando' = Head(estado_new)
      BY <2>2 DEF PideCrear
    <3>2. Head(estado_new) = estado_new[1] /\ 1 \in DOMAIN estado_new
      <4> HIDE DEF PCB
      <4> QED  BY <1>0, <3>1, HeadTailProperties, LenProperties, EmptySeq
    <3> HIDE DEF Viene
    <3> QED  BY <1>1, <1>2, <3>1, <3>2
  <2>3. CASE RecibeTabla
    BY <2>3 DEF RecibeTabla
  <2> QED  BY <2>1, <2>2, <2>3, QuienCambia, Zenon
<1>5. redDispatch # NULO /\ redDispatch.codigo # "REQ_PCB_A_EJECUTAR" =>
         Parado = {IF redDispatch.codigo = "PCB_EJECUTADO_IO" THEN IoDe(redDispatch).pcb
             ELSE PcbDe(redDispatch)}
  <2> HAVE redDispatch # NULO /\ redDispatch.codigo # "REQ_PCB_A_EJECUTAR"
  <2>1. cpu.fase \notin ConPcb
    BY VueltaDeLaCPU
  <2> QED  BY <2>1 DEF Parado, EnCPU, ConPcb
<1>6. \A e \in estado_ready' : Viene(e)
  <2>1. CASE RecibeTabla
    <3>1. creando \in PCB /\ creando # NULO
      BY <1>0, <2>1, NuloAssumption DEF RecibeTabla, InvTipos, Cola
    <3> DEFINE v == deserializarUINT32(redCrear.stream)
    <3>2. estado_ready' = estado_ready \union {[creando EXCEPT !.tablaDePaginas = v]}
      BY <2>1 DEF RecibeTabla
    <3> HIDE DEF v
    <3>3. [creando EXCEPT !.tablaDePaginas = v].id = creando.id
          /\ [creando EXCEPT !.tablaDePaginas = v].PC = creando.PC
      BY <3>1 DEF PCB
    <3>4. Viene([creando EXCEPT !.tablaDePaginas = v])
      BY <1>2, <3>1, <3>3
    <3> HIDE DEF Viene
    <3> QED  BY <1>1, <1>2, <3>2, <3>4
  <2>2. CASE Despacha
    BY <1>1, <1>2, <2>2 DEF Despacha
  <2>3. CASE VuelveInterrumpido
    <3>1. PICK r \in recibirPaquete(redDispatch) :
             estado_ready' = estado_ready \union {TrasInterrupcion(deserializarPCB(r.stream, 0))}
      BY <2>3 DEF VuelveInterrumpido
    <3>2. redDispatch # NULO /\ redDispatch.codigo = "PCB_EJECUTADO_INTERRUPCION"
      BY <2>3 DEF VuelveInterrumpido, LlegaCon
    <3>3. LlevaPCB(redDispatch, CodigosPCB)
      BY <3>2, VueltaDeLaCPU
    <3> DEFINE e == deserializarPCB(r.stream, 0)
               p == PcbDe(redDispatch)
    <3>4. e \in PCB /\ e.id = p.id /\ e.PC = p.PC
      BY <3>3, RecibePCB
    <3>5. p \in Esperan
      BY <1>2, <1>5, <3>2
    <3> HIDE DEF e, p
    <3>6. TrasInterrupcion(e).id = e.id /\ TrasInterrupcion(e).PC = e.PC
      BY <3>4, SigueTras DEF Sigue
    <3>7. Viene(TrasInterrupcion(e))
      BY <3>4, <3>5, <3>6
    <3> HIDE DEF Viene
    <3> QED  BY <1>1, <1>2, <3>1, <3>7 DEF e
  <2>4. CASE TerminaIO
    <3> HIDE DEF Viene
    <3> QED  BY <1>1, <1>2, <2>4 DEF TerminaIO
  <2> QED  BY <1>1, <1>2, <2>1, <2>2, <2>3, <2>4, QuienCambia
<1>7. \A io \in estado_blocked' : Viene(io.pcb)
  <2>1. CASE VuelveIO
    <3>1. PICK r \in recibirPaquete(redDispatch) :
             estado_blocked' = estado_blocked \union {[deserializarIO(r.stream) EXCEPT !.pcb =
                 TrasIO(@)]}
      BY <2>1 DEF VuelveIO
    <3>2. redDispatch # NULO /\ redDispatch.codigo = "PCB_EJECUTADO_IO"
      BY <2>1 DEF VuelveIO, LlegaCon
    <3>3. LlevaIO(redDispatch)
      BY <3>2, VueltaDeLaCPU
    <3> DEFINE io == deserializarIO(r.stream)
               p == IoDe(redDispatch).pcb
               b == [io EXCEPT !.pcb = TrasIO(@)]
    <3>4. io \in TIO /\ io.pcb.id = p.id /\ io.pcb.PC = p.PC
      BY <3>3, RecibeIO
    <3>5. p \in Esperan
      BY <1>2, <1>5, <3>2
    <3> HIDE DEF io, p
    <3>6. TrasIO(io.pcb).id = io.pcb.id /\ TrasIO(io.pcb).PC = io.pcb.PC
      BY <3>4, SigueTras DEF Sigue, TIO
    <3>7. b.pcb = TrasIO(io.pcb)
      BY <3>4 DEF TIO
    <3>8. Viene(b.pcb)
      BY <3>4, <3>5, <3>6, <3>7
    <3>9. estado_blocked' = estado_blocked \union {b}
      BY <3>1 DEF io
    <3> HIDE DEF Viene, b
    <3> QED  BY <1>1, <1>2, <3>8, <3>9
  <2>2. CASE TerminaIO
    <3> HIDE DEF Viene
    <3> QED  BY <1>1, <1>2, <2>2 DEF TerminaIO
  <2> QED  BY <1>1, <1>2, <2>1, <2>2, QuienCambia
<1>8. \A e \in Parado' : Viene(e) \/ Sale(e)
  <2>1. CASE UNCHANGED <<cpu, redDispatch>>
    <3>1. Parado' = Parado
      BY <2>1 DEF Parado, EnCPU
    <3> QED  BY <1>1, <1>2, <3>1
  <2>2. CASE Despacha
    <3>1. PICK p \in estado_ready : redDispatch' = armarPaqueteCon(p, "REQ_PCB_A_EJECUTAR")
      BY <2>2 DEF Despacha
    <3>2. cpu.fase = "ocioso" /\ cpu' = cpu
      BY <2>2 DEF Despacha, varsCPU
    <3>3. redDispatch'.codigo = "REQ_PCB_A_EJECUTAR" /\ PcbDe(redDispatch') = p
      BY <1>0, <3>1, ArmaPCB DEF CodigosPCB
    <3>4. Parado' \subseteq {p}
      BY <3>2, <3>3 DEF Parado, EnCPU, ConPcb, Ejecuta
    <3> QED  BY <1>1, <1>2, <3>4
  <2>3. CASE VuelveIO \/ VuelveInterrumpido \/ VuelveExit
    <3>1. redDispatch # NULO /\ redDispatch.codigo # "REQ_PCB_A_EJECUTAR" /\ redDispatch' = NULO
          /\ cpu' = cpu
      BY <2>3 DEF VuelveIO, VuelveInterrumpido, VuelveExit, LlegaCon, varsCPU
    <3>2. cpu.fase \notin ConPcb
      BY <3>1, VueltaDeLaCPU
    <3>3. Parado' = {}
      BY <3>1, <3>2 DEF Parado, EnCPU
    <3> QED  BY <3>3
  <2>4. CASE PideTraduccion \/ RecibeTraduccion
    <3>1. /\ redDispatch' = redDispatch
          /\ cpu.fase \in {"inicio", "traduccion"} /\ cpu'.fase \in {"traduccion", "ocioso"}
      BY <2>4, Registros DEF PideTraduccion, RecibeTraduccion
    <3>2. redDispatch = NULO
      BY <3>1 DEF InvTipos, Dispatch
    <3>3. Parado' = {}
      BY <3>1, <3>2 DEF Parado, EnCPU, ConPcb, Ejecuta
    <3> QED  BY <3>3
  <2>5. CASE RecibePcb
    <3>1. redDispatch # NULO /\ redDispatch.codigo = "REQ_PCB_A_EJECUTAR"
          /\ redDispatch' = redDispatch
      BY <2>5 DEF RecibePcb, LlegaCon
    <3>2. PICK r \in recibirPaquete(redDispatch) : cpu'.pcb = deserializarPCB(r.stream, 0)
      BY <2>5, Registros
    <3>3. cpu.fase = "ocioso" /\ cpu'.fase = "fetch"
      BY <2>5, Registros
    <3>4. LlevaPCB(redDispatch, CodigosPCB)
      BY <3>1, EnVuelo
    <3>5. Parado = {PcbDe(redDispatch)} /\ Parado' = {cpu'.pcb}
      BY <3>1, <3>3 DEF Parado, EnCPU, ConPcb, Ejecuta
    <3>6. cpu'.pcb.id = PcbDe(redDispatch).id /\ cpu'.pcb.PC = PcbDe(redDispatch).PC
      BY <3>2, <3>4, RecibePCB
    <3>7. PcbDe(redDispatch) \in Esperan
      BY <1>2, <3>5
    <3>8. Viene(cpu'.pcb)
      BY <3>6, <3>7
    <3> QED  BY <3>5, <3>8
  <2>6. CASE Fetch
    <3>1. cpu.fase = "fetch" /\ cpu'.pcb = cpu.pcb /\ cpu'.fase \in {"execute", "caida"}
      BY <2>6, Registros
    <3>2. Parado = {cpu.pcb} /\ Parado' \subseteq {cpu.pcb}
      BY <3>1 DEF Parado, EnCPU, ConPcb, Ejecuta
    <3> QED  BY <1>1, <1>2, <3>2
  <2>7. CASE ConsultaTabla \/ ConsultaMarco \/ AccedeAMemoria \/ RecibeDato
    <3>1. cpu'.fase \in Ejecuta
      BY <2>7, Registros DEF Ejecuta
    <3> QED  BY <3>1 DEF Parado
  <2>8. CASE TerminaInstruccion
    <3>1. cpu.fase \in Ejecuta /\ cpu.pcb \in PCB
      BY <2>8, Registros, EnEjecucion DEF ConPcb, Ejecuta
    <3> DEFINE a == Avanza(cpu.pcb)
               t == fetch(cpu.pcb).parametro1
               io == [tiempoBloqueo |-> t, pcb |-> a]
    <3>2. a \in PCB /\ io \in TIO /\ a.id = cpu.pcb.id /\ a.PC = cpu.pcb.PC + 1 /\ io.pcb = a
      BY <3>1, AvanzaTipo
    <3> HIDE DEF a
    <3>3. CASE cpu'.fase = "ocioso"
          /\ (redDispatch' = armarPaqueteCon(a, "PCB_EJECUTADO_INTERRUPCION")
                                          \/ redDispatch' = armarPaqueteCon(a,
                                               "PCB_EJECUTADO_EXIT"))
      <4>1. redDispatch'.codigo # "PCB_EJECUTADO_IO" /\ PcbDe(redDispatch') = a
        BY <3>2, <3>3, ArmaPCB DEF CodigosPCB
      <4>2. Parado' \subseteq {a}
        BY <3>3, <4>1 DEF Parado, EnCPU, ConPcb, Ejecuta
      <4> QED  BY <2>8, <3>2, <4>2
    <3>4. CASE cpu'.fase = "ocioso" /\ redDispatch' = armarPaqueteCon(io, "PCB_EJECUTADO_IO")
      <4> HIDE DEF io
      <4>1. redDispatch'.codigo = "PCB_EJECUTADO_IO" /\ IoDe(redDispatch') = io
        BY <3>2, <3>4, ArmaIO
      <4>2. Parado' \subseteq {a}
        BY <3>2, <3>4, <4>1 DEF Parado, EnCPU, ConPcb, Ejecuta
      <4> QED  BY <2>8, <3>2, <4>2
    <3>5. CASE cpu'.fase = "fetch" /\ cpu'.pcb = [cpu.pcb EXCEPT !.PC = @ + 1]
      <4>1. Parado' = {cpu'.pcb}
        BY <3>5 DEF Parado, EnCPU, ConPcb, Ejecuta
      <4>2. cpu'.pcb.id = cpu.pcb.id /\ cpu'.pcb.PC = cpu.pcb.PC + 1
        BY <3>1, <3>5 DEF PCB
      <4> QED  BY <2>8, <4>1, <4>2
    <3> QED  BY <2>8, <3>3, <3>4, <3>5, Registros, Zenon DEF a
  <2> QED  BY <2>1, <2>2, <2>3, <2>4, <2>5, <2>6, <2>7, <2>8, QuienCambia, Zenon DEF CPU
<1> HIDE DEF Viene, Nace, Sale
<1>9. Viene(q) \/ Nace(q) \/ Sale(q)
  <2>1. \A e \in {estado_new'[k] : k \in DOMAIN estado_new'} : Viene(e) \/ Nace(e)
    BY <1>3
  <2>2. Esperan' = {estado_new'[k] : k \in DOMAIN estado_new'} \union ({creando'} \ {NULO})
              \union estado_ready' \union {io.pcb : io \in estado_blocked'} \union Parado'
    BY DEF Esperan, EnElKernel, Parado
  <2> QED  BY <1>4, <1>6, <1>7, <1>8, <2>1, <2>2
<1> QED  BY <1>9 DEF Viene, Nace, Sale

-----------------------------------------------------------------------------
(* How far each script was executed *)

\* A prefix of a sequence, and one more.
LEMMA Prefijo ==
    ASSUME NEW S, NEW s \in Seq(S), NEW n \in Nat, n <= Len(s)
    PROVE  /\ SubSeq(s, 1, n) \in Seq(S) /\ Len(SubSeq(s, 1, n)) = n
           /\ n = 0 => SubSeq(s, 1, n) = <<>>
           /\ n > 0 => SubSeq(s, 1, n)[n] = s[n] /\ SubSeq(s, 1, n) # <<>>
           /\ n < Len(s) => Append(SubSeq(s, 1, n), s[n + 1]) = SubSeq(s, 1, n + 1)
<1>1. Len(s) \in Nat /\ \A k \in 1..Len(s) : s[k] \in S
  BY LenProperties, ElementOfSeq
<1>2. \A k \in 1..n : s[k] \in S
  BY <1>1
<1>3. SubSeq(s, 1, n) \in Seq(S) /\ Len(SubSeq(s, 1, n)) = n
      /\ \A k \in 1..n : SubSeq(s, 1, n)[k] = s[k]
  BY <1>1, <1>2, SubSeqProperties
<1>4. n = 0 => SubSeq(s, 1, n) = <<>>
  BY <1>3, EmptySeq
<1>5. n > 0 => SubSeq(s, 1, n)[n] = s[n] /\ SubSeq(s, 1, n) # <<>>
  BY <1>3, EmptySeq
<1>6. ASSUME n < Len(s) PROVE Append(SubSeq(s, 1, n), s[n + 1]) = SubSeq(s, 1, n + 1)
  <2> DEFINE a == SubSeq(s, 1, n)
             b == SubSeq(s, 1, n + 1)
             m == n + 1
  <2>1. m \in 1..Len(s) /\ s[m] \in S /\ m \in Nat /\ \A k \in 1..m : s[k] \in S
    BY <1>1, <1>6
  <2>2. b \in Seq(S) /\ Len(b) = m /\ \A k \in 1..m : b[k] = s[k]
    <3> HIDE DEF m
    <3>1. SubSeq(s, 1, m) \in Seq(S) /\ Len(SubSeq(s, 1, m)) = m
          /\ \A k \in 1..m : SubSeq(s, 1, m)[k] = s[k]
      BY <1>1, <2>1, SubSeqProperties
    <3> QED  BY <3>1 DEF m
  <2>3. /\ Append(a, s[m]) \in Seq(S) /\ Len(Append(a, s[m])) = m
        /\ \A k \in 1..n : Append(a, s[m])[k] = a[k]
        /\ Append(a, s[m])[m] = s[m]
    <3> HIDE DEF a, m
    <3>1. a \in Seq(S) /\ Len(a) = n /\ s[m] \in S
      BY <1>3, <2>1 DEF a
    <3> QED  BY <3>1, Agrega DEF m
  <2>4. \A k \in 1..m : Append(a, s[m])[k] = b[k]
    BY <1>3, <2>2, <2>3
  <2> HIDE DEF a, b, m
  <2>5. Append(a, s[m]) = b
    BY <2>2, <2>3, <2>4, SeqEqual
  <2> QED  BY <2>5 DEF a, b, m
<1> QED  BY <1>3, <1>4, <1>5, <1>6

\* A PCB of a whole process has the instructions of its script.
LEMMA VivosEnteros ==
    InvTipos /\ Buenos => \A p \in Vivos : Entero(p.id) =>
        p.instrucciones = Programa(p.id) /\ Programa(p.id) \in Seq(INSTR)
            /\ Len(Programa(p.id)) \in Nat
  BY DeEntero

\* What was executed stays until the next Fetch of that process.
LEMMA HastaQueda ==
    ASSUME InvTipos, UnProcesoPorConsola, [Next]_vars, NEW id \in Nat, id < Len(historia),
           Ejecutadas(id)' = Ejecutadas(id)
    PROVE  \A n : Hasta(id, n)' = Hasta(id, n)
  BY LoDadoPorId DEF Hasta


\* The history of a process that enters is a prefix, of nothing, of its script.
LEMMA EmpiezaAlDia ==
    ASSUME InvTipos, InvTipos', Buenos', NEW c \in Consolas, ManejarProceso(c), NEW n, n =
        id_nuevo_proceso, Entero(n)'
    PROVE  Hasta(n, 0)' /\ Ejecutadas(n)' = <<>>
<1>1. n \in Nat /\ estado_new \in Seq(PCB)
  BY DEF InvTipos, TiposKernel
<1>2. PICK r \in recibirPaquete(redConsola[c]) :
         estado_new' = Append(estado_new, iniciarPcb(deserializarProceso(r.stream)))
  BY DEF ManejarProceso
<1> DEFINE e == iniciarPcb(deserializarProceso(r.stream))
           S == {e} \union PCB
           m == Len(estado_new) + 1
<1>3. e.id = n
  BY DEF iniciarPcb
<1>4. e \in S /\ PCB \subseteq S /\ estado_new' = Append(estado_new, e)
  BY <1>2
<1> HIDE DEF e, S
<1>5. estado_new \in Seq(S)
  BY <1>1, <1>4, SeqMonotona
<1>6. m \in DOMAIN estado_new' /\ estado_new'[m] = e
  <2>1. Append(estado_new, e) \in Seq(S) /\ Len(Append(estado_new, e)) = m
        /\ Append(estado_new, e)[m] = e /\ m \in 1..m
    BY <1>4, <1>5, Agrega
  <2>2. DOMAIN Append(estado_new, e) = 1..m
    BY <2>1, LenProperties
  <2> QED  BY <1>4, <2>1, <2>2
<1>7. e \in Vivos'
  BY <1>6 DEF Vivos, EnElKernel
<1>8. (\A p \in Vivos : Entero(p.id) =>
        p.instrucciones = Programa(p.id) /\ Programa(p.id) \in Seq(INSTR)
            /\ Len(Programa(p.id)) \in Nat)'
  BY VivosEnteros, PTL
<1>9. Programa(n)' \in Seq(INSTR) /\ Len(Programa(n)') \in Nat
  BY <1>3, <1>7, <1>8
<1> DEFINE P == Programa(n)'
<1>10. Ejecutadas(n)' = <<>>
  BY NadaEjecutado
<1>11. 0 <= Len(P) /\ SubSeq(P, 1, 0) = <<>>
  <2>1. P \in Seq(INSTR) /\ 0 \in Nat /\ 0 <= Len(P)
    BY <1>9
  <2> HIDE DEF P
  <2>2. SubSeq(P, 1, 0) = <<>>
    BY <2>1, Prefijo
  <2> QED  BY <2>1, <2>2
<1> QED  BY <1>10, <1>11 DEF Hasta

\* Each PCB that waits, or that executes, knows how far its script was executed.
LEMMA PasoAlDia ==
    ASSUME InvTipos, InvTipos', UnProcesoPorConsola, Buenos, Buenos', Numeracion, UnSitio, AlDia,
        [Next]_vars
    PROVE  AlDia'
<1> DEFINE A == \A p \in Esperan : Entero(p.id) => Hasta(p.id, p.PC)
           B == cpu.fase \in Ejecuta /\ Entero(cpu.pcb.id) => Hasta(cpu.pcb.id, cpu.pcb.PC + 1)
           C == \A id \in 0..Len(historia) - 1 : Entero(id) => Hasta(id, Len(Ejecutadas(id)))
<1>1. A /\ B /\ C
  BY DEF AlDia
<1>2. Len(historia) \in Nat /\ Len(historia) = id_nuevo_proceso
  BY DEF InvTipos, TiposKernel
<1>3. ASSUME cpu.fase \in ConPcb
      PROVE  cpu.pcb \in Vivos /\ cpu.pcb.id \in Nat /\ cpu.pcb.PC \in Nat
          /\ cpu.pcb.id < Len(historia)
  <2>1. cpu.pcb \in EnCPU /\ cpu.pcb \in PCB
    BY <1>3, EnEjecucion DEF EnCPU
  <2> QED  BY <2>1 DEF Vivos, Buenos, Bueno, PCB
<1>4. Ejecuta \subseteq ConPcb /\ "fetch" \in ConPcb
  BY DEF ConPcb
<1>5. ASSUME NEW q, q \in Esperan', Entero(q.id)' PROVE Hasta(q.id, q.PC)'
  <2>1. ASSUME NEW p \in Esperan, q.id = p.id, q.PC = p.PC PROVE Hasta(q.id, q.PC)'
    <3>1. p \in Vivos
      BY DEF Esperan, Vivos
    <3>2. PICK id : id = p.id
      OBVIOUS
    <3>3. id \in Nat /\ id < Len(historia)
      BY <3>1, <3>2, VivosTipo DEF Buenos, Bueno, Vivos, PCB
    <3>4. Entero(id)' = Entero(id)
      BY <3>3, LoDadoPorId
    <3>5. Hasta(id, q.PC)
      BY <1>1, <1>5, <2>1, <3>2, <3>4
    <3>6. CASE Ejecutadas(id)' = Ejecutadas(id)
      BY <2>1, <3>2, <3>3, <3>5, <3>6, HastaQueda
    <3>7. CASE Fetch /\ cpu'.fase = "execute" /\ id = cpu.pcb.id
      <4>1. q \in EnElKernel'
        BY <1>5, <3>7 DEF Esperan, Ejecuta
      <4>2. EnElKernel' = EnElKernel
        BY <3>7 DEF Fetch, varsKernel, EnElKernel
      <4>3. cpu.fase \in ConPcb
        BY <1>4, <3>7, Registros
      <4>4. q.id # cpu.pcb.id
        BY <4>1, <4>2, <4>3, NadieMas
      <4> QED  BY <2>1, <3>2, <3>7, <4>4
    <3> QED  BY <3>3, <3>6, <3>7, LoEjecutado
  <2>2. ASSUME q.id = id_nuevo_proceso, q.PC = 0, NEW c \in Consolas, ManejarProceso(c)
        PROVE Hasta(q.id, q.PC)'
    <3>1. PICK n : n = id_nuevo_proceso
      OBVIOUS
    <3>2. Entero(n)'
      BY <1>5, <2>2, <3>1
    <3>3. Hasta(n, 0)'
      BY <2>2, <3>1, <3>2, EmpiezaAlDia
    <3> QED  BY <2>2, <3>1, <3>3
  <2>3. ASSUME TerminaInstruccion, q.id = cpu.pcb.id, q.PC = cpu.pcb.PC + 1 PROVE Hasta(q.id, q.PC)'
    <3>1. cpu.fase = "execute" /\ cpu.fase \in Ejecuta
      BY <2>3, Registros DEF Ejecuta
    <3>2. PICK id : id = cpu.pcb.id
      OBVIOUS
    <3>3. id \in Nat /\ id < Len(historia)
      BY <1>3, <1>4, <3>1, <3>2
    <3>4. Entero(id)' = Entero(id)
      BY <3>3, LoDadoPorId
    <3>5. Hasta(id, q.PC)
      BY <1>1, <1>5, <2>3, <3>1, <3>2, <3>4
    <3>6. Ejecutadas(id)' = Ejecutadas(id)
      <4>1. ~Fetch
        BY <3>1, Registros
      <4> QED  BY <3>3, <4>1, LoEjecutado
    <3> QED  BY <2>3, <3>2, <3>3, <3>5, <3>6, HastaQueda
  <2> QED  BY <1>5, <2>1, <2>2, <2>3, QuienEspera
<1>6. ASSUME cpu'.fase \in Ejecuta, Entero(cpu.pcb.id)' PROVE Hasta(cpu.pcb.id, cpu.pcb.PC + 1)'
  <2>1. ASSUME cpu.fase \in Ejecuta, cpu'.pcb = cpu.pcb PROVE Hasta(cpu.pcb.id, cpu.pcb.PC + 1)'
    <3>1. PICK id, n : id = cpu.pcb.id /\ n = cpu.pcb.PC + 1
      OBVIOUS
    <3>2. id \in Nat /\ id < Len(historia)
      BY <1>3, <1>4, <2>1, <3>1
    <3>3. Entero(id)' = Entero(id)
      BY <3>2, LoDadoPorId
    <3>4. Hasta(id, n)
      BY <1>1, <1>6, <2>1, <3>1, <3>3
    <3>5. Ejecutadas(id)' = Ejecutadas(id)
      <4>1. ~Fetch
        BY <2>1, Registros DEF Ejecuta
      <4> QED  BY <3>2, <4>1, LoEjecutado
    <3>6. Hasta(id, n)'
      BY <3>2, <3>4, <3>5, HastaQueda
    <3> QED  BY <2>1, <3>1, <3>6
  <2>2. CASE UNCHANGED cpu
    BY <1>6, <2>1, <2>2
  <2>3. CASE ConsultaTabla \/ ConsultaMarco \/ AccedeAMemoria \/ RecibeDato
    <3>1. cpu.fase \in Ejecuta /\ cpu'.pcb = cpu.pcb
      BY <2>3, Registros DEF Ejecuta
    <3> QED  BY <2>1, <3>1
  <2>4. CASE PideTraduccion \/ RecibeTraduccion \/ RecibePcb \/ TerminaInstruccion
    BY <1>6, <2>4, Registros DEF Ejecuta
  <2>5. CASE Fetch
    <3>1. cpu.fase = "fetch" /\ cpu'.pcb = cpu.pcb /\ Ejecutable(cpu.pcb)
      BY <1>6, <2>5, Registros DEF Ejecuta
    <3>2. PICK id, n, p : id = cpu.pcb.id /\ n = cpu.pcb.PC /\ p = cpu.pcb
      OBVIOUS
    <3>3. p \in Vivos /\ id \in Nat /\ n \in Nat /\ id < Len(historia)
      BY <1>3, <1>4, <3>1, <3>2
    <3>4. Entero(id)' = Entero(id) /\ Programa(id)' = Programa(id)
      BY <3>3, LoDadoPorId
    <3>5. Entero(p.id)
      BY <1>6, <3>1, <3>2, <3>4
    <3>6. Hasta(id, n)
      <4>1. p \in Esperan
        BY <3>1, <3>2 DEF Esperan, EnCPU, ConPcb, Ejecuta
      <4> QED  BY <1>1, <3>2, <3>5, <4>1
    <3> DEFINE P == Programa(id)
    <3>7. p.instrucciones = P /\ P \in Seq(INSTR) /\ Len(P) \in Nat
      BY <3>2, <3>3, <3>5, DeEntero
    <3>8. n < Len(P) /\ fetch(p) = P[n + 1]
      BY <3>1, <3>2, <3>7 DEF Ejecutable, fetch
    <3>9. Ejecutadas(id)' = Append(Ejecutadas(id), fetch(p))
      <4>1. CASE Ejecutadas(id)' = Append(Ejecutadas(id), fetch(cpu.pcb))
        BY <3>2, <4>1
      <4>2. historia' = [historia EXCEPT ![cpu.pcb.id + 1].ejecutadas = Append(@, fetch(cpu.pcb))]
        BY <1>6, <2>5, Registros DEF Ejecuta
      <4> DEFINE k == id + 1
                 l == Append(historia[k].ejecutadas, fetch(p))
      <4>3. historia' = [historia EXCEPT ![k].ejecutadas = l]
        BY <3>2, <4>2
      <4>4. k \in DOMAIN historia /\ historia[k] \in HISTORIA
        <5>1. historia \in Seq(HISTORIA) /\ k \in 1..Len(historia)
          BY <1>2, <3>3 DEF InvTipos, TiposKernel
        <5> HIDE DEF HISTORIA, k
        <5> QED  BY <5>1, LenProperties, ElementOfSeq
      <4>5. historia'[k].ejecutadas = l
        <5> HIDE DEF k, l
        <5> QED  BY <4>3, <4>4 DEF HISTORIA
      <4> QED  BY <4>5 DEF Ejecutadas
    <3>10. Append(SubSeq(P, 1, n), P[n + 1]) = SubSeq(P, 1, n + 1)
      <4> HIDE DEF P
      <4> QED  BY <3>3, <3>7, <3>8, Prefijo
    <3>11. Ejecutadas(id)' = SubSeq(P, 1, n + 1) /\ n + 1 <= Len(P)
      <4>1. Ejecutadas(id) = SubSeq(P, 1, n)
        BY <3>6 DEF Hasta
      <4>2. n + 1 <= Len(P)
        <5> HIDE DEF P
        <5> QED  BY <3>3, <3>7, <3>8
      <4> QED  BY <3>8, <3>9, <3>10, <4>1, <4>2
    <3>12. Hasta(id, n + 1)'
      BY <3>4, <3>11 DEF Hasta
    <3> QED  BY <3>1, <3>2, <3>12
  <2> QED  BY <2>2, <2>3, <2>4, <2>5, QuienCambia, Zenon DEF CPU
<1>7. ASSUME NEW id \in 0..Len(historia') - 1, Entero(id)' PROVE Hasta(id, Len(Ejecutadas(id)))'
  <2>1. CASE id < Len(historia)
    <3>1. id \in Nat
      OBVIOUS
    <3>2. Entero(id)' = Entero(id)
      BY <2>1, <3>1, LoDadoPorId
    <3>3. CASE Ejecutadas(id)' = Ejecutadas(id)
      <4>1. id \in 0..Len(historia) - 1
        BY <1>2, <2>1
      <4>2. PICK n : n = Len(Ejecutadas(id))
        OBVIOUS
      <4>3. Hasta(id, n)
        BY <1>1, <1>7, <3>2, <4>1, <4>2
      <4>4. Hasta(id, n)'
        BY <2>1, <3>1, <3>3, <4>3, HastaQueda
      <4> QED  BY <3>3, <4>2, <4>4
    <3>4. CASE Fetch /\ cpu'.fase = "execute" /\ id = cpu.pcb.id
      <4>1. cpu'.pcb = cpu.pcb /\ cpu.fase \in ConPcb
        BY <1>4, <3>4, Registros
      <4>2. PICK m : m = cpu.pcb.PC + 1
        OBVIOUS
      <4>3. m \in Nat
        BY <1>3, <4>1, <4>2
      <4>4. Hasta(id, m)'
        BY <1>6, <1>7, <3>4, <4>1, <4>2 DEF Ejecuta
      <4>5. cpu.pcb \in Vivos /\ Entero(cpu.pcb.id)
        BY <1>3, <1>7, <3>2, <3>4, <4>1
      <4>6. Programa(id) \in Seq(INSTR)
        BY <3>4, <4>5, DeEntero
      <4>7. Programa(id)' = Programa(id)
        BY <2>1, <3>1, LoDadoPorId
      <4> DEFINE P == Programa(id)
                 e == Ejecutadas(id)'
      <4>8. m <= Len(P) /\ e = SubSeq(P, 1, m)
        BY <4>4, <4>7 DEF Hasta
      <4>9. Len(e) = m
        <5>1. P \in Seq(INSTR)
          BY <4>6
        <5> HIDE DEF P, e
        <5> QED  BY <4>3, <4>8, <5>1, Prefijo
      <4> QED  BY <4>4, <4>9
    <3> QED  BY <2>1, <3>1, <3>3, <3>4, LoEjecutado
  <2>2. CASE ~(id < Len(historia))
    <3>1. \E c \in Consolas : ManejarProceso(c)
      <4>1. Len(historia') # Len(historia)
        BY <1>2, <2>2
      <4> QED  BY <4>1, CuantosHay
    <3>2. PICK c \in Consolas : ManejarProceso(c)
      BY <3>1
    <3>3. id = id_nuevo_proceso
      <4>1. Len(historia') = Len(historia) + 1
        BY <1>2, <3>2, CuantosHay
      <4> QED  BY <1>2, <2>2, <4>1
    <3>4. Hasta(id, 0)' /\ Ejecutadas(id)' = <<>>
      BY <1>7, <3>2, <3>3, EmpiezaAlDia
    <3>5. Len(Ejecutadas(id)') = 0
      BY <3>4, EmptySeq
    <3> QED  BY <3>4, <3>5
  <2> QED  BY <2>1, <2>2
<1> QED  BY <1>5, <1>6, <1>7 DEF AlDia

-----------------------------------------------------------------------------
(* Blocked and ended processes, and the third layer *)

\* A time and a PCB of an IO, which stay those of its script.
LEMMA EsIOQueda ==
    ASSUME InvTipos, UnProcesoPorConsola, [Next]_vars, NEW io, io.pcb.id \in Nat,
        io.pcb.id < Len(historia)
    PROVE  EsIO(io)' = EsIO(io) /\ Entero(io.pcb.id)' = Entero(io.pcb.id)
<1>1. PICK id : id = io.pcb.id
  OBVIOUS
<1>2. Programa(id)' = Programa(id) /\ Entero(id)' = Entero(id)
  BY <1>1, LoDadoPorId
<1> QED  BY <1>1, <1>2 DEF EsIO

\* The time of a blocked process is the one of the IO that it executed last.
LEMMA PasoBloqueos ==
    ASSUME InvTipos, UnProcesoPorConsola, Buenos, Bloqueos, [Next]_vars
    PROVE  Bloqueos'
<1> DEFINE A == \A io \in estado_blocked : Entero(io.pcb.id) => EsIO(io)
           B == LlegaCon(redDispatch, {"PCB_EJECUTADO_IO"}) /\ Entero(IoDe(redDispatch).pcb.id) =>
               EsIO(IoDe(redDispatch))
<1>1. A /\ B
  BY DEF Bloqueos
<1>2. ASSUME NEW p \in Vivos PROVE p.id \in Nat /\ p.id < Len(historia)
  BY VivosTipo DEF Buenos, Bueno, Vivos, PCB
<1>3. \A io \in estado_blocked : io.pcb \in Vivos
  BY DEF Vivos, EnElKernel
<1>4. ASSUME LlegaCon(redDispatch, {"PCB_EJECUTADO_IO"}) PROVE LlevaIO(redDispatch)
             /\ IoDe(redDispatch).pcb \in Vivos
  <2>1. redDispatch # NULO /\ redDispatch.codigo = "PCB_EJECUTADO_IO"
    BY <1>4 DEF LlegaCon
  <2>2. LlevaIO(redDispatch) /\ cpu.fase \notin ConPcb
    BY <2>1, VueltaDeLaCPU
  <2> QED  BY <2>1, <2>2 DEF Vivos, EnCPU
<1>5. A'
  <2>1. ASSUME NEW io \in estado_blocked, Entero(io.pcb.id)' PROVE EsIO(io)'
    <3>1. io.pcb.id \in Nat /\ io.pcb.id < Len(historia)
      BY <1>2, <1>3
    <3> QED  BY <1>1, <2>1, <3>1, EsIOQueda
  <2>2. CASE VuelveIO
    <3>1. PICK r \in recibirPaquete(redDispatch) :
             estado_blocked' = estado_blocked \union {[deserializarIO(r.stream) EXCEPT !.pcb =
                 TrasIO(@)]}
      BY <2>2 DEF VuelveIO
    <3>2. LlegaCon(redDispatch, {"PCB_EJECUTADO_IO"})
      BY <2>2 DEF VuelveIO
    <3> DEFINE io == deserializarIO(r.stream)
               e == IoDe(redDispatch)
               b == [io EXCEPT !.pcb = TrasIO(@)]
    <3>3. /\ io \in TIO /\ io.tiempoBloqueo = e.tiempoBloqueo /\ io.pcb.id = e.pcb.id
               /\ io.pcb.PC = e.pcb.PC
      BY <1>4, <3>2, RecibeIO
    <3>4. PICK f : f = e
      OBVIOUS
    <3>5. f.pcb.id \in Nat /\ f.pcb.id < Len(historia)
      BY <1>2, <1>4, <3>2, <3>4
    <3>6. Entero(f.pcb.id)' => EsIO(f)'
      BY <1>1, <3>2, <3>4, <3>5, EsIOQueda
    <3> HIDE DEF io, e
    <3>7. TrasIO(io.pcb).id = io.pcb.id /\ TrasIO(io.pcb).PC = io.pcb.PC
      BY <3>3, SigueTras DEF Sigue, TIO
    <3>8. b.pcb = TrasIO(io.pcb) /\ b.tiempoBloqueo = io.tiempoBloqueo
      BY <3>3 DEF TIO
    <3>9. b.pcb.id = f.pcb.id /\ b.pcb.PC = f.pcb.PC /\ b.tiempoBloqueo = f.tiempoBloqueo
      BY <3>3, <3>4, <3>7, <3>8
    <3>10. estado_blocked' = estado_blocked \union {b}
      BY <3>1 DEF io
    <3> HIDE DEF b
    <3>11. PICK c : c = b
      OBVIOUS
    <3>12. Entero(c.pcb.id)' => EsIO(c)'
      BY <3>6, <3>9, <3>11 DEF EsIO
    <3> QED  BY <2>1, <3>10, <3>11, <3>12
  <2>3. CASE TerminaIO
    BY <2>1, <2>3 DEF TerminaIO
  <2> QED  BY <2>1, <2>2, <2>3, QuienCambia
<1>6. B'
  <2> SUFFICES ASSUME LlegaCon(redDispatch, {"PCB_EJECUTADO_IO"})',
                   Entero(IoDe(redDispatch).pcb.id)'
               PROVE  EsIO(IoDe(redDispatch))'
    OBVIOUS
  <2>1. CASE UNCHANGED redDispatch
    <3>1. LlegaCon(redDispatch, {"PCB_EJECUTADO_IO"})
      BY <2>1
    <3>2. PICK f : f = IoDe(redDispatch)
      OBVIOUS
    <3>3. f.pcb.id \in Nat /\ f.pcb.id < Len(historia)
      BY <1>2, <1>4, <3>1, <3>2
    <3>4. f = IoDe(redDispatch')
      BY <2>1, <3>2
    <3>5. Entero(f.pcb.id)'
      BY <3>4
    <3>6. EsIO(f)'
      BY <1>1, <3>1, <3>2, <3>3, <3>5, EsIOQueda
    <3> QED  BY <3>4, <3>6
  <2>2. CASE Despacha
    <3>1. PICK p \in estado_ready : redDispatch' = armarPaqueteCon(p, "REQ_PCB_A_EJECUTAR")
      BY <2>2 DEF Despacha
    <3>2. redDispatch'.codigo = "REQ_PCB_A_EJECUTAR"
      BY <3>1, Armado
    <3> QED  BY <3>2 DEF LlegaCon
  <2>3. CASE VuelveIO \/ VuelveInterrumpido \/ VuelveExit
    BY <2>3 DEF VuelveIO, VuelveInterrumpido, VuelveExit, LlegaCon
  <2>4. CASE TerminaInstruccion
    <3>1. cpu.fase \in Ejecuta /\ cpu.fase \in ConPcb
      BY <2>4, Registros DEF ConPcb, Ejecuta
    <3>2. PICK p, id : p = cpu.pcb /\ id = cpu.pcb.id
      OBVIOUS
    <3> DEFINE a == Avanza(p)
               t == fetch(p).parametro1
               io == [tiempoBloqueo |-> t, pcb |-> a]
    <3>3. a \in PCB /\ io \in TIO /\ a.id = id /\ a.PC = p.PC + 1 /\ io.pcb = a
          /\ io.tiempoBloqueo = t
      BY <3>1, <3>2, AvanzaTipo
    <3>4. redDispatch' = armarPaqueteCon(io, "PCB_EJECUTADO_IO") /\ fetch(p).identificador = "IO"
      <4>1. /\ \A e : armarPaqueteCon(e, "PCB_EJECUTADO_INTERRUPCION").codigo =
                 "PCB_EJECUTADO_INTERRUPCION"
            /\ \A e : armarPaqueteCon(e, "PCB_EJECUTADO_EXIT").codigo = "PCB_EJECUTADO_EXIT"
        BY Armado
      <4>2. redDispatch'.codigo = "PCB_EJECUTADO_IO"
        BY DEF LlegaCon
      <4>3. cpu'.fase = "fetch" => redDispatch' = redDispatch
            /\ redDispatch.codigo = "REQ_PCB_A_EJECUTAR"
        BY <2>4, <3>1, Registros, EnEjecucion
      <4>4. \/ redDispatch' = armarPaqueteCon(Avanza(cpu.pcb), "PCB_EJECUTADO_INTERRUPCION")
            \/ /\ fetch(cpu.pcb).identificador = "IO"
               /\ redDispatch' = armarPaqueteCon([tiempoBloqueo |-> fetch(cpu.pcb).parametro1,
                    pcb |-> Avanza(cpu.pcb)], "PCB_EJECUTADO_IO")
            \/ redDispatch' = armarPaqueteCon(Avanza(cpu.pcb), "PCB_EJECUTADO_EXIT")
            \/ cpu'.fase = "fetch"
        BY <2>4, Registros, Zenon
      <4> QED  BY <3>2, <4>1, <4>2, <4>3, <4>4
    <3>5. PICK b : b = io
      OBVIOUS
    <3>6. IoDe(redDispatch') = b
      <4> HIDE DEF io
      <4> QED  BY <3>3, <3>4, <3>5, ArmaIO
    <3>7. p \in Vivos /\ id \in Nat /\ id < Len(historia) /\ p \in PCB
      <4>1. p \in EnCPU
        BY <3>1, <3>2 DEF EnCPU
      <4>2. p \in Vivos
        BY <4>1 DEF Vivos
      <4> QED  BY <1>2, <3>2, <4>2, VivosTipo
    <3>8. Entero(p.id)
      <4>1. Entero(id)' = Entero(id)
        BY <3>7, LoDadoPorId
      <4>2. Entero(b.pcb.id)' /\ b.pcb.id = id
        BY <3>3, <3>5, <3>6
      <4> QED  BY <3>2, <4>1, <4>2
    <3>9. p.instrucciones = Programa(id) /\ p.PC \in Nat
      BY <3>2, <3>7, <3>8, DeEntero
    <3>10. EsIO(b)
      <4>1. b.tiempoBloqueo = fetch(p).parametro1 /\ b.pcb.id = id /\ b.pcb.PC = p.PC + 1
        BY <3>3, <3>5
      <4>2. p.PC + 1 >= 1
        BY <3>9
      <4>3. fetch(p) = Programa(id)[p.PC + 1]
        BY <3>9 DEF fetch
      <4> QED  BY <3>4, <4>1, <4>2, <4>3 DEF EsIO
    <3>11. EsIO(b)'
      <4>1. b.pcb.id = id
        BY <3>3, <3>5
      <4> QED  BY <3>7, <3>10, <4>1, EsIOQueda
    <3> QED  BY <3>6, <3>11
  <2> QED  BY <2>1, <2>2, <2>3, <2>4, QuienCambia
<1> QED  BY <1>5, <1>6 DEF Bloqueos

-----------------------------------------------------------------------------
\* What was executed by a process that is not in the CPU stays.
LEMMA TerminadoQueda ==
    ASSUME InvTipos, UnProcesoPorConsola, [Next]_vars, NEW id \in Nat, id < Len(historia), ~(Fetch
        /\ id = cpu.pcb.id)
    PROVE  Terminado(id)' = Terminado(id)
  BY LoEjecutado DEF Terminado

\* A process that ended stays so.
LEMMA CerradoQueda ==
    ASSUME InvTipos, UnProcesoPorConsola, Conectadas, [Next]_vars, NEW id, NEW c, Cerrado(id, c)
    PROVE  Cerrado(id, c)'
<1>1. Len(historia) \in Nat /\ Len(historia) = id_nuevo_proceso /\ id \in Nat /\ id < Len(historia)
  BY DEF InvTipos, TiposKernel, Cerrado
<1>2. id < Len(historia') /\ historia'[id + 1].consola = c /\ Entero(id)' = Entero(id)
  BY <1>1, LoDadoPorId DEF Cerrado
<1>3. id \in 0..Len(historia') - 1
  BY <1>1, <1>2, LoDado
<1>4. \A k \in consolas_conectadas' : k.id # id
  <2>1. CASE UNCHANGED consolas_conectadas
    BY <2>1 DEF Cerrado
  <2>2. ASSUME NEW d \in Consolas, ManejarProceso(d) PROVE \A k \in consolas_conectadas' : k.id # id
    <3>1. consolas_conectadas' = consolas_conectadas
              \union {[id |-> id_nuevo_proceso, socket |-> d]}
      BY <2>2 DEF ManejarProceso
    <3> QED  BY <1>1, <3>1 DEF Cerrado
  <2>3. CASE VuelveExit
    BY <2>3 DEF VuelveExit, Cerrado
  <2> QED  BY <2>1, <2>2, <2>3, QuienCambia
<1>5. ~(Fetch /\ id = cpu.pcb.id)
  <2> SUFFICES ASSUME Fetch, id = cpu.pcb.id PROVE FALSE
    OBVIOUS
  <2>1. cpu.pcb \in EnCPU
    BY Registros DEF EnCPU, ConPcb
  <2>2. PICK k \in consolas_conectadas : k.id = cpu.pcb.id
    BY <2>1 DEF Conectadas
  <2> QED  BY <2>2 DEF Cerrado
<1>6. Terminado(id)' = Terminado(id)
  BY <1>1, <1>5, TerminadoQueda
<1> QED  BY <1>2, <1>3, <1>4, <1>6 DEF Cerrado

\* A process that gives its PCB back with an EXIT executed it, and only its console is
\* answered, with its id (planificador.c:166-187).
LEMMA PasoFinales ==
    ASSUME InvTipos, UnProcesoPorConsola, Buenos, Conectadas, AlDia, Finales, [Next]_vars
    PROVE  Finales'
<1> DEFINE A == LlegaCon(redDispatch, {"PCB_EJECUTADO_EXIT"}) /\ Entero(PcbDe(redDispatch).id) =>
        Terminado(PcbDe(redDispatch).id)
           B(c) == LlegaCon(redConsola[c], {"RES_FIN_PROCESO"}) =>
               Cerrado(NumeroDe(redConsola[c]), c)
           C(c) == consolas[c].estado = "respondida" => Cerrado(consolas[c].respuesta, c)
<1>1. A /\ \A c \in Consolas : B(c) /\ C(c)
  BY DEF Finales
<1>2. ASSUME NEW p \in Vivos PROVE p.id \in Nat /\ p.id < Len(historia)
  BY VivosTipo DEF Buenos, Bueno, Vivos, PCB
<1>3. consolas \in [Consolas -> CONSOLA] /\ DOMAIN redConsola = Consolas
  BY DEF InvTipos, TiposConsola
<1>4. A'
  <2> SUFFICES ASSUME LlegaCon(redDispatch, {"PCB_EJECUTADO_EXIT"})', Entero(PcbDe(redDispatch).id)'
               PROVE  Terminado(PcbDe(redDispatch).id)'
    OBVIOUS
  <2>1. CASE UNCHANGED redDispatch
    <3>1. LlegaCon(redDispatch, {"PCB_EJECUTADO_EXIT"})
      BY <2>1
    <3>2. redDispatch # NULO /\ redDispatch.codigo = "PCB_EJECUTADO_EXIT"
      BY <3>1 DEF LlegaCon
    <3>3. cpu.fase \notin ConPcb
      BY <3>2, VueltaDeLaCPU
    <3>4. PICK id : id = PcbDe(redDispatch).id
      OBVIOUS
    <3>5. id \in Nat /\ id < Len(historia)
      <4>1. PcbDe(redDispatch) \in Vivos
        BY <3>2, <3>3 DEF Vivos, EnCPU
      <4> QED  BY <1>2, <3>4, <4>1
    <3>6. id = PcbDe(redDispatch').id
      BY <2>1, <3>4
    <3>7. Entero(id)' = Entero(id)
      BY <3>5, LoDadoPorId
    <3>8. Terminado(id)
      BY <1>1, <3>1, <3>4, <3>6, <3>7
    <3>9. ~Fetch
      BY <3>3, Registros DEF ConPcb
    <3>10. Terminado(id)'
      BY <3>5, <3>8, <3>9, TerminadoQueda
    <3> QED  BY <3>6, <3>10
  <2>2. CASE Despacha
    <3>1. PICK p \in estado_ready : redDispatch' = armarPaqueteCon(p, "REQ_PCB_A_EJECUTAR")
      BY <2>2 DEF Despacha
    <3>2. redDispatch'.codigo = "REQ_PCB_A_EJECUTAR"
      BY <3>1, Armado
    <3> QED  BY <3>2 DEF LlegaCon
  <2>3. CASE VuelveIO \/ VuelveInterrumpido \/ VuelveExit
    BY <2>3 DEF VuelveIO, VuelveInterrumpido, VuelveExit, LlegaCon
  <2>4. CASE TerminaInstruccion
    <3>1. cpu.fase \in Ejecuta /\ cpu.fase \in ConPcb /\ cpu.fase = "execute"
      BY <2>4, Registros DEF ConPcb, Ejecuta
    <3>2. PICK p, id : p = cpu.pcb /\ id = cpu.pcb.id
      OBVIOUS
    <3>3. Avanza(p) \in PCB /\ Avanza(p).id = id
      BY <3>1, <3>2, AvanzaTipo
    <3>4. redDispatch' = armarPaqueteCon(Avanza(p), "PCB_EJECUTADO_EXIT")
          /\ fetch(p).identificador = "EXIT"
      <4>1. /\ \A e : armarPaqueteCon(e, "PCB_EJECUTADO_INTERRUPCION").codigo =
                 "PCB_EJECUTADO_INTERRUPCION"
            /\ \A e : armarPaqueteCon(e, "PCB_EJECUTADO_IO").codigo = "PCB_EJECUTADO_IO"
        BY Armado
      <4>2. redDispatch'.codigo = "PCB_EJECUTADO_EXIT"
        BY DEF LlegaCon
      <4>3. cpu'.fase = "fetch" => redDispatch' = redDispatch
            /\ redDispatch.codigo = "REQ_PCB_A_EJECUTAR"
        BY <2>4, <3>1, Registros, EnEjecucion
      <4>4. \/ redDispatch' = armarPaqueteCon(Avanza(cpu.pcb), "PCB_EJECUTADO_INTERRUPCION")
            \/ redDispatch' = armarPaqueteCon([tiempoBloqueo |-> fetch(cpu.pcb).parametro1,
                 pcb |-> Avanza(cpu.pcb)], "PCB_EJECUTADO_IO")
            \/ /\ fetch(cpu.pcb).identificador = "EXIT"
               /\ redDispatch' = armarPaqueteCon(Avanza(cpu.pcb), "PCB_EJECUTADO_EXIT")
            \/ cpu'.fase = "fetch"
        BY <2>4, Registros, Zenon
      <4> QED  BY <3>2, <4>1, <4>2, <4>3, <4>4
    <3>5. PcbDe(redDispatch').id = id
      <4>1. PcbDe(redDispatch') = Avanza(p)
        BY <3>3, <3>4, ArmaPCB DEF CodigosPCB
      <4> QED  BY <3>3, <4>1
    <3>6. p \in Vivos /\ id \in Nat /\ id < Len(historia)
      <4>1. p \in EnCPU
        BY <3>1, <3>2 DEF EnCPU
      <4>2. p \in Vivos
        BY <4>1 DEF Vivos
      <4> QED  BY <1>2, <3>2, <4>2
    <3>7. Entero(p.id)
      <4>1. Entero(id)' = Entero(id)
        BY <3>6, LoDadoPorId
      <4> QED  BY <3>2, <3>5, <4>1
    <3> DEFINE P == Programa(id)
               n == p.PC + 1
               e == Ejecutadas(id)
    <3>8. p.instrucciones = P /\ p.PC \in Nat /\ P \in Seq(INSTR)
      BY <3>2, <3>6, <3>7, DeEntero
    <3>9. n <= Len(P) /\ e = SubSeq(P, 1, n)
      BY <3>1, <3>2, <3>7 DEF AlDia, Hasta
    <3>10. fetch(p) = P[n] /\ n \in Nat /\ n > 0
      BY <3>8 DEF fetch
    <3>11. Len(e) = n /\ e[n] = P[n] /\ e # <<>>
      <4>1. P \in Seq(INSTR)
        BY <3>8
      <4> HIDE DEF P, n, e
      <4> QED  BY <3>9, <3>10, <4>1, Prefijo
    <3>12. Terminado(id)
      BY <3>4, <3>10, <3>11 DEF Terminado
    <3>13. Terminado(id)'
      <4>1. ~Fetch
        BY <3>1, Registros
      <4> QED  BY <3>6, <3>12, <4>1, TerminadoQueda
    <3> QED  BY <3>5, <3>13
  <2> QED  BY <2>1, <2>2, <2>3, <2>4, QuienCambia
<1>5. ASSUME NEW c \in Consolas, redConsola'[c] = redConsola[c] PROVE B(c)'
  <2> SUFFICES ASSUME LlegaCon(redConsola[c], {"RES_FIN_PROCESO"})'
               PROVE Cerrado(NumeroDe(redConsola[c]), c)'
    OBVIOUS
  <2>1. PICK id : id = NumeroDe(redConsola[c])
    OBVIOUS
  <2>2. Cerrado(id, c)
    BY <1>1, <1>5, <2>1
  <2>3. Cerrado(id, c)'
    BY <2>2, CerradoQueda
  <2> QED  BY <1>5, <2>1, <2>3
<1>6. ASSUME NEW c \in Consolas, consolas'[c].estado = consolas[c].estado, consolas'[c].respuesta =
                 consolas[c].respuesta PROVE C(c)'
  <2> SUFFICES ASSUME consolas'[c].estado = "respondida" PROVE Cerrado(consolas[c].respuesta, c)'
    OBVIOUS
  <2>1. PICK id : id = consolas[c].respuesta
    OBVIOUS
  <2>2. Cerrado(id, c)
    BY <1>1, <1>6, <2>1
  <2>3. Cerrado(id, c)'
    BY <2>2, CerradoQueda
  <2> QED  BY <1>6, <2>1, <2>3
<1>7. ASSUME NEW c \in Consolas PROVE B(c)' /\ C(c)'
  <2>1. CASE UNCHANGED <<consolas, redConsola>>
    BY <1>5, <1>6, <2>1
  <2>2. ASSUME NEW d \in Consolas, ConsolaEnvia(d) PROVE B(c)' /\ C(c)'
    <3>1. PICK argv \in Argumentos[d] :
           /\ consolas' = [consolas EXCEPT ![d].guion = argv[1], ![d].tamanio = argv[2],
                             ![d].estado = IF ConsolaCae(argv[1]) THEN "caida" ELSE "espera"]
           /\ redConsola' = [redConsola EXCEPT ![d] = IF ConsolaCae(argv[1]) THEN NULO
                ELSE armarPaqueteCon([tamanioProceso |-> argv[2],
                        instrucciones |-> obtenerInstrucciones(leerInstrucciones(argv[1]))],
                            "PROCESO")]
      BY <2>2 DEF ConsolaEnvia
    <3>2. CASE c # d
      <4>1. consolas'[c] = consolas[c] /\ redConsola'[c] = redConsola[c]
        BY <1>3, <3>1, <3>2
      <4> QED  BY <1>5, <1>6, <4>1
    <3>3. CASE c = d
      <4> DEFINE g == argv[1]
                 t == argv[2]
                 e == IF ConsolaCae(argv[1]) THEN "caida" ELSE "espera"
                 x == [tamanioProceso |-> argv[2],
                     instrucciones |-> obtenerInstrucciones(leerInstrucciones(argv[1]))]
      <4>1. consolas' = [consolas EXCEPT ![c].guion = g, ![c].tamanio = t, ![c].estado = e]
            /\ e # "respondida"
        BY <3>1, <3>3
      <4>2. redConsola'[c] = IF ConsolaCae(argv[1]) THEN NULO ELSE armarPaqueteCon(x, "PROCESO")
        BY <1>3, <3>1, <3>3
      <4> HIDE DEF g, t, e, x
      <4>3. consolas'[c].estado = e
        BY <1>3, <4>1 DEF CONSOLA
      <4>4. ~LlegaCon(redConsola'[c], {"RES_FIN_PROCESO"})
        <5>1. armarPaqueteCon(x, "PROCESO").codigo = "PROCESO"
          BY Armado
        <5> QED  BY <4>2, <5>1 DEF LlegaCon
      <4> QED  BY <4>1, <4>3, <4>4
    <3> QED  BY <3>2, <3>3
  <2>3. ASSUME NEW d \in Consolas, ConsolaRecibe(d) PROVE B(c)' /\ C(c)'
    <3>1. PICK v : /\ v = NumeroDe(redConsola[d])
                   /\ consolas' = [consolas EXCEPT ![d].estado = "respondida", ![d].respuesta = v]
      BY <2>3 DEF ConsolaRecibe, NumeroDe
    <3>2. redConsola' = [redConsola EXCEPT ![d] = NULO]
          /\ LlegaCon(redConsola[d], {"RES_FIN_PROCESO"})
      BY <2>3 DEF ConsolaRecibe
    <3>3. CASE c # d
      <4>1. consolas'[c] = consolas[c] /\ redConsola'[c] = redConsola[c]
        BY <1>3, <3>1, <3>2, <3>3
      <4> QED  BY <1>5, <1>6, <4>1
    <3>4. CASE c = d
      <4>1. consolas'[c].respuesta = v /\ redConsola'[c] = NULO
        BY <1>3, <3>1, <3>2, <3>4 DEF CONSOLA
      <4>2. Cerrado(v, c)
        BY <1>1, <3>1, <3>2, <3>4
      <4>3. Cerrado(v, c)'
        BY <4>2, CerradoQueda
      <4> QED  BY <4>1, <4>3 DEF LlegaCon
    <3> QED  BY <3>3, <3>4
  <2>4. ASSUME NEW d \in Consolas, ManejarProceso(d) PROVE B(c)' /\ C(c)'
    <3>1. consolas' = consolas /\ redConsola' = [redConsola EXCEPT ![d] = NULO]
      BY <2>4 DEF ManejarProceso
    <3>2. redConsola'[c] = redConsola[c] \/ redConsola'[c] = NULO
      BY <1>3, <3>1
    <3>3. C(c)'
      BY <1>6, <3>1
    <3> QED  BY <1>5, <3>2, <3>3 DEF LlegaCon
  <2>5. CASE VuelveExit
    <3>1. PICK p \in PCB, k \in consolas_conectadas :
              /\ p.id \in Nat /\ k.id = p.id /\ k.socket \in Consolas
              /\ \E q \in EnCPU : q.id = p.id
              /\ PcbDe(redDispatch).id = p.id
              /\ redConsola' = [redConsola EXCEPT ![k.socket] = armarPaqueteCon(p.id,
                   "RES_FIN_PROCESO")]
              /\ consolas_conectadas' = consolas_conectadas \ {k}
              /\ \A j \in consolas_conectadas : j.id = p.id => j = k
      BY <2>5, ElQueTermina, Zenon
    <3>2. consolas' = consolas /\ historia' = historia /\ ~Fetch
      <4>1. LlegaCon(redDispatch, {"PCB_EJECUTADO_EXIT"}) /\ consolas' = consolas
            /\ historia' = historia
        BY <2>5 DEF VuelveExit, varsCPU
      <4>2. cpu.fase \notin ConPcb
        BY <4>1, VueltaDeLaCPU DEF LlegaCon
      <4> QED  BY <4>1, <4>2, Registros DEF ConPcb
    <3>3. C(c)'
      BY <1>6, <3>2
    <3>4. CASE c # k.socket
      <4>1. redConsola'[c] = redConsola[c]
        BY <1>3, <3>1, <3>4
      <4> QED  BY <1>5, <3>3, <4>1
    <3>5. CASE c = k.socket
      <4>1. PICK id : id = p.id
        OBVIOUS
      <4>2. redConsola'[c] = armarPaqueteCon(id, "RES_FIN_PROCESO")
        BY <1>3, <3>1, <3>5, <4>1
      <4>3. NumeroDe(redConsola'[c]) = id
        <5>1. \A e : \A cod \in CodigosUINT32 : NumeroDe(armarPaqueteCon(e, cod)) = e
          BY ArmaFijo
        <5>2. "RES_FIN_PROCESO" \in CodigosUINT32
          BY DEF CodigosUINT32
        <5> QED  BY <4>2, <5>1, <5>2
      <4>4. id \in Nat /\ id < Len(historia) /\ historia[id + 1].consola = c
        BY <3>1, <3>5, <4>1 DEF Conectadas
      <4>5. \A j \in consolas_conectadas' : j.id # id
        BY <3>1, <4>1
      <4>6. Entero(id)' => Terminado(id)'
        <5>1. Entero(id)' = Entero(id)
          BY <4>4, LoDadoPorId
        <5>2. Terminado(id)' = Terminado(id)
          BY <3>2, <4>4, TerminadoQueda
        <5>3. LlegaCon(redDispatch, {"PCB_EJECUTADO_EXIT"}) /\ PcbDe(redDispatch).id = id
          BY <2>5, <3>1, <4>1 DEF VuelveExit
        <5> QED  BY <1>1, <5>1, <5>2, <5>3
      <4>7. id \in 0..Len(historia') - 1
        <5>1. Len(historia) \in Nat
          BY LoDado
        <5> QED  BY <3>2, <4>4, <5>1
      <4>8. Cerrado(id, c)'
        BY <3>2, <4>4, <4>5, <4>6, <4>7 DEF Cerrado
      <4> QED  BY <3>3, <4>3, <4>8
    <3> QED  BY <3>4, <3>5
  <2> QED  BY <2>1, <2>2, <2>3, <2>4, <2>5, QuienCambia
<1> QED  BY <1>4, <1>7 DEF Finales

-----------------------------------------------------------------------------
\* The third layer of the invariant: each PC counts what the process executed.
THEOREM GuionesCorrectos == Spec => [](InvTipos /\ InvProcesos /\ InvGuiones)
<1>1. Init => InvGuiones
  <2> SUFFICES ASSUME Init PROVE InvGuiones
    OBVIOUS
  <2> USE DEF Init
  <2>1. Len(historia) = 0 /\ 0..0-1 = {} /\ DOMAIN estado_new = {}
    BY EmptySeq
  <2>2. Esperan = {}
    BY <2>1 DEF Esperan, EnElKernel, EnCPU, ConPcb, Ejecuta
  <2>3. AlDia
    BY <2>1, <2>2 DEF AlDia, Ejecuta
  <2>4. Bloqueos /\ Finales
    BY DEF Bloqueos, Finales, LlegaCon
  <2> QED  BY <2>3, <2>4 DEF InvGuiones
<1>2. InvTipos /\ InvProcesos /\ InvGuiones /\ [Next]_vars /\ (InvTipos /\ InvProcesos)' =>
          InvGuiones'
  BY PasoAlDia, PasoBloqueos, PasoFinales DEF InvProcesos, InvGuiones
<1> QED  BY <1>1, <1>2, ProcesosCorrectos, PTL DEF Spec

\* A process waits for the time of the IO that it executed last: the time and the PCB
\* travel in one packet (estructuras.c:228-244, 420).
THEOREM IOSiempreDelGuion == Spec => []IODelGuion
<1>1. InvGuiones => IODelGuion
  BY DEF InvGuiones, Bloqueos, EsIO, IODelGuion
<1> QED  BY <1>1, GuionesCorrectos, PTL

\* Each process executes the instructions of its script once and in order, across
\* bursts, interrupts and I/O, and its console is answered after an EXIT, with its
\* id (ciclo_instruccion.c:9-73, planificador.c:166-187, 332-388).
THEOREM EjecutaSuGuion == Spec => []EjecutaElGuion
<1>1. InvTipos /\ InvProcesos /\ InvGuiones => EjecutaElGuion
  <2> SUFFICES ASSUME InvTipos, InvProcesos, InvGuiones, NEW id \in 0..Len(historia) - 1, Entero(id)
               PROVE  /\ Ejecutadas(id) = SubSeq(Programa(id), 1, Len(Ejecutadas(id)))
                      /\ consolas[historia[id + 1].consola].estado = "respondida" =>
                           /\ Terminado(id)
                           /\ consolas[historia[id + 1].consola].respuesta = id
    BY DEF EjecutaElGuion, Terminado, Ejecutadas
  <2>1. Ejecutadas(id) = SubSeq(Programa(id), 1, Len(Ejecutadas(id)))
    BY DEF InvGuiones, AlDia, Hasta
  <2>2. ASSUME consolas[historia[id + 1].consola].estado = "respondida"
        PROVE  Terminado(id) /\ consolas[historia[id + 1].consola].respuesta = id
    <3> DEFINE c == historia[id + 1].consola
               v == consolas[c].respuesta
    <3>1. historia \in Seq(HISTORIA) /\ Len(historia) \in Nat /\ id + 1 \in 1..Len(historia)
      BY DEF InvTipos, TiposKernel
    <3>2. c \in Consolas
      <4>1. historia[id + 1] \in HISTORIA
        BY <3>1, ElementOfSeq, Zenon
      <4> QED  BY <4>1 DEF HISTORIA
    <3>3. Cerrado(v, c)
      BY <2>2, <3>2 DEF InvGuiones, Finales
    <3> HIDE DEF c, v
    <3>4. v \in 0..Len(historia)-1 /\ historia[v + 1].consola = c /\ (Entero(v) => Terminado(v))
      BY <3>3 DEF Cerrado
    <3>5. v + 1 \in 1..Len(historia)
      BY <3>1, <3>4
    <3>6. v + 1 = id + 1
      BY <3>1, <3>4, <3>5 DEF InvProcesos, UnProcesoPorConsola, c
    <3>7. v = id
      BY <3>1, <3>4, <3>6
    <3> QED  BY <3>4, <3>7 DEF c, v
  <2> QED  BY <2>1, <2>2
<1> QED  BY <1>1, GuionesCorrectos, PTL
=============================================================================
