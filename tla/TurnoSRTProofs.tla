---------------------------- MODULE TurnoSRTProofs ----------------------------
(***************************************************************************)
(* Theorems about TurnoSRT, for every number of processes, degree, bursts, *)
(* weight ALFA and width of the estimates: who may take the CPU from an    *)
(* interrupted PCB, why a shorter PCB may be waiting, and how far an       *)
(* estimate goes.  They rest on the invariant of the planner and on the    *)
(* rounding of the comparison, which never inverts an order.               *)
(***************************************************************************)
EXTENDS TurnoSRT, PlanificadorProofs

-----------------------------------------------------------------------------
(* Floats *)

Unidades == {1, 2, 4, 8, 16, 32, 64, 128, 256}

\* The unit u is the one of the binade of x.
SirveUnidad(u, x) == x < MANTISA * u /\ (u = 1 \/ x >= MANTISA * (u \div 2))

\* x to the nearest multiple of u, ties to even.
Redondeo(u, x) ==
    LET q == x \div u
        r == 2 * (x % u)
    IN  IF r < u \/ (r = u /\ q % 2 = 0) THEN q * u ELSE (q + 1) * u

\* With one unit, rounding keeps the order.
LEMMA RedondeoMonotono ==
    ASSUME NEW u \in Unidades, NEW x \in Nat, NEW y \in Nat, x <= y
    PROVE  Redondeo(u, x) <= Redondeo(u, y)
<1> USE DEF Redondeo
<1>1. CASE u = 1
  BY <1>1
<1>2. CASE u = 2
  BY <1>2
<1>3. CASE u = 4
  BY <1>3
<1>4. CASE u = 8
  BY <1>4
<1>5. CASE u = 16
  BY <1>5
<1>6. CASE u = 32
  BY <1>6
<1>7. CASE u = 64
  BY <1>7
<1>8. CASE u = 128
  BY <1>8
<1>9. CASE u = 256
  BY <1>9
<1> QED  BY <1>1, <1>2, <1>3, <1>4, <1>5, <1>6, <1>7, <1>8, <1>9 DEF Unidades

\* Rounding does not cross a multiple of the unit.
LEMMA RedondeoAcotado ==
    ASSUME NEW u \in Unidades, NEW x \in Nat, NEW k \in Nat
    PROVE  /\ Redondeo(u, x) \in Nat
           /\ x < k * u => Redondeo(u, x) <= k * u
           /\ k * u <= x => k * u <= Redondeo(u, x)
<1> USE DEF Redondeo
<1>1. CASE u = 1
  BY <1>1
<1>2. CASE u = 2
  BY <1>2
<1>3. CASE u = 4
  BY <1>3
<1>4. CASE u = 8
  BY <1>4
<1>5. CASE u = 16
  BY <1>5
<1>6. CASE u = 32
  BY <1>6
<1>7. CASE u = 64
  BY <1>7
<1>8. CASE u = 128
  BY <1>8
<1>9. CASE u = 256
  BY <1>9
<1> QED  BY <1>1, <1>2, <1>3, <1>4, <1>5, <1>6, <1>7, <1>8, <1>9 DEF Unidades

\* The first number of a binade is a multiple of its unit, and is at least the
\* end of every binade below.
LEMMA Binadas ==
    ASSUME NEW v \in Unidades, v # 1
    PROVE  /\ MANTISA * (v \div 2) = (MANTISA \div 2) * v
           /\ \A u \in Unidades : u < v => MANTISA * u <= MANTISA * (v \div 2)
<1>1. MANTISA \in Nat /\ MANTISA % 2 = 0
  BY EstimacionAssumption, MantisaAssumption
<1>2. CASE v = 2
  BY <1>1, <1>2 DEF Unidades
<1>3. CASE v = 4
  BY <1>1, <1>3 DEF Unidades
<1>4. CASE v = 8
  BY <1>1, <1>4 DEF Unidades
<1>5. CASE v = 16
  BY <1>1, <1>5 DEF Unidades
<1>6. CASE v = 32
  BY <1>1, <1>6 DEF Unidades
<1>7. CASE v = 64
  BY <1>1, <1>7 DEF Unidades
<1>8. CASE v = 128
  BY <1>1, <1>8 DEF Unidades
<1>9. CASE v = 256
  BY <1>1, <1>9 DEF Unidades
<1> QED  BY <1>2, <1>3, <1>4, <1>5, <1>6, <1>7, <1>8, <1>9 DEF Unidades

\* A uint32_t converted to float is its rounding in the unit of its binade: one
\* of the nine fits it.
LEMMA FlotanteRedondea ==
    ASSUME NEW x \in 0..UINT32-1
    PROVE  \E u \in Unidades : SirveUnidad(u, x) /\ Flotante(x) = Redondeo(u, x)
<1> DEFINE unidad == CHOOSE u \in Unidades : SirveUnidad(u, x)
<1>1. MANTISA \in Nat /\ x \in Nat /\ x < 256 * MANTISA
  BY EstimacionAssumption
<1>2. CASE x < MANTISA
  <2>1. 1 \in Unidades /\ SirveUnidad(1, x) /\ Redondeo(1, x) = x
    BY <1>1, <1>2 DEF Unidades, SirveUnidad, Redondeo
  <2>2. Flotante(x) = x
    BY <1>2 DEF Flotante
  <2> QED  BY <2>1, <2>2
<1>3. CASE ~(x < MANTISA)
  <2>1. \E u \in Unidades : SirveUnidad(u, x)
    <3>1. /\ 2 \div 2 = 1 /\ 4 \div 2 = 2 /\ 8 \div 2 = 4 /\ 16 \div 2 = 8 /\ 32 \div 2 = 16
          /\ 64 \div 2 = 32 /\ 128 \div 2 = 64 /\ 256 \div 2 = 128
      OBVIOUS
    <3>2. CASE x < MANTISA * 8
      BY <1>1, <3>1, <3>2 DEF Unidades, SirveUnidad
    <3>3. CASE ~(x < MANTISA * 8) /\ x < MANTISA * 64
      BY <1>1, <3>1, <3>3 DEF Unidades, SirveUnidad
    <3>4. CASE ~(x < MANTISA * 64)
      BY <1>1, <3>1, <3>4 DEF Unidades, SirveUnidad
    <3> QED  BY <1>1, <3>2, <3>3, <3>4
  <2>2. unidad \in Unidades /\ SirveUnidad(unidad, x)
    BY <2>1
  <2>3. Flotante(x) = Redondeo(unidad, x)
    BY <1>3, Zenon DEF Flotante, Redondeo, Unidades, SirveUnidad
  <2> QED  BY <2>2, <2>3
<1> QED  BY <1>2, <1>3

\* The conversion to float gives comparable numbers and never inverts an order:
\* one that is less as a float is less as a uint32_t.
LEMMA FlotanteMonotono ==
    ASSUME NEW x \in 0..UINT32-1, NEW y \in 0..UINT32-1
    PROVE  /\ Flotante(x) \in Nat /\ Flotante(y) \in Nat
           /\ x <= y => Flotante(x) <= Flotante(y)
           /\ Flotante(x) < Flotante(y) => x < y
<1>0. UINT32 \in Nat /\ MANTISA \in Nat /\ MANTISA \div 2 \in Nat
  BY EstimacionAssumption
<1>1. ASSUME NEW a \in 0..UINT32-1, NEW b \in 0..UINT32-1, a <= b
      PROVE  Flotante(a) \in Nat /\ Flotante(a) <= Flotante(b)
  <2>1. a \in Nat /\ b \in Nat
    BY <1>0
  <2>2. PICK u \in Unidades : SirveUnidad(u, a) /\ Flotante(a) = Redondeo(u, a)
    BY FlotanteRedondea
  <2>3. PICK v \in Unidades : SirveUnidad(v, b) /\ Flotante(b) = Redondeo(v, b)
    BY FlotanteRedondea
  <2>4. u \in Nat \ {0} /\ v \in Nat \ {0} /\ u >= 1 /\ v >= 1
    BY DEF Unidades
  <2>5. /\ MANTISA * u \in Nat /\ MANTISA * v \in Nat
        /\ MANTISA * (u \div 2) \in Nat /\ MANTISA * (v \div 2) \in Nat
    BY <1>0, <2>4
  <2>6. /\ Redondeo(u, a) \in Nat /\ Redondeo(v, b) \in Nat
        /\ a < MANTISA * u => Redondeo(u, a) <= MANTISA * u
        /\ (MANTISA \div 2) * v <= b => (MANTISA \div 2) * v <= Redondeo(v, b)
    BY <1>0, <2>1, RedondeoAcotado
  <2>7. CASE u = v
    BY <1>1, <2>1, <2>2, <2>3, <2>6, <2>7, RedondeoMonotono
  <2>8. CASE u < v
    <3>1. v # 1
      BY <2>4, <2>8
    <3>2. /\ MANTISA * (v \div 2) = (MANTISA \div 2) * v
          /\ MANTISA * u <= MANTISA * (v \div 2)
      BY <2>8, <3>1, Binadas
    <3>3. a < MANTISA * u /\ b >= MANTISA * (v \div 2)
      BY <2>2, <2>3, <3>1 DEF SirveUnidad
    <3>4. Redondeo(u, a) <= MANTISA * u /\ MANTISA * (v \div 2) <= Redondeo(v, b)
      BY <2>1, <2>5, <2>6, <3>2, <3>3
    <3> QED  BY <2>2, <2>3, <2>5, <2>6, <3>2, <3>4
  <2>9. CASE v < u
    <3>1. u # 1
      BY <2>4, <2>9
    <3>2. MANTISA * v <= MANTISA * (u \div 2)
      BY <2>9, <3>1, Binadas
    <3>3. b < MANTISA * v /\ a >= MANTISA * (u \div 2)
      BY <2>2, <2>3, <3>1 DEF SirveUnidad
    <3> QED  BY <1>1, <2>1, <2>5, <3>2, <3>3
  <2> QED  BY <2>4, <2>7, <2>8, <2>9
<1>2. Flotante(x) \in Nat /\ Flotante(y) \in Nat
  BY <1>0, <1>1
<1>3. /\ x <= y => Flotante(x) <= Flotante(y)
      /\ y <= x => Flotante(y) <= Flotante(x)
  BY <1>1
<1> QED  BY <1>0, <1>2, <1>3

-----------------------------------------------------------------------------
(* The inductive invariant *)

\* The estimate of a process as SRT compares it.
Est(p) == Flotante(estimacionRafaga[p])

TipoTurno ==
    /\ interrumpido \in Pcb \union {NULO}
    /\ sinComparar \subseteq Pcb
    /\ desbordadas \subseteq Pcb

\* The id that planificacionSRT looks for is that of the last PCB in the CPU.
UltimoAnotado == pcExec = "espera_cpu" => id_pcb_ejecutando = pcbExec

\* The interrupted PCB competes in the next choice: it is in ready until it is
\* dispatched again, and until somebody is chosen it is the one looked for.
Competidor ==
    interrumpido # NULO =>
        /\ Contains(estado_ready, interrumpido)
             \/ (pcExec = "espera_cpu" /\ pcbExec = interrumpido)
        /\ pcExec \notin {"despacha", "espera_cpu"} => id_pcb_ejecutando = interrumpido

\* DesalojoJusto, as floats.
DesalojoJustoFlotante ==
    pcExec \in {"despacha", "espera_cpu"} /\ interrumpido # NULO =>
        pcbExec = interrumpido \/ Est(pcbExec) < Est(interrumpido)

\* CortoEsperaConMotivo, as floats.
MotivoFlotante ==
    pcExec \in {"despacha", "espera_cpu"} =>
        \A r \in Pcb : Contains(estado_ready, r) =>
            r \in sinComparar \/ AvisoEnCamino \/ Est(pcbExec) <= Est(r)

OrdenTurno == UltimoAnotado /\ Competidor /\ DesalojoJustoFlotante /\ MotivoFlotante

InvTurno == TipoTurno /\ EstimacionAcotada /\ (SRT => OrdenTurno)

\* Only readyAexec writes the histories: when it chooses and when it takes back.
LEMMA QuienEscribe ==
    ASSUME [Next]_vars
    PROVE  /\ VuelvePorInterrupcion \/ desbordadas' = desbordadas
           /\ \/ VuelvePorIO \/ VuelvePorInterrupcion \/ VuelvePorExit
              \/ interrumpido' = interrumpido /\ (PlanificaSRT \/ sinComparar' = sinComparar)
<1> USE DEF varsExec, varsHistoria
<1>1. CASE UNCHANGED varsExec
  BY <1>1
<1>2. CASE ManejarProceso \/ HiloExec
  BY <1>2 DEF ManejarProceso, HiloExec, EsperaReady, PlanificaFIFO, PlanificaSRT, Despacha,
              VuelvePorIO, PostBlock, VuelvePorInterrupcion, PostReadyExec, VuelvePorExit,
              AvisaConsola, PostGradoExec
<1> QED
  BY <1>1, <1>2
  DEF Next, vars, HiloMain, HiloAready, HiloBlock, HiloKernel, CPU, Terminado, IngresarANew,
      PostNew, EsperaPcb, EsperaGrado, Elige, PopSuspReady, PopNew, EstructurasCreadas,
      AgregaReady, InterrumpeAready, PostReadyAready, EsperaBlock, PopBlocked, TerminaIO,
      InterrumpeBlock, PostReadyBlock, PideSuspender, Suspendido, PostGradoBlock,
      TerminaIOSuspendido, PostSusp, CPUEjecutaIO, CPUEjecutaExit, CPUInterrumpida, Responde

\* A step that neither ends a burst nor chooses leaves who was interrupted and
\* who was not compared as they were.
LEMMA HistoriaIgual ==
    ASSUME [Next]_vars,
           ~(pcExec = "espera_cpu" /\ pcExec' # "espera_cpu"),
           ~(pcExec = "planifica" /\ pcExec' = "despacha")
    PROVE  interrumpido' = interrumpido /\ sinComparar' = sinComparar
BY QuienEscribe DEF VuelvePorIO, VuelvePorInterrupcion, VuelvePorExit, PlanificaSRT

-----------------------------------------------------------------------------
(* How far an estimate goes *)

\* An average of two values is not above what bounds both.
LEMMA PromedioAcotado ==
    ASSUME NEW r \in Nat, NEW e \in Nat, NEW M \in Nat, r <= M, e <= M
    PROVE  Promedio(r, e) <= M
<1> DEFINE suma == NUM_ALFA * r + (DEN_ALFA - NUM_ALFA) * e
<1>1. NUM_ALFA \in Nat /\ DEN_ALFA - NUM_ALFA \in Nat /\ DEN_ALFA \in Nat \ {0}
  BY EstimacionAssumption
<1>2. \A a, x \in Nat : x <= M => a * x \in Nat /\ a * x <= a * M
  BY SMT
<1>3. NUM_ALFA * r \in Nat /\ NUM_ALFA * r <= NUM_ALFA * M
  BY <1>1, <1>2
<1>4. /\ (DEN_ALFA - NUM_ALFA) * e \in Nat
      /\ (DEN_ALFA - NUM_ALFA) * e <= (DEN_ALFA - NUM_ALFA) * M
  BY <1>1, <1>2
<1>5. (DEN_ALFA - NUM_ALFA) * M + NUM_ALFA * M = DEN_ALFA * M
  BY <1>1, SMT
<1>6. suma \in Nat /\ suma <= DEN_ALFA * M
  BY <1>1, <1>3, <1>4, <1>5, SMT
<1> HIDE DEF suma
<1>7. suma \div DEN_ALFA <= M
  BY <1>1, <1>6, SMT
<1> QED  BY <1>7 DEF Promedio, suma

\* An estimate changes when its process connects and when its burst ends.
LEMMA AcotadaPreservada ==
    ASSUME IInv, IInv', InvTurno, [Next]_vars
    PROVE  EstimacionAcotada'
<1>1. /\ estimacionRafaga \in [Pcb -> 0..UINT32-1] /\ UINT32 \in Nat /\ COTA_ESTIMACION \in Nat
      /\ pcExec = "espera_cpu" => pcbExec \in Pcb
      /\ respuestaCPU # SinRespuesta => respuestaCPU.lengthUltimaRafaga \in Rafagas
      /\ \A r \in Rafagas : r \in 0..UINT32-1 /\ r <= COTA_ESTIMACION
  BY EstimacionAssumption, CotaAssumption DEF IInv, TypeOK, TypeExec, TypeCPU
<1>2. desbordadas \subseteq desbordadas'
  BY QuienEscribe DEF VuelvePorInterrupcion
<1>3. CASE UNCHANGED estimacionRafaga
  BY <1>2, <1>3 DEF EstimacionAcotada, InvTurno
<1>4. CASE ManejarProceso
  BY <1>1, <1>2, <1>4, CotaAssumption DEF ManejarProceso, EstimacionAcotada, InvTurno
<1>5. CASE VuelvePorIO
  <2> DEFINE rafaga == respuestaCPU.lengthUltimaRafaga
             est == estimacionRafaga[pcbExec]
  <2>1. rafaga \in 0..UINT32-1 /\ rafaga <= COTA_ESTIMACION /\ est \in 0..UINT32-1
    BY <1>1, <1>5 DEF VuelvePorIO, SinRespuesta
  <2>2. est <= COTA_ESTIMACION => Promedio(rafaga, est) <= COTA_ESTIMACION
    BY <1>1, <2>1, PromedioAcotado
  <2>3. estimacionRafaga' = [estimacionRafaga EXCEPT ![pcbExec] = Promedio(rafaga, est)]
    BY <1>5 DEF VuelvePorIO
  <2> QED  BY <1>1, <1>2, <2>2, <2>3 DEF EstimacionAcotada, InvTurno
<1>6. CASE VuelvePorInterrupcion
  <2> DEFINE rafaga == respuestaCPU.lengthUltimaRafaga
             est == estimacionRafaga[pcbExec]
  <2>1. rafaga \in 0..UINT32-1 /\ est \in 0..UINT32-1 /\ pcbExec \in Pcb
    BY <1>1, <1>6 DEF VuelvePorInterrupcion, SinRespuesta
  <2>2. rafaga <= est => Restante(rafaga, est) <= est
    BY <1>1, <2>1 DEF Restante
  <2>3. rafaga > est => pcbExec \in desbordadas'
    BY <1>6 DEF VuelvePorInterrupcion
  <2>4. estimacionRafaga' = [estimacionRafaga EXCEPT ![pcbExec] = Restante(rafaga, est)]
    BY <1>6 DEF VuelvePorInterrupcion
  <2>5. Restante(rafaga, est) \in 0..UINT32-1
    BY <1>1, <2>1, RestanteTipo
  <2> HIDE DEF rafaga
  <2> QED  BY <1>1, <1>2, <2>1, <2>2, <2>3, <2>4, <2>5 DEF EstimacionAcotada, InvTurno
<1> QED
  BY <1>3, <1>4, <1>5, <1>6
  DEF Next, vars, HiloMain, HiloAready, HiloExec, HiloBlock, HiloKernel, CPU,
      Terminado, IngresarANew, PostNew, EsperaPcb, EsperaGrado, Elige, PopSuspReady, PopNew,
      EstructurasCreadas, AgregaReady, InterrumpeAready, PostReadyAready, EsperaReady,
      PlanificaFIFO, PlanificaSRT, Despacha, PostBlock, PostReadyExec, VuelvePorExit,
      AvisaConsola, PostGradoExec, EsperaBlock, PopBlocked, TerminaIO, InterrumpeBlock,
      PostReadyBlock, PideSuspender, Suspendido, PostGradoBlock, TerminaIOSuspendido, PostSusp,
      CPUEjecutaIO, CPUEjecutaExit, CPUInterrumpida, Responde, varsExec

-----------------------------------------------------------------------------
(* Who is in turn, and who waits *)

\* The histories of a step name processes.
LEMMA TipoPreservadoTurno ==
    ASSUME IInv, InvTurno, [Next]_vars
    PROVE  TipoTurno'
<1>1. pcExec = "espera_cpu" => pcbExec \in Pcb
  BY DEF IInv, TypeOK, TypeExec
<1>2. ToSet(estado_ready) \subseteq Pcb
  <2>1. estado_ready \in Seq(Pcb)
    BY DEF IInv, TypeOK, TypeColas
  <2>2. \A i \in DOMAIN estado_ready : estado_ready[i] \in Pcb
    BY <2>1, LenProperties, ElementOfSeq
  <2> QED  BY <2>2 DEF ToSet
<1>3. interrumpido' \in Pcb \union {NULO}
  BY <1>1, QuienEscribe
  DEF VuelvePorIO, VuelvePorInterrupcion, VuelvePorExit, InvTurno, TipoTurno
<1>4. sinComparar' \subseteq Pcb
  BY <1>2, QuienEscribe
  DEF PlanificaSRT, VuelvePorIO, VuelvePorInterrupcion, VuelvePorExit, InvTurno, TipoTurno
<1>5. desbordadas' \subseteq Pcb
  BY <1>1, QuienEscribe DEF VuelvePorInterrupcion, InvTurno, TipoTurno
<1> QED  BY <1>3, <1>4, <1>5 DEF TipoTurno

\* The thread readyAexec stands still and nobody comes to ready.
Quieto ==
    /\ UNCHANGED <<pcExec, pcbExec, id_pcb_ejecutando, estado_ready>>
    /\ AvisoEnCamino => AvisoEnCamino'

\* The estimates of who is in ready, in turn or interrupted are the same.
MismasEstimaciones ==
    \A p \in Pcb : Contains(estado_ready, p)
                     \/ (pcExec \in {"despacha", "espera_cpu"} /\ pcbExec = p)
                   => estimacionRafaga'[p] = estimacionRafaga[p]

\* Nothing about the turn moves.
LEMMA TurnoQuieto ==
    ASSUME IInv, InvTurno, [Next]_vars, SRT, Quieto, MismasEstimaciones
    PROVE  OrdenTurno'
<1>1. interrumpido' = interrumpido /\ sinComparar' = sinComparar
  BY HistoriaIgual DEF Quieto
<1>2. /\ UltimoAnotado /\ Competidor /\ DesalojoJustoFlotante /\ MotivoFlotante
      /\ interrumpido \in Pcb \union {NULO}
      /\ pcExec \in {"despacha", "espera_cpu"} => pcbExec \in Pcb
  BY DEF InvTurno, OrdenTurno, TipoTurno, IInv, TypeOK, TypeExec
<1>3. UltimoAnotado' /\ Competidor'
  BY <1>1, <1>2 DEF Quieto, UltimoAnotado, Competidor
<1>4. DesalojoJustoFlotante'
  BY <1>1, <1>2 DEF Quieto, MismasEstimaciones, DesalojoJustoFlotante, Competidor, Est, NULO
<1>5. MotivoFlotante'
  BY <1>1, <1>2 DEF Quieto, MismasEstimaciones, MotivoFlotante, Est
<1> QED  BY <1>3, <1>4, <1>5 DEF OrdenTurno

\* A PCB comes to ready and its interrupt is on its way.
LEMMA TurnoLlega ==
    ASSUME IInv, InvTurno, [Next]_vars, SRT,
           NEW e \in Pcb, estado_ready' = Append(estado_ready, e), AvisoEnCamino',
           UNCHANGED <<pcExec, pcbExec, id_pcb_ejecutando, estimacionRafaga>>
    PROVE  OrdenTurno'
<1>1. interrumpido' = interrumpido /\ sinComparar' = sinComparar
  BY HistoriaIgual
<1>2. UltimoAnotado /\ Competidor /\ DesalojoJustoFlotante /\ estado_ready \in Seq(Pcb)
  BY DEF InvTurno, OrdenTurno, IInv, TypeOK, TypeColas
<1>3. \A p : Contains(estado_ready, p) => Contains(estado_ready', p)
  BY <1>2, ContieneAlAgregar
<1>4. UltimoAnotado' /\ Competidor'
  BY <1>1, <1>2, <1>3 DEF UltimoAnotado, Competidor
<1>5. DesalojoJustoFlotante'
  BY <1>1, <1>2 DEF DesalojoJustoFlotante, Est
<1>6. MotivoFlotante'
  BY DEF MotivoFlotante
<1> QED  BY <1>4, <1>5, <1>6 DEF OrdenTurno

\* readyAexec takes a step with nobody in turn before or after.
LEMMA TurnoFuera ==
    ASSUME IInv, InvTurno, [Next]_vars, SRT,
           pcExec \notin {"despacha", "espera_cpu"}, pcExec' \notin {"despacha", "espera_cpu"},
           UNCHANGED <<id_pcb_ejecutando, estado_ready>>
    PROVE  OrdenTurno'
<1>1. interrumpido' = interrumpido
  BY HistoriaIgual
<1>2. Competidor
  BY DEF InvTurno, OrdenTurno
<1>3. Competidor'
  BY <1>1, <1>2 DEF Competidor
<1> QED  BY <1>3 DEF OrdenTurno, UltimoAnotado, DesalojoJustoFlotante, MotivoFlotante

\* planificacionSRT: an interrupted PCB is found and compared; without one the
\* head goes, and those it leaves behind are known.
LEMMA TurnoElegido ==
    ASSUME IInv, InvTurno, [Next]_vars, PlanificaSRT
    PROVE  OrdenTurno'
<1> DEFINE Hay == Contains(estado_ready, id_pcb_ejecutando)
<1>1. /\ SRT /\ pcExec = "planifica" /\ pcExec' = "despacha"
      /\ UNCHANGED <<id_pcb_ejecutando, estimacionRafaga, estado_ready>>
  BY DEF PlanificaSRT, varsColas
<1>2. /\ interrumpido' = interrumpido
      /\ sinComparar' = IF Hay THEN {} ELSE ToSet(estado_ready)
  BY DEF PlanificaSRT
<1>3. /\ Competidor /\ estado_ready \in Seq(Pcb)
      /\ estimacionRafaga \in [Pcb -> 0..UINT32-1]
  BY <1>1 DEF InvTurno, OrdenTurno, IInv, TypeOK, TypeColas, TypeExec
<1>4. DOMAIN estado_ready = 1..Len(estado_ready) /\ \A i \in DOMAIN estado_ready : estado_ready[i] \in Pcb
  BY <1>3, LenProperties, ElementOfSeq
<1>5. \A p \in Pcb : Est(p) \in Nat /\ Est(p)' = Est(p)
  BY <1>1, <1>3, FlotanteMonotono DEF Est
<1>6. interrumpido # NULO => Hay /\ id_pcb_ejecutando = interrumpido
  BY <1>1, <1>3 DEF Competidor
<1>7. Competidor' /\ UltimoAnotado'
  BY <1>1, <1>2, <1>6 DEF Competidor, UltimoAnotado
<1>8. PICK corto \in DOMAIN estado_ready :
         /\ EsElMasCorto(corto)
         /\ pcbExec' = IF ~Hay THEN Head(estado_ready)
                       ELSE IF Flotante(estimacionRafaga[estado_ready[corto]])
                                 < Flotante(estimacionRafaga[id_pcb_ejecutando])
                            THEN estado_ready[corto] ELSE id_pcb_ejecutando
  BY DEF PlanificaSRT
<1> DEFINE c == estado_ready[corto]
<1>9. c \in Pcb /\ \A p : Contains(estado_ready, p) => p \in Pcb /\ Est(c) <= Est(p)
  BY <1>4, <1>8 DEF EsElMasCorto, Contains, Est
<1>10. pcbExec' = IF ~Hay THEN Head(estado_ready)
                  ELSE IF Est(c) < Est(id_pcb_ejecutando) THEN c ELSE id_pcb_ejecutando
  BY <1>8 DEF Est
<1> HIDE DEF c
<1>11. DesalojoJustoFlotante'
  <2> SUFFICES ASSUME interrumpido # NULO
               PROVE  pcbExec' = interrumpido \/ Est(pcbExec)' < Est(interrumpido)'
    BY <1>2 DEF DesalojoJustoFlotante
  <2>1. Hay /\ id_pcb_ejecutando = interrumpido /\ interrumpido \in Pcb
    BY <1>6, <1>9
  <2>2. CASE Est(c) < Est(interrumpido)
    <3>1. pcbExec' = c
      BY <1>10, <2>1, <2>2
    <3>2. Est(pcbExec)' = Est(c) /\ Est(interrumpido)' = Est(interrumpido)
      BY <1>1, <1>2, <3>1 DEF Est
    <3> QED  BY <2>2, <3>2
  <2>3. CASE ~(Est(c) < Est(interrumpido))
    BY <1>10, <2>1, <2>3
  <2> QED  BY <2>2, <2>3
<1>12. MotivoFlotante'
  <2>1. CASE ~Hay
    <3>1. \A p : Contains(estado_ready, p) => p \in ToSet(estado_ready)
      BY <1>4 DEF Contains, ToSet
    <3> QED  BY <1>1, <1>2, <2>1, <3>1 DEF MotivoFlotante
  <2>2. CASE Hay
    <3>1. id_pcb_ejecutando \in Pcb
      BY <1>9, <2>2
    <3>2. pcbExec' \in Pcb /\ Est(pcbExec') <= Est(c)
      BY <1>5, <1>9, <1>10, <2>2, <3>1
    <3>3. \A p \in Pcb : Contains(estado_ready, p) => Est(pcbExec') <= Est(p)
      BY <1>5, <1>9, <3>2
    <3>4. Est(pcbExec)' = Est(pcbExec') /\ \A p \in Pcb : Est(p)' = Est(p)
      BY <1>1 DEF Est
    <3> QED  BY <1>1, <3>3, <3>4 DEF MotivoFlotante
  <2> QED  BY <2>1, <2>2
<1> QED  BY <1>7, <1>11, <1>12 DEF OrdenTurno

\* The chosen PCB leaves ready for the CPU and is noted as the last to run.
LEMMA TurnoDespachado ==
    ASSUME IInv, IInv', InvTurno, [Next]_vars, SRT, Despacha
    PROVE  OrdenTurno'
<1>1. /\ pcExec = "despacha" /\ pcExec' = "espera_cpu" /\ id_pcb_ejecutando' = pcbExec
      /\ UNCHANGED <<pcbExec, estimacionRafaga, varsAready, varsBlock, varsCPU>>
  BY DEF Despacha
<1>2. interrumpido' = interrumpido /\ sinComparar' = sinComparar
  BY <1>1, HistoriaIgual
<1>3. Competidor /\ DesalojoJustoFlotante /\ MotivoFlotante
  BY DEF InvTurno, OrdenTurno
<1>4. estado_ready \in Seq(Pcb) /\ estado_ready' \in Seq(Pcb)
  BY DEF IInv, TypeOK, TypeColas
<1>5. \A p : /\ Contains(estado_ready, p) /\ p # pcbExec => Contains(estado_ready', p)
             /\ Contains(estado_ready', p) => Contains(estado_ready, p)
  <2>1. \A p : /\ Contains(estado_ready, p) <=> Veces(estado_ready, p) > 0
               /\ Contains(estado_ready', p) <=> Veces(estado_ready', p) > 0
               /\ Veces(estado_ready, p) \in Nat
    BY <1>4, VecesBasico
  <2>2. \A p : Veces(estado_ready', p) = Veces(estado_ready, p) - Uno(SRT /\ pcbExec = p)
    BY DespachaQuita
  <2> QED  BY <2>1, <2>2 DEF Uno
<1>6. AvisoEnCamino => AvisoEnCamino'
  BY <1>1 DEF AvisoEnCamino, varsAready, varsBlock, varsCPU
<1>7. UltimoAnotado' /\ Competidor'
  BY <1>1, <1>2, <1>3, <1>5 DEF UltimoAnotado, Competidor
<1>8. DesalojoJustoFlotante'
  BY <1>1, <1>2, <1>3 DEF DesalojoJustoFlotante, Est
<1>9. MotivoFlotante'
  BY <1>1, <1>2, <1>3, <1>5, <1>6 DEF MotivoFlotante, Est
<1> QED  BY <1>7, <1>8, <1>9 DEF OrdenTurno

\* A burst ends: nobody is in turn, and who was interrupted is back in ready.
LEMMA TurnoTerminado ==
    ASSUME IInv, InvTurno, [Next]_vars, SRT,
           VuelvePorIO \/ VuelvePorInterrupcion \/ VuelvePorExit
    PROVE  OrdenTurno'
<1>1. /\ pcExec = "espera_cpu" /\ pcExec' \notin {"despacha", "espera_cpu"}
      /\ id_pcb_ejecutando' = id_pcb_ejecutando
  BY DEF VuelvePorIO, VuelvePorInterrupcion, VuelvePorExit
<1>2. interrumpido' = IF VuelvePorInterrupcion THEN pcbExec ELSE NULO
  BY DEF VuelvePorIO, VuelvePorInterrupcion, VuelvePorExit
<1>3. Competidor'
  <2>1. CASE ~VuelvePorInterrupcion
    BY <1>2, <2>1 DEF Competidor
  <2>2. CASE VuelvePorInterrupcion
    <3>1. interrumpido' = pcbExec /\ estado_ready' = Append(estado_ready, pcbExec)
      BY <2>2 DEF VuelvePorInterrupcion
    <3>2. id_pcb_ejecutando = pcbExec /\ pcbExec \in Pcb /\ estado_ready \in Seq(Pcb)
      BY <1>1 DEF InvTurno, OrdenTurno, UltimoAnotado, IInv, TypeOK, TypeExec, TypeColas
    <3>3. Contains(estado_ready', pcbExec)
      BY <3>1, <3>2, ContieneAlAgregar
    <3> QED  BY <1>1, <3>1, <3>2, <3>3 DEF Competidor
  <2> QED  BY <2>1, <2>2
<1> QED  BY <1>1, <1>3 DEF OrdenTurno, UltimoAnotado, DesalojoJustoFlotante, MotivoFlotante

\* A process that connects is in no list and in no thread's hands yet, so its
\* first estimate is nobody else's.
LEMMA TurnoConecta ==
    ASSUME IInv, InvTurno, [Next]_vars, SRT, ManejarProceso
    PROVE  OrdenTurno'
<1>1. /\ id_nuevo_proceso \in Pcb /\ estado_ready \in Seq(Pcb)
      /\ Apariciones(id_nuevo_proceso) = 0
  BY CotasAssumption
  DEF ManejarProceso, IInv, TypeOK, TypeMain, TypeColas, Pcb, CadaPcbEnUnLugar, Uno
<1> DEFINE p == id_nuevo_proceso
           m == Uno(pcMain = "push_new" /\ p = id_nuevo_proceso - 1)
           a == Uno(AreadyConPcb /\ pcbAready = p)
           x == Uno(ExecConPcb /\ pcbExec = p)
           b == Uno(BlockConPcb /\ ultimoIO.pcb = p)
           n == Veces(estado_new, p)
           s == Veces(estado_susp_ready, p)
           r == Veces(estado_ready, p)
           k == VecesIO(estado_blocked, p)
<1>2. n \in Nat /\ s \in Nat /\ r \in Nat /\ k \in Nat
  BY VecesNaturales DEF IInv, TypeOK
<1>3. m \in {0, 1} /\ a \in {0, 1} /\ x \in {0, 1} /\ b \in {0, 1}
  BY DEF Uno
<1>4. m + n + s + r + k + a + x + b = 0
  BY <1>1 DEF Apariciones
<1>5. ExecConPcb /\ pcbExec = p => x = 1
  BY DEF Uno
<1> HIDE DEF m, a, x, b, n, s, k
<1>6. r = 0 /\ x = 0
  <2> HIDE DEF r
  <2> QED  BY <1>2, <1>3, <1>4
<1>7. ~Contains(estado_ready, id_nuevo_proceso)
  BY <1>1, <1>6, VecesBasico
<1>8. ~(pcExec \in {"despacha", "espera_cpu"} /\ pcbExec = id_nuevo_proceso)
  <2>1. pcExec # "espera_cpu" \/ pcbExec # id_nuevo_proceso
    BY <1>5, <1>6 DEF ExecConPcb
  <2>2. pcExec = "despacha" => Contains(estado_ready, pcbExec)
    BY <1>1, VecesBasico DEF IInv, ElegidoEnReady
  <2> QED  BY <1>7, <2>1, <2>2
<1>9. MismasEstimaciones
  BY <1>1, <1>7, <1>8 DEF MismasEstimaciones, ManejarProceso, IInv, TypeOK, TypeExec
<1>10. Quieto
  BY DEF Quieto, ManejarProceso, AvisoEnCamino, varsColas, varsAready, varsBlock, varsCPU
<1> QED  BY <1>9, <1>10, TurnoQuieto

\* Every step keeps the order of the turns.
LEMMA OrdenPreservadoTurno ==
    ASSUME IInv, IInv', InvTurno, [Next]_vars, SRT
    PROVE  OrdenTurno'
<1> USE DEF varsMain, varsColas, varsSem, varsAready, varsExec, varsBlock, varsMem, varsCPU,
            varsFin
<1>1. UNCHANGED estimacionRafaga => MismasEstimaciones
  BY DEF MismasEstimaciones
<1>2. CASE ManejarProceso
  BY <1>2, TurnoConecta
<1>3. CASE AgregaReady
  <2>1. pcbAready \in Pcb /\ AvisoEnCamino'
    BY <1>3 DEF IInv, TypeOK, TypeAready, AreadyConPcb, AgregaReady, AvisoEnCamino
  <2> QED  BY <1>3, <2>1, TurnoLlega DEF AgregaReady
<1>4. CASE TerminaIO
  <2>1. ultimoIO.pcb \in Pcb /\ AvisoEnCamino'
    BY <1>4 DEF IInv, TypeOK, TypeBlock, BlockConPcb, TerminaIO, AvisoEnCamino
  <2> QED  BY <1>4, <2>1, TurnoLlega DEF TerminaIO
<1>5. CASE IngresarANew \/ PostNew
  <2>1. Quieto /\ UNCHANGED estimacionRafaga
    BY <1>5 DEF IngresarANew, PostNew, Quieto, AvisoEnCamino
  <2> QED  BY <1>1, <2>1, TurnoQuieto
<1>6. CASE HiloAready /\ ~AgregaReady
  <2>1. Quieto /\ UNCHANGED estimacionRafaga
    BY <1>6 DEF HiloAready, EsperaPcb, EsperaGrado, Elige, PopSuspReady, PopNew,
                EstructurasCreadas, InterrumpeAready, PostReadyAready, Quieto, AvisoEnCamino,
                IInv, TypeOK, TypeCPU
  <2> QED  BY <1>1, <2>1, TurnoQuieto
<1>7. CASE HiloBlock /\ ~TerminaIO
  <2>1. Quieto /\ UNCHANGED estimacionRafaga
    BY <1>7 DEF HiloBlock, EsperaBlock, PopBlocked, InterrumpeBlock, PostReadyBlock,
                PideSuspender, Suspendido, PostGradoBlock, TerminaIOSuspendido, PostSusp,
                Quieto, AvisoEnCamino, IInv, TypeOK, TypeCPU
  <2> QED  BY <1>1, <2>1, TurnoQuieto
<1>8. CASE CPU
  <2>1. respuestaCPU' # SinRespuesta
    BY <1>8 DEF CPU, CPUEjecutaIO, CPUEjecutaExit, CPUInterrumpida, Responde, SinRespuesta
  <2>2. Quieto /\ UNCHANGED estimacionRafaga
    BY <1>8, <2>1 DEF CPU, CPUEjecutaIO, CPUEjecutaExit, CPUInterrumpida, Responde, Quieto,
                      AvisoEnCamino
  <2> QED  BY <1>1, <2>2, TurnoQuieto
<1>9. CASE HiloKernel \/ Terminado \/ UNCHANGED vars
  <2>1. Quieto /\ UNCHANGED estimacionRafaga
    BY <1>9 DEF HiloKernel, Terminado, vars, Quieto, AvisoEnCamino
  <2> QED  BY <1>1, <2>1, TurnoQuieto
<1>10. CASE EsperaReady \/ PostBlock \/ PostReadyExec \/ AvisaConsola \/ PostGradoExec
  BY <1>10, TurnoFuera DEF EsperaReady, PostBlock, PostReadyExec, AvisaConsola, PostGradoExec
<1>11. CASE PlanificaFIFO
  BY <1>11 DEF PlanificaFIFO
<1>12. CASE PlanificaSRT
  BY <1>12, TurnoElegido
<1>13. CASE Despacha
  BY <1>13, TurnoDespachado
<1>14. CASE VuelvePorIO \/ VuelvePorInterrupcion \/ VuelvePorExit
  BY <1>14, TurnoTerminado
<1> QED
  BY <1>2, <1>3, <1>4, <1>5, <1>6, <1>7, <1>8, <1>9, <1>10, <1>11, <1>12, <1>13, <1>14
  DEF Next, HiloMain, HiloAready, HiloBlock, HiloExec, varsHistoria

\* Nobody was interrupted and nobody waits when the threads are created.
LEMMA TurnoInicial == Init => InvTurno
<1> SUFFICES ASSUME Init  PROVE  InvTurno
  OBVIOUS
<1>1. /\ estimacionRafaga = [p \in Pcb |-> 0] /\ pcExec = "espera_ready"
      /\ interrumpido = NULO /\ sinComparar = {} /\ desbordadas = {}
  BY DEF Init
<1>2. EstimacionAcotada
  BY <1>1, CotaAssumption DEF EstimacionAcotada
<1> QED
  BY <1>1, <1>2 DEF InvTurno, TipoTurno, OrdenTurno, UltimoAnotado, Competidor,
                    DesalojoJustoFlotante, MotivoFlotante

-----------------------------------------------------------------------------
(* Theorems *)

\* In every instance, at every moment: the interrupted PCB competes, who is in
\* turn beat it, who waits with a shorter estimate has a reason, and estimates
\* stay within what was configured and measured unless they wrapped around.
THEOREM TurnoCorrecto == Spec => [](IInv /\ InvTurno)
<1>1. /\ IInv /\ IInv' /\ InvTurno /\ [Next]_vars => InvTurno'
  BY TipoPreservadoTurno, AcotadaPreservada, OrdenPreservadoTurno DEF InvTurno
<1> QED  BY <1>1, TurnoInicial, Invariante, PTL DEF Spec

\* A float that is less is a uint32_t that is less, and one that is not more is
\* not more, or is the same float.
LEMMA ComparaComoEntero ==
    ASSUME IInv, NEW p \in Pcb, NEW q \in Pcb
    PROVE  /\ Est(p) < Est(q) => estimacionRafaga[p] < estimacionRafaga[q]
           /\ estimacionRafaga[p] < estimacionRafaga[q] /\ Est(q) <= Est(p)
                => Flotante(estimacionRafaga[p]) = Flotante(estimacionRafaga[q])
<1>1. estimacionRafaga[p] \in 0..UINT32-1 /\ estimacionRafaga[q] \in 0..UINT32-1
  BY DEF IInv, TypeOK, TypeExec
<1>2. /\ Est(p) \in Nat /\ Est(q) \in Nat
      /\ Est(p) < Est(q) => estimacionRafaga[p] < estimacionRafaga[q]
      /\ estimacionRafaga[p] <= estimacionRafaga[q] => Est(p) <= Est(q)
  BY <1>1, FlotanteMonotono DEF Est
<1>3. UINT32 \in Nat
  BY EstimacionAssumption
<1> QED  BY <1>1, <1>2, <1>3 DEF Est

\* An interrupted PCB loses the CPU only to a strictly shorter one
\* (planificador.c:130-158), for every number of processes and every rounding.
THEOREM DesalojoSiempreJusto == Spec => []DesalojoJusto
<1>1. IInv /\ InvTurno => DesalojoJusto
  <2> SUFFICES ASSUME IInv, InvTurno, EnTurno, interrumpido # NULO, pcbExec # interrumpido
               PROVE  estimacionRafaga[pcbExec] < estimacionRafaga[interrumpido]
    BY DEF DesalojoJusto
  <2>1. pcbExec \in Pcb /\ interrumpido \in Pcb
    BY DEF EnTurno, InvTurno, TipoTurno, IInv, TypeOK, TypeExec
  <2>2. Est(pcbExec) < Est(interrumpido)
    BY DEF EnTurno, InvTurno, OrdenTurno, DesalojoJustoFlotante
  <2> QED  BY <2>1, <2>2, ComparaComoEntero
<1> QED  BY <1>1, TurnoCorrecto, PTL

\* A shorter PCB waits in ready only because the head was taken uncompared, its
\* interrupt is on its way, or the two estimates are one float
\* (planificador.c:46-49, 134-138, 144, 213-217).
THEOREM CortoSiempreConMotivo == Spec => []CortoEsperaConMotivo
<1>1. IInv /\ InvTurno => CortoEsperaConMotivo
  <2> SUFFICES ASSUME IInv, InvTurno, EnTurno, NEW r \in ToSet(estado_ready),
                      estimacionRafaga[r] < estimacionRafaga[pcbExec],
                      r \notin sinComparar, ~AvisoEnCamino
               PROVE  Flotante(estimacionRafaga[r]) = Flotante(estimacionRafaga[pcbExec])
    BY DEF CortoEsperaConMotivo
  <2>1. estado_ready \in Seq(Pcb) /\ pcbExec \in Pcb
    BY DEF EnTurno, IInv, TypeOK, TypeColas, TypeExec
  <2>2. r \in Pcb /\ Contains(estado_ready, r)
    BY <2>1, LenProperties, ElementOfSeq DEF ToSet, Contains
  <2>3. Est(pcbExec) <= Est(r)
    BY <2>2 DEF EnTurno, InvTurno, OrdenTurno, MotivoFlotante
  <2> QED  BY <2>1, <2>2, <2>3, ComparaComoEntero
<1> QED  BY <1>1, TurnoCorrecto, PTL

\* No estimate is above what was configured or measured, for every weight ALFA,
\* unless a burst longer than the estimate was interrupted (planificador.c:344, 366).
THEOREM EstimacionSiempreAcotada == Spec => []EstimacionAcotada
<1>1. InvTurno => EstimacionAcotada
  BY DEF InvTurno
<1> QED  BY <1>1, TurnoCorrecto, PTL

=============================================================================
