-------------------------- MODULE MemoriaVirtualProofs --------------------------
(***************************************************************************)
(* Theorems about MemoriaVirtual, for every number of processes, pages,    *)
(* frames and entries of the TLB, and both algorithms of each.             *)
(***************************************************************************)
EXTENDS MemoriaVirtual, SequenceTheorems, FiniteSetTheorems, TLAPS

Fases == {"nuevo", "creando", "activo", "bloqueado", "suspendiendo", "suspendido", "fin"}
Peticiones == [codigo : {"CREAR", "SUSP", "FIN"}, id : Procesos]

-----------------------------------------------------------------------------
(* The inductive invariant, in three layers. *)

TipoControl ==
    /\ fase \in [Procesos -> Fases]
    /\ ejecutando \in Procesos \union {NULO}
    /\ colaKernel \in Seq(Peticiones)
    /\ pcKernel \in {"espera", "ocupados", "eliminar"}
    /\ pcCPU \in {"libre", "marco", "clock", "reemplaza", "acceso", "desborde"}
    /\ PCB_ACTUAL \in Procesos \union {NULO}

\* A process waits for what it asked, and asks for one thing at a time.
ColaKernelInv ==
    /\ \A k \in 1..Len(colaKernel) :
          /\ colaKernel[k].codigo = "CREAR" => fase[colaKernel[k].id] = "creando"
          /\ colaKernel[k].codigo = "SUSP" => fase[colaKernel[k].id] = "suspendiendo"
          /\ colaKernel[k].codigo = "FIN" => fase[colaKernel[k].id] = "fin"
    /\ \A j, k \in 1..Len(colaKernel) : colaKernel[j].id = colaKernel[k].id => j = k
    /\ pcKernel # "espera" => colaKernel # <<>> /\ colaKernel[1].codigo = "SUSP"

\* The access is of the process in the CPU, which is active, and so is the TLB.
EjecutandoInv ==
    /\ ejecutando # NULO => fase[ejecutando] = "activo" /\ PCB_ACTUAL = ejecutando
    /\ pcCPU # "libre" => ejecutando # NULO /\ consulta.id = ejecutando
    /\ PCB_ACTUAL # NULO => fase[PCB_ACTUAL] \notin {"nuevo", "creando"}

ControlInv == TipoControl /\ ColaKernelInv /\ EjecutandoInv

EntradasTLB == [pagina : Nat, marco : Marcos, tiempoAcceso : Nat]

\* The times of the entries are the numbers below their count, each once.
TLBInv ==
    /\ listaTLB \in Seq(EntradasTLB)
    /\ Len(listaTLB) <= ENTRADAS_TLB
    /\ indiceFIFO \in 0..ENTRADAS_TLB-1
    /\ \A k \in 1..Len(listaTLB) : listaTLB[k].tiempoAcceso \in 0..Len(listaTLB)-1
    /\ \A j, k \in 1..Len(listaTLB) :
          listaTLB[j].tiempoAcceso = listaTLB[k].tiempoAcceso => j = k

\* While a page is looked for a frame it has none, and the victim has one.
BusquedaInv ==
    /\ pcCPU \in {"clock", "reemplaza"} =>
          /\ ~Entrada.presencia
          /\ Estado.marcosOcupados >= MARCOS_POR_PROCESO
    /\ pcCPU = "reemplaza" => entradas[consulta.id][victima].presencia

\* Pages of the TLB are of the process, and a page being looked for is not there.
PaginasTLBInv ==
    /\ PCB_ACTUAL = NULO => listaTLB = <<>>
    /\ \A k \in 1..Len(listaTLB) : listaTLB[k].pagina \in Paginas(PCB_ACTUAL)
    /\ pcCPU \in {"marco", "clock", "reemplaza"} =>
          \A k \in 1..Len(listaTLB) : listaTLB[k].pagina # consulta.pagina

EntradasPagina == [marco : Marcos \union {SIN_MARCO}, presencia : BOOLEAN,
                   uso : BOOLEAN, modificado : BOOLEAN]

\* The conjuncts of TypeOK that are not in TipoControl.
TipoAcceso ==
    /\ IF pcCPU = "libre" THEN consulta = SinConsulta
       ELSE /\ consulta \in [id : Procesos, pagina : Nat, esWrite : BOOLEAN]
            /\ {consulta.pagina, victima} \subseteq Paginas(consulta.id)
    /\ pcCPU # "reemplaza" => victima = 0
    /\ IF pcCPU = "acceso" THEN marco \in Marcos ELSE marco = SIN_MARCO

TipoEstados ==
    /\ estadosPCBS \in [Procesos -> [marcosOcupados : 0..MARCOS_POR_PROCESO,
                                     punteroClock : Nat]]
    /\ \A p \in Procesos : estadosPCBS[p].punteroClock \in Paginas(p) \union {0}

TipoContenido ==
    /\ suspensiones \in 0..MaxSuspensiones
    /\ bitarray \subseteq Marcos
    /\ memoria \in [Marcos -> Datos]
    /\ DeCadaPagina(swap, Datos)
    /\ DeCadaPagina(esperado, Datos)

DatosInv ==
    /\ TipoAcceso /\ TipoEstados /\ TipoContenido
    /\ DeCadaPagina(entradas, EntradasPagina)
    /\ ModificadaPresente /\ TLBInv /\ BusquedaInv

\* Processes of which more is true than HayVictima says: those that are being
\* suspended too, once their count is reset.
Contado(p) == \/ fase[p] \in {"activo", "bloqueado", "suspendido"}
              \/ pcKernel = "eliminar" /\ colaKernel[1].id = p

OcupadosDe(p) == estadosPCBS[p].marcosOcupados <= Cardinality(Presentes(p))

OcupadosInv == \A p \in Procesos : Contado(p) => OcupadosDe(p)

-----------------------------------------------------------------------------
(* Sequences *)

\* What the proofs use of a list and of its first element.
LEMMA ListaPropiedades ==
    ASSUME NEW S, NEW s \in Seq(S)
    PROVE  /\ Len(s) \in Nat /\ DOMAIN s = 1..Len(s)
           /\ \A k \in 1..Len(s) : s[k] \in S
           /\ s # <<>> => /\ Len(s) >= 1 /\ Head(s) = s[1] /\ s[1] \in S
                          /\ Tail(s) \in Seq(S) /\ Len(Tail(s)) = Len(s) - 1
                          /\ \A k \in 1..Len(s)-1 : Tail(s)[k] = s[k + 1]
<1>1. Len(s) \in Nat /\ DOMAIN s = 1..Len(s) /\ \A k \in 1..Len(s) : s[k] \in S
  BY LenProperties, ElementOfSeq
<1>2. ASSUME s # <<>>
      PROVE  /\ Len(s) >= 1 /\ Head(s) = s[1] /\ s[1] \in S
             /\ Tail(s) \in Seq(S) /\ Len(Tail(s)) = Len(s) - 1
             /\ \A k \in 1..Len(s)-1 : Tail(s)[k] = s[k + 1]
  <2>1. Len(s) >= 1
    BY <1>1, <1>2, EmptySeq
  <2>2. Head(s) = s[1]
    OBVIOUS
  <2>3. s[1] \in S
    BY <1>1, <2>1
  <2> QED  BY <1>2, <2>1, <2>2, <2>3, HeadTailProperties
<1> QED  BY <1>1, <1>2

-----------------------------------------------------------------------------
(* Control: the requests of the Kernel and the process in the CPU *)

\* A request more, of a process that waits for none.
LEMMA PidePreserva ==
    ASSUME ControlInv, NEW p \in Procesos, p # ejecutando \/ pcCPU = "libre",
           NEW c \in {"CREAR", "SUSP", "FIN"}, NEW n \in Fases,
           fase[p] \notin {"creando", "suspendiendo", "fin"}, n \notin {"nuevo", "activo"},
           c = "CREAR" <=> n = "creando", c = "SUSP" <=> n = "suspendiendo",
           c = "FIN" <=> n = "fin",
           n = "creando" => fase[p] = "nuevo",
           ejecutando' = IF p = ejecutando THEN NULO ELSE ejecutando,
           Pide(c, p, n), UNCHANGED PCB_ACTUAL
    PROVE  ControlInv'
<1> DEFINE r == [codigo |-> c, id |-> p]
<1>1. r \in Peticiones
  BY DEF Peticiones
<1>2. /\ colaKernel' = Append(colaKernel, r)
      /\ fase' = [fase EXCEPT ![p] = n]
      /\ pcKernel' = pcKernel /\ pcCPU' = pcCPU /\ consulta' = consulta
      /\ PCB_ACTUAL' = PCB_ACTUAL
  BY DEF Pide, varsAcceso
<1>3. /\ Len(colaKernel) \in Nat
      /\ \A k \in 1..Len(colaKernel) : colaKernel[k] \in Peticiones
      /\ colaKernel # <<>> => Len(colaKernel) >= 1
  BY ListaPropiedades DEF ControlInv, TipoControl
<1>4. /\ colaKernel' \in Seq(Peticiones)
      /\ Len(colaKernel') = Len(colaKernel) + 1
      /\ \A k \in 1..Len(colaKernel) : colaKernel'[k] = colaKernel[k]
      /\ colaKernel'[Len(colaKernel) + 1] = r
  BY <1>1, <1>2, AppendProperties DEF ControlInv, TipoControl
<1>5. \A q \in Procesos : fase'[q] = IF q = p THEN n ELSE fase[q]
  BY <1>2 DEF ControlInv, TipoControl
<1>6. \A k \in 1..Len(colaKernel) : colaKernel[k].id # p
  BY <1>3 DEF ControlInv, ColaKernelInv, Peticiones
<1>7. TipoControl'
  BY <1>2, <1>4 DEF ControlInv, TipoControl
<1>8. ColaKernelInv'
  <2>1. \A k \in 1..Len(colaKernel') :
           \/ k \in 1..Len(colaKernel) /\ colaKernel'[k] = colaKernel[k]
           \/ k = Len(colaKernel) + 1 /\ colaKernel'[k] = r
    BY <1>3, <1>4
  <2>2. \A k \in 1..Len(colaKernel) : /\ colaKernel[k].id \in Procesos
                                      /\ fase'[colaKernel[k].id] = fase[colaKernel[k].id]
    BY <1>3, <1>5, <1>6 DEF Peticiones
  <2>3. fase'[p] = n /\ r.id = p /\ r.codigo = c
    BY <1>5
  <2>4. \A k \in 1..Len(colaKernel') :
          /\ colaKernel'[k].codigo = "CREAR" => fase'[colaKernel'[k].id] = "creando"
          /\ colaKernel'[k].codigo = "SUSP" => fase'[colaKernel'[k].id] = "suspendiendo"
          /\ colaKernel'[k].codigo = "FIN" => fase'[colaKernel'[k].id] = "fin"
    BY <2>1, <2>2, <2>3 DEF ControlInv, ColaKernelInv
  <2>5. \A j, k \in 1..Len(colaKernel') : colaKernel'[j].id = colaKernel'[k].id => j = k
    BY <2>1, <2>3, <1>6 DEF ControlInv, ColaKernelInv
  <2>6. pcKernel' # "espera" => colaKernel' # <<>> /\ colaKernel'[1].codigo = "SUSP"
    <3> SUFFICES ASSUME pcKernel' # "espera"
                 PROVE  colaKernel' # <<>> /\ colaKernel'[1].codigo = "SUSP"
      OBVIOUS
    <3>1. colaKernel # <<>> /\ colaKernel[1].codigo = "SUSP"
      BY <1>2 DEF ControlInv, ColaKernelInv
    <3>2. 1 \in 1..Len(colaKernel) /\ Len(colaKernel') >= 1
      BY <3>1, <1>3, <1>4
    <3> QED  BY <3>1, <3>2, <1>4, EmptySeq
  <2> QED  BY <2>4, <2>5, <2>6 DEF ColaKernelInv
<1>9. EjecutandoInv'
  BY <1>2, <1>5, MemoriaAssumption DEF ControlInv, TipoControl, EjecutandoInv
<1> QED  BY <1>7, <1>8, <1>9 DEF ControlInv

\* A request served: only the phase of the process that asked may change.
LEMMA AtiendePreserva ==
    ASSUME ControlInv, colaKernel # <<>>, colaKernel' = Tail(colaKernel),
           pcKernel' = "espera",
           NEW n \in Fases, n = fase[colaKernel[1].id] \/ n \in {"activo", "suspendido"},
           fase' = [fase EXCEPT ![colaKernel[1].id] = n],
           UNCHANGED <<ejecutando, pcCPU, consulta, PCB_ACTUAL>>
    PROVE  ControlInv'
<1>1. /\ Len(colaKernel) \in Nat /\ Len(colaKernel) >= 1
      /\ \A k \in 1..Len(colaKernel) : colaKernel[k] \in Peticiones
      /\ colaKernel' \in Seq(Peticiones) /\ Len(colaKernel') = Len(colaKernel) - 1
      /\ \A k \in 1..Len(colaKernel)-1 : colaKernel'[k] = colaKernel[k + 1]
  BY ListaPropiedades DEF ControlInv, TipoControl
<1> DEFINE p == colaKernel[1].id
<1>2. p \in Procesos /\ fase[p] \in {"creando", "suspendiendo", "fin"} /\ 1 \in 1..Len(colaKernel)
  BY <1>1 DEF Peticiones, ControlInv, ColaKernelInv
<1>3. \A q \in Procesos : fase'[q] = IF q = p THEN n ELSE fase[q]
  BY <1>2 DEF ControlInv, TipoControl
<1>4. TipoControl'
  BY <1>1, <1>2 DEF ControlInv, TipoControl
<1>5. ColaKernelInv'
  <2>1. \A k \in 1..Len(colaKernel') :
           /\ k + 1 \in 1..Len(colaKernel) /\ k + 1 # 1
           /\ colaKernel'[k] = colaKernel[k + 1]
    BY <1>1
  <2>2. \A k \in 1..Len(colaKernel') : colaKernel[k + 1].id # p /\ colaKernel[k + 1].id \in Procesos
    BY <1>1, <1>2, <2>1 DEF Peticiones, ControlInv, ColaKernelInv
  <2>3. \A k \in 1..Len(colaKernel') :
          /\ colaKernel'[k].codigo = "CREAR" => fase'[colaKernel'[k].id] = "creando"
          /\ colaKernel'[k].codigo = "SUSP" => fase'[colaKernel'[k].id] = "suspendiendo"
          /\ colaKernel'[k].codigo = "FIN" => fase'[colaKernel'[k].id] = "fin"
    BY <2>1, <2>2, <1>3 DEF ControlInv, ColaKernelInv
  <2>4. \A j, k \in 1..Len(colaKernel') : colaKernel'[j].id = colaKernel'[k].id => j = k
    <3> SUFFICES ASSUME NEW j \in 1..Len(colaKernel'), NEW k \in 1..Len(colaKernel'),
                        colaKernel'[j].id = colaKernel'[k].id
                 PROVE  j = k
      OBVIOUS
    <3>1. j + 1 = k + 1
      BY <2>1 DEF ControlInv, ColaKernelInv
    <3> QED  BY <3>1, <1>1
  <2> QED  BY <2>3, <2>4 DEF ColaKernelInv
<1>6. EjecutandoInv'
  BY <1>2, <1>3, MemoriaAssumption DEF ControlInv, TipoControl, EjecutandoInv
<1> QED  BY <1>4, <1>5, <1>6 DEF ControlInv

\* A process that waits for nothing changes its phase; the CPU takes or leaves it.
LEMMA FasePreserva ==
    ASSUME ControlInv, NEW p \in Procesos, NEW n \in {"activo", "bloqueado"},
           fase[p] \in {"activo", "bloqueado", "suspendido"},
           fase' = [fase EXCEPT ![p] = n],
           UNCHANGED <<colaKernel, pcKernel, pcCPU, consulta>>,
           \/ UNCHANGED <<ejecutando, PCB_ACTUAL>> /\ n = "activo"
           \/ pcCPU = "libre" /\ ejecutando = p /\ ejecutando' = NULO /\ UNCHANGED PCB_ACTUAL
           \/ ejecutando = NULO /\ ejecutando' = p /\ PCB_ACTUAL' = p /\ n = "activo"
    PROVE  ControlInv'
<1>1. \A q \in Procesos : fase'[q] = IF q = p THEN n ELSE fase[q]
  BY DEF ControlInv, TipoControl
<1>2. \A k \in 1..Len(colaKernel) : colaKernel[k] \in Peticiones
  BY ListaPropiedades DEF ControlInv, TipoControl
<1>3. TipoControl'
  BY DEF ControlInv, TipoControl, Fases
<1>4. ColaKernelInv'
  <2>1. \A k \in 1..Len(colaKernel) :
           colaKernel[k].id # p /\ colaKernel[k].id \in Procesos
    BY <1>2 DEF ControlInv, ColaKernelInv, Peticiones
  <2> QED  BY <1>1, <2>1 DEF ControlInv, ColaKernelInv
<1>5. EjecutandoInv'
  BY <1>1, MemoriaAssumption DEF ControlInv, TipoControl, EjecutandoInv
<1> QED  BY <1>3, <1>4, <1>5 DEF ControlInv

\* With nothing asked yet the two queues and the threads agree.
LEMMA ControlInicial == InitMV => ControlInv
<1> SUFFICES ASSUME InitMV PROVE ControlInv
  OBVIOUS
<1>1. <<>> \in Seq(Peticiones) /\ Len(<<>>) = 0
  BY EmptySeq
<1> QED
  BY <1>1, MemoriaAssumption DEF InitMV, Init, InitMMU, ControlInv, TipoControl, ColaKernelInv,
     EjecutandoInv, Fases

\* Every step of the three processes keeps the control invariant.
LEMMA ControlPreservado == ControlInv /\ [NextMV]_varsMV => ControlInv'
<1> SUFFICES ASSUME ControlInv, [NextMV]_varsMV PROVE ControlInv'
  OBVIOUS
<1> USE DEF varsProc, varsKernel, varsAcceso, varsMMU
<1>1. CASE \E p \in Procesos : DespachaCPU(p)
  <2>1. PICK p \in Procesos : DespachaCPU(p)
    BY <1>1
  <2>2. /\ ejecutando = NULO /\ fase[p] = "activo" /\ ejecutando' = p /\ fase' = fase
        /\ UNCHANGED <<colaKernel, pcKernel, pcCPU, consulta>> /\ PCB_ACTUAL' = p
    BY <2>1 DEF DespachaCPU, Despacha, VaciarTLB
  <2>3. fase' = [fase EXCEPT ![p] = "activo"]
    BY <2>2 DEF ControlInv, TipoControl
  <2> QED  BY <2>2, <2>3, FasePreserva
<1>2. ASSUME NEW p \in Procesos, PideCrear(p), UNCHANGED PCB_ACTUAL
      PROVE  ControlInv'
  <2>1. /\ fase[p] = "nuevo" /\ Pide("CREAR", p, "creando") /\ ejecutando' = ejecutando
    BY <1>2 DEF PideCrear
  <2>2. p # ejecutando
    BY <2>1, MemoriaAssumption DEF ControlInv, EjecutandoInv
  <2> QED  BY <1>2, <2>1, <2>2, PidePreserva DEF Fases
<1>3. ASSUME NEW p \in Procesos, PideSuspender(p), UNCHANGED PCB_ACTUAL
      PROVE  ControlInv'
  <2>1. /\ fase[p] = "bloqueado" /\ Pide("SUSP", p, "suspendiendo") /\ ejecutando' = ejecutando
    BY <1>3 DEF PideSuspender
  <2>2. p # ejecutando
    BY <2>1, MemoriaAssumption DEF ControlInv, EjecutandoInv
  <2> QED  BY <1>3, <2>1, <2>2, PidePreserva DEF Fases
<1>4. ASSUME NEW p \in Procesos, PideFin(p), UNCHANGED PCB_ACTUAL
      PROVE  ControlInv'
  <2>1. /\ ejecutando = p /\ pcCPU = "libre" /\ Pide("FIN", p, "fin") /\ ejecutando' = NULO
    BY <1>4 DEF PideFin
  <2>2. fase[p] = "activo"
    BY <2>1, MemoriaAssumption DEF ControlInv, EjecutandoInv
  <2> QED  BY <1>4, <2>1, <2>2, PidePreserva DEF Fases
<1>5. ASSUME NEW p \in Procesos, Readmite(p) \/ Desbloquea(p), UNCHANGED PCB_ACTUAL
      PROVE  ControlInv'
  BY <1>5, FasePreserva DEF Readmite, Desbloquea
<1>6. CASE Vuelve /\ UNCHANGED PCB_ACTUAL
  <2>1. ejecutando \in Procesos /\ fase[ejecutando] = "activo"
    BY <1>6 DEF Vuelve, ControlInv, TipoControl, EjecutandoInv
  <2>2. PICK n \in {"activo", "bloqueado"} : fase' = [fase EXCEPT ![ejecutando] = n]
    BY <1>6 DEF Vuelve
  <2> QED  BY <1>6, <2>1, <2>2, FasePreserva DEF Vuelve
<1>7. CASE SwapeaEntradas /\ UNCHANGED PCB_ACTUAL
  <2>1. colaKernel # <<>> /\ colaKernel[1].codigo = "SUSP"
    BY <1>7, ListaPropiedades DEF SwapeaEntradas, Cabeza, ControlInv, TipoControl
  <2> QED
    BY <1>7, <2>1 DEF SwapeaEntradas, ControlInv, TipoControl, ColaKernelInv, EjecutandoInv
<1>8. CASE ReseteaOcupados /\ UNCHANGED PCB_ACTUAL
  BY <1>8 DEF ReseteaOcupados, ControlInv, TipoControl, ColaKernelInv, EjecutandoInv
<1>9. CASE (CrearProceso \/ FinProceso) /\ UNCHANGED PCB_ACTUAL
  <2>1. colaKernel # <<>> /\ Head(colaKernel) = colaKernel[1] /\ colaKernel[1] \in Peticiones
    BY <1>9, ListaPropiedades DEF CrearProceso, FinProceso, Cabeza, ControlInv, TipoControl
  <2>2. pcKernel = "espera"
    BY <1>9, <2>1 DEF CrearProceso, FinProceso, Cabeza, ControlInv, ColaKernelInv
  <2>3. CASE CrearProceso
    BY <1>9, <2>1, <2>2, <2>3, AtiendePreserva DEF CrearProceso, Fases
  <2>4. CASE FinProceso
    <3>1. fase[colaKernel[1].id] \in Fases
          /\ fase' = [fase EXCEPT ![colaKernel[1].id] = fase[colaKernel[1].id]]
      BY <2>1, <2>4 DEF FinProceso, ControlInv, TipoControl, Peticiones
    <3> QED  BY <1>9, <2>1, <2>2, <2>4, <3>1, AtiendePreserva DEF FinProceso
  <2> QED  BY <1>9, <2>3, <2>4
<1>10. CASE TerminaSuspension /\ UNCHANGED PCB_ACTUAL
  <2>1. colaKernel # <<>> /\ Head(colaKernel) = colaKernel[1]
    BY <1>10, ListaPropiedades DEF TerminaSuspension, ControlInv, TipoControl, ColaKernelInv
  <2> QED  BY <1>10, <2>1, AtiendePreserva DEF TerminaSuspension, Fases
<1>11. CASE /\ UNCHANGED <<fase, ejecutando, colaKernel, pcKernel, PCB_ACTUAL>>
            /\ pcCPU' \in {"libre", "marco", "clock", "reemplaza", "acceso", "desborde"}
            /\ pcCPU' # "libre" => ejecutando # NULO /\ consulta'.id = ejecutando
  BY <1>11 DEF ControlInv, TipoControl, ColaKernelInv, EjecutandoInv
<1>12. CASE AccedeAcierto \/ AccedeFallo
  <2>1. /\ UNCHANGED <<fase, ejecutando, colaKernel, pcKernel, PCB_ACTUAL>>
        /\ ejecutando # NULO /\ pcCPU' \in {"marco", "acceso"}
    BY <1>12 DEF AccedeAcierto, AccedeFallo, Accede, ActualizarTLB
  <2>2. consulta'.id = ejecutando
    BY <1>12 DEF AccedeAcierto, AccedeFallo, Accede
  <2> QED  BY <1>11, <2>1, <2>2
<1>13. CASE HiloCPUMV
  <2>1. CASE MarcoPresenteMV \/ MarcoLibreMV \/ ReemplazaMV
    <3>1. UNCHANGED PCB_ACTUAL
      BY <2>1 DEF MarcoPresenteMV, MarcoLibreMV, ReemplazaMV, RespondeMarco, AgregarTLB
    <3>2. /\ pcCPU # "libre" /\ pcCPU' = "acceso" /\ consulta' = consulta
          /\ UNCHANGED <<fase, ejecutando, colaKernel, pcKernel>>
      BY <2>1 DEF MarcoPresenteMV, MarcoLibreMV, ReemplazaMV, MarcoPresente, MarcoLibre, Reemplaza,
         ObtieneMarco
    <3> QED  BY <1>11, <3>1, <3>2 DEF ControlInv, EjecutandoInv
  <2>2. ASSUME Lee \/ Escribe, UNCHANGED varsMMU
        PROVE  ControlInv'
    BY <2>2, <1>11 DEF Lee, Escribe, TerminaAcceso
  <2>3. ASSUME MarcoFueraDeMemoria \/ PideVictima \/ RecorreClock, UNCHANGED varsMMU
        PROVE  ControlInv'
    BY <2>3, <1>11 DEF MarcoFueraDeMemoria, PideVictima, RecorreClock, ControlInv, EjecutandoInv
  <2> QED  BY <1>13, <2>1, <2>2, <2>3 DEF HiloCPUMV
<1>14. CASE UNCHANGED varsMV
  BY <1>14 DEF varsMV, vars, ControlInv, TipoControl, ColaKernelInv, EjecutandoInv
<1>15. CASE KernelMV
  BY <1>15, <1>1, <1>2, <1>3, <1>4, <1>5, <1>6 DEF KernelMV
<1>16. CASE HiloKernelMV
  BY <1>16, <1>7, <1>8, <1>9, <1>10 DEF HiloKernelMV, SwapeaEntradasMV
<1> QED
  BY <1>12, <1>13, <1>14, <1>15, <1>16 DEF NextMV

\* A process has one request at a time in the queue of Memoria, the one of its
\* phase, and the access and the TLB are of the process that runs: a suspended or
\* ended process has neither.
THEOREM ControlCorrecto == SpecMV => []ControlInv
BY ControlInicial, ControlPreservado, PTL DEF SpecMV

-----------------------------------------------------------------------------
(* The TLB *)

TiemposDistintos(lista) ==
    \A j, k \in 1..Len(lista) : lista[j].tiempoAcceso = lista[k].tiempoAcceso => j = k

\* n elements, from 0 or from 1.
LEMMA IntervaloFinito ==
    ASSUME NEW n \in Nat
    PROVE  /\ IsFiniteSet(1..n) /\ Cardinality(1..n) = n
           /\ IsFiniteSet(0..n-1) /\ Cardinality(0..n-1) = n
<1>1. IsFiniteSet(1..n) /\ Cardinality(1..n) = IF 1 > n THEN 0 ELSE n - 1 + 1
  BY FS_Interval
<1>2. IsFiniteSet(0..n-1) /\ Cardinality(0..n-1) = IF 0 > n - 1 THEN 0 ELSE n - 1 - 0 + 1
  <2>1. 0 \in Int /\ n - 1 \in Int
    OBVIOUS
  <2> QED  BY <2>1, FS_Interval
<1> QED  BY <1>1, <1>2

\* Times that are distinct are numbered from 0, and nothing else changes.
LEMMA RenumeraPropiedades ==
    ASSUME NEW lista \in Seq(EntradasTLB), TiemposDistintos(lista)
    PROVE  /\ Renumera(lista) \in Seq(EntradasTLB)
           /\ Len(Renumera(lista)) = Len(lista)
           /\ \A k \in 1..Len(lista) :
                 /\ Renumera(lista)[k].pagina = lista[k].pagina
                 /\ Renumera(lista)[k].marco = lista[k].marco
                 /\ Renumera(lista)[k].tiempoAcceso \in 0..Len(lista)-1
           /\ TiemposDistintos(Renumera(lista))
           /\ \A j, k \in 1..Len(lista) : lista[j].tiempoAcceso < lista[k].tiempoAcceso =>
                 Renumera(lista)[j].tiempoAcceso < Renumera(lista)[k].tiempoAcceso
<1> DEFINE n == Len(lista)
           t(k) == lista[k].tiempoAcceso
           Antes(k) == {j \in 1..n : t(j) < t(k)}
           r == Renumera(lista)
<1>1. /\ n \in Nat /\ DOMAIN lista = 1..n
      /\ \A k \in 1..n : lista[k] \in EntradasTLB /\ t(k) \in Nat
  <2>1. /\ n \in Nat /\ DOMAIN lista = 1..n
        /\ \A k \in 1..n : lista[k] \in EntradasTLB
    BY ListaPropiedades
  <2> QED  BY <2>1 DEF EntradasTLB
<1>2. r = [k \in 1..n |-> [lista[k] EXCEPT !.tiempoAcceso = Cardinality(Antes(k))]]
  BY <1>1 DEF Renumera
<1>3. IsFiniteSet(1..n) /\ Cardinality(1..n) = n
  BY <1>1, IntervaloFinito
<1>4. \A k \in 1..n : IsFiniteSet(Antes(k)) /\ Cardinality(Antes(k)) \in 0..n-1
  <2> TAKE k \in 1..n
  <2>1. Antes(k) \subseteq (1..n) \ {k}
    BY <1>1
  <2>2. IsFiniteSet((1..n) \ {k}) /\ Cardinality((1..n) \ {k}) = n - 1
    BY <1>3, FS_RemoveElement
  <2> HIDE DEF Antes
  <2>3. IsFiniteSet(Antes(k)) /\ Cardinality(Antes(k)) <= n - 1
    BY <2>1, <2>2, FS_Subset
  <2> QED  BY <1>1, <2>3, FS_CardinalityType
<1>5. \A j, k \in 1..n : t(j) < t(k) => Cardinality(Antes(j)) < Cardinality(Antes(k))
  <2> SUFFICES ASSUME NEW j \in 1..n, NEW k \in 1..n, t(j) < t(k)
               PROVE  Cardinality(Antes(j)) < Cardinality(Antes(k))
    OBVIOUS
  <2>1. Antes(j) \subseteq Antes(k) /\ j \in Antes(k) /\ j \notin Antes(j)
    BY <1>1
  <2> HIDE DEF Antes
  <2>2. /\ Cardinality(Antes(j)) <= Cardinality(Antes(k))
        /\ Cardinality(Antes(j)) # Cardinality(Antes(k))
    BY <1>4, <2>1, FS_Subset
  <2>3. Cardinality(Antes(j)) \in 0..n-1 /\ Cardinality(Antes(k)) \in 0..n-1
    BY <1>4
  <2> QED  BY <2>2, <2>3
<1> HIDE DEF Antes
<1>6. \A k \in 1..n : /\ r[k] \in EntradasTLB
                      /\ r[k].pagina = lista[k].pagina /\ r[k].marco = lista[k].marco
                      /\ r[k].tiempoAcceso = Cardinality(Antes(k))
  BY <1>1, <1>2, <1>4 DEF EntradasTLB
<1>7. r \in Seq(EntradasTLB) /\ Len(r) = n
  <2>1. r \in [1..n -> EntradasTLB] /\ DOMAIN r = 1..n
    BY <1>2, <1>6
  <2> HIDE DEF r
  <2> QED  BY <1>1, <2>1
<1>8. TiemposDistintos(r)
  <2> SUFFICES ASSUME NEW j \in 1..n, NEW k \in 1..n, r[j].tiempoAcceso = r[k].tiempoAcceso
               PROVE  j = k
    BY <1>7 DEF TiemposDistintos
  <2>1. ~(t(j) < t(k)) /\ ~(t(k) < t(j))
    BY <1>4, <1>5, <1>6, SMTT(20)
  <2>2. t(j) = t(k)
    BY <1>1, <2>1
  <2> QED  BY <2>2 DEF TiemposDistintos
<1>9. \A j, k \in 1..n : t(j) < t(k) => r[j].tiempoAcceso < r[k].tiempoAcceso
  BY <1>5, <1>6
<1> HIDE DEF r
<1> QED  BY <1>4, <1>6, <1>7, <1>8, <1>9 DEF r

\* list_sort by time finds an entry for every place.
LEMMA OrdenadaPropiedades ==
    ASSUME TLBInv
    PROVE  /\ Ordenada \in Seq(EntradasTLB) /\ Len(Ordenada) = Len(listaTLB)
           /\ \A k \in 1..Len(listaTLB) :
                 /\ Ordenada[k].tiempoAcceso = k - 1
                 /\ \E j \in 1..Len(listaTLB) : Ordenada[k] = listaTLB[j]
<1> DEFINE n == Len(listaTLB)
           t == [j \in 1..n |-> listaTLB[j].tiempoAcceso]
           De(k) == CHOOSE j \in 1..n : listaTLB[j].tiempoAcceso = k - 1
<1>1. /\ n \in Nat /\ DOMAIN listaTLB = 1..n
      /\ \A k \in 1..n : listaTLB[k] \in EntradasTLB
  BY ListaPropiedades DEF TLBInv
<1>2. t \in Injection(1..n, 0..n-1)
  BY <1>1 DEF TLBInv, Injection, IsInjective
<1>3. /\ IsFiniteSet(0..n-1) /\ Cardinality(0..n-1) = n
      /\ Cardinality(1..n) = n
  BY <1>1, IntervaloFinito
<1>4. t \in Surjection(1..n, 0..n-1)
  <2> HIDE DEF t
  <2> QED  BY <1>2, <1>3, FS_Injection
<1>5. \A k \in 1..n : \E j \in 1..n : listaTLB[j].tiempoAcceso = k - 1
  <2> TAKE k \in 1..n
  <2>1. k - 1 \in 0..n-1
    BY <1>1
  <2>2. \E j \in 1..n : t[j] = k - 1
    BY <1>4, <2>1 DEF Surjection
  <2> QED  BY <2>2
<1>6. \A k \in 1..n : De(k) \in 1..n /\ listaTLB[De(k)].tiempoAcceso = k - 1
  BY <1>5
<1>7. Ordenada = [k \in 1..n |-> listaTLB[De(k)]]
  BY <1>1 DEF Ordenada
<1> HIDE DEF De
<1>8. Ordenada \in [1..n -> EntradasTLB] /\ DOMAIN Ordenada = 1..n
  BY <1>1, <1>6, <1>7
<1>9. Ordenada \in Seq(EntradasTLB) /\ Len(Ordenada) = n
  BY <1>1, <1>8
<1> QED  BY <1>6, <1>7, <1>9

\* The pages and frames of a list of entries are those of another, and one more.
Agrega(nueva, lista, p, m) ==
    \A k \in 1..Len(nueva) :
        \/ nueva[k].pagina = p /\ nueva[k].marco = m
        \/ \E j \in 1..Len(lista) : /\ nueva[k].pagina = lista[j].pagina
                                    /\ nueva[k].marco = lista[j].marco

\* What each access to the TLB leaves is renumbered.
LEMMA RenumeradaPreserva ==
    ASSUME TLBInv, NEW lista \in Seq(EntradasTLB), TiemposDistintos(lista),
           Len(lista) <= ENTRADAS_TLB, indiceFIFO' \in 0..ENTRADAS_TLB-1,
           listaTLB' = Renumera(lista), NEW p, NEW m, Agrega(lista, listaTLB, p, m)
    PROVE  TLBInv' /\ Agrega(listaTLB', listaTLB, p, m)
<1> DEFINE r == Renumera(lista)
<1>1. /\ r \in Seq(EntradasTLB) /\ Len(r) = Len(lista)
      /\ \A k \in 1..Len(lista) : /\ r[k].pagina = lista[k].pagina
                                  /\ r[k].marco = lista[k].marco
                                  /\ r[k].tiempoAcceso \in 0..Len(lista)-1
      /\ TiemposDistintos(r)
  BY RenumeraPropiedades
<1>2. listaTLB' = r
  OBVIOUS
<1> HIDE DEF r
<1>3. TLBInv'
  BY <1>1, <1>2 DEF TLBInv, TiemposDistintos
<1>4. Agrega(r, listaTLB, p, m)
  BY <1>1 DEF Agrega
<1> QED  BY <1>2, <1>3, <1>4

\* The three lists that agregarTLB leaves, before they are renumbered: with an entry
\* more, ...
CreceLista(lista, nueva) ==
    /\ Len(listaTLB) < ENTRADAS_TLB /\ Len(lista) = Len(listaTLB) + 1
    /\ \A k \in 1..Len(listaTLB) : lista[k] = listaTLB[k]
    /\ lista[Len(lista)] = nueva
    /\ indiceFIFO' = indiceFIFO
    /\ orden' = IF corrido THEN orden ELSE Append(orden, nueva.pagina)

\* ... with the entry of the index replaced, ...
CambiaIndice(lista, nueva) ==
    /\ REEMPLAZO_TLB = "FIFO" /\ Len(listaTLB) = ENTRADAS_TLB /\ Len(lista) = Len(listaTLB)
    /\ \A k \in 1..Len(lista) : lista[k] = IF k = indiceFIFO + 1 THEN nueva ELSE listaTLB[k]
    /\ indiceFIFO' = incrementarIndiceFIFO
    /\ orden' = IF corrido THEN orden ELSE Append(Tail(orden), nueva.pagina)

\* ... and without the entry that was used first.
CambiaPrimera(lista, nueva) ==
    /\ REEMPLAZO_TLB # "FIFO" /\ Len(listaTLB) = ENTRADAS_TLB /\ Len(lista) = Len(listaTLB)
    /\ \A k \in 1..Len(lista)-1 : /\ lista[k].tiempoAcceso = k
                                  /\ \E j \in 1..Len(listaTLB) : lista[k] = listaTLB[j]
    /\ lista[Len(lista)] = nueva
    /\ indiceFIFO' = indiceFIFO
    /\ orden' = IF corrido THEN orden ELSE Append(Tail(orden), nueva.pagina)

AgregaLista(lista, nueva) ==
    CreceLista(lista, nueva) \/ CambiaIndice(lista, nueva) \/ CambiaPrimera(lista, nueva)

\* agregarTLB leaves one of them.
LEMMA AgregarLista ==
    ASSUME TLBInv, NEW p \in Nat, NEW m \in Marcos, AgregarTLB(p, m)
    PROVE  \E lista \in Seq(EntradasTLB), nueva \in EntradasTLB :
              /\ listaTLB' = Renumera(lista) /\ TiemposDistintos(lista)
              /\ Len(lista) <= ENTRADAS_TLB /\ indiceFIFO' \in 0..ENTRADAS_TLB-1
              /\ nueva.pagina = p /\ nueva.marco = m /\ nueva.tiempoAcceso = ENTRADAS_TLB
              /\ AgregaLista(lista, nueva)
<1> DEFINE nueva == newEntradaTLB(p, m)
           n == Len(listaTLB)
<1>1. /\ n \in Nat /\ DOMAIN listaTLB = 1..n /\ ENTRADAS_TLB \in Nat \ {0}
      /\ \A k \in 1..n : listaTLB[k] \in EntradasTLB
  BY ListaPropiedades, TLBAssumption DEF TLBInv
<1>2. /\ nueva \in EntradasTLB
      /\ nueva.pagina = p /\ nueva.marco = m /\ nueva.tiempoAcceso = ENTRADAS_TLB
  BY <1>1 DEF newEntradaTLB, tiempoAccesoGlobal, EntradasTLB
<1> DEFINE Deja(lista) ==
             /\ listaTLB' = Renumera(lista) /\ TiemposDistintos(lista)
             /\ Len(lista) <= ENTRADAS_TLB /\ indiceFIFO' \in 0..ENTRADAS_TLB-1
             /\ AgregaLista(lista, nueva)
<1> HIDE DEF nueva
<1>3. \A k \in 1..n : listaTLB[k].tiempoAcceso # ENTRADAS_TLB
  BY <1>1 DEF TLBInv
<1>4. CASE /\ n < ENTRADAS_TLB /\ listaTLB' = Renumera(Append(listaTLB, nueva))
           /\ UNCHANGED indiceFIFO /\ orden' = IF corrido THEN orden ELSE Append(orden, p)
  <2> DEFINE lista == Append(listaTLB, nueva)
  <2>1. /\ lista \in Seq(EntradasTLB) /\ Len(lista) = n + 1
        /\ \A k \in 1..n : lista[k] = listaTLB[k]
        /\ lista[n + 1] = nueva
    BY <1>2, AppendProperties DEF TLBInv
  <2> HIDE DEF lista
  <2>2. \A k \in 1..n+1 : k \in 1..n \/ k = n + 1
    BY <1>1
  <2>3. TiemposDistintos(lista)
    BY <2>1, <2>2, <1>2, <1>3 DEF TiemposDistintos, TLBInv
  <2>4. CreceLista(lista, nueva)
    BY <1>1, <1>2, <1>4, <2>1 DEF CreceLista
  <2>5. Len(lista) <= ENTRADAS_TLB /\ indiceFIFO' \in 0..ENTRADAS_TLB-1
    BY <1>1, <1>4, <2>1 DEF TLBInv
  <2>6. listaTLB' = Renumera(lista)
    BY <1>4 DEF lista
  <2>7. Deja(lista)
    BY <2>3, <2>4, <2>5, <2>6 DEF AgregaLista
  <2> QED  BY <1>2, <2>1, <2>7
<1>5. CASE /\ n = ENTRADAS_TLB /\ listaTLB' = Renumera(reemplazarTLB_FIFO(nueva))
           /\ indiceFIFO' = incrementarIndiceFIFO /\ REEMPLAZO_TLB = "FIFO"
           /\ orden' = IF corrido THEN orden ELSE Append(Tail(orden), p)
  <2> DEFINE lista == [listaTLB EXCEPT ![indiceFIFO + 1] = nueva]
  <2>1. indiceFIFO + 1 \in 1..n
    BY <1>1, <1>5 DEF TLBInv
  <2>2. /\ lista \in Seq(EntradasTLB) /\ Len(lista) = n
        /\ \A k \in 1..n : lista[k] = IF k = indiceFIFO + 1 THEN nueva ELSE listaTLB[k]
    BY <1>2, <2>1, ExceptSeq DEF TLBInv
  <2>3. listaTLB' = Renumera(lista)
    BY <1>5 DEF reemplazarTLB_FIFO
  <2> HIDE DEF lista
  <2>4. TiemposDistintos(lista)
    BY <2>2, <1>2, <1>3 DEF TiemposDistintos, TLBInv
  <2>5. CambiaIndice(lista, nueva)
    BY <1>2, <1>5, <2>2 DEF CambiaIndice
  <2>6. indiceFIFO' \in 0..ENTRADAS_TLB-1
    BY <1>1, <1>5 DEF TLBInv, incrementarIndiceFIFO
  <2>7. Deja(lista)
    BY <1>5, <2>2, <2>3, <2>4, <2>5, <2>6 DEF AgregaLista
  <2> QED  BY <1>2, <2>2, <2>7
<1>6. CASE /\ n = ENTRADAS_TLB /\ listaTLB' = Renumera(reemplazarTLB_LRU(nueva))
           /\ UNCHANGED indiceFIFO /\ REEMPLAZO_TLB # "FIFO"
           /\ orden' = IF corrido THEN orden ELSE Append(Tail(orden), p)
  <2> DEFINE resto == Tail(Ordenada)
             lista == Append(resto, nueva)
  <2>1. /\ Ordenada \in Seq(EntradasTLB) /\ Len(Ordenada) = n
        /\ \A k \in 1..n : /\ Ordenada[k].tiempoAcceso = k - 1
                           /\ \E j \in 1..n : Ordenada[k] = listaTLB[j]
    BY OrdenadaPropiedades
  <2>2. Ordenada # <<>>
    BY <1>1, <1>6, <2>1, EmptySeq
  <2>3. /\ resto \in Seq(EntradasTLB) /\ Len(resto) = n - 1
        /\ \A k \in 1..n-1 : resto[k] = Ordenada[k + 1]
    BY <2>1, <2>2, ListaPropiedades
  <2> HIDE DEF resto
  <2>4. /\ lista \in Seq(EntradasTLB) /\ Len(lista) = n
        /\ \A k \in 1..n-1 : lista[k] = resto[k]
        /\ lista[n] = nueva
    <3>1. /\ lista \in Seq(EntradasTLB) /\ Len(lista) = Len(resto) + 1
          /\ \A k \in 1..Len(resto) : lista[k] = resto[k]
          /\ lista[Len(resto) + 1] = nueva
      BY <1>2, <2>3, AppendProperties
    <3> QED  BY <3>1, <2>3, <1>1
  <2>5. listaTLB' = Renumera(lista)
    BY <1>6 DEF reemplazarTLB_LRU, resto
  <2> HIDE DEF lista
  <2>6. \A k \in 1..n-1 : /\ k \in 1..n /\ lista[k].tiempoAcceso = k
                          /\ \E j \in 1..n : lista[k] = listaTLB[j]
    <3> TAKE k \in 1..n-1
    <3>1. n \in Nat /\ k \in 1..n-1
      BY <1>1
    <3> DEFINE i == k + 1
    <3>2. k \in 1..n /\ i \in 1..n /\ i - 1 = k
      BY <3>1
    <3>3. lista[k] = Ordenada[i]
      BY <2>3, <2>4
    <3> HIDE DEF i
    <3>4. Ordenada[i].tiempoAcceso = i - 1 /\ \E j \in 1..n : Ordenada[i] = listaTLB[j]
      BY <2>1, <3>2
    <3> QED  BY <3>2, <3>3, <3>4
  <2>7. \A k \in 1..n : k \in 1..n-1 \/ k = n
    <3>1. n \in Nat
      BY <1>1
    <3> HIDE DEF n
    <3> QED  BY <3>1
  <2>8. \A k \in 1..n-1 : k # ENTRADAS_TLB
    BY <1>1, <1>6
  <2>9. TiemposDistintos(lista)
    <3> SUFFICES ASSUME NEW j \in 1..n, NEW k \in 1..n,
                        lista[j].tiempoAcceso = lista[k].tiempoAcceso
                 PROVE  j = k
      BY <2>4 DEF TiemposDistintos
    <3> QED  BY <1>2, <2>4, <2>6, <2>7, <2>8
  <2>10. CambiaPrimera(lista, nueva)
    BY <1>2, <1>6, <2>4, <2>6 DEF CambiaPrimera
  <2>11. Deja(lista)
    BY <1>6, <2>4, <2>5, <2>9, <2>10 DEF AgregaLista, TLBInv
  <2> QED  BY <1>2, <2>4, <2>11
<1> QED  BY <1>4, <1>5, <1>6 DEF AgregarTLB, nueva

\* agregarTLB keeps what was there, but for one entry, and adds the page.
LEMMA AgregarEfecto ==
    ASSUME TLBInv, NEW p \in Nat, NEW m \in Marcos, AgregarTLB(p, m)
    PROVE  TLBInv' /\ Agrega(listaTLB', listaTLB, p, m)
<1>1. PICK lista \in Seq(EntradasTLB), nueva \in EntradasTLB :
         /\ listaTLB' = Renumera(lista) /\ TiemposDistintos(lista)
         /\ Len(lista) <= ENTRADAS_TLB /\ indiceFIFO' \in 0..ENTRADAS_TLB-1
         /\ nueva.pagina = p /\ nueva.marco = m
         /\ AgregaLista(lista, nueva)
  BY AgregarLista
<1>2. Len(listaTLB) \in Nat /\ Len(lista) \in Nat
  BY ListaPropiedades DEF TLBInv
<1>3. \A k \in 1..Len(lista) : lista[k] = nueva \/ \E j \in 1..Len(listaTLB) : lista[k] = listaTLB[j]
  <2>1. CASE CreceLista(lista, nueva)
    BY <1>2, <2>1 DEF CreceLista
  <2>2. CASE CambiaIndice(lista, nueva)
    BY <2>2 DEF CambiaIndice
  <2>3. CASE CambiaPrimera(lista, nueva)
    <3>1. \A k \in 1..Len(lista) : k \in 1..Len(lista)-1 \/ k = Len(lista)
      BY <1>2
    <3> QED  BY <2>3, <3>1 DEF CambiaPrimera
  <2> QED  BY <1>1, <2>1, <2>2, <2>3 DEF AgregaLista
<1>4. Agrega(lista, listaTLB, p, m)
  BY <1>1, <1>3 DEF Agrega
<1> QED  BY <1>1, <1>4, RenumeradaPreserva

\* The entries of a list are those of the TLB, with the time of one set.
RetrasaEntrada(lista, i) ==
    /\ Len(lista) = Len(listaTLB)
    /\ \A k \in 1..Len(listaTLB) :
          /\ lista[k].pagina = listaTLB[k].pagina /\ lista[k].marco = listaTLB[k].marco
          /\ lista[k].tiempoAcceso = IF k = i THEN ENTRADAS_TLB ELSE listaTLB[k].tiempoAcceso

\* actualizarTLB sets the time of the entry of the page.
LEMMA ActualizarLista ==
    ASSUME TLBInv, NEW p \in PaginasTLB, ActualizarTLB(p)
    PROVE  \E lista \in Seq(EntradasTLB), i \in 1..Len(listaTLB) :
              /\ listaTLB' = Renumera(lista) /\ TiemposDistintos(lista)
              /\ listaTLB[i].pagina = p /\ MarcoTLB(p) = listaTLB[i].marco
              /\ RetrasaEntrada(lista, i)
<1> DEFINE n == Len(listaTLB)
           i == Posicion(p)
           e == [listaTLB[i] EXCEPT !.tiempoAcceso = ENTRADAS_TLB]
           lista == [listaTLB EXCEPT ![i] = e]
<1>1. /\ n \in Nat /\ DOMAIN listaTLB = 1..n /\ ENTRADAS_TLB \in Nat \ {0}
      /\ \A k \in 1..n : listaTLB[k] \in EntradasTLB
  BY ListaPropiedades, TLBAssumption DEF TLBInv
<1>2. i \in 1..n /\ listaTLB[i].pagina = p
  BY <1>1 DEF PaginasTLB, Posicion
<1>3. MarcoTLB(p) = listaTLB[i].marco
  BY DEF MarcoTLB
<1>4. listaTLB' = Renumera(lista)
  <2>1. [listaTLB EXCEPT ![i].tiempoAcceso = tiempoAccesoGlobal] = lista
    BY DEF tiempoAccesoGlobal
  <2> QED  BY <2>1 DEF ActualizarTLB
<1> HIDE DEF i
<1>5. /\ e \in EntradasTLB /\ e.pagina = listaTLB[i].pagina /\ e.marco = listaTLB[i].marco
      /\ e.tiempoAcceso = ENTRADAS_TLB
  BY <1>1, <1>2 DEF EntradasTLB
<1> HIDE DEF e
<1>6. /\ lista \in Seq(EntradasTLB) /\ Len(lista) = n
      /\ \A k \in 1..n : lista[k] = IF k = i THEN e ELSE listaTLB[k]
  BY <1>2, <1>5, ExceptSeq DEF TLBInv
<1> HIDE DEF lista
<1>7. \A k \in 1..n : listaTLB[k].tiempoAcceso # ENTRADAS_TLB
  BY <1>1 DEF TLBInv
<1>8. TiemposDistintos(lista)
  BY <1>5, <1>6, <1>7 DEF TiemposDistintos, TLBInv
<1>9. RetrasaEntrada(lista, i)
  BY <1>5, <1>6 DEF RetrasaEntrada
<1> QED  BY <1>2, <1>3, <1>4, <1>6, <1>8, <1>9

\* actualizarTLB only moves times.
LEMMA ActualizarEfecto ==
    ASSUME TLBInv, NEW p \in PaginasTLB, ActualizarTLB(p)
    PROVE  /\ TLBInv'
           /\ \A k \in 1..Len(listaTLB') :
                 \E j \in 1..Len(listaTLB) : /\ listaTLB'[k].pagina = listaTLB[j].pagina
                                             /\ listaTLB'[k].marco = listaTLB[j].marco
           /\ \E j \in 1..Len(listaTLB) : /\ p = listaTLB[j].pagina
                                          /\ MarcoTLB(p) = listaTLB[j].marco
<1>1. PICK lista \in Seq(EntradasTLB), i \in 1..Len(listaTLB) :
         /\ listaTLB' = Renumera(lista) /\ TiemposDistintos(lista)
         /\ listaTLB[i].pagina = p /\ MarcoTLB(p) = listaTLB[i].marco
         /\ RetrasaEntrada(lista, i)
  BY ActualizarLista
<1>2. Len(lista) <= ENTRADAS_TLB /\ indiceFIFO' \in 0..ENTRADAS_TLB-1
  BY <1>1 DEF TLBInv, ActualizarTLB, RetrasaEntrada
<1>3. Agrega(lista, listaTLB, listaTLB[i].pagina, listaTLB[i].marco)
  BY <1>1 DEF Agrega, RetrasaEntrada
<1>4. TLBInv' /\ Agrega(listaTLB', listaTLB, listaTLB[i].pagina, listaTLB[i].marco)
  BY <1>1, <1>2, <1>3, RenumeradaPreserva
<1> QED  BY <1>1, <1>4 DEF Agrega

\* vaciarTLB leaves the entries or none.
LEMMA VaciarEfecto ==
    ASSUME TLBInv, NEW p, VaciarTLB(p)
    PROVE  TLBInv' /\ listaTLB' = IF PCB_ACTUAL # p THEN <<>> ELSE listaTLB
<1>1. <<>> \in Seq(EntradasTLB) /\ Len(<<>>) = 0 /\ ENTRADAS_TLB \in Nat \ {0}
  BY EmptySeq, TLBAssumption
<1>2. CASE PCB_ACTUAL # p
  <2>1. listaTLB' = <<>> /\ indiceFIFO' = indiceFIFO
    BY <1>2 DEF VaciarTLB
  <2>2. Len(listaTLB') = 0
    BY <1>1, <2>1
  <2>3. \A k \in 1..Len(listaTLB') : FALSE
    BY <2>2
  <2>4. TLBInv'
    BY <1>1, <2>1, <2>2, <2>3 DEF TLBInv
  <2> QED  BY <1>2, <2>1, <2>4
<1>3. CASE PCB_ACTUAL = p
  BY <1>3 DEF VaciarTLB, TLBInv
<1> QED  BY <1>2, <1>3

-----------------------------------------------------------------------------
(* Pages *)

\* One page of one process changes.
LEMMA CambiaPagina ==
    ASSUME NEW S, NEW f, DeCadaPagina(f, S), NEW p \in Procesos, NEW i \in Paginas(p),
           NEW e \in S, NEW g, g = [f EXCEPT ![p] = [f[p] EXCEPT ![i] = e]]
    PROVE  DeCadaPagina(g, S)
BY DEF DeCadaPagina

\* All the pages of one process change.
LEMMA CambiaProceso ==
    ASSUME NEW S, NEW f, DeCadaPagina(f, S), NEW p \in Procesos,
           NEW h \in [Paginas(p) -> S], NEW g, g = [f EXCEPT ![p] = h]
    PROVE  DeCadaPagina(g, S)
BY DEF DeCadaPagina

\* The pages of a process are numbered from 0.
LEMMA PaginasNaturales ==
    ASSUME NEW p \in Procesos
    PROVE  /\ Paginas(p) \subseteq Nat
           /\ Paginas(p) # {} => 0 \in Paginas(p) /\ PAGINAS[p] \in Nat \ {0}
           /\ \A i \in Paginas(p) : (i + 1) % PAGINAS[p] \in Paginas(p)
<1>1. PAGINAS[p] \in Nat
  BY MemoriaAssumption
<1> DEFINE n == PAGINAS[p]
<1> HIDE DEF n
<1>2. \A i \in 0..n-1 : (i + 1) % n \in 0..n-1
  BY <1>1 DEF n
<1>3. 0..n-1 # {} => 0 \in 0..n-1 /\ n \in Nat \ {0}
  BY <1>1 DEF n
<1> QED  BY <1>1, <1>2, <1>3 DEF n, Paginas

\* Any element of a page is one of its type.
LEMMA PaginaTipo ==
    ASSUME NEW S, NEW f, DeCadaPagina(f, S), NEW p \in Procesos, NEW i \in Paginas(p)
    PROVE  f[p][i] \in S
BY DEF DeCadaPagina

-----------------------------------------------------------------------------
(* Types, presence and the search for a victim *)

\* The control and data invariants give the type invariant the runs check.
LEMMA TipoSale == ControlInv /\ DatosInv => TypeOK
BY DEF ControlInv, TipoControl, DatosInv, TipoAcceso, TipoEstados, TipoContenido, TypeOK,
   Fases, Peticiones, EntradasPagina

\* The tables, the frames and the TLB start empty.
LEMMA DatosInicial == InitMV => DatosInv
<1> SUFFICES ASSUME InitMV PROVE DatosInv
  OBVIOUS
<1> USE DEF InitMV, Init, InitMMU
<1>1. TipoAcceso /\ BusquedaInv
  BY DEF TipoAcceso, BusquedaInv
<1>2. TipoEstados
  BY MemoriaAssumption DEF TipoEstados
<1>3. TipoContenido
  BY MemoriaAssumption DEF TipoContenido, DeCadaPagina, Datos
<1>4. DeCadaPagina(entradas, EntradasPagina) /\ ModificadaPresente
  BY DEF DeCadaPagina, EntradasPagina, EntradaNueva, ModificadaPresente
<1>5. TLBInv
  <2>1. <<>> \in Seq(EntradasTLB) /\ Len(<<>>) = 0 /\ ENTRADAS_TLB \in Nat \ {0}
    BY EmptySeq, TLBAssumption
  <2>2. \A k \in 1..Len(listaTLB) : FALSE
    BY <2>1
  <2> QED  BY <2>1, <2>2 DEF TLBInv
<1> QED  BY <1>1, <1>2, <1>3, <1>4, <1>5 DEF DatosInv

\* The Kernel touches nothing of Memoria, and its TLB is what vaciarTLB leaves.
LEMMA DatosKernel ==
    ASSUME DatosInv, UNCHANGED <<varsAcceso, estadosPCBS, entradas, bitarray, memoria, swap, esperado>>,
           suspensiones' \in 0..MaxSuspensiones, TLBInv'
    PROVE  DatosInv'
<1> USE DEF varsAcceso
<1>1. TipoAcceso' /\ TipoEstados' /\ TipoContenido'
  BY DEF DatosInv, TipoAcceso, TipoEstados, TipoContenido, DeCadaPagina
<1>2. DeCadaPagina(entradas', EntradasPagina) /\ ModificadaPresente' /\ BusquedaInv'
  BY DEF DatosInv, DeCadaPagina, ModificadaPresente, BusquedaInv, Entrada, Estado
<1> QED  BY <1>1, <1>2 DEF DatosInv

\* The request that is served is not of the process in the CPU.
LEMMA CabezaAjena ==
    ASSUME ControlInv, colaKernel # <<>>
    PROVE  /\ Head(colaKernel) = colaKernel[1] /\ colaKernel[1].id \in Procesos
           /\ fase[colaKernel[1].id] \in {"creando", "suspendiendo", "fin"}
           /\ colaKernel[1].codigo = "CREAR" => fase[colaKernel[1].id] = "creando"
           /\ colaKernel[1].codigo = "SUSP" => fase[colaKernel[1].id] = "suspendiendo"
           /\ colaKernel[1].id # ejecutando
           /\ pcCPU # "libre" => consulta.id # colaKernel[1].id
<1>1. /\ Head(colaKernel) = colaKernel[1] /\ 1 \in 1..Len(colaKernel)
      /\ colaKernel[1] \in Peticiones
  BY ListaPropiedades DEF ControlInv, TipoControl
<1>2. /\ colaKernel[1].id \in Procesos
      /\ colaKernel[1].codigo = "CREAR" => fase[colaKernel[1].id] = "creando"
      /\ colaKernel[1].codigo = "SUSP" => fase[colaKernel[1].id] = "suspendiendo"
      /\ fase[colaKernel[1].id] \in {"creando", "suspendiendo", "fin"}
  BY <1>1 DEF Peticiones, ControlInv, ColaKernelInv
<1>3. colaKernel[1].id # ejecutando
  BY <1>2, MemoriaAssumption DEF ControlInv, EjecutandoInv
<1> QED  BY <1>1, <1>2, <1>3 DEF ControlInv, EjecutandoInv

\* Creating a process gives it fresh entries (memoria.c:96-134).
LEMMA DatosCrear ==
    ASSUME ControlInv, DatosInv, CrearProceso, UNCHANGED varsMMU
    PROVE  DatosInv'
<1> DEFINE p == colaKernel[1].id
           nuevas == [i \in Paginas(p) |-> EntradaNueva]
           ceros == [i \in Paginas(p) |-> "0"]
<1> USE DEF varsAcceso, varsMMU
<1>1. /\ Head(colaKernel).id = p /\ p \in Procesos
      /\ pcCPU # "libre" => consulta.id # p
  BY CabezaAjena DEF CrearProceso, Cabeza
<1>2. /\ entradas' = [entradas EXCEPT ![p] = nuevas]
      /\ estadosPCBS' = [estadosPCBS EXCEPT ![p] = [marcosOcupados |-> 0, punteroClock |-> 0]]
      /\ swap' = [swap EXCEPT ![p] = ceros]
      /\ UNCHANGED <<suspensiones, pcCPU, consulta, victima, marco, bitarray, memoria, esperado,
                     listaTLB, indiceFIFO>>
  BY <1>1 DEF CrearProceso
<1>3. nuevas \in [Paginas(p) -> EntradasPagina] /\ ceros \in [Paginas(p) -> Datos]
  BY DEF EntradasPagina, EntradaNueva, Datos
<1>4. /\ DeCadaPagina(entradas', EntradasPagina)
      /\ \A q \in Procesos : \A j \in Paginas(q) :
            entradas'[q][j] = IF q = p THEN EntradaNueva ELSE entradas[q][j]
  <2>1. /\ DeCadaPagina(entradas', EntradasPagina)
        /\ \A q \in Procesos : \A j \in Paginas(q) :
              entradas'[q][j] = IF q = p THEN nuevas[j] ELSE entradas[q][j]
    <3>1. DeCadaPagina(entradas, EntradasPagina)
      BY DEF DatosInv
    <3>2. p \in Procesos /\ entradas' = [entradas EXCEPT ![p] = nuevas]
      BY <1>1, <1>2
    <3> HIDE DEF p, nuevas
    <3>3. DeCadaPagina(entradas', EntradasPagina)
      BY <1>3, <3>1, <3>2, CambiaProceso
    <3>4. \A q \in Procesos : entradas'[q] = IF q = p THEN nuevas ELSE entradas[q]
      BY <3>1, <3>2 DEF DeCadaPagina
    <3> QED  BY <3>3, <3>4
  <2> QED  BY <2>1
<1>5. DeCadaPagina(swap', Datos)
  BY <1>1, <1>2, <1>3, CambiaProceso DEF DatosInv, TipoContenido
<1>6. TipoAcceso'
  BY <1>2 DEF DatosInv, TipoAcceso
<1>7. TipoEstados'
  BY <1>1, <1>2, MemoriaAssumption DEF DatosInv, TipoEstados
<1>8. TipoContenido'
  BY <1>2, <1>5 DEF DatosInv, TipoContenido, DeCadaPagina
<1>9. ModificadaPresente'
  BY <1>4 DEF DatosInv, ModificadaPresente, EntradaNueva
<1>10. BusquedaInv'
  <2>1. CASE pcCPU = "libre"
    BY <1>2, <2>1 DEF BusquedaInv
  <2>2. CASE pcCPU # "libre"
    <3>1. consulta.id \in Procesos /\ consulta.id # p
          /\ consulta.pagina \in Paginas(consulta.id) /\ victima \in Paginas(consulta.id)
      BY <1>1, <2>2 DEF DatosInv, TipoAcceso
    <3>2. /\ entradas'[consulta.id][consulta.pagina] = entradas[consulta.id][consulta.pagina]
          /\ entradas'[consulta.id][victima] = entradas[consulta.id][victima]
          /\ estadosPCBS'[consulta.id] = estadosPCBS[consulta.id]
      BY <1>2, <1>4, <3>1 DEF DatosInv, TipoEstados
    <3> QED  BY <1>2, <3>2 DEF DatosInv, BusquedaInv, Entrada, Estado
  <2> QED  BY <2>1, <2>2
<1>11. TLBInv'
  BY <1>2 DEF DatosInv, TLBInv
<1> QED  BY <1>4, <1>6, <1>7, <1>8, <1>9, <1>10, <1>11 DEF DatosInv

\* Suspending a process writes its modified pages back, which end without
\* frame (memoria.c:292-328).
LEMMA DatosSwapea ==
    ASSUME ControlInv, DatosInv, SwapeaEntradas, UNCHANGED varsMMU
    PROVE  DatosInv'
<1> DEFINE p == colaKernel[1].id
           sucias == {i \in Presentes(p) : entradas[p][i].modificado}
           quedan == [i \in Paginas(p) |->
                        IF i \in sucias THEN Swapeada(entradas[p][i]) ELSE entradas[p][i]]
<1> USE DEF varsAcceso, varsMMU, varsProc
<1>1. Head(colaKernel).id = p /\ p \in Procesos
  BY CabezaAjena DEF SwapeaEntradas, Cabeza
<1>2. /\ swap' = [swap EXCEPT ![p] = Guardadas(p, sucias)]
      /\ entradas' = [entradas EXCEPT ![p] = quedan]
      /\ bitarray' = bitarray \ {entradas[p][i].marco : i \in sucias}
      /\ pcCPU \notin {"clock", "reemplaza"}
      /\ UNCHANGED <<suspensiones, pcCPU, consulta, victima, marco, estadosPCBS, memoria,
                     esperado, listaTLB, indiceFIFO>>
  BY <1>1 DEF SwapeaEntradas, MutexLibre
<1>3. \A i \in Paginas(p) :
         /\ entradas[p][i] \in EntradasPagina /\ swap[p][i] \in Datos
         /\ i \in sucias => entradas[p][i].marco \in Marcos
  BY <1>1, PaginaTipo DEF DatosInv, TipoContenido, ModificadaPresente, Presentes
<1>4. Guardadas(p, sucias) \in [Paginas(p) -> Datos]
  <2>1. \A i \in Paginas(p) : i \in sucias => memoria[entradas[p][i].marco] \in Datos
    BY <1>3 DEF DatosInv, TipoContenido
  <2> HIDE DEF sucias
  <2> QED  BY <1>3, <2>1 DEF Guardadas
<1>5. quedan \in [Paginas(p) -> EntradasPagina]
  <2>1. \A i \in Paginas(p) : Swapeada(entradas[p][i]) \in EntradasPagina
    BY <1>3 DEF Swapeada, EntradasPagina
  <2> HIDE DEF sucias
  <2> QED  BY <1>3, <2>1
<1>6. /\ DeCadaPagina(entradas', EntradasPagina)
      /\ \A q \in Procesos : \A j \in Paginas(q) :
            entradas'[q][j] = IF q = p THEN quedan[j] ELSE entradas[q][j]
  <2>1. DeCadaPagina(entradas, EntradasPagina)
    BY DEF DatosInv
  <2>2. p \in Procesos /\ entradas' = [entradas EXCEPT ![p] = quedan]
    BY <1>1, <1>2
  <2> HIDE DEF p, quedan
  <2>3. DeCadaPagina(entradas', EntradasPagina)
    BY <1>5, <2>1, <2>2, CambiaProceso
  <2>4. \A q \in Procesos : entradas'[q] = IF q = p THEN quedan ELSE entradas[q]
    BY <2>1, <2>2 DEF DeCadaPagina
  <2> QED  BY <2>3, <2>4
<1>7. DeCadaPagina(swap', Datos)
  BY <1>1, <1>2, <1>4, CambiaProceso DEF DatosInv, TipoContenido
<1>8. TipoAcceso' /\ TipoEstados' /\ TLBInv' /\ BusquedaInv'
  BY <1>2 DEF DatosInv, TipoAcceso, TipoEstados, TLBInv, BusquedaInv
<1>9. TipoContenido'
  BY <1>2, <1>7 DEF DatosInv, TipoContenido, DeCadaPagina
<1>10. ModificadaPresente'
  <2>1. \A i \in Paginas(p) : /\ quedan[i].presencia => quedan[i].marco \in Marcos
                              /\ quedan[i].modificado => quedan[i].presencia
    <3> TAKE i \in Paginas(p)
    <3>1. CASE i \in sucias
      <4>1. quedan[i] = Swapeada(entradas[p][i])
        BY <3>1
      <4>2. ~quedan[i].presencia /\ ~quedan[i].modificado
        BY <4>1, <1>3 DEF Swapeada, EntradasPagina
      <4> QED  BY <4>2
    <3>2. CASE i \notin sucias
      BY <1>1, <3>2 DEF DatosInv, ModificadaPresente
    <3> QED  BY <3>1, <3>2
  <2> HIDE DEF quedan
  <2> QED  BY <1>6, <2>1 DEF DatosInv, ModificadaPresente
<1> QED  BY <1>6, <1>8, <1>9, <1>10 DEF DatosInv

\* Emptying the list of the occupied frames of a suspended process
\* (memoria.c:329-335).
LEMMA DatosResetea ==
    ASSUME ControlInv, DatosInv, ReseteaOcupados, UNCHANGED varsMMU
    PROVE  DatosInv'
<1> DEFINE p == colaKernel[1].id
<1> USE DEF varsAcceso, varsMMU, varsProc
<1>1. /\ Head(colaKernel).id = p /\ p \in Procesos
      /\ pcCPU # "libre" => consulta.id # p
  BY CabezaAjena DEF ReseteaOcupados, ControlInv, ColaKernelInv
<1>2. /\ estadosPCBS' = [estadosPCBS EXCEPT ![p] = [estadosPCBS[p] EXCEPT !.marcosOcupados = 0]]
      /\ UNCHANGED <<suspensiones, pcCPU, consulta, victima, marco, entradas, bitarray, memoria,
                     swap, esperado, listaTLB, indiceFIFO>>
  BY <1>1 DEF ReseteaOcupados
<1>3. TipoAcceso' /\ TipoContenido' /\ DeCadaPagina(entradas', EntradasPagina)
      /\ ModificadaPresente' /\ TLBInv'
  BY <1>2 DEF DatosInv, TipoAcceso, TipoContenido, DeCadaPagina, ModificadaPresente, TLBInv
<1>4. TipoEstados'
  BY <1>1, <1>2, MemoriaAssumption DEF DatosInv, TipoEstados
<1>5. BusquedaInv'
  <2>1. pcCPU # "libre" => estadosPCBS'[consulta.id] = estadosPCBS[consulta.id]
    BY <1>1, <1>2 DEF DatosInv, TipoEstados, TipoAcceso
  <2> QED  BY <1>2, <2>1 DEF DatosInv, BusquedaInv, Entrada, Estado
<1> QED  BY <1>3, <1>4, <1>5 DEF DatosInv

\* Ending a suspension or a process (server.c:85-109, memoria.c:260-290).
LEMMA DatosTermina ==
    ASSUME ControlInv, DatosInv, TerminaSuspension \/ FinProceso, UNCHANGED varsMMU
    PROVE  DatosInv'
<1> DEFINE p == colaKernel[1].id
           equis == [i \in Paginas(p) |-> "X"]
<1> USE DEF varsAcceso, varsMMU, varsProc
<1>1. Head(colaKernel).id = p /\ p \in Procesos
  BY CabezaAjena DEF TerminaSuspension, FinProceso, Cabeza, ControlInv, ColaKernelInv
<1>2. /\ bitarray' \subseteq bitarray
      /\ swap' = swap \/ swap' = [swap EXCEPT ![p] = equis]
      /\ UNCHANGED <<suspensiones, pcCPU, consulta, victima, marco, entradas, estadosPCBS, memoria,
                     esperado, listaTLB, indiceFIFO>>
  BY <1>1 DEF TerminaSuspension, FinProceso, EliminarMarcos
<1>3. DeCadaPagina(swap', Datos)
  <2>1. equis \in [Paginas(p) -> Datos]
    BY DEF Datos
  <2> HIDE DEF equis
  <2> QED  BY <1>1, <1>2, <2>1, CambiaProceso DEF DatosInv, TipoContenido
<1>4. TipoContenido'
  BY <1>2, <1>3 DEF DatosInv, TipoContenido, DeCadaPagina
<1>5. TipoAcceso' /\ TipoEstados' /\ DeCadaPagina(entradas', EntradasPagina)
      /\ ModificadaPresente' /\ TLBInv' /\ BusquedaInv'
  BY <1>2 DEF DatosInv, TipoAcceso, TipoEstados, DeCadaPagina, ModificadaPresente, TLBInv,
     BusquedaInv, Entrada, Estado
<1> QED  BY <1>4, <1>5 DEF DatosInv

\* An entry of the tables changes, to one that is present if it is modified.
LEMMA CambiaEntrada ==
    ASSUME DatosInv, NEW p \in Procesos, NEW i \in Paginas(p), NEW e \in EntradasPagina,
           e.presencia => e.marco \in Marcos, e.modificado => e.presencia,
           entradas' = [entradas EXCEPT ![p] = [entradas[p] EXCEPT ![i] = e]]
    PROVE  /\ DeCadaPagina(entradas', EntradasPagina)
           /\ ModificadaPresente'
           /\ \A q \in Procesos : \A j \in Paginas(q) :
                 entradas'[q][j] = IF q = p /\ j = i THEN e ELSE entradas[q][j]
<1>1. DeCadaPagina(entradas, EntradasPagina)
  BY DEF DatosInv
<1>2. DeCadaPagina(entradas', EntradasPagina)
  BY <1>1, CambiaPagina
<1>3. \A q \in Procesos : \A j \in Paginas(q) :
         entradas'[q][j] = IF q = p /\ j = i THEN e ELSE entradas[q][j]
  BY <1>1 DEF DeCadaPagina
<1>4. ModificadaPresente'
  BY <1>3 DEF DatosInv, ModificadaPresente
<1> QED  BY <1>2, <1>3, <1>4

\* What an access uses.
LEMMA ConsultaTipo ==
    ASSUME DatosInv, pcCPU # "libre"
    PROVE  /\ consulta.id \in Procesos /\ consulta.pagina \in Paginas(consulta.id)
           /\ victima \in Paginas(consulta.id) /\ 0 \in Paginas(consulta.id)
           /\ consulta.pagina \in Nat /\ consulta.esWrite \in BOOLEAN
           /\ entradas[consulta.id][consulta.pagina] \in EntradasPagina
           /\ entradas[consulta.id][victima] \in EntradasPagina
           /\ Entrada.presencia => Entrada.marco \in Marcos
           /\ entradas[consulta.id][victima].presencia
                => entradas[consulta.id][victima].marco \in Marcos
<1>1. /\ consulta.id \in Procesos /\ consulta.pagina \in Paginas(consulta.id)
      /\ victima \in Paginas(consulta.id) /\ consulta.pagina \in Nat
      /\ consulta.esWrite \in BOOLEAN
  BY DEF DatosInv, TipoAcceso
<1>2. 0 \in Paginas(consulta.id)
  BY <1>1, PaginasNaturales
<1>3. /\ entradas[consulta.id][consulta.pagina] \in EntradasPagina
      /\ entradas[consulta.id][victima] \in EntradasPagina
  BY <1>1, PaginaTipo DEF DatosInv
<1> QED  BY <1>1, <1>2, <1>3 DEF DatosInv, ModificadaPresente, Entrada

\* An access of the CPU starts with the frame its TLB holds or with none.
LEMMA DatosAccede ==
    ASSUME ControlInv, DatosInv, AccedeAcierto \/ AccedeFallo
    PROVE  DatosInv'
<1> USE DEF varsAcceso, varsMMU, varsProc
<1>1. PICK i \in Paginas(ejecutando), w \in Accesos :
         consulta' = [id |-> ejecutando, pagina |-> i, esWrite |-> w]
  BY DEF AccedeAcierto, AccedeFallo, Accede
<1>2. /\ ejecutando \in Procesos /\ pcCPU = "libre" /\ pcCPU' \in {"marco", "acceso"}
      /\ UNCHANGED <<victima, suspensiones, estadosPCBS, entradas, bitarray, memoria, swap, esperado>>
  BY DEF AccedeAcierto, AccedeFallo, Accede, ControlInv, TipoControl
<1>3. TLBInv' /\ IF pcCPU' = "acceso" THEN marco' \in Marcos ELSE marco' = SIN_MARCO
  <2>1. CASE AccedeFallo
    BY <1>2, <2>1 DEF AccedeFallo, Accede, DatosInv, TLBInv, TipoAcceso
  <2>2. CASE AccedeAcierto
    <3>1. PICK j \in PaginasTLB : marco' = MarcoTLB(j) /\ ActualizarTLB(j) /\ pcCPU' = "acceso"
      BY <2>2 DEF AccedeAcierto
    <3>2. PICK k \in 1..Len(listaTLB) : MarcoTLB(j) = listaTLB[k].marco
      BY <3>1, ActualizarEfecto DEF DatosInv
    <3>3. listaTLB[k] \in EntradasTLB
      BY <3>2, ListaPropiedades DEF DatosInv, TLBInv
    <3>4. TLBInv'
      BY <3>1, ActualizarEfecto DEF DatosInv
    <3> QED  BY <3>1, <3>2, <3>3, <3>4 DEF EntradasTLB
  <2> QED  BY <2>1, <2>2
<1>4. TipoAcceso'
  <2>1. /\ victima' = 0 /\ 0 \in Paginas(ejecutando) /\ i \in Nat /\ w \in BOOLEAN
    BY <1>1, <1>2, PaginasNaturales, MemoriaAssumption DEF DatosInv, TipoAcceso
  <2> QED  BY <1>1, <1>2, <1>3, <2>1 DEF TipoAcceso
<1>5. /\ TipoEstados' /\ TipoContenido' /\ DeCadaPagina(entradas', EntradasPagina)
      /\ ModificadaPresente'
  BY <1>2 DEF DatosInv, TipoEstados, TipoContenido, DeCadaPagina, ModificadaPresente
<1>6. BusquedaInv'
  BY <1>2 DEF BusquedaInv
<1> QED  BY <1>3, <1>4, <1>5, <1>6 DEF DatosInv

\* Usada keeps an entry that is present as it was, but for its bits.
LEMMA UsadaTipo ==
    ASSUME NEW e \in EntradasPagina, consulta.esWrite \in BOOLEAN
    PROVE  /\ Usada(e) \in EntradasPagina
           /\ Usada(e).marco = e.marco /\ Usada(e).presencia = e.presencia
BY DEF Usada, EntradasPagina

\* The TLB after an answer of Memoria.
LEMMA RespondeEfecto ==
    ASSUME DatosInv, RespondeMarco, consulta.pagina \in Nat, marco' \in Marcos
    PROVE  TLBInv' /\ Agrega(listaTLB', listaTLB, consulta.pagina, marco')
<1>1. PICK p \in Nat, m \in Marcos : p = consulta.pagina /\ m = marco'
  OBVIOUS
<1>2. AgregarTLB(p, m)
  BY <1>1 DEF RespondeMarco, AgregarTLB, newEntradaTLB
<1>3. TLBInv' /\ Agrega(listaTLB', listaTLB, p, m)
  BY <1>2, AgregarEfecto DEF DatosInv
<1> QED  BY <1>1, <1>3

\* A page that is present is answered with its frame (memoria.c:191-203).
LEMMA DatosMarcoPresente ==
    ASSUME DatosInv, MarcoPresenteMV
    PROVE  /\ DatosInv'
           /\ Agrega(listaTLB', listaTLB, consulta.pagina, marco')
           /\ entradas'[consulta.id][consulta.pagina].marco = marco'
           /\ \A q \in Procesos : \A j \in Paginas(q) :
                 /\ entradas'[q][j].presencia = entradas[q][j].presencia
                 /\ entradas'[q][j].marco = entradas[q][j].marco
<1> DEFINE p == consulta.id
           i == consulta.pagina
           e == Usada(entradas[p][i])
<1> USE DEF varsAcceso, varsMMU, varsProc, ObtieneMarco
<1>1. /\ pcCPU = "marco" /\ pcCPU' = "acceso" /\ Entrada.presencia /\ marco' = Entrada.marco
      /\ entradas' = [entradas EXCEPT ![p] = [entradas[p] EXCEPT ![i] = e]]
      /\ UNCHANGED <<consulta, victima, suspensiones, estadosPCBS, bitarray, memoria, swap, esperado>>
      /\ RespondeMarco
  BY DEF MarcoPresenteMV, MarcoPresente
<1>2. /\ p \in Procesos /\ i \in Paginas(p) /\ i \in Nat /\ consulta.esWrite \in BOOLEAN
      /\ entradas[p][i] \in EntradasPagina /\ marco' \in Marcos
  BY <1>1, ConsultaTipo
<1>3. /\ e \in EntradasPagina /\ e.marco = entradas[p][i].marco /\ e.presencia
      /\ e.presencia = entradas[p][i].presencia /\ e.marco \in Marcos
  BY <1>1, <1>2, UsadaTipo DEF Entrada
<1> HIDE DEF e
<1>4. /\ DeCadaPagina(entradas', EntradasPagina) /\ ModificadaPresente'
      /\ \A q \in Procesos : \A j \in Paginas(q) :
            entradas'[q][j] = IF q = p /\ j = i THEN e ELSE entradas[q][j]
  BY <1>1, <1>2, <1>3, CambiaEntrada
<1>5. TLBInv' /\ Agrega(listaTLB', listaTLB, i, marco')
  BY <1>1, <1>2, RespondeEfecto
<1>6. TipoAcceso' /\ TipoEstados' /\ TipoContenido' /\ BusquedaInv'
  BY <1>1, <1>2 DEF DatosInv, TipoAcceso, TipoEstados, TipoContenido, DeCadaPagina, BusquedaInv
<1>7. \A q \in Procesos : \A j \in Paginas(q) :
         /\ entradas'[q][j].presencia = entradas[q][j].presencia
         /\ entradas'[q][j].marco = entradas[q][j].marco
  BY <1>3, <1>4
<1>8. entradas'[p][i].marco = marco'
  BY <1>1, <1>2, <1>7 DEF Entrada
<1>9. DatosInv'
  BY <1>4, <1>5, <1>6 DEF DatosInv
<1> QED  BY <1>5, <1>7, <1>8, <1>9

\* A page that is absent takes a free frame (memoria.c:207-214).
LEMMA DatosMarcoLibre ==
    ASSUME DatosInv, MarcoLibreMV
    PROVE  /\ DatosInv' /\ marco' \in Marcos
           /\ Agrega(listaTLB', listaTLB, consulta.pagina, marco')
           /\ estadosPCBS' = [estadosPCBS EXCEPT ![consulta.id] =
                 [estadosPCBS[consulta.id] EXCEPT !.marcosOcupados = @ + 1]]
           /\ \A q \in Procesos : \A j \in Paginas(q) :
                 IF q = consulta.id /\ j = consulta.pagina
                   THEN entradas'[q][j].presencia /\ entradas'[q][j].marco = marco'
                   ELSE entradas'[q][j] = entradas[q][j]
<1> DEFINE p == consulta.id
           i == consulta.pagina
           carga == [entradas[p][i] EXCEPT !.marco = marco', !.presencia = TRUE]
           e == Usada(carga)
<1> USE DEF varsAcceso, varsMMU, varsProc, ObtieneMarco
<1>1. /\ pcCPU = "marco" /\ pcCPU' = "acceso" /\ ~Entrada.presencia
      /\ Estado.marcosOcupados < MARCOS_POR_PROCESO
      /\ marco' \in Marcos /\ bitarray' = bitarray \union {marco'}
      /\ memoria' = [memoria EXCEPT ![marco'] = swap[p][i]]
      /\ entradas' = [entradas EXCEPT ![p] = [entradas[p] EXCEPT ![i] = e]]
      /\ estadosPCBS' = [estadosPCBS EXCEPT ![p] =
            [estadosPCBS[p] EXCEPT !.marcosOcupados = estadosPCBS[p].marcosOcupados + 1]]
      /\ UNCHANGED <<consulta, victima, suspensiones, swap, esperado>>
      /\ RespondeMarco
  BY DEF MarcoLibreMV, MarcoLibre, TomaMarco, Carga
<1>2. /\ p \in Procesos /\ i \in Paginas(p) /\ i \in Nat /\ consulta.esWrite \in BOOLEAN
      /\ entradas[p][i] \in EntradasPagina
  BY <1>1, ConsultaTipo
<1>3. carga \in EntradasPagina /\ carga.presencia /\ carga.marco = marco'
  BY <1>1, <1>2 DEF EntradasPagina
<1> HIDE DEF carga
<1>4. e \in EntradasPagina /\ e.presencia /\ e.marco = marco'
  BY <1>2, <1>3, UsadaTipo
<1> HIDE DEF e
<1>5. /\ DeCadaPagina(entradas', EntradasPagina) /\ ModificadaPresente'
      /\ \A q \in Procesos : \A j \in Paginas(q) :
            entradas'[q][j] = IF q = p /\ j = i THEN e ELSE entradas[q][j]
  BY <1>1, <1>2, <1>4, CambiaEntrada
<1>6. TLBInv' /\ Agrega(listaTLB', listaTLB, i, marco')
  BY <1>1, <1>2, RespondeEfecto
<1>7. TipoAcceso' /\ BusquedaInv'
  BY <1>1, <1>2 DEF DatosInv, TipoAcceso, BusquedaInv
<1>8. TipoEstados'
  <2>1. estadosPCBS[p].marcosOcupados + 1 \in 0..MARCOS_POR_PROCESO
    BY <1>1, <1>2, MemoriaAssumption DEF DatosInv, TipoEstados, Estado
  <2> QED  BY <1>1, <1>2, <2>1 DEF DatosInv, TipoEstados
<1>9. TipoContenido'
  <2>1. swap[p][i] \in Datos
    BY <1>2, PaginaTipo DEF DatosInv, TipoContenido
  <2>2. memoria' \in [Marcos -> Datos] /\ bitarray' \subseteq Marcos
    BY <1>1, <2>1 DEF DatosInv, TipoContenido
  <2> QED  BY <1>1, <2>2 DEF DatosInv, TipoContenido, DeCadaPagina
<1> QED  BY <1>1, <1>4, <1>5, <1>6, <1>7, <1>8, <1>9 DEF DatosInv

\* A page that is absent takes the frame of a victim, whose entry loses it.
LEMMA DatosReemplaza ==
    ASSUME DatosInv, ReemplazaMV
    PROVE  /\ DatosInv' /\ marco' \in Marcos
           /\ Agrega(listaTLB', listaTLB, consulta.pagina, marco')
           /\ estadosPCBS' = IF entradas[consulta.id][victima].modificado
                               THEN [estadosPCBS EXCEPT ![consulta.id] =
                                       [estadosPCBS[consulta.id] EXCEPT !.marcosOcupados = @ - 1]]
                               ELSE estadosPCBS
           /\ victima # consulta.pagina
           /\ \A q \in Procesos : \A j \in Paginas(q) :
                 IF q = consulta.id /\ j = consulta.pagina
                   THEN entradas'[q][j].presencia /\ entradas'[q][j].marco = marco'
                   ELSE /\ entradas'[q][j].marco = entradas[q][j].marco
                        /\ IF q = consulta.id /\ j = victima
                             THEN entradas'[q][j].presencia =
                                    (entradas[q][j].presencia /\ ~entradas[q][j].modificado)
                             ELSE entradas'[q][j].presencia = entradas[q][j].presencia
<1> DEFINE p == consulta.id
           i == consulta.pagina
           v == entradas[p][victima]
           sale == IF v.modificado THEN [v EXCEPT !.modificado = FALSE, !.presencia = FALSE] ELSE v
           swapDe == IF v.modificado THEN [swap[p] EXCEPT ![victima] = memoria[v.marco]] ELSE swap[p]
           g == [entradas EXCEPT ![p] = [entradas[p] EXCEPT ![victima] = sale]]
           carga == [entradas[p][i] EXCEPT !.marco = marco', !.presencia = TRUE]
           e == Usada(carga)
<1> USE DEF varsAcceso, varsMMU, varsProc, ObtieneMarco
<1>1. /\ pcCPU = "reemplaza" /\ pcCPU' = "acceso" /\ marco' = v.marco /\ victima' = 0
      /\ swap' = [swap EXCEPT ![p] = swapDe]
      /\ estadosPCBS' = IF v.modificado
                          THEN [estadosPCBS EXCEPT ![p] =
                                  [estadosPCBS[p] EXCEPT !.marcosOcupados = estadosPCBS[p].marcosOcupados - 1]]
                          ELSE estadosPCBS
      /\ memoria' = [memoria EXCEPT ![v.marco] = swapDe[i]]
      /\ UNCHANGED <<consulta, suspensiones, bitarray, esperado>>
      /\ RespondeMarco
  <2>1. pcCPU = "reemplaza" /\ victima' = 0 /\ bitarray' = bitarray /\ RespondeMarco
    BY DEF ReemplazaMV, Reemplaza
  <2>2. /\ pcCPU' = "acceso" /\ marco' = v.marco
        /\ UNCHANGED <<consulta, suspensiones, esperado>>
    BY DEF ReemplazaMV, Reemplaza
  <2>3. swap' = [swap EXCEPT ![p] = swapDe]
    BY DEF ReemplazaMV, Reemplaza
  <2>4. estadosPCBS' = IF v.modificado
                         THEN [estadosPCBS EXCEPT ![p] =
                                 [estadosPCBS[p] EXCEPT !.marcosOcupados = estadosPCBS[p].marcosOcupados - 1]]
                         ELSE estadosPCBS
    BY DEF ReemplazaMV, Reemplaza
  <2>5. memoria' = [memoria EXCEPT ![v.marco] = swapDe[i]]
    BY DEF ReemplazaMV, Reemplaza, Carga
  <2> QED  BY <2>1, <2>2, <2>3, <2>4, <2>5
<1>2. /\ p \in Procesos /\ i \in Paginas(p) /\ i \in Nat /\ consulta.esWrite \in BOOLEAN
      /\ victima \in Paginas(p) /\ 0 \in Paginas(p)
      /\ entradas[p][i] \in EntradasPagina /\ v \in EntradasPagina
      /\ v.presencia /\ ~entradas[p][i].presencia /\ victima # i
      /\ v.marco \in Marcos
      /\ estadosPCBS[p].marcosOcupados >= MARCOS_POR_PROCESO
  BY <1>1, ConsultaTipo DEF DatosInv, BusquedaInv, Entrada, Estado
<1>3. /\ sale \in EntradasPagina /\ sale.marco = v.marco
      /\ sale.presencia = (v.presencia /\ ~v.modificado)
      /\ sale.modificado => sale.presencia
  BY <1>2 DEF EntradasPagina
<1>4. carga \in EntradasPagina /\ carga.presencia /\ carga.marco = marco'
  BY <1>1, <1>2 DEF EntradasPagina
<1>5. DeCadaPagina(entradas, EntradasPagina)
  BY DEF DatosInv
<1>6. g[p][i] = entradas[p][i]
  BY <1>2, <1>5 DEF DeCadaPagina
<1>7. entradas' = [g EXCEPT ![p] = [g[p] EXCEPT ![i] = e]]
  BY <1>1, <1>6 DEF ReemplazaMV, Reemplaza
<1> HIDE DEF sale, carga
<1>8. e \in EntradasPagina /\ e.presencia /\ e.marco = marco'
  BY <1>2, <1>4, UsadaTipo
<1> HIDE DEF e
<1>9. /\ DeCadaPagina(g, EntradasPagina)
      /\ \A q \in Procesos : \A j \in Paginas(q) :
            g[q][j] = IF q = p /\ j = victima THEN sale ELSE entradas[q][j]
  <2>1. DeCadaPagina(g, EntradasPagina)
    BY <1>2, <1>3, <1>5, CambiaPagina
  <2>2. \A q \in Procesos : \A j \in Paginas(q) :
           g[q][j] = IF q = p /\ j = victima THEN sale ELSE entradas[q][j]
    BY <1>2, <1>5 DEF DeCadaPagina
  <2> QED  BY <2>1, <2>2
<1> HIDE DEF g
<1>10. /\ DeCadaPagina(entradas', EntradasPagina)
       /\ \A q \in Procesos : \A j \in Paginas(q) :
            entradas'[q][j] = IF q = p /\ j = i THEN e ELSE g[q][j]
  <2>1. DeCadaPagina(entradas', EntradasPagina)
    BY <1>2, <1>7, <1>8, <1>9, CambiaPagina
  <2>2. \A q \in Procesos : \A j \in Paginas(q) :
           entradas'[q][j] = IF q = p /\ j = i THEN e ELSE g[q][j]
    BY <1>2, <1>7, <1>9 DEF DeCadaPagina
  <2> QED  BY <2>1, <2>2
<1>11. ModificadaPresente'
  BY <1>1, <1>2, <1>3, <1>8, <1>9, <1>10 DEF DatosInv, ModificadaPresente
<1>12. TLBInv' /\ Agrega(listaTLB', listaTLB, i, marco')
  BY <1>1, <1>2, RespondeEfecto
<1>13. TipoAcceso' /\ BusquedaInv'
  BY <1>1, <1>2 DEF DatosInv, TipoAcceso, BusquedaInv
<1>14. TipoEstados'
  <2>1. estadosPCBS[p].marcosOcupados - 1 \in 0..MARCOS_POR_PROCESO
    BY <1>2, MemoriaAssumption DEF DatosInv, TipoEstados
  <2> QED  BY <1>1, <1>2, <2>1 DEF DatosInv, TipoEstados
<1>15. TipoContenido'
  <2>1. swapDe \in [Paginas(p) -> Datos]
    <3>1. memoria[v.marco] \in Datos /\ swap[p] \in [Paginas(p) -> Datos]
      BY <1>2 DEF DatosInv, TipoContenido, DeCadaPagina
    <3> QED  BY <3>1
  <2> HIDE DEF swapDe
  <2>2. DeCadaPagina(swap', Datos)
    BY <1>1, <1>2, <2>1, CambiaProceso DEF DatosInv, TipoContenido
  <2>3. memoria' \in [Marcos -> Datos]
    BY <1>1, <1>2, <2>1 DEF DatosInv, TipoContenido
  <2> QED  BY <1>1, <2>2, <2>3 DEF DatosInv, TipoContenido, DeCadaPagina
<1>16. \A q \in Procesos : \A j \in Paginas(q) :
          IF q = p /\ j = i
            THEN entradas'[q][j].presencia /\ entradas'[q][j].marco = marco'
            ELSE /\ entradas'[q][j].marco = entradas[q][j].marco
                 /\ IF q = p /\ j = victima
                      THEN entradas'[q][j].presencia =
                             (entradas[q][j].presencia /\ ~entradas[q][j].modificado)
                      ELSE entradas'[q][j].presencia = entradas[q][j].presencia
  BY <1>2, <1>3, <1>8, <1>9, <1>10
<1>17. DatosInv'
  BY <1>10, <1>11, <1>12, <1>13, <1>14, <1>15 DEF DatosInv
<1> QED  BY <1>1, <1>2, <1>12, <1>16, <1>17

\* A step of the clock only clears a use bit and moves the hand.
LEMMA DatosRecorre ==
    ASSUME DatosInv, RecorreClock, UNCHANGED varsMMU
    PROVE  /\ DatosInv'
           /\ \A q \in Procesos :
                 estadosPCBS'[q].marcosOcupados = estadosPCBS[q].marcosOcupados
           /\ \A q \in Procesos : \A j \in Paginas(q) :
                 /\ entradas'[q][j].presencia = entradas[q][j].presencia
                 /\ entradas'[q][j].marco = entradas[q][j].marco
<1> DEFINE p == consulta.id
           i == estadosPCBS[p].punteroClock
           e == SegundaOportunidad(entradas[p][i])
           Cambia == entradas' = [entradas EXCEPT ![p] = [entradas[p] EXCEPT ![i] = e]]
<1> USE DEF varsMMU, varsProc
<1>1. /\ pcCPU = "clock"
      /\ estadosPCBS' = [estadosPCBS EXCEPT ![p] =
            [estadosPCBS[p] EXCEPT !.punteroClock = (i + 1) % PAGINAS[p]]]
      /\ \/ /\ victima' = i /\ pcCPU' = "reemplaza" /\ entradas' = entradas
            /\ entradas[p][i].presencia
         \/ victima' = victima /\ pcCPU' = "clock" /\ Cambia
      /\ UNCHANGED <<consulta, marco, suspensiones, bitarray, memoria, swap, esperado,
                     listaTLB, indiceFIFO>>
  BY DEF RecorreClock, Siguiente, Estado, EsVictima
<1>2. /\ p \in Procesos /\ consulta.pagina \in Paginas(p) /\ 0 \in Paginas(p)
      /\ victima = 0 /\ i \in Paginas(p)
      /\ ~entradas[p][consulta.pagina].presencia
      /\ estadosPCBS[p].marcosOcupados >= MARCOS_POR_PROCESO
  BY <1>1, ConsultaTipo DEF DatosInv, TipoAcceso, TipoEstados, BusquedaInv, Entrada, Estado
<1>3. (i + 1) % PAGINAS[p] \in Paginas(p) /\ (i + 1) % PAGINAS[p] \in Nat
  BY <1>2, PaginasNaturales
<1>4. TipoEstados' /\ \A q \in Procesos :
         estadosPCBS'[q].marcosOcupados = estadosPCBS[q].marcosOcupados
  BY <1>1, <1>2, <1>3 DEF DatosInv, TipoEstados
<1>5. entradas[p][i] \in EntradasPagina
  BY <1>2, PaginaTipo DEF DatosInv
<1>6. /\ e \in EntradasPagina /\ e.marco = entradas[p][i].marco
      /\ e.presencia = entradas[p][i].presencia /\ e.modificado = entradas[p][i].modificado
  BY <1>5 DEF SegundaOportunidad, EntradasPagina
<1> HIDE DEF e
<1>7. /\ e.presencia => e.marco \in Marcos
      /\ e.modificado => e.presencia
  BY <1>2, <1>6 DEF DatosInv, ModificadaPresente
<1>8. /\ DeCadaPagina(entradas', EntradasPagina) /\ ModificadaPresente'
      /\ \A q \in Procesos : \A j \in Paginas(q) :
            /\ entradas'[q][j].presencia = entradas[q][j].presencia
            /\ entradas'[q][j].marco = entradas[q][j].marco
  <2>1. CASE Cambia
    <3>1. /\ DeCadaPagina(entradas', EntradasPagina) /\ ModificadaPresente'
          /\ \A q \in Procesos : \A j \in Paginas(q) :
                entradas'[q][j] = IF q = p /\ j = i THEN e ELSE entradas[q][j]
      BY <2>1, <1>2, <1>6, <1>7, CambiaEntrada
    <3> QED  BY <3>1, <1>6
  <2>2. CASE entradas' = entradas
    BY <2>2 DEF DatosInv, DeCadaPagina, ModificadaPresente
  <2> QED  BY <1>1, <2>1, <2>2
<1> HIDE DEF Cambia
<1>9. BusquedaInv'
  <2>1. ~entradas'[p][consulta.pagina].presencia
    BY <1>2, <1>8
  <2>2. estadosPCBS'[p].marcosOcupados >= MARCOS_POR_PROCESO
    BY <1>2, <1>4
  <2>3. pcCPU' = "reemplaza" => entradas'[p][victima'].presencia
    BY <1>1
  <2> QED  BY <1>1, <2>1, <2>2, <2>3 DEF BusquedaInv, Entrada, Estado
<1>10. TipoAcceso'
  BY <1>1, <1>2 DEF DatosInv, TipoAcceso
<1>11. TipoContenido' /\ TLBInv'
  BY <1>1 DEF DatosInv, TipoContenido, DeCadaPagina, TLBInv
<1> QED  BY <1>4, <1>8, <1>9, <1>10, <1>11 DEF DatosInv

\* The steps that find no frame at hand: one outside the memory, or a victim
\* to look for.
LEMMA DatosEspera ==
    ASSUME DatosInv, MarcoFueraDeMemoria \/ PideVictima, UNCHANGED varsMMU
    PROVE  DatosInv'
<1> USE DEF varsMMU, varsProc
<1>1. /\ pcCPU = "marco" /\ pcCPU' \in {"clock", "desborde"}
      /\ pcCPU' = "clock" => ~Entrada.presencia /\ Estado.marcosOcupados >= MARCOS_POR_PROCESO
      /\ UNCHANGED <<consulta, victima, marco, suspensiones, estadosPCBS, entradas, bitarray,
                     memoria, swap, esperado, listaTLB, indiceFIFO>>
  BY DEF MarcoFueraDeMemoria, PideVictima
<1>2. TipoAcceso' /\ TipoEstados' /\ TipoContenido'
  BY <1>1 DEF DatosInv, TipoAcceso, TipoEstados, TipoContenido, DeCadaPagina
<1>3. DeCadaPagina(entradas', EntradasPagina) /\ ModificadaPresente' /\ TLBInv'
  BY <1>1 DEF DatosInv, DeCadaPagina, ModificadaPresente, TLBInv
<1>4. BusquedaInv'
  BY <1>1 DEF BusquedaInv, Entrada, Estado
<1> QED  BY <1>2, <1>3, <1>4 DEF DatosInv

\* The read or the write of the frame ends the access.
LEMMA DatosAccesoTermina ==
    ASSUME DatosInv, Lee \/ Escribe, UNCHANGED varsMMU
    PROVE  DatosInv'
<1> USE DEF varsMMU, varsProc
<1>1. /\ pcCPU = "acceso" /\ pcCPU' = "libre" /\ consulta' = SinConsulta /\ marco' = SIN_MARCO
      /\ UNCHANGED <<victima, suspensiones, estadosPCBS, entradas, bitarray, swap,
                     listaTLB, indiceFIFO>>
  BY DEF Lee, Escribe, TerminaAcceso
<1>2. memoria' \in [Marcos -> Datos] /\ DeCadaPagina(esperado', Datos)
  <2>1. CASE Lee
    BY <2>1 DEF Lee, DatosInv, TipoContenido, DeCadaPagina
  <2>2. CASE Escribe
    <3>1. PICK dato \in Escritos :
             /\ memoria' = [memoria EXCEPT ![marco] = dato]
             /\ esperado' = [esperado EXCEPT ![consulta.id] =
                               [esperado[consulta.id] EXCEPT ![consulta.pagina] = dato]]
      BY <2>2 DEF Escribe
    <3>2. dato \in Datos
      BY DEF Datos
    <3>3. memoria' \in [Marcos -> Datos]
      BY <3>1, <3>2 DEF DatosInv, TipoContenido
    <3>4. DeCadaPagina(esperado', Datos)
      BY <1>1, <3>1, <3>2, ConsultaTipo, CambiaPagina DEF DatosInv, TipoContenido
    <3> QED  BY <3>3, <3>4
  <2> QED  BY <2>1, <2>2
<1>3. TipoAcceso' /\ TipoEstados' /\ TipoContenido'
  BY <1>1, <1>2 DEF DatosInv, TipoAcceso, TipoEstados, TipoContenido, DeCadaPagina
<1>4. /\ DeCadaPagina(entradas', EntradasPagina) /\ ModificadaPresente' /\ TLBInv'
      /\ BusquedaInv'
  BY <1>1 DEF DatosInv, DeCadaPagina, ModificadaPresente, TLBInv, BusquedaInv
<1> QED  BY <1>3, <1>4 DEF DatosInv

\* Every step of the three processes keeps the data invariant.
LEMMA DatosPreservado == ControlInv /\ DatosInv /\ [NextMV]_varsMV => DatosInv'
<1> SUFFICES ASSUME ControlInv, DatosInv, [NextMV]_varsMV PROVE DatosInv'
  OBVIOUS
<1>1. CASE KernelMV
  <2> DEFINE SinTocar ==
        /\ UNCHANGED <<varsAcceso, estadosPCBS, entradas, bitarray, memoria, swap, esperado>>
        /\ suspensiones' \in 0..MaxSuspensiones
  <2>1. SinTocar
    <3> USE DEF varsAcceso
    <3>1. suspensiones \in 0..MaxSuspensiones /\ MaxSuspensiones \in Nat
      BY MemoriaAssumption DEF DatosInv, TipoContenido
    <3>2. ASSUME NEW p \in Procesos, PideCrear(p) \/ PideSuspender(p) \/ PideFin(p)
          PROVE  SinTocar
      <4>1. suspensiones' \in 0..MaxSuspensiones
        BY <3>1, <3>2 DEF PideCrear, PideSuspender, PideFin
      <4> QED  BY <4>1, <3>2 DEF PideCrear, PideSuspender, PideFin, Pide
    <3>3. ASSUME NEW p \in Procesos, Despacha(p) \/ Readmite(p) \/ Desbloquea(p)
          PROVE  SinTocar
      BY <3>1, <3>3 DEF Despacha, Readmite, Desbloquea
    <3>4. CASE Vuelve
      BY <3>1, <3>4 DEF Vuelve
    <3> QED  BY <1>1, <3>2, <3>3, <3>4 DEF KernelMV, DespachaCPU
  <2>2. TLBInv'
    <3>1. CASE \E p \in Procesos : DespachaCPU(p)
      <4>1. PICK p \in Procesos : VaciarTLB(p)
        BY <3>1 DEF DespachaCPU
      <4> QED  BY <4>1, VaciarEfecto DEF DatosInv
    <3>2. CASE UNCHANGED varsMMU
      BY <3>2 DEF varsMMU, DatosInv, TLBInv
    <3> QED  BY <1>1, <3>1, <3>2 DEF KernelMV
  <2> QED  BY <2>1, <2>2, DatosKernel
<1>2. CASE HiloKernelMV
  BY <1>2, DatosCrear, DatosSwapea, DatosResetea, DatosTermina DEF HiloKernelMV, SwapeaEntradasMV
<1>3. CASE AccedeAcierto \/ AccedeFallo
  BY <1>3, DatosAccede
<1>4. CASE HiloCPUMV
  BY <1>4, DatosMarcoPresente, DatosMarcoLibre, DatosReemplaza, DatosRecorre, DatosEspera,
     DatosAccesoTermina DEF HiloCPUMV
<1>5. CASE UNCHANGED varsMV
  <2>1. UNCHANGED <<varsAcceso, estadosPCBS, entradas, bitarray, memoria, swap, esperado,
                    suspensiones, listaTLB, indiceFIFO>>
    BY <1>5 DEF varsMV, vars, varsMMU, varsProc
  <2>2. suspensiones' \in 0..MaxSuspensiones /\ TLBInv'
    BY <2>1 DEF DatosInv, TipoContenido, TLBInv
  <2> QED  BY <2>1, <2>2, DatosKernel
<1> QED  BY <1>1, <1>2, <1>3, <1>4, <1>5 DEF NextMV

\* Types, the entries of the TLB with distinct times, and a search for a frame that
\* is only done for a page that has none.
THEOREM DatosCorrectos == SpecMV => []DatosInv
BY DatosInicial, DatosPreservado, ControlCorrecto, PTL DEF SpecMV

\* Every variable of Memoria keeps its type: counts of frames stay in their
\* bounds, pointers of the clock inside the tables, and an access has a frame of
\* memory.
THEOREM TipoMemoria == SpecMV => []TypeOK
BY ControlCorrecto, DatosCorrectos, TipoSale, PTL

\* A modified page is always present: its data is not left behind.
THEOREM ModificadaSiemprePresente == SpecMV => []ModificadaPresente
BY DatosCorrectos, PTL DEF DatosInv

-----------------------------------------------------------------------------
(* The TLB and the tables *)

CoincideInv == PaginasTLBInv /\ TLBIgualATabla

\* What an entry of the TLB is of.
LEMMA EntradaCoincide ==
    ASSUME ControlInv, DatosInv, CoincideInv
    PROVE  \A k \in 1..Len(listaTLB) :
              /\ PCB_ACTUAL \in Procesos
              /\ listaTLB[k].pagina \in Paginas(PCB_ACTUAL)
              /\ entradas[PCB_ACTUAL][listaTLB[k].pagina].marco = listaTLB[k].marco
<1>1. Len(listaTLB) \in Nat /\ DOMAIN listaTLB = 1..Len(listaTLB)
  BY ListaPropiedades DEF DatosInv, TLBInv
<1>2. ASSUME NEW k \in 1..Len(listaTLB)
      PROVE  PCB_ACTUAL \in Procesos
  BY <1>1, <1>2, EmptySeq DEF ControlInv, TipoControl, CoincideInv, PaginasTLBInv
<1> QED  BY <1>1, <1>2 DEF CoincideInv, PaginasTLBInv, TLBIgualATabla

\* Enough for the TLB to go on as it was: no frame of an entry of its process
\* changes, and no page is being looked for that is in it.
LEMMA CoincideSigue ==
    ASSUME ControlInv, DatosInv, CoincideInv, UNCHANGED PCB_ACTUAL, TLBInv',
           \A k \in 1..Len(listaTLB') :
              \E j \in 1..Len(listaTLB) : /\ listaTLB'[k].pagina = listaTLB[j].pagina
                                          /\ listaTLB'[k].marco = listaTLB[j].marco,
           PCB_ACTUAL \in Procesos =>
              \A j \in Paginas(PCB_ACTUAL) :
                 entradas'[PCB_ACTUAL][j].marco = entradas[PCB_ACTUAL][j].marco,
           pcCPU' \in {"marco", "clock", "reemplaza"} =>
              \A k \in 1..Len(listaTLB) : listaTLB[k].pagina # consulta'.pagina
    PROVE  CoincideInv'
<1>1. \A k \in 1..Len(listaTLB) :
         /\ PCB_ACTUAL \in Procesos
         /\ listaTLB[k].pagina \in Paginas(PCB_ACTUAL)
         /\ entradas[PCB_ACTUAL][listaTLB[k].pagina].marco = listaTLB[k].marco
  BY EntradaCoincide
<1>2. /\ listaTLB \in Seq(EntradasTLB) /\ listaTLB' \in Seq(EntradasTLB)
      /\ Len(listaTLB) \in Nat /\ Len(listaTLB') \in Nat /\ DOMAIN listaTLB' = 1..Len(listaTLB')
  BY ListaPropiedades DEF DatosInv, TLBInv
<1>3. PCB_ACTUAL' = NULO => listaTLB' = <<>>
  <2> SUFFICES ASSUME PCB_ACTUAL = NULO, listaTLB' # <<>> PROVE FALSE
    OBVIOUS
  <2>1. 1 \in 1..Len(listaTLB')
    BY <1>2, EmptySeq
  <2>2. \E j \in 1..Len(listaTLB) : TRUE
    BY <2>1
  <2> QED  BY <1>1, <2>2, MemoriaAssumption
<1>4. PaginasTLBInv'
  BY <1>1, <1>3 DEF PaginasTLBInv
<1>5. TLBIgualATabla'
  BY <1>1, <1>2, SMTT(30) DEF TLBIgualATabla
<1> QED  BY <1>4, <1>5 DEF CoincideInv

\* A page that was looked for is added with the frame that its table has.
LEMMA CoincideAgrega ==
    ASSUME ControlInv, DatosInv, CoincideInv, UNCHANGED PCB_ACTUAL, TLBInv',
           pcCPU \in {"marco", "reemplaza"}, pcCPU' = "acceso",
           Agrega(listaTLB', listaTLB, consulta.pagina, marco'),
           entradas'[consulta.id][consulta.pagina].marco = marco',
           \A j \in Paginas(consulta.id) : j # consulta.pagina =>
              entradas'[consulta.id][j].marco = entradas[consulta.id][j].marco
    PROVE  CoincideInv'
<1>1. \A k \in 1..Len(listaTLB) :
         /\ listaTLB[k].pagina \in Paginas(PCB_ACTUAL)
         /\ entradas[PCB_ACTUAL][listaTLB[k].pagina].marco = listaTLB[k].marco
         /\ listaTLB[k].pagina # consulta.pagina
  BY EntradaCoincide DEF CoincideInv, PaginasTLBInv
<1>2. DOMAIN listaTLB' = 1..Len(listaTLB')
  BY ListaPropiedades DEF TLBInv
<1>3. /\ PCB_ACTUAL = consulta.id /\ PCB_ACTUAL \in Procesos
      /\ consulta.pagina \in Paginas(consulta.id)
  BY ConsultaTipo DEF ControlInv, EjecutandoInv
<1>4. \A k \in 1..Len(listaTLB') :
         /\ listaTLB'[k].pagina \in Paginas(PCB_ACTUAL)
         /\ entradas'[PCB_ACTUAL][listaTLB'[k].pagina].marco = listaTLB'[k].marco
  BY <1>1, <1>3 DEF Agrega
<1>5. PaginasTLBInv'
  BY <1>3, <1>4, MemoriaAssumption DEF PaginasTLBInv
<1>6. TLBIgualATabla'
  BY <1>2, <1>4 DEF TLBIgualATabla
<1> QED  BY <1>5, <1>6 DEF CoincideInv

\* An empty TLB agrees with any table.
LEMMA CoincideInicial == InitMV => CoincideInv
<1> SUFFICES ASSUME InitMV PROVE CoincideInv
  OBVIOUS
<1>1. listaTLB = <<>> /\ DOMAIN listaTLB = {} /\ Len(listaTLB) = 0
  BY EmptySeq DEF InitMV, InitMMU
<1>2. \A k \in 1..Len(listaTLB) : FALSE
  BY <1>1
<1> QED  BY <1>1, <1>2 DEF CoincideInv, PaginasTLBInv, TLBIgualATabla

\* Every step keeps the agreement of the TLB with the tables.
LEMMA CoincidePreservado ==
    ControlInv /\ DatosInv /\ DatosInv' /\ CoincideInv /\ [NextMV]_varsMV => CoincideInv'
<1> SUFFICES ASSUME ControlInv, DatosInv, DatosInv', CoincideInv, [NextMV]_varsMV
             PROVE  CoincideInv'
  OBVIOUS
<1> USE DEF varsProc, varsAcceso
<1>1. TLBInv' /\ DeCadaPagina(entradas, EntradasPagina)
  BY DEF DatosInv
<1>2. ASSUME UNCHANGED <<PCB_ACTUAL, listaTLB, pcCPU, consulta>>,
             PCB_ACTUAL \in Procesos =>
                \A j \in Paginas(PCB_ACTUAL) :
                   entradas'[PCB_ACTUAL][j].marco = entradas[PCB_ACTUAL][j].marco
      PROVE  CoincideInv'
  BY <1>1, <1>2, CoincideSigue DEF CoincideInv, PaginasTLBInv
<1>3. CASE KernelMV
  <2>1. CASE \E p \in Procesos : DespachaCPU(p)
    <3>1. PICK p \in Procesos : DespachaCPU(p)
      BY <2>1
    <3>2. /\ ejecutando = NULO /\ UNCHANGED <<pcCPU, consulta, entradas>> /\ PCB_ACTUAL' = p
          /\ listaTLB' = IF PCB_ACTUAL # p THEN <<>> ELSE listaTLB
      BY <3>1, VaciarEfecto DEF DespachaCPU, Despacha, DatosInv, VaciarTLB
    <3>3. CASE PCB_ACTUAL = p
      BY <1>2, <3>2, <3>3
    <3>4. CASE PCB_ACTUAL # p
      <4>1. listaTLB' = <<>> /\ Len(listaTLB') = 0 /\ DOMAIN listaTLB' = {}
        BY <3>2, <3>4, EmptySeq
      <4>2. \A k \in 1..Len(listaTLB') : FALSE
        BY <4>1
      <4> QED  BY <4>1, <4>2 DEF CoincideInv, PaginasTLBInv, TLBIgualATabla
    <3> QED  BY <3>3, <3>4
  <2>2. ASSUME NEW p \in Procesos,
               PideCrear(p) \/ PideSuspender(p) \/ PideFin(p) \/ Readmite(p) \/ Desbloquea(p)
        PROVE  UNCHANGED <<pcCPU, consulta, entradas>>
    BY <2>2 DEF PideCrear, PideSuspender, PideFin, Pide, Readmite, Desbloquea
  <2>3. CASE Vuelve
    BY <2>3, <1>2, <1>3 DEF Vuelve, KernelMV, varsMMU, DespachaCPU, Despacha
  <2>4. CASE ~(\E p \in Procesos : DespachaCPU(p)) /\ ~Vuelve
    BY <1>2, <1>3, <2>2, <2>4 DEF KernelMV, varsMMU
  <2> QED  BY <2>1, <2>3, <2>4
<1>4. CASE HiloKernelMV
  <2> DEFINE p == colaKernel[1].id
  <2>1. /\ UNCHANGED <<PCB_ACTUAL, listaTLB, pcCPU, consulta>>
    BY <1>4 DEF HiloKernelMV, SwapeaEntradasMV, CrearProceso, SwapeaEntradas, ReseteaOcupados,
       TerminaSuspension, FinProceso, varsMMU
  <2>2. CASE CrearProceso
    <3>1. /\ Head(colaKernel).id = p /\ p \in Procesos /\ fase[p] = "creando"
      BY <2>2, CabezaAjena DEF CrearProceso, Cabeza
    <3>2. p # PCB_ACTUAL
      BY <3>1, MemoriaAssumption DEF ControlInv, EjecutandoInv
    <3>3. PCB_ACTUAL \in Procesos => entradas'[PCB_ACTUAL] = entradas[PCB_ACTUAL]
      BY <1>1, <2>2, <3>1, <3>2 DEF CrearProceso, DeCadaPagina
    <3> QED  BY <1>2, <2>1, <3>3
  <2>3. CASE SwapeaEntradas
    <3> DEFINE sucias == {i \in Presentes(p) : entradas[p][i].modificado}
               quedan == [i \in Paginas(p) |->
                            IF i \in sucias THEN Swapeada(entradas[p][i]) ELSE entradas[p][i]]
    <3>1. Head(colaKernel).id = p /\ p \in Procesos
      BY <2>3, CabezaAjena DEF SwapeaEntradas, Cabeza
    <3>2. entradas' = [entradas EXCEPT ![p] = quedan]
      BY <2>3, <3>1 DEF SwapeaEntradas
    <3>3. \A i \in Paginas(p) : quedan[i].marco = entradas[p][i].marco
      <4> TAKE i \in Paginas(p)
      <4>1. entradas[p][i] \in EntradasPagina
        BY <1>1, <3>1, PaginaTipo
      <4>2. Swapeada(entradas[p][i]).marco = entradas[p][i].marco
        BY <4>1 DEF Swapeada, EntradasPagina
      <4> HIDE DEF sucias
      <4> QED  BY <4>2
    <3> HIDE DEF quedan
    <3>4. \A q \in Procesos : entradas'[q] = IF q = p THEN quedan ELSE entradas[q]
      BY <1>1, <3>1, <3>2 DEF DeCadaPagina
    <3> QED  BY <1>2, <2>1, <3>3, <3>4
  <2>4. CASE ReseteaOcupados \/ TerminaSuspension \/ FinProceso
    BY <1>2, <2>1, <2>4 DEF ReseteaOcupados, TerminaSuspension, FinProceso
  <2> QED  BY <1>4, <2>2, <2>3, <2>4 DEF HiloKernelMV, SwapeaEntradasMV
<1>5. CASE AccedeAcierto
  <2>1. PICK i \in PaginasTLB : ActualizarTLB(i)
    BY <1>5 DEF AccedeAcierto
  <2>2. \A k \in 1..Len(listaTLB') :
           \E j \in 1..Len(listaTLB) : /\ listaTLB'[k].pagina = listaTLB[j].pagina
                                       /\ listaTLB'[k].marco = listaTLB[j].marco
    BY <2>1, ActualizarEfecto DEF DatosInv
  <2>3. UNCHANGED <<PCB_ACTUAL, entradas>> /\ pcCPU' = "acceso"
    BY <1>5, <2>1 DEF AccedeAcierto, ActualizarTLB
  <2> QED  BY <1>1, <2>2, <2>3, CoincideSigue
<1>6. CASE AccedeFallo
  <2>1. UNCHANGED <<PCB_ACTUAL, listaTLB, entradas>> /\ consulta'.pagina \notin PaginasTLB
    BY <1>6 DEF AccedeFallo, Accede, varsMMU
  <2>2. DOMAIN listaTLB = 1..Len(listaTLB)
    BY ListaPropiedades DEF DatosInv, TLBInv
  <2>3. \A k \in 1..Len(listaTLB) : listaTLB[k].pagina # consulta'.pagina
    BY <2>1, <2>2 DEF PaginasTLB
  <2> QED  BY <1>1, <2>1, <2>3, CoincideSigue
<1>7. CASE HiloCPUMV
  <2>1. CASE MarcoPresenteMV \/ MarcoLibreMV \/ ReemplazaMV
    <3>1. /\ UNCHANGED PCB_ACTUAL /\ pcCPU \in {"marco", "reemplaza"} /\ pcCPU' = "acceso"
      BY <2>1 DEF MarcoPresenteMV, MarcoLibreMV, ReemplazaMV, MarcoPresente, MarcoLibre, Reemplaza,
         ObtieneMarco, RespondeMarco, AgregarTLB
    <3>2. consulta.id \in Procesos /\ consulta.pagina \in Paginas(consulta.id)
      BY <3>1, ConsultaTipo
    <3>3. /\ Agrega(listaTLB', listaTLB, consulta.pagina, marco')
          /\ entradas'[consulta.id][consulta.pagina].marco = marco'
          /\ \A j \in Paginas(consulta.id) : j # consulta.pagina =>
                entradas'[consulta.id][j].marco = entradas[consulta.id][j].marco
      <4>1. CASE MarcoPresenteMV
        BY <3>2, <4>1, DatosMarcoPresente
      <4>2. CASE MarcoLibreMV
        BY <3>2, <4>2, DatosMarcoLibre
      <4>3. CASE ReemplazaMV
        BY <3>2, <4>3, DatosReemplaza
      <4> QED  BY <2>1, <4>1, <4>2, <4>3
    <3> QED  BY <1>1, <3>1, <3>3, CoincideAgrega
  <2>2. ASSUME MarcoFueraDeMemoria \/ PideVictima \/ Lee \/ Escribe, UNCHANGED varsMMU
        PROVE  CoincideInv'
    <3>1. /\ UNCHANGED <<PCB_ACTUAL, listaTLB, entradas>>
          /\ pcCPU' \in {"marco", "clock", "reemplaza"} => pcCPU = "marco" /\ consulta' = consulta
      BY <2>2 DEF MarcoFueraDeMemoria, PideVictima, Lee, Escribe, TerminaAcceso, varsMMU
    <3> QED  BY <1>1, <3>1, CoincideSigue DEF CoincideInv, PaginasTLBInv
  <2>3. ASSUME RecorreClock, UNCHANGED varsMMU
        PROVE  CoincideInv'
    <3>1. /\ UNCHANGED <<PCB_ACTUAL, listaTLB, consulta>> /\ pcCPU = "clock"
      BY <2>3 DEF RecorreClock, varsMMU
    <3>2. \A q \in Procesos : \A j \in Paginas(q) :
             entradas'[q][j].marco = entradas[q][j].marco
      BY <2>3, DatosRecorre
    <3> QED  BY <1>1, <3>1, <3>2, CoincideSigue DEF CoincideInv, PaginasTLBInv
  <2> QED  BY <1>7, <2>1, <2>2, <2>3 DEF HiloCPUMV
<1>8. CASE UNCHANGED varsMV
  BY <1>2, <1>8 DEF varsMV, vars, varsMMU
<1> QED  BY <1>3, <1>4, <1>5, <1>6, <1>7, <1>8 DEF NextMV

\* An entry of the TLB always has the frame of its page's table, although
\* Memoria replaces and suspends without telling the CPU.
THEOREM TLBSiempreIgual == SpecMV => []TLBIgualATabla
<1>1. SpecMV => []CoincideInv
  BY CoincideInicial, CoincidePreservado, ControlCorrecto, DatosCorrectos, PTL DEF SpecMV
<1> QED  BY <1>1, PTL DEF CoincideInv

-----------------------------------------------------------------------------
(* The order of the TLB *)

\* A page is in l once.
PaginasDistintas(l) == \A j, k \in 1..Len(l) : l[j].pagina = l[k].pagina => j = k

\* The place that is k after the index i of a circular list of n.
Giro(k, i, n) == IF k + i <= n THEN k + i ELSE k + i - n

\* o has the pages of l from the entry the index i points to, and round; i only
\* leaves 0 when l is full.
OrdenFIFO(o, l, i) ==
    /\ Len(o) = Len(l)
    /\ Len(l) < ENTRADAS_TLB => i = 0
    /\ \A k \in 1..Len(l) : o[k] = l[Giro(k, i, Len(l))].pagina

\* o has the pages of l, by the time of their last access.
OrdenLRU(o, l) ==
    /\ \A i \in 1..Len(o) : \E k \in 1..Len(l) : o[i] = l[k].pagina
    /\ \A k \in 1..Len(l) : \E i \in 1..Len(o) : o[i] = l[k].pagina
    /\ \A i, j \in 1..Len(o) : \A k, m \in 1..Len(l) :
          i < j /\ o[i] = l[k].pagina /\ o[j] = l[m].pagina
             => l[k].tiempoAcceso < l[m].tiempoAcceso

\* The history orden is the order of the entries, unless the index of FIFO was
\* left in the middle by the last emptying.
OrdenInv ==
    /\ REEMPLAZO_TLB \in {"FIFO", "LRU"}
    /\ PaginasDistintas(listaTLB)
    /\ ~corrido => /\ orden \in Seq(Nat)
                   /\ IF REEMPLAZO_TLB = "FIFO" THEN OrdenFIFO(orden, listaTLB, indiceFIFO)
                      ELSE OrdenLRU(orden, listaTLB)

\* The remainders of the index.
LEMMA RestoGiro ==
    ASSUME NEW n \in Nat \ {0}, NEW i \in 0..n-1
    PROVE  (i + 1) % n = IF i + 1 = n THEN 0 ELSE i + 1
<1>1. CASE i + 1 = n
  <2>1. n % n = 0
    OBVIOUS
  <2> QED  BY <1>1, <2>1
<1>2. CASE i + 1 < n
  <2> DEFINE x == i + 1
  <2>1. x \in 0..n-1
    BY <1>2
  <2> HIDE DEF x
  <2>2. x % n = x
    BY <2>1
  <2> QED  BY <1>2, <2>2 DEF x
<1> QED  BY <1>1, <1>2

\* The places of a circular list are those of the list.
LEMMA GiroEnLista ==
    ASSUME NEW n \in Nat, NEW i \in Nat, i = 0 \/ i < n
    PROVE  /\ \A k \in 1..n : Giro(k, i, n) \in 1..n
           /\ \A j \in 1..n : \E k \in 1..n : Giro(k, i, n) = j
<1>1. \A k \in 1..n : Giro(k, i, n) \in 1..n
  BY DEF Giro
<1>2. ASSUME NEW j \in 1..n
      PROVE  \E k \in 1..n : Giro(k, i, n) = j
  <2>1. CASE j > i
    <3>1. j - i \in 1..n /\ Giro(j - i, i, n) = j
      BY <2>1 DEF Giro
    <3> QED  BY <3>1
  <2>2. CASE j <= i
    <3>1. j - i + n \in 1..n /\ Giro(j - i + n, i, n) = j
      BY <2>2 DEF Giro
    <3> QED  BY <3>1
  <2> QED  BY <2>1, <2>2
<1> QED  BY <1>1, <1>2

\* Numbering times again changes neither order.
LEMMA RenumeraOrden ==
    ASSUME NEW l \in Seq(EntradasTLB), TiemposDistintos(l), Len(l) <= ENTRADAS_TLB,
           NEW o, NEW i \in 0..ENTRADAS_TLB-1
    PROVE  /\ PaginasDistintas(l) => PaginasDistintas(Renumera(l))
           /\ OrdenFIFO(o, l, i) => OrdenFIFO(o, Renumera(l), i)
           /\ OrdenLRU(o, l) => OrdenLRU(o, Renumera(l))
<1> DEFINE r == Renumera(l)
           n == Len(l)
<1>1. /\ Len(r) = n /\ n \in Nat
      /\ \A k \in 1..n : r[k].pagina = l[k].pagina
      /\ \A j, k \in 1..n : l[j].tiempoAcceso < l[k].tiempoAcceso
                               => r[j].tiempoAcceso < r[k].tiempoAcceso
  BY RenumeraPropiedades, ListaPropiedades
<1> HIDE DEF r
<1>2. PaginasDistintas(l) => PaginasDistintas(r)
  BY <1>1 DEF PaginasDistintas
<1>3. OrdenFIFO(o, l, i) => OrdenFIFO(o, r, i)
  <2>1. ASSUME OrdenFIFO(o, l, i) PROVE \A k \in 1..n : Giro(k, i, n) \in 1..n
    <3>1. i = 0 \/ i < n
      BY <1>1, <2>1, TLBAssumption DEF OrdenFIFO
    <3>2. i \in Nat
      BY TLBAssumption
    <3> HIDE DEF n
    <3> QED  BY <1>1, <3>1, <3>2, GiroEnLista
  <2> QED  BY <1>1, <2>1 DEF OrdenFIFO
<1>4. OrdenLRU(o, l) => OrdenLRU(o, r)
  BY <1>1, SMTT(20) DEF OrdenLRU
<1> QED  BY <1>2, <1>3, <1>4 DEF r

\* FIFO with room: the page is the last of the list and of the order.
LEMMA FIFOCrece ==
    ASSUME NEW l \in Seq(EntradasTLB), NEW r \in Seq(EntradasTLB), NEW o \in Seq(Nat), NEW p \in Nat,
           Len(l) < ENTRADAS_TLB, OrdenFIFO(o, l, 0), Len(r) = Len(l) + 1,
           \A k \in 1..Len(l) : r[k] = l[k], r[Len(r)].pagina = p
    PROVE  OrdenFIFO(Append(o, p), r, 0)
<1> DEFINE n == Len(l)
           a == Append(o, p)
<1>1. n \in Nat /\ Len(o) = n /\ \A k \in 1..n : o[k] = l[Giro(k, 0, n)].pagina
  BY ListaPropiedades DEF OrdenFIFO
<1>2. Len(a) = n + 1 /\ a[n + 1] = p /\ \A k \in 1..n : a[k] = o[k]
  BY <1>1, AppendProperties
<1> HIDE DEF a
<1>3. \A k \in 1..n+1 : Giro(k, 0, n + 1) = k /\ (k \in 1..n => Giro(k, 0, n) = k)
  BY <1>1 DEF Giro
<1>4. \A k \in 1..n+1 : k \in 1..n \/ k = n + 1
  BY <1>1
<1> HIDE DEF n
<1>5. \A k \in 1..n+1 : a[k] = r[Giro(k, 0, n + 1)].pagina
  BY <1>1, <1>2, <1>3, <1>4 DEF n
<1> QED  BY <1>1, <1>2, <1>5 DEF OrdenFIFO, a, n

\* FIFO without: the first of the order is the entry of the index, and leaves.
LEMMA FIFOReemplaza ==
    ASSUME NEW l \in Seq(EntradasTLB), NEW r \in Seq(EntradasTLB), NEW o \in Seq(Nat), NEW p \in Nat,
           NEW i \in 0..ENTRADAS_TLB-1,
           Len(l) = ENTRADAS_TLB, OrdenFIFO(o, l, i), Len(r) = Len(l),
           \A k \in 1..Len(r) : k # i + 1 => r[k] = l[k], r[i + 1].pagina = p
    PROVE  OrdenFIFO(Append(Tail(o), p), r, (i + 1) % ENTRADAS_TLB)
<1> DEFINE n == ENTRADAS_TLB
           a == Append(Tail(o), p)
           h == (i + 1) % n
<1>1. /\ n \in Nat \ {0} /\ Len(o) = n /\ o # <<>>
      /\ \A k \in 1..n : o[k] = l[Giro(k, i, n)].pagina
  BY TLBAssumption, EmptySeq DEF OrdenFIFO
<1>2. /\ Len(a) = n /\ a[n] = p /\ \A k \in 1..n-1 : a[k] = o[k + 1]
  <2>1. /\ Tail(o) \in Seq(Nat) /\ Len(Tail(o)) = n - 1
        /\ \A k \in 1..n-1 : Tail(o)[k] = o[k + 1]
    BY <1>1, ListaPropiedades
  <2> DEFINE t == Tail(o)
  <2> HIDE DEF t
  <2>2. Len(Append(t, p)) = Len(t) + 1 /\ Append(t, p)[Len(t) + 1] = p
        /\ \A k \in 1..Len(t) : Append(t, p)[k] = t[k]
    BY <2>1, AppendProperties DEF t
  <2> QED  BY <1>1, <2>1, <2>2 DEF t
<1>3. h = IF i + 1 = n THEN 0 ELSE i + 1
  BY <1>1, RestoGiro
<1> HIDE DEF a, h, n
<1>4. /\ Giro(n, h, n) = i + 1 /\ i + 1 \in 1..n
      /\ \A k \in 1..n-1 : /\ k + 1 \in 1..n
                           /\ Giro(k, h, n) = Giro(k + 1, i, n)
                           /\ Giro(k, h, n) \in 1..n /\ Giro(k, h, n) # i + 1
  BY <1>1, <1>3 DEF Giro, n
<1>5. \A k \in 1..n : k \in 1..n-1 \/ k = n
  BY <1>1
<1>6. ASSUME NEW k \in 1..n
      PROVE  a[k] = r[Giro(k, h, n)].pagina
  <2>1. CASE k \in 1..n-1
    <3>1. a[k] = l[Giro(k + 1, i, n)].pagina
      BY <1>1, <1>2, <1>4, <2>1
    <3>2. r[Giro(k, h, n)] = l[Giro(k, h, n)]
      BY <1>4, <2>1 DEF n
    <3> QED  BY <1>4, <2>1, <3>1, <3>2
  <2>2. CASE k = n
    BY <1>2, <1>4, <2>2
  <2> QED  BY <1>5, <2>1, <2>2
<1> QED  BY <1>1, <1>2, <1>6 DEF OrdenFIFO, a, h, n

\* LRU with room: the page is used later than those that were there.
LEMMA LRUCrece ==
    ASSUME NEW l \in Seq(EntradasTLB), NEW r \in Seq(EntradasTLB), NEW o \in Seq(Nat), NEW p \in Nat,
           OrdenLRU(o, l), Len(r) = Len(l) + 1, r[Len(r)].pagina = p,
           \A k \in 1..Len(l) : /\ r[k] = l[k] /\ l[k].pagina # p
                                /\ l[k].tiempoAcceso < r[Len(r)].tiempoAcceso
    PROVE  OrdenLRU(Append(o, p), r)
<1> DEFINE n == Len(l)
           q == Len(o)
           a == Append(o, p)
<1>1. n \in Nat /\ q \in Nat
  BY ListaPropiedades
<1>2. Len(a) = q + 1 /\ a[q + 1] = p /\ \A k \in 1..q : a[k] = o[k]
  BY AppendProperties
<1> HIDE DEF a
<1>3. /\ \A i \in 1..q : \E k \in 1..n : o[i] = l[k].pagina
      /\ \A k \in 1..n : \E i \in 1..q : o[i] = l[k].pagina
      /\ \A i, j \in 1..q : \A k, m \in 1..n :
            i < j /\ o[i] = l[k].pagina /\ o[j] = l[m].pagina
               => l[k].tiempoAcceso < l[m].tiempoAcceso
  BY DEF OrdenLRU
<1>4. /\ \A k \in 1..n+1 : k \in 1..n \/ k = n + 1
      /\ \A k \in 1..q+1 : k \in 1..q \/ k = q + 1
      /\ 1..n \subseteq 1..n+1 /\ n + 1 \in 1..n+1 /\ 1..q \subseteq 1..q+1 /\ q + 1 \in 1..q+1
      /\ \A i, j \in 1..q+1 : i < j => i \in 1..q
  BY <1>1
<1>5. Len(r) = n + 1 /\ r[n + 1].pagina = p
      /\ \A k \in 1..n : /\ r[k] = l[k] /\ l[k].pagina # p
                         /\ l[k].tiempoAcceso < r[n + 1].tiempoAcceso
  OBVIOUS
<1> HIDE DEF n, q
<1>6. ASSUME NEW i \in 1..q+1
      PROVE  \E k \in 1..n+1 : a[i] = r[k].pagina
  <2>1. CASE i \in 1..q
    <3>1. PICK k \in 1..n : o[i] = l[k].pagina
      BY <1>3, <2>1
    <3> QED  BY <1>2, <1>4, <1>5, <2>1, <3>1
  <2>2. CASE i = q + 1
    BY <1>2, <1>4, <1>5, <2>2
  <2> QED  BY <1>4, <2>1, <2>2
<1>7. \A k \in 1..n+1 : \E i \in 1..q+1 : a[i] = r[k].pagina
  BY <1>2, <1>3, <1>4, <1>5, ZenonT(40)
<1>8. ASSUME NEW i \in 1..q+1, NEW j \in 1..q+1, NEW k \in 1..n+1, NEW m \in 1..n+1,
             i < j, a[i] = r[k].pagina, a[j] = r[m].pagina
      PROVE  r[k].tiempoAcceso < r[m].tiempoAcceso
  <2> DEFINE Vieja(y, z) == y \in 1..q /\ a[y] = o[y] /\ z \in 1..n /\ r[z] = l[z]
  <2>4. ASSUME NEW y \in 1..q, NEW z \in 1..n+1, a[y] = r[z].pagina PROVE Vieja(y, z)
    <3>1. PICK x \in 1..n : o[y] = l[x].pagina
      BY <1>3
    <3>2. a[y] = o[y] /\ o[y] # p
      BY <1>2, <1>5, <3>1
    <3>3. z # n + 1
      BY <1>5, <2>4, <3>2
    <3> QED  BY <1>4, <1>5, <3>2, <3>3
  <2>1. Vieja(i, k)
    BY <1>4, <1>8, <2>4
  <2>2. CASE j \in 1..q
    <3>1. Vieja(j, m)
      BY <1>8, <2>2, <2>4
    <3> QED  BY <1>3, <1>8, <2>1, <2>2, <3>1, ZenonT(40)
  <2>3. CASE j = q + 1
    <3>1. m = n + 1
      BY <1>2, <1>4, <1>5, <1>8, <2>3
    <3> QED  BY <1>5, <2>1, <3>1
  <2> QED  BY <1>4, <2>2, <2>3
<1> QED  BY <1>2, <1>5, <1>6, <1>7, <1>8, ZenonT(40) DEF OrdenLRU, a

\* LRU without: the first of the order is the entry of time 0, and leaves.
LEMMA LRUReemplaza ==
    ASSUME NEW l \in Seq(EntradasTLB), NEW r \in Seq(EntradasTLB), NEW o \in Seq(Nat), NEW p \in Nat,
           OrdenLRU(o, l), PaginasDistintas(l), TiemposDistintos(l),
           NEW n \in Nat \ {0}, Len(l) = n, Len(r) = n,
           \A k \in 1..n : l[k].pagina # p /\ l[k].tiempoAcceso \in 0..n-1,
           \E k \in 1..n : l[k].tiempoAcceso = 0,
           \A k \in 1..n-1 : r[k].tiempoAcceso = k /\ \E j \in 1..n : r[k] = l[j],
           r[n].pagina = p, r[n].tiempoAcceso >= n
    PROVE  OrdenLRU(Append(Tail(o), p), r)
<1> DEFINE q == Len(o)
           a == Append(Tail(o), p)
<1>1. /\ \A i \in 1..q : \E k \in 1..n : o[i] = l[k].pagina
      /\ \A k \in 1..n : \E i \in 1..q : o[i] = l[k].pagina
      /\ \A i, j \in 1..q : \A k, m \in 1..n :
            i < j /\ o[i] = l[k].pagina /\ o[j] = l[m].pagina
               => l[k].tiempoAcceso < l[m].tiempoAcceso
  BY DEF OrdenLRU
<1>2. PICK c \in 1..n : l[c].tiempoAcceso = 0
  OBVIOUS
<1>3. q \in Nat /\ q >= 1 /\ o # <<>>
  <2>1. q \in Nat /\ \E i \in 1..q : TRUE
    BY <1>1, <1>2, ListaPropiedades
  <2> HIDE DEF q
  <2>2. q >= 1
    BY <2>1
  <2> QED  BY <2>1, <2>2, EmptySeq DEF q
<1>4. /\ Len(a) = q /\ a[q] = p /\ \A i \in 1..q-1 : a[i] = o[i + 1]
  <2> DEFINE t == Tail(o)
  <2>1. t \in Seq(Nat) /\ Len(t) = q - 1 /\ \A k \in 1..q-1 : t[k] = o[k + 1]
    BY <1>3, ListaPropiedades
  <2> HIDE DEF t
  <2>2. Len(Append(t, p)) = Len(t) + 1 /\ Append(t, p)[Len(t) + 1] = p
        /\ \A k \in 1..Len(t) : Append(t, p)[k] = t[k]
    BY <2>1, AppendProperties
  <2> QED  BY <1>3, <2>1, <2>2 DEF t
<1> HIDE DEF a, q
<1>5. o[1] = l[c].pagina
  <2>1. PICK i \in 1..q : o[i] = l[c].pagina
    BY <1>1, <1>2
  <2>2. 1 \in 1..q
    BY <1>3
  <2>3. PICK k \in 1..n : o[1] = l[k].pagina
    BY <1>1, <2>2
  <2>4. ASSUME 1 < i PROVE FALSE
    <3>1. l[k].tiempoAcceso < 0
      BY <1>1, <1>2, <2>1, <2>2, <2>3, <2>4
    <3>2. l[k].tiempoAcceso \in 0..n-1
      OBVIOUS
    <3> QED  BY <3>1, <3>2
  <2> QED  BY <2>1, <2>4
<1>6. ASSUME NEW i \in 1..q-1, NEW k \in 1..n, o[i + 1] = l[k].pagina
      PROVE  /\ l[k].tiempoAcceso \in 1..n-1
             /\ r[l[k].tiempoAcceso] = l[k]
  <2>1. i + 1 \in 1..q /\ 1 \in 1..q /\ 1 < i + 1
    BY <1>3
  <2>2. 0 < l[k].tiempoAcceso
    BY <1>1, <1>2, <1>5, <1>6, <2>1
  <2> DEFINE x == l[k].tiempoAcceso
  <2>3. x \in 0..n-1
    OBVIOUS
  <2>4. x \in 1..n-1
    BY <2>2, <2>3
  <2> HIDE DEF x
  <2>5. r[x].tiempoAcceso = x /\ \E j \in 1..n : r[x] = l[j]
    BY <2>4
  <2>6. r[x] = l[k]
    BY <2>5 DEF x, TiemposDistintos
  <2> QED  BY <2>4, <2>6 DEF x
<1>7. ASSUME NEW k \in 1..n-1
      PROVE  \E j \in 1..n : /\ r[k] = l[j] /\ r[k].pagina # p
                             /\ \E i \in 1..q-1 : a[i] = r[k].pagina
  <2>1. PICK j \in 1..n : r[k] = l[j] /\ l[j].tiempoAcceso = k
    BY ZenonT(30)
  <2>2. PICK i \in 1..q : o[i] = l[j].pagina
    BY <1>1
  <2>3. i # 1
    <3>1. ASSUME i = 1 PROVE FALSE
      <4>1. l[j].pagina = l[c].pagina
        BY <1>5, <2>2, <3>1
      <4>2. j = c
        BY <4>1 DEF PaginasDistintas
      <4>3. k = 0
        BY <1>2, <2>1, <4>2
      <4> QED  BY <4>3
    <3> QED  BY <3>1
  <2>4. i - 1 \in 1..q-1 /\ (i - 1) + 1 = i
    BY <1>3, <2>3
  <2>5. a[i - 1] = o[(i - 1) + 1]
    BY <1>4, <2>4
  <2> QED  BY <2>1, <2>2, <2>4, <2>5
<1>8. /\ \A k \in 1..n : k \in 1..n-1 \/ k = n
      /\ 1..n-1 \subseteq 1..n /\ n \in 1..n
      /\ \A i, j \in 1..q : i < j => i \in 1..q-1
      /\ \A i \in 1..q : i \in 1..q-1 \/ i = q
      /\ 1..q-1 \subseteq 1..q /\ q \in 1..q
      /\ \A i \in 1..q-1 : i + 1 \in 1..q
      /\ \A i, j \in 1..q-1 : i < j => i + 1 < j + 1
  BY <1>3
<1>9. \A i \in 1..q : \E k \in 1..n : a[i] = r[k].pagina
  <2>1. ASSUME NEW i \in 1..q-1
        PROVE  \E k \in 1..n-1 : a[i] = r[k].pagina
    <3>1. PICK k \in 1..n : o[i + 1] = l[k].pagina
      BY <1>1, <1>8
    <3> DEFINE x == l[k].tiempoAcceso
    <3>2. x \in 1..n-1 /\ r[x] = l[k]
      BY <1>6, <3>1
    <3> HIDE DEF x
    <3>3. a[i] = r[x].pagina
      BY <1>4, <3>1, <3>2
    <3> QED  BY <3>2, <3>3
  <2>2. \A i \in 1..q-1 : \E k \in 1..n : a[i] = r[k].pagina
    BY <1>8, <2>1
  <2>3. a[q] = r[n].pagina
    BY <1>4
  <2> QED  BY <1>8, <2>2, <2>3
<1>10. \A k \in 1..n : \E i \in 1..q : a[i] = r[k].pagina
  BY <1>4, <1>7, <1>8
<1>11. ASSUME NEW i \in 1..q, NEW j \in 1..q, NEW k \in 1..n, NEW m \in 1..n,
              i < j, a[i] = r[k].pagina, a[j] = r[m].pagina
       PROVE  r[k].tiempoAcceso < r[m].tiempoAcceso
  <2>1. i \in 1..q-1 /\ a[i] = o[i + 1]
    BY <1>4, <1>8, <1>11
  <2>2. \A x \in 1..q-1 : o[x + 1] # p
    <3>1. ASSUME NEW x \in 1..q-1 PROVE o[x + 1] # p
      <4>1. PICK y \in 1..n : o[x + 1] = l[y].pagina
        BY <1>1, <1>8
      <4> QED  BY <4>1
    <3> QED  BY <3>1
  <2>3. k \in 1..n-1
    BY <1>8, <1>11, <2>1, <2>2
  <2>4. CASE j \in 1..q-1
    <3>1. a[j] = o[j + 1] /\ o[j + 1] # p
      BY <1>4, <2>2, <2>4
    <3>2. m \in 1..n-1
      <4>1. m # n
        BY <1>11, <3>1
      <4> QED  BY <1>8, <4>1
    <3>3. PICK x \in 1..n : r[k] = l[x]
      BY <2>3
    <3>4. PICK y \in 1..n : r[m] = l[y]
      BY <3>2
    <3>5. o[i + 1] = l[x].pagina /\ o[j + 1] = l[y].pagina
      BY <1>11, <2>1, <3>1, <3>3, <3>4
    <3>6. i + 1 \in 1..q /\ j + 1 \in 1..q /\ i + 1 < j + 1
      BY <1>8, <1>11, <2>1, <2>4
    <3>7. l[x].tiempoAcceso < l[y].tiempoAcceso
      BY <1>1, <3>5, <3>6
    <3> QED  BY <3>3, <3>4, <3>7
  <2>5. CASE j = q
    <3>1. m = n
      BY <1>4, <1>7, <1>8, <1>11, <2>5
    <3>2. r[k].tiempoAcceso = k /\ k < n
      BY <2>3
    <3>3. r[n].tiempoAcceso \in Nat
      <4>1. r[n] \in EntradasTLB
        BY <1>8, ListaPropiedades
      <4> QED  BY <4>1 DEF EntradasTLB
    <3> QED  BY <3>1, <3>2, <3>3
  <2> QED  BY <1>8, <2>4, <2>5
<1>12. OrdenLRU(a, r)
  BY <1>4, <1>9, <1>10, <1>11 DEF OrdenLRU
<1> QED  BY <1>12 DEF a

\* A hit: the page goes to the end of the order.
LEMMA LRUAcierto ==
    ASSUME NEW l \in Seq(EntradasTLB), NEW r \in Seq(EntradasTLB), NEW o \in Seq(Nat), NEW p \in Nat,
           OrdenLRU(o, l), PaginasDistintas(l), NEW c \in 1..Len(l), l[c].pagina = p,
           Len(r) = Len(l), \A k \in 1..Len(l) : r[k].pagina = l[k].pagina,
           \A k \in 1..Len(l) : /\ l[k].tiempoAcceso < r[c].tiempoAcceso
                                /\ k # c => r[k].tiempoAcceso = l[k].tiempoAcceso
    PROVE  OrdenLRU(AlFinal(o, p), r) /\ AlFinal(o, p) \in Seq(Nat)
<1> DEFINE n == Len(l)
           q == Len(o)
           x == CHOOSE i \in 1..q : o[i] = p
           a == AlFinal(o, p)
           b(i) == IF i < x THEN i ELSE i + 1
<1>1. /\ \A i \in 1..q : \E k \in 1..n : o[i] = l[k].pagina
      /\ \A k \in 1..n : \E i \in 1..q : o[i] = l[k].pagina
      /\ \A i, j \in 1..q : \A k, m \in 1..n :
            i < j /\ o[i] = l[k].pagina /\ o[j] = l[m].pagina
               => l[k].tiempoAcceso < l[m].tiempoAcceso
  BY DEF OrdenLRU
<1>2. n \in Nat /\ q \in Nat /\ DOMAIN o = 1..q /\ \A i \in 1..q : o[i] \in Nat
  BY ListaPropiedades
<1>3. x \in 1..q /\ o[x] = p
  BY <1>1
<1>4. a = [i \in 1..q |-> IF i < x THEN o[i] ELSE IF i < q THEN o[i + 1] ELSE p]
  BY <1>2 DEF AlFinal
<1> HIDE DEF x, n, q
<1>5. /\ \A i \in 1..q-1 : b(i) \in 1..q /\ b(i) # x
      /\ \A i, j \in 1..q-1 : i < j => b(i) < b(j)
      /\ \A i \in 1..q : i # x => \E j \in 1..q-1 : b(j) = i
  <2>1. \A i \in 1..q-1 : b(i) \in 1..q /\ b(i) # x
    BY <1>2, <1>3
  <2>2. \A i, j \in 1..q-1 : i < j => b(i) < b(j)
    BY <1>2, <1>3
  <2>3. ASSUME NEW i \in 1..q, i # x
        PROVE  \E j \in 1..q-1 : b(j) = i
    <3>1. CASE i < x
      <4>1. i \in 1..q-1 /\ b(i) = i
        BY <1>2, <1>3, <3>1
      <4> QED  BY <4>1
    <3>2. CASE i > x
      <4>1. i - 1 \in 1..q-1 /\ b(i - 1) = i
        BY <1>2, <1>3, <3>2
      <4> QED  BY <4>1
    <3> QED  BY <1>2, <1>3, <2>3, <3>1, <3>2
  <2> QED  BY <2>1, <2>2, <2>3
<1>6. /\ a \in Seq(Nat) /\ Len(a) = q /\ a[q] = p /\ q \in 1..q
      /\ \A i \in 1..q-1 : i \in 1..q /\ a[i] = o[b(i)]
  <2>1. \A i \in 1..q-1 : i < q /\ i \in 1..q
    BY <1>2
  <2>2. q \in 1..q /\ ~(q < x) /\ ~(q < q)
    BY <1>2, <1>3
  <2>3. \A i \in 1..q : i < q => i + 1 \in 1..q
    BY <1>2
  <2>4. a \in [1..q -> Nat]
    BY <1>2, <1>4, <2>3
  <2>5. a \in Seq(Nat) /\ Len(a) = q
    BY <1>2, <2>4
  <2>6. a[q] = p
    BY <1>4, <2>2
  <2>7. \A i \in 1..q-1 : a[i] = o[b(i)]
    BY <1>4, <2>1
  <2> QED  BY <2>1, <2>2, <2>5, <2>6, <2>7
<1> HIDE DEF a, b
<1>7. /\ \A i \in 1..q : i \in 1..q-1 \/ i = q
      /\ \A i, j \in 1..q : i < j => i \in 1..q-1
  BY <1>2
<1>8. ASSUME NEW i \in 1..q, NEW k \in 1..n, o[i] = l[k].pagina
      PROVE  k = c <=> i = x
  <2>1. ASSUME k = c PROVE i = x
    <3>1. ~(i < x) /\ ~(x < i)
      <4>1. l[c].tiempoAcceso \in Nat
        <5>1. l[c] \in EntradasTLB
          BY ListaPropiedades DEF n
        <5> QED  BY <5>1 DEF EntradasTLB
      <4>2. ~(l[c].tiempoAcceso < l[c].tiempoAcceso)
        BY <4>1
      <4> QED  BY <1>1, <1>3, <1>8, <2>1, <4>2 DEF n
    <3> QED  BY <1>2, <1>3, <3>1
  <2>2. ASSUME i = x PROVE k = c
    BY <1>3, <1>8, <2>2 DEF PaginasDistintas, n
  <2> QED  BY <2>1, <2>2
<1>9. \A k \in 1..n : r[k].pagina = l[k].pagina
  BY DEF n
<1>10. ASSUME NEW i \in 1..q
       PROVE  \E k \in 1..n : a[i] = r[k].pagina
  <2>1. CASE i \in 1..q-1
    <3>1. b(i) \in 1..q /\ a[i] = o[b(i)]
      BY <1>5, <1>6, <2>1
    <3>2. PICK k \in 1..n : o[b(i)] = l[k].pagina
      BY <1>1, <3>1
    <3> QED  BY <1>9, <3>1, <3>2
  <2>2. CASE i = q
    <3>1. c \in 1..n
      BY DEF n
    <3> QED  BY <1>6, <1>9, <2>2, <3>1
  <2> QED  BY <1>7, <2>1, <2>2
<1>11. \A k \in 1..n : \E i \in 1..q : a[i] = r[k].pagina
  <2> SUFFICES ASSUME NEW k \in 1..n PROVE \E i \in 1..q : a[i] = l[k].pagina
    BY <1>9
  <2>1. CASE k = c
    BY <1>6, <2>1
  <2>2. CASE k # c
    <3>1. PICK i \in 1..q : o[i] = l[k].pagina
      BY <1>1
    <3>2. PICK j \in 1..q-1 : b(j) = i
      BY <1>5, <1>8, <2>2, <3>1
    <3> QED  BY <1>6, <3>1, <3>2
  <2> QED  BY <2>1, <2>2
<1>12. ASSUME NEW i \in 1..q, NEW j \in 1..q, NEW k \in 1..n, NEW m \in 1..n,
              i < j, a[i] = r[k].pagina, a[j] = r[m].pagina
       PROVE  r[k].tiempoAcceso < r[m].tiempoAcceso
  <2>1. i \in 1..q-1 /\ b(i) \in 1..q /\ b(i) # x /\ o[b(i)] = l[k].pagina
    BY <1>5, <1>6, <1>7, <1>9, <1>12
  <2>2. k # c /\ r[k].tiempoAcceso = l[k].tiempoAcceso
    BY <1>8, <2>1 DEF n
  <2>3. CASE j \in 1..q-1
    <3>1. b(j) \in 1..q /\ b(j) # x /\ o[b(j)] = l[m].pagina /\ b(i) < b(j)
      BY <1>5, <1>6, <1>9, <1>12, <2>1, <2>3
    <3>2. m # c /\ r[m].tiempoAcceso = l[m].tiempoAcceso
      BY <1>8, <3>1 DEF n
    <3> QED  BY <1>1, <2>1, <2>2, <3>1, <3>2
  <2>4. CASE j = q
    <3>1. l[m].pagina = p
      BY <1>6, <1>9, <1>12, <2>4
    <3>2. m = c
      BY <3>1 DEF PaginasDistintas, n
    <3> QED  BY <2>2, <3>2 DEF n
  <2> QED  BY <1>7, <2>3, <2>4
<1> QED  BY <1>6, <1>10, <1>11, <1>12 DEF OrdenLRU, a, n, q

\* What each access leaves is in order once it is renumbered.
LEMMA OrdenRenumerado ==
    ASSUME NEW l \in Seq(EntradasTLB), TiemposDistintos(l), Len(l) <= ENTRADAS_TLB,
           listaTLB' = Renumera(l), indiceFIFO' \in 0..ENTRADAS_TLB-1,
           REEMPLAZO_TLB \in {"FIFO", "LRU"}, UNCHANGED <<REEMPLAZO_TLB, corrido>>,
           PaginasDistintas(l),
           ~corrido => /\ orden' \in Seq(Nat)
                       /\ IF REEMPLAZO_TLB = "FIFO" THEN OrdenFIFO(orden', l, indiceFIFO')
                          ELSE OrdenLRU(orden', l)
    PROVE  OrdenInv'
<1>1. PaginasDistintas(Renumera(l))
  <2>1. 0 \in 0..ENTRADAS_TLB-1
    BY TLBAssumption
  <2> QED  BY <2>1, RenumeraOrden
<1>2. ASSUME ~corrido, REEMPLAZO_TLB = "FIFO" PROVE OrdenFIFO(orden', Renumera(l), indiceFIFO')
  BY <1>2, RenumeraOrden
<1>3. ASSUME ~corrido, REEMPLAZO_TLB # "FIFO" PROVE OrdenLRU(orden', Renumera(l))
  BY <1>3, RenumeraOrden
<1>4. PaginasDistintas(listaTLB)'
  BY <1>1 DEF PaginasDistintas
<1>5. ~corrido' => IF REEMPLAZO_TLB' = "FIFO" THEN OrdenFIFO(orden', listaTLB', indiceFIFO')
                   ELSE OrdenLRU(orden', listaTLB')
  BY <1>2, <1>3
<1> QED  BY <1>4, <1>5 DEF OrdenInv, OrdenFIFO, OrdenLRU, PaginasDistintas

\* A page that was not there comes to the TLB.
LEMMA OrdenAgrega ==
    ASSUME TLBInv, OrdenInv, NEW p \in Nat, NEW m \in Marcos, AgregarTLB(p, m),
           \A k \in 1..Len(listaTLB) : listaTLB[k].pagina # p
    PROVE  OrdenInv'
<1> DEFINE n == Len(listaTLB)
<1>1. PICK lista \in Seq(EntradasTLB), nueva \in EntradasTLB :
         /\ listaTLB' = Renumera(lista) /\ TiemposDistintos(lista)
         /\ Len(lista) <= ENTRADAS_TLB /\ indiceFIFO' \in 0..ENTRADAS_TLB-1
         /\ nueva.pagina = p /\ nueva.tiempoAcceso = ENTRADAS_TLB
         /\ AgregaLista(lista, nueva)
  BY AgregarLista
<1>2. /\ n \in Nat /\ listaTLB \in Seq(EntradasTLB) /\ indiceFIFO \in 0..ENTRADAS_TLB-1
      /\ ENTRADAS_TLB \in Nat \ {0} /\ UNCHANGED <<REEMPLAZO_TLB, corrido>>
      /\ \A k \in 1..n : listaTLB[k].tiempoAcceso \in 0..n-1
      /\ TiemposDistintos(listaTLB)
  BY ListaPropiedades, TLBAssumption DEF TLBInv, AgregarTLB, TiemposDistintos
<1>3. PaginasDistintas(listaTLB) /\ REEMPLAZO_TLB \in {"FIFO", "LRU"}
  BY DEF OrdenInv
<1> HIDE DEF n
<1>4. ASSUME CreceLista(lista, nueva)
      PROVE  /\ PaginasDistintas(lista)
             /\ ~corrido => /\ orden' \in Seq(Nat)
                            /\ IF REEMPLAZO_TLB = "FIFO" THEN OrdenFIFO(orden', lista, indiceFIFO')
                               ELSE OrdenLRU(orden', lista)
  <2>1. /\ n < ENTRADAS_TLB /\ Len(lista) = n + 1 /\ indiceFIFO' = indiceFIFO
        /\ \A k \in 1..n : lista[k] = listaTLB[k]
        /\ lista[Len(lista)] = nueva
        /\ orden' = IF corrido THEN orden ELSE Append(orden, p)
    BY <1>1, <1>4 DEF CreceLista, n
  <2>2. \A k \in 1..n+1 : k \in 1..n \/ k = n + 1
    BY <1>2
  <2>3. PaginasDistintas(lista)
    BY <1>1, <1>3, <2>1, <2>2 DEF PaginasDistintas, n
  <2>4. ASSUME ~corrido
        PROVE  /\ orden \in Seq(Nat) /\ orden' = Append(orden, p) /\ orden' \in Seq(Nat)
    <3>1. orden \in Seq(Nat) /\ orden' = Append(orden, p)
      BY <2>1, <2>4 DEF OrdenInv
    <3>2. Append(orden, p) \in Seq(Nat)
      BY <3>1, AppendProperties
    <3> QED  BY <3>1, <3>2
  <2>5. ASSUME ~corrido, REEMPLAZO_TLB = "FIFO" PROVE OrdenFIFO(orden', lista, indiceFIFO')
    <3>1. OrdenFIFO(orden, listaTLB, indiceFIFO)
      BY <2>5 DEF OrdenInv
    <3>2. indiceFIFO = 0
      BY <2>1, <3>1 DEF OrdenFIFO, n
    <3>3. OrdenFIFO(orden, listaTLB, 0)
      BY <3>1, <3>2
    <3>4. OrdenFIFO(Append(orden, p), lista, 0)
      BY <1>1, <1>2, <2>1, <2>4, <2>5, <3>3, FIFOCrece DEF n
    <3> QED  BY <2>1, <2>4, <2>5, <3>2, <3>4
  <2>6. ASSUME ~corrido, REEMPLAZO_TLB # "FIFO" PROVE OrdenLRU(orden', lista)
    <3>1. OrdenLRU(orden, listaTLB)
      BY <2>6 DEF OrdenInv
    <3>2. lista[Len(lista)].tiempoAcceso = ENTRADAS_TLB /\ lista[Len(lista)].pagina = p
      BY <1>1, <2>1
    <3>3. \A k \in 1..n : /\ lista[k] = listaTLB[k] /\ listaTLB[k].pagina # p
                          /\ listaTLB[k].tiempoAcceso < lista[Len(lista)].tiempoAcceso
      <4>1. \A k \in 1..n : listaTLB[k].tiempoAcceso < ENTRADAS_TLB
        BY <1>2, <2>1
      <4> QED  BY <2>1, <3>2, <4>1 DEF n
    <3>4. OrdenLRU(Append(orden, p), lista)
      BY <1>2, <2>1, <2>4, <2>6, <3>1, <3>2, <3>3, LRUCrece DEF n
    <3> QED  BY <2>4, <2>6, <3>4
  <2> QED  BY <2>3, <2>4, <2>5, <2>6
<1>5. ASSUME CambiaIndice(lista, nueva)
      PROVE  /\ PaginasDistintas(lista) /\ REEMPLAZO_TLB = "FIFO"
             /\ ~corrido => orden' \in Seq(Nat) /\ OrdenFIFO(orden', lista, indiceFIFO')
  <2>1. /\ n = ENTRADAS_TLB /\ Len(lista) = n /\ REEMPLAZO_TLB = "FIFO"
        /\ \A k \in 1..n : lista[k] = IF k = indiceFIFO + 1 THEN nueva ELSE listaTLB[k]
        /\ indiceFIFO' = (indiceFIFO + 1) % ENTRADAS_TLB
        /\ orden' = IF corrido THEN orden ELSE Append(Tail(orden), p)
    BY <1>1, <1>5 DEF CambiaIndice, incrementarIndiceFIFO, n
  <2>2. PaginasDistintas(lista)
    BY <1>1, <1>3, <2>1 DEF PaginasDistintas, n
  <2>3. ASSUME ~corrido
        PROVE  orden' \in Seq(Nat) /\ OrdenFIFO(orden', lista, indiceFIFO')
    <3>1. /\ orden \in Seq(Nat) /\ orden' = Append(Tail(orden), p)
          /\ OrdenFIFO(orden, listaTLB, indiceFIFO)
      BY <2>1, <2>3 DEF OrdenInv
    <3>2. orden # <<>>
      BY <1>2, <2>1, <3>1, EmptySeq DEF OrdenFIFO, n
    <3>3. Tail(orden) \in Seq(Nat)
      BY <3>1, <3>2, ListaPropiedades
    <3>4. Append(Tail(orden), p) \in Seq(Nat)
      BY <3>3, AppendProperties
    <3>5. indiceFIFO + 1 \in 1..n
      BY <1>2, <2>1
    <3>6. /\ \A k \in 1..Len(lista) : k # indiceFIFO + 1 => lista[k] = listaTLB[k]
          /\ lista[indiceFIFO + 1].pagina = p
      BY <1>1, <2>1, <3>5
    <3> DEFINE i == indiceFIFO
    <3>7. PICK i0 \in 0..ENTRADAS_TLB-1 : i0 = i
      BY <1>2
    <3>8. /\ OrdenFIFO(orden, listaTLB, i0) /\ lista[i0 + 1].pagina = p
          /\ \A k \in 1..Len(lista) : k # i0 + 1 => lista[k] = listaTLB[k]
      BY <3>1, <3>6, <3>7
    <3>9. OrdenFIFO(Append(Tail(orden), p), lista, (i0 + 1) % ENTRADAS_TLB)
      BY <1>2, <2>1, <3>1, <3>8, FIFOReemplaza DEF n
    <3> QED  BY <2>1, <3>1, <3>4, <3>7, <3>9
  <2> QED  BY <2>1, <2>2, <2>3
<1>6. ASSUME CambiaPrimera(lista, nueva)
      PROVE  /\ PaginasDistintas(lista) /\ REEMPLAZO_TLB # "FIFO"
             /\ ~corrido => orden' \in Seq(Nat) /\ OrdenLRU(orden', lista)
  <2>1. /\ n = ENTRADAS_TLB /\ Len(lista) = n /\ REEMPLAZO_TLB # "FIFO"
        /\ \A k \in 1..n-1 : /\ lista[k].tiempoAcceso = k
                             /\ \E j \in 1..n : lista[k] = listaTLB[j]
        /\ lista[n] = nueva
        /\ orden' = IF corrido THEN orden ELSE Append(Tail(orden), p)
    BY <1>1, <1>6 DEF CambiaPrimera, n
  <2>2. \A k \in 1..n : k \in 1..n-1 \/ k = n
    BY <1>2
  <2>3. \A k \in 1..n-1 : lista[k].pagina # p
    BY <2>1 DEF n
  <2>4. PaginasDistintas(lista)
    <3> SUFFICES ASSUME NEW j \in 1..n, NEW k \in 1..n, lista[j].pagina = lista[k].pagina
                 PROVE  j = k
      BY <2>1 DEF PaginasDistintas
    <3>1. CASE j \in 1..n-1 /\ k \in 1..n-1
      <4>1. PICK x \in 1..n : lista[j] = listaTLB[x]
        BY <2>1, <3>1
      <4>2. PICK y \in 1..n : lista[k] = listaTLB[y]
        BY <2>1, <3>1
      <4>3. x = y
        BY <1>3, <4>1, <4>2 DEF PaginasDistintas, n
      <4>4. lista[j].tiempoAcceso = j /\ lista[k].tiempoAcceso = k
        BY <2>1, <3>1
      <4> QED  BY <4>1, <4>2, <4>3, <4>4
    <3> QED  BY <1>1, <2>1, <2>2, <2>3, <3>1
  <2>5. ASSUME ~corrido
        PROVE  orden' \in Seq(Nat) /\ OrdenLRU(orden', lista)
    <3>1. /\ orden \in Seq(Nat) /\ orden' = Append(Tail(orden), p)
          /\ OrdenLRU(orden, listaTLB)
      BY <2>1, <2>5 DEF OrdenInv
    <3>2. n \in Nat \ {0} /\ 1 \in 1..n
      BY <1>2, <2>1
    <3>3. \E k \in 1..n : listaTLB[k].tiempoAcceso = 0
      <4>1. Ordenada[1].tiempoAcceso = 1 - 1 /\ \E j \in 1..n : Ordenada[1] = listaTLB[j]
        BY <3>2, OrdenadaPropiedades DEF n
      <4> QED  BY <4>1
    <3>4. orden # <<>>
      <4>1. \E i \in 1..Len(orden) : TRUE
        BY <3>1, <3>2 DEF OrdenLRU, n
      <4> QED  BY <4>1, EmptySeq
    <3>5. Append(Tail(orden), p) \in Seq(Nat)
      <4>1. Tail(orden) \in Seq(Nat)
        BY <3>1, <3>4, ListaPropiedades
      <4> QED  BY <4>1, AppendProperties
    <3>6. lista[n].pagina = p /\ lista[n].tiempoAcceso >= n
      BY <1>1, <1>2, <2>1
    <3>7. PICK n0 \in Nat \ {0} : n0 = n
      BY <3>2
    <3>8. /\ Len(listaTLB) = n0 /\ Len(lista) = n0
          /\ \A k \in 1..n0 : listaTLB[k].pagina # p /\ listaTLB[k].tiempoAcceso \in 0..n0-1
          /\ \E k \in 1..n0 : listaTLB[k].tiempoAcceso = 0
          /\ \A k \in 1..n0-1 : /\ lista[k].tiempoAcceso = k
                                /\ \E j \in 1..n0 : lista[k] = listaTLB[j]
          /\ lista[n0].pagina = p /\ lista[n0].tiempoAcceso >= n0
      BY <1>2, <2>1, <3>3, <3>6, <3>7 DEF n
    <3>9. OrdenLRU(Append(Tail(orden), p), lista)
      BY <1>2, <1>3, <3>1, <3>8, LRUReemplaza, ZenonT(40)
    <3> QED  BY <3>1, <3>5, <3>9
  <2> QED  BY <2>1, <2>4, <2>5
<1>7. /\ PaginasDistintas(lista)
      /\ ~corrido => /\ orden' \in Seq(Nat)
                     /\ IF REEMPLAZO_TLB = "FIFO" THEN OrdenFIFO(orden', lista, indiceFIFO')
                        ELSE OrdenLRU(orden', lista)
  BY <1>1, <1>4, <1>5, <1>6 DEF AgregaLista
<1> QED  BY <1>1, <1>2, <1>3, <1>7, OrdenRenumerado

\* A hit only moves its page, and only in LRU.
LEMMA OrdenActualiza ==
    ASSUME TLBInv, OrdenInv, NEW p \in PaginasTLB, ActualizarTLB(p)
    PROVE  OrdenInv'
<1> DEFINE n == Len(listaTLB)
<1>1. PICK lista \in Seq(EntradasTLB), c \in 1..n :
         /\ listaTLB' = Renumera(lista) /\ TiemposDistintos(lista)
         /\ listaTLB[c].pagina = p /\ RetrasaEntrada(lista, c)
  BY ActualizarLista
<1>2. /\ n \in Nat /\ listaTLB \in Seq(EntradasTLB) /\ n <= ENTRADAS_TLB
      /\ indiceFIFO' = indiceFIFO /\ indiceFIFO \in 0..ENTRADAS_TLB-1
      /\ UNCHANGED <<REEMPLAZO_TLB, corrido>> /\ ENTRADAS_TLB \in Nat \ {0}
      /\ \A k \in 1..n : listaTLB[k].tiempoAcceso \in 0..n-1 /\ listaTLB[k] \in EntradasTLB
  BY ListaPropiedades, TLBAssumption DEF TLBInv, ActualizarTLB
<1>3. /\ Len(lista) = n
      /\ \A k \in 1..n :
            /\ lista[k].pagina = listaTLB[k].pagina
            /\ lista[k].tiempoAcceso = IF k = c THEN ENTRADAS_TLB ELSE listaTLB[k].tiempoAcceso
  BY <1>1 DEF RetrasaEntrada
<1>4. PaginasDistintas(listaTLB) /\ REEMPLAZO_TLB \in {"FIFO", "LRU"}
  BY DEF OrdenInv
<1>5. p \in Nat
  BY <1>1, <1>2 DEF EntradasTLB
<1> HIDE DEF n
<1>6. PaginasDistintas(lista)
  BY <1>3, <1>4 DEF PaginasDistintas, n
<1>7. ASSUME ~corrido, REEMPLAZO_TLB = "FIFO"
      PROVE  orden' \in Seq(Nat) /\ OrdenFIFO(orden', lista, indiceFIFO')
  <2>1. orden' = orden /\ orden \in Seq(Nat) /\ OrdenFIFO(orden, listaTLB, indiceFIFO)
    BY <1>7 DEF OrdenInv, ActualizarTLB
  <2>2. \A k \in 1..n : Giro(k, indiceFIFO, n) \in 1..n
    <3>1. indiceFIFO = 0 \/ indiceFIFO < n
      BY <1>2, <2>1 DEF OrdenFIFO, n
    <3>2. indiceFIFO \in Nat
      BY <1>2
    <3> QED  BY <1>2, <3>1, <3>2, GiroEnLista
  <2> QED  BY <1>2, <1>3, <2>1, <2>2 DEF OrdenFIFO, n
<1>8. ASSUME ~corrido, REEMPLAZO_TLB # "FIFO"
      PROVE  orden' \in Seq(Nat) /\ OrdenLRU(orden', lista)
  <2>1. orden' = AlFinal(orden, p) /\ orden \in Seq(Nat) /\ OrdenLRU(orden, listaTLB)
    BY <1>8 DEF OrdenInv, ActualizarTLB
  <2>2. \A k \in 1..n : /\ listaTLB[k].tiempoAcceso < lista[c].tiempoAcceso
                        /\ k # c => lista[k].tiempoAcceso = listaTLB[k].tiempoAcceso
    <3>1. lista[c].tiempoAcceso = ENTRADAS_TLB
      BY <1>3
    <3>2. \A k \in 1..n : listaTLB[k].tiempoAcceso < ENTRADAS_TLB
      BY <1>2
    <3> QED  BY <1>3, <3>1, <3>2
  <2>3. PICK p0 \in Nat : p0 = p
    BY <1>5
  <2>4. OrdenLRU(AlFinal(orden, p0), lista) /\ AlFinal(orden, p0) \in Seq(Nat)
    <3>1. /\ c \in 1..Len(listaTLB) /\ listaTLB[c].pagina = p0 /\ Len(lista) = Len(listaTLB)
          /\ \A k \in 1..Len(listaTLB) : lista[k].pagina = listaTLB[k].pagina
          /\ \A k \in 1..Len(listaTLB) :
                /\ listaTLB[k].tiempoAcceso < lista[c].tiempoAcceso
                /\ k # c => lista[k].tiempoAcceso = listaTLB[k].tiempoAcceso
      BY <1>1, <1>3, <2>2, <2>3 DEF n
    <3> QED  BY <1>2, <1>4, <2>1, <3>1, LRUAcierto
  <2> QED  BY <2>1, <2>3, <2>4
<1> QED  BY <1>1, <1>2, <1>3, <1>4, <1>6, <1>7, <1>8, OrdenRenumerado

\* An empty TLB is in order, with the index at 0 for FIFO.
LEMMA OrdenVacia ==
    PaginasDistintas(<<>>) /\ OrdenFIFO(<<>>, <<>>, 0) /\ OrdenLRU(<<>>, <<>>) /\ <<>> \in Seq(Nat)
<1>1. Len(<<>>) = 0 /\ \A k \in 1..Len(<<>>) : FALSE
  BY EmptySeq
<1> QED  BY <1>1, EmptySeq DEF PaginasDistintas, OrdenFIFO, OrdenLRU

\* Every step of MemoriaVirtual keeps the order of the TLB.
LEMMA OrdenPreservado ==
    ControlInv /\ DatosInv /\ DatosInv' /\ CoincideInv /\ OrdenInv /\ [NextMV]_varsMV => OrdenInv'
<1> SUFFICES ASSUME ControlInv, DatosInv, DatosInv', CoincideInv, OrdenInv, [NextMV]_varsMV
             PROVE  OrdenInv'
  OBVIOUS
<1>1. ASSUME UNCHANGED varsMMU PROVE OrdenInv'
  BY <1>1 DEF varsMMU, OrdenInv, OrdenFIFO, OrdenLRU, PaginasDistintas
<1>2. TLBInv
  BY DEF DatosInv
<1>3. ASSUME NEW p \in Procesos, DespachaCPU(p)
      PROVE  OrdenInv'
  <2>1. VaciarTLB(p)
    BY <1>3 DEF DespachaCPU
  <2>2. CASE PCB_ACTUAL = p
    BY <1>1, <2>1, <2>2 DEF VaciarTLB, varsMMU
  <2>3. CASE PCB_ACTUAL # p
    <3>1. /\ listaTLB' = <<>> /\ orden' = <<>> /\ corrido' = (indiceFIFO # 0)
          /\ UNCHANGED <<REEMPLAZO_TLB, indiceFIFO>>
      BY <2>1, <2>3 DEF VaciarTLB
    <3>2. ~corrido' => indiceFIFO' = 0
      BY <3>1
    <3>3. PaginasDistintas(<<>>) /\ OrdenFIFO(<<>>, <<>>, 0) /\ OrdenLRU(<<>>, <<>>) /\ <<>> \in Seq(Nat)
      BY OrdenVacia
    <3> QED  BY <3>1, <3>2, <3>3 DEF OrdenInv, PaginasDistintas, OrdenFIFO, OrdenLRU
  <2> QED  BY <2>2, <2>3
<1>4. CASE KernelMV
  BY <1>1, <1>3, <1>4 DEF KernelMV
<1>5. CASE HiloKernelMV
  BY <1>1, <1>5 DEF HiloKernelMV, SwapeaEntradasMV
<1>6. CASE AccedeAcierto
  BY <1>2, <1>6, OrdenActualiza DEF AccedeAcierto
<1>7. CASE AccedeFallo
  BY <1>1, <1>7 DEF AccedeFallo
<1>8. CASE HiloCPUMV
  <2>1. CASE MarcoPresenteMV \/ MarcoLibreMV \/ ReemplazaMV
    <3>1. pcCPU \in {"marco", "reemplaza"} /\ pcCPU' = "acceso" /\ RespondeMarco
      BY <2>1 DEF MarcoPresenteMV, MarcoLibreMV, ReemplazaMV, MarcoPresente, MarcoLibre, Reemplaza,
         ObtieneMarco
    <3>2. consulta.pagina \in Nat /\ marco' \in Marcos
      BY <3>1, ConsultaTipo DEF DatosInv, TipoAcceso
    <3>3. \A k \in 1..Len(listaTLB) : listaTLB[k].pagina # consulta.pagina
      BY <3>1 DEF CoincideInv, PaginasTLBInv
    <3>4. PICK p \in Nat, m \in Marcos : p = consulta.pagina /\ m = marco'
      BY <3>2
    <3>5. AgregarTLB(p, m)
      BY <3>1, <3>4 DEF RespondeMarco, AgregarTLB, newEntradaTLB
    <3>6. \A k \in 1..Len(listaTLB) : listaTLB[k].pagina # p
      BY <3>3, <3>4
    <3> QED  BY <1>2, <3>5, <3>6, OrdenAgrega
  <2> QED  BY <1>1, <1>8, <2>1 DEF HiloCPUMV
<1>9. CASE UNCHANGED varsMV
  BY <1>1, <1>9 DEF varsMV
<1> QED  BY <1>4, <1>5, <1>6, <1>7, <1>8, <1>9 DEF NextMV

\* The pages of the TLB are as many as its entries, and those of the order.
LEMMA OrdenSale == TLBInv /\ OrdenInv => ReemplazoEnOrden
<1> SUFFICES ASSUME TLBInv, OrdenInv PROVE ReemplazoEnOrden
  OBVIOUS
<1> DEFINE n == Len(listaTLB)
           f == [k \in 1..n |-> listaTLB[k].pagina]
<1>1. n \in Nat /\ DOMAIN listaTLB = 1..n /\ n <= ENTRADAS_TLB
  BY ListaPropiedades DEF TLBInv
<1>2. Cardinality(PaginasTLB) = n
  <2>1. f \in Surjection(1..n, PaginasTLB) /\ f \in Injection(1..n, PaginasTLB)
    BY <1>1 DEF PaginasTLB, Surjection, Injection, IsInjective, OrdenInv, PaginasDistintas
  <2>2. IsFiniteSet(1..n) /\ Cardinality(1..n) = n
    BY <1>1, IntervaloFinito
  <2> HIDE DEF f, n
  <2> QED  BY <2>1, <2>2, FS_Surjection
<1>3. ASSUME ~corrido
      PROVE  PaginasTLB = {orden[k] : k \in DOMAIN orden}
  <2>1. orden \in Seq(Nat) /\ DOMAIN orden = 1..Len(orden)
    BY <1>3, ListaPropiedades DEF OrdenInv
  <2>4. ASSUME \A k \in 1..Len(orden) : \E j \in 1..n : orden[k] = listaTLB[j].pagina,
               \A j \in 1..n : \E k \in 1..Len(orden) : orden[k] = listaTLB[j].pagina
        PROVE  PaginasTLB = {orden[k] : k \in DOMAIN orden}
    <3>1. \A x : x \in PaginasTLB <=> \E j \in 1..n : x = listaTLB[j].pagina
      BY <1>1 DEF PaginasTLB
    <3>2. \A x : x \in {orden[k] : k \in DOMAIN orden} <=> \E k \in 1..Len(orden) : x = orden[k]
      BY <2>1
    <3> HIDE DEF n
    <3>3. ASSUME NEW x \in PaginasTLB
          PROVE  x \in {orden[k] : k \in DOMAIN orden}
      <4>1. PICK j \in 1..n : x = listaTLB[j].pagina
        BY <3>1
      <4>2. PICK k \in 1..Len(orden) : orden[k] = listaTLB[j].pagina
        BY <2>4
      <4> QED  BY <3>2, <4>1, <4>2
    <3>4. ASSUME NEW x \in {orden[k] : k \in DOMAIN orden}
          PROVE  x \in PaginasTLB
      <4>1. PICK k \in 1..Len(orden) : x = orden[k]
        BY <3>2
      <4>2. PICK j \in 1..n : orden[k] = listaTLB[j].pagina
        BY <2>4
      <4> QED  BY <3>1, <4>1, <4>2
    <3> QED  BY <3>3, <3>4
  <2>2. CASE REEMPLAZO_TLB = "FIFO"
    <3>1. OrdenFIFO(orden, listaTLB, indiceFIFO)
      BY <1>3, <2>2 DEF OrdenInv
    <3>2. indiceFIFO \in Nat /\ (indiceFIFO = 0 \/ indiceFIFO < n)
      BY <1>1, <3>1, TLBAssumption DEF TLBInv, OrdenFIFO
    <3>3. Len(orden) = n /\ \A k \in 1..n : orden[k] = listaTLB[Giro(k, indiceFIFO, n)].pagina
      BY <3>1 DEF OrdenFIFO
    <3>4. /\ \A k \in 1..n : Giro(k, indiceFIFO, n) \in 1..n
          /\ \A j \in 1..n : \E k \in 1..n : Giro(k, indiceFIFO, n) = j
      <4> HIDE DEF n
      <4> QED  BY <1>1, <3>2, GiroEnLista
    <3> HIDE DEF n
    <3>5. \A k \in 1..n : \E j \in 1..n : orden[k] = listaTLB[j].pagina
      BY <3>3, <3>4
    <3>6. \A j \in 1..n : \E k \in 1..n : orden[k] = listaTLB[j].pagina
      BY <3>3, <3>4, ZenonT(40)
    <3> QED  BY <2>4, <3>3, <3>5, <3>6
  <2>3. CASE REEMPLAZO_TLB # "FIFO"
    <3>1. OrdenLRU(orden, listaTLB)
      BY <1>3, <2>3 DEF OrdenInv
    <3>2. /\ \A k \in 1..Len(orden) : \E j \in 1..n : orden[k] = listaTLB[j].pagina
          /\ \A j \in 1..n : \E k \in 1..Len(orden) : orden[k] = listaTLB[j].pagina
      BY <3>1 DEF OrdenLRU
    <3> HIDE DEF n
    <3> QED  BY <2>4, <3>2
  <2> QED  BY <2>2, <2>3
<1> QED  BY <1>1, <1>2, <1>3 DEF ReemplazoEnOrden

\* The order of the policy is kept through every mixture of hits, misses,
\* replacements and changes of process (mmu.c:19-105), but for the index that
\* vaciarTLB does not reset (mmu.c:58).
THEOREM OrdenCorrecto == SpecMV => [](CoincideInv /\ OrdenInv)
<1>1. InitMV => OrdenInv
  BY OrdenVacia, TLBAssumption DEF InitMV, InitMMU, OrdenInv
<1>2. SpecMV => []CoincideInv
  BY CoincideInicial, CoincidePreservado, ControlCorrecto, DatosCorrectos, PTL DEF SpecMV
<1> QED
  BY <1>1, <1>2, OrdenPreservado, ControlCorrecto, DatosCorrectos, PTL DEF SpecMV

\* The TLB has each page once, and the pages of the order (mmu.c:19-105).
THEOREM ReemplazoSiempreEnOrden == SpecMV => []ReemplazoEnOrden
<1>1. DatosInv => TLBInv
  BY DEF DatosInv
<1> QED  BY <1>1, OrdenSale, OrdenCorrecto, DatosCorrectos, PTL

-----------------------------------------------------------------------------
(* The count of frames *)

\* The frames a process has are finitely many, as its pages are.
LEMMA PresentesFinito ==
    ASSUME NEW p \in Procesos, NEW A, A \subseteq Paginas(p)
    PROVE  IsFiniteSet(A) /\ Cardinality(A) \in Nat
<1>1. IsFiniteSet(Paginas(p))
  <2>1. PAGINAS[p] \in Nat
    BY MemoriaAssumption
  <2>2. PAGINAS[p] - 1 \in Int /\ 0 \in Int
    BY <2>1
  <2> QED  BY <2>2, FS_Interval DEF Paginas
<1>2. IsFiniteSet(A)
  BY <1>1, FS_Subset
<1> QED  BY <1>2, FS_CardinalityType

\* A process counted now was counted before with the same pages, or its count is
\* right now.
LEMMA OcupadosPaso ==
    ASSUME OcupadosInv,
           \A p \in Procesos : Contado(p)' =>
              \/ OcupadosDe(p)'
              \/ /\ Contado(p)
                 /\ estadosPCBS'[p].marcosOcupados = estadosPCBS[p].marcosOcupados
                 /\ \A j \in Paginas(p) : entradas'[p][j].presencia = entradas[p][j].presencia
    PROVE  OcupadosInv'
<1> SUFFICES ASSUME NEW p \in Procesos, Contado(p)' PROVE OcupadosDe(p)'
  BY DEF OcupadosInv
<1>1. CASE /\ Contado(p)
           /\ estadosPCBS'[p].marcosOcupados = estadosPCBS[p].marcosOcupados
           /\ \A j \in Paginas(p) : entradas'[p][j].presencia = entradas[p][j].presencia
  <2>1. Presentes(p)' = Presentes(p)
    BY <1>1 DEF Presentes
  <2> QED  BY <1>1, <2>1 DEF OcupadosInv, OcupadosDe
<1> QED  BY <1>1

\* One page more and one more counted.
LEMMA OcupadosLibre ==
    ASSUME DatosInv, MarcoLibreMV, NEW p \in Procesos, p = consulta.id, OcupadosDe(p)
    PROVE  OcupadosDe(p)'
<1> DEFINE i == consulta.pagina
<1>1. pcCPU = "marco" /\ ~Entrada.presencia /\ consulta' = consulta
  BY DEF MarcoLibreMV, MarcoLibre, ObtieneMarco
<1>2. p \in Procesos /\ i \in Paginas(p) /\ i \notin Presentes(p)
  BY <1>1, ConsultaTipo DEF Presentes, Entrada
<1>3. Presentes(p)' = Presentes(p) \union {i}
  <2>1. \A j \in Paginas(p) : entradas'[p][j].presencia <=> j = i \/ entradas[p][j].presencia
    BY <1>2, DatosMarcoLibre
  <2> QED  BY <1>2, <2>1 DEF Presentes
<1>4. IsFiniteSet(Presentes(p)) /\ Cardinality(Presentes(p)) \in Nat
  BY <1>2, PresentesFinito DEF Presentes
<1>5. Cardinality(Presentes(p)') = Cardinality(Presentes(p)) + 1
  BY <1>2, <1>3, <1>4, FS_AddElement
<1>6. estadosPCBS'[p].marcosOcupados = estadosPCBS[p].marcosOcupados + 1
      /\ estadosPCBS[p].marcosOcupados \in Nat
  BY <1>2, DatosMarcoLibre, MemoriaAssumption DEF DatosInv, TipoEstados
<1> QED  BY <1>1, <1>4, <1>5, <1>6 DEF OcupadosDe

\* A replacement brings a page; a modified one that leaves takes one from the
\* count, and one that is not stays.
LEMMA OcupadosReemplaza ==
    ASSUME DatosInv, ReemplazaMV, NEW p \in Procesos, p = consulta.id, OcupadosDe(p)
    PROVE  OcupadosDe(p)'
<1> DEFINE i == consulta.pagina
           v == victima
           P == Presentes(p)
<1>1. pcCPU = "reemplaza" /\ consulta' = consulta
  BY DEF ReemplazaMV, Reemplaza, ObtieneMarco
<1>2. /\ p \in Procesos /\ i \in Paginas(p) /\ v \in Paginas(p)
      /\ i \notin P /\ v \in P /\ v # i
  BY <1>1, ConsultaTipo DEF DatosInv, BusquedaInv, Presentes, Entrada
<1>3. IsFiniteSet(P) /\ Cardinality(P) \in Nat
  BY <1>2, PresentesFinito DEF Presentes
<1>4. estadosPCBS[p].marcosOcupados \in Nat /\ estadosPCBS[p].marcosOcupados <= Cardinality(P)
  BY <1>2, MemoriaAssumption DEF DatosInv, TipoEstados, OcupadosDe
<1>5. CASE entradas[p][v].modificado
  <2>1. \A j \in Paginas(p) : entradas'[p][j].presencia
                                <=> j = i \/ (j # v /\ entradas[p][j].presencia)
    BY <1>2, <1>5, DatosReemplaza, ZenonT(40)
  <2>2. Presentes(p)' = (P \ {v}) \union {i}
    BY <1>2, <2>1 DEF Presentes
  <2> HIDE DEF P
  <2>3. IsFiniteSet(P \ {v}) /\ Cardinality(P \ {v}) = Cardinality(P) - 1
    BY <1>2, <1>3, FS_RemoveElement
  <2>4. i \notin P \ {v}
    BY <1>2
  <2>5. Cardinality((P \ {v}) \union {i}) = Cardinality(P \ {v}) + 1
    BY <2>3, <2>4, FS_AddElement
  <2>6. estadosPCBS'[p].marcosOcupados = estadosPCBS[p].marcosOcupados - 1
    BY <1>2, <1>5, DatosReemplaza DEF DatosInv, TipoEstados
  <2> QED  BY <1>1, <1>3, <1>4, <2>2, <2>3, <2>5, <2>6 DEF OcupadosDe
<1>6. CASE ~entradas[p][v].modificado
  <2>1. \A j \in Paginas(p) : entradas'[p][j].presencia <=> j = i \/ entradas[p][j].presencia
    BY <1>2, <1>6, DatosReemplaza, ZenonT(40)
  <2>2. Presentes(p)' = P \union {i}
    BY <1>2, <2>1 DEF Presentes
  <2> HIDE DEF P
  <2>3. Cardinality(P \union {i}) = Cardinality(P) + 1
    BY <1>2, <1>3, FS_AddElement
  <2>4. estadosPCBS' = estadosPCBS
    BY <1>6, DatosReemplaza
  <2> QED  BY <1>1, <1>3, <1>4, <2>2, <2>3, <2>4 DEF OcupadosDe
<1> QED  BY <1>5, <1>6

\* Every step keeps the count of the occupied frames of each process.
LEMMA OcupadosPreservado ==
    ControlInv /\ DatosInv /\ DatosInv' /\ OcupadosInv /\ [NextMV]_varsMV => OcupadosInv'
<1> SUFFICES ASSUME ControlInv, DatosInv, DatosInv', OcupadosInv, [NextMV]_varsMV
             PROVE  OcupadosInv'
  OBVIOUS
<1> USE DEF varsProc, varsKernel, varsAcceso
<1>1. /\ fase \in [Procesos -> Fases] /\ colaKernel \in Seq(Peticiones)
      /\ DeCadaPagina(entradas, EntradasPagina)
      /\ \A p \in Procesos : estadosPCBS[p].marcosOcupados \in Nat
      /\ estadosPCBS = [p \in Procesos |-> estadosPCBS[p]]
  BY MemoriaAssumption DEF ControlInv, TipoControl, DatosInv, TipoEstados
<1>2. ASSUME UNCHANGED <<estadosPCBS, entradas>>,
             \A p \in Procesos : Contado(p)' => Contado(p)
      PROVE  OcupadosInv'
  BY <1>2, OcupadosPaso
<1>3. ASSUME UNCHANGED <<fase, pcKernel, colaKernel>>
      PROVE  \A p \in Procesos : Contado(p)' => Contado(p)
  BY <1>3 DEF Contado
<1>4. CASE KernelMV
  <2>1. ASSUME NEW p \in Procesos, PideCrear(p) \/ PideSuspender(p) \/ PideFin(p)
        PROVE  OcupadosInv'
    <3>1. PICK c \in {"CREAR", "SUSP", "FIN"}, n \in {"creando", "suspendiendo", "fin"} : Pide(c, p, n)
      BY <2>1 DEF PideCrear, PideSuspender, PideFin
    <3>2. /\ fase' = [fase EXCEPT ![p] = n]
          /\ colaKernel' = Append(colaKernel, [codigo |-> c, id |-> p])
          /\ UNCHANGED <<pcKernel, estadosPCBS, entradas>>
      BY <3>1 DEF Pide
    <3>3. pcKernel = "eliminar" => colaKernel'[1] = colaKernel[1]
      <4>1. [codigo |-> c, id |-> p] \in Peticiones
        BY DEF Peticiones
      <4>2. pcKernel = "eliminar" => 1 \in 1..Len(colaKernel)
        BY <1>1, ListaPropiedades DEF ControlInv, ColaKernelInv
      <4> QED  BY <1>1, <3>2, <4>1, <4>2, AppendProperties
    <3>4. \A q \in Procesos : Contado(q)' => Contado(q)
      BY <1>1, <3>2, <3>3 DEF Contado
    <3> QED  BY <1>2, <3>2, <3>4
  <2>2. ASSUME NEW p \in Procesos, Readmite(p) \/ Desbloquea(p)
        PROVE  OcupadosInv'
    <3>1. /\ fase[p] \in {"suspendido", "bloqueado"} /\ fase' = [fase EXCEPT ![p] = "activo"]
          /\ UNCHANGED <<pcKernel, colaKernel, estadosPCBS, entradas>>
      BY <2>2 DEF Readmite, Desbloquea
    <3>2. \A q \in Procesos : Contado(q)' => Contado(q)
      BY <1>1, <3>1 DEF Contado
    <3> QED  BY <1>2, <3>1, <3>2
  <2>3. CASE Vuelve
    <3>1. PICK n \in {"activo", "bloqueado"} : fase' = [fase EXCEPT ![ejecutando] = n]
      BY <2>3 DEF Vuelve
    <3>2. /\ ejecutando \in Procesos /\ fase[ejecutando] = "activo"
          /\ UNCHANGED <<pcKernel, colaKernel, estadosPCBS, entradas>>
      BY <2>3 DEF Vuelve, ControlInv, TipoControl, EjecutandoInv
    <3>3. \A q \in Procesos : Contado(q)' => Contado(q)
      BY <1>1, <3>1, <3>2 DEF Contado
    <3> QED  BY <1>2, <3>2, <3>3
  <2>4. ASSUME NEW p \in Procesos, DespachaCPU(p)
        PROVE  OcupadosInv'
    BY <1>2, <1>3, <2>4 DEF DespachaCPU, Despacha
  <2> QED  BY <1>4, <2>1, <2>2, <2>3, <2>4 DEF KernelMV
<1>5. CASE HiloKernelMV
  <2>1. colaKernel # <<>>
    BY <1>5 DEF HiloKernelMV, SwapeaEntradasMV, CrearProceso, SwapeaEntradas, ReseteaOcupados,
       TerminaSuspension, FinProceso, Cabeza, ControlInv, ColaKernelInv
  <2>2. PICK p \in Procesos :
           /\ p = colaKernel[1].id /\ Head(colaKernel) = colaKernel[1]
           /\ fase[p] \in {"creando", "suspendiendo", "fin"}
    BY <2>1, CabezaAjena
  <2>3. estadosPCBS'[p].marcosOcupados = 0 => OcupadosDe(p)'
    <3>1. Presentes(p)' \subseteq Paginas(p)
      BY DEF Presentes
    <3>2. Cardinality(Presentes(p)') \in Nat
      BY <2>2, <3>1, PresentesFinito
    <3> QED  BY <3>2 DEF OcupadosDe
  <2>4. CASE CrearProceso
    <3>1. /\ pcKernel = "espera" /\ pcKernel' = pcKernel
          /\ fase' = [fase EXCEPT ![p] = "activo"]
          /\ estadosPCBS' = [estadosPCBS EXCEPT ![p] = [marcosOcupados |-> 0, punteroClock |-> 0]]
          /\ entradas' = [entradas EXCEPT ![p] = [i \in Paginas(p) |-> EntradaNueva]]
      BY <2>1, <2>2, <2>4 DEF CrearProceso, Cabeza, ControlInv, ColaKernelInv
    <3>2. estadosPCBS'[p].marcosOcupados = 0
      BY <1>1, <2>2, <3>1
    <3>3. \A q \in Procesos : q # p => /\ fase'[q] = fase[q] /\ entradas'[q] = entradas[q]
                                       /\ estadosPCBS'[q] = estadosPCBS[q]
      BY <1>1, <2>2, <3>1 DEF DeCadaPagina
    <3> QED  BY <2>3, <3>1, <3>2, <3>3, OcupadosPaso DEF Contado
  <2>5. CASE SwapeaEntradas
    <3>1. /\ pcKernel' = "ocupados" /\ fase' = fase /\ estadosPCBS' = estadosPCBS
          /\ \E h : entradas' = [entradas EXCEPT ![p] = h]
      BY <2>2, <2>5 DEF SwapeaEntradas
    <3>2. \A q \in Procesos : q # p => entradas'[q] = entradas[q]
      BY <1>1, <2>2, <3>1 DEF DeCadaPagina
    <3> QED  BY <2>2, <3>1, <3>2, OcupadosPaso DEF Contado
  <2>6. CASE ReseteaOcupados
    <3>1. /\ pcKernel' = "eliminar" /\ UNCHANGED <<fase, entradas, colaKernel>>
          /\ estadosPCBS' = [estadosPCBS EXCEPT ![p] = [estadosPCBS[p] EXCEPT !.marcosOcupados = 0]]
      BY <2>2, <2>6 DEF ReseteaOcupados
    <3>2. estadosPCBS'[p].marcosOcupados = 0
      BY <2>2, <3>1 DEF DatosInv, TipoEstados
    <3>3. \A q \in Procesos : q # p => estadosPCBS'[q] = estadosPCBS[q]
      BY <1>1, <2>2, <3>1
    <3>4. \A q \in Procesos : q # p /\ Contado(q)' => Contado(q)
      BY <2>2, <3>1 DEF Contado
    <3>5. OcupadosDe(p)'
      BY <2>3, <3>2
    <3> QED  BY <3>1, <3>3, <3>4, <3>5, OcupadosPaso
  <2>7. CASE TerminaSuspension
    <3>1. /\ pcKernel = "eliminar" /\ pcKernel' = "espera" /\ UNCHANGED <<entradas, estadosPCBS>>
          /\ fase' = [fase EXCEPT ![p] = "suspendido"]
      BY <2>2, <2>7 DEF TerminaSuspension
    <3>2. \A q \in Procesos : Contado(q)' => Contado(q)
      BY <1>1, <2>2, <3>1 DEF Contado
    <3> QED  BY <1>2, <3>1, <3>2
  <2>8. CASE FinProceso
    <3>1. /\ pcKernel = "espera" /\ pcKernel' = pcKernel /\ UNCHANGED <<fase, entradas, estadosPCBS>>
      BY <2>1, <2>2, <2>8 DEF FinProceso, Cabeza, ControlInv, ColaKernelInv
    <3> QED  BY <1>2, <3>1 DEF Contado
  <2> QED  BY <1>5, <2>4, <2>5, <2>6, <2>7, <2>8 DEF HiloKernelMV, SwapeaEntradasMV
<1>6. CASE AccedeAcierto \/ AccedeFallo
  BY <1>2, <1>3, <1>6 DEF AccedeAcierto, AccedeFallo, Accede
<1>7. CASE HiloCPUMV
  <2>1. UNCHANGED <<fase, pcKernel, colaKernel>>
    BY <1>7 DEF HiloCPUMV, MarcoPresenteMV, MarcoLibreMV, ReemplazaMV, MarcoPresente, MarcoLibre,
       Reemplaza, ObtieneMarco, MarcoFueraDeMemoria, PideVictima, RecorreClock, Lee, Escribe,
       TerminaAcceso
  <2>2. \A p \in Procesos : Contado(p)' => Contado(p)
    BY <1>3, <2>1
  <2>3. CASE MarcoPresenteMV
    <3>1. estadosPCBS' = estadosPCBS
      BY <2>3 DEF MarcoPresenteMV, MarcoPresente
    <3> QED  BY <2>2, <2>3, <3>1, DatosMarcoPresente, OcupadosPaso
  <2>4. CASE MarcoLibreMV \/ ReemplazaMV
    <3>1. pcCPU # "libre" /\ consulta' = consulta
      BY <2>4 DEF MarcoLibreMV, ReemplazaMV, MarcoLibre, Reemplaza, ObtieneMarco
    <3>2. PICK p \in Procesos : p = consulta.id /\ Contado(p)
      BY <3>1, ConsultaTipo DEF ControlInv, EjecutandoInv, Contado
    <3>3. OcupadosDe(p)'
      BY <2>4, <3>2, OcupadosLibre, OcupadosReemplaza DEF OcupadosInv
    <3>4. \A q \in Procesos : q # p =>
             /\ estadosPCBS'[q].marcosOcupados = estadosPCBS[q].marcosOcupados
             /\ \A j \in Paginas(q) : entradas'[q][j].presencia = entradas[q][j].presencia
      <4>1. CASE MarcoLibreMV
        BY <1>1, <3>2, <4>1, DatosMarcoLibre
      <4>2. CASE ReemplazaMV
        BY <1>1, <3>2, <4>2, DatosReemplaza
      <4> QED  BY <2>4, <4>1, <4>2
    <3> QED  BY <2>2, <3>3, <3>4, OcupadosPaso
  <2>5. ASSUME RecorreClock, UNCHANGED varsMMU
        PROVE  OcupadosInv'
    BY <2>2, <2>5, DatosRecorre, OcupadosPaso
  <2>6. CASE MarcoFueraDeMemoria \/ PideVictima \/ Lee \/ Escribe
    BY <1>2, <2>2, <2>6 DEF MarcoFueraDeMemoria, PideVictima, Lee, Escribe, TerminaAcceso
  <2> QED  BY <1>7, <2>3, <2>4, <2>5, <2>6 DEF HiloCPUMV
<1>8. CASE UNCHANGED varsMV
  BY <1>2, <1>3, <1>8 DEF varsMV, vars
<1> QED  BY <1>4, <1>5, <1>6, <1>7, <1>8 DEF NextMV

\* The clock finds a victim: a live process has at least as many pages in frames
\* as it is counted, whatever was replaced and suspended before.
THEOREM SiempreHayVictima == SpecMV => []HayVictima
<1>1. InitMV => OcupadosInv
  BY DEF InitMV, Init, OcupadosInv, Contado
<1>2. OcupadosInv => HayVictima
  BY DEF OcupadosInv, Contado, OcupadosDe, HayVictima, Vivo
<1>3. SpecMV => []OcupadosInv
  BY <1>1, OcupadosPreservado, ControlCorrecto, DatosCorrectos, PTL DEF SpecMV
<1> QED  BY <1>2, <1>3, PTL

=============================================================================
