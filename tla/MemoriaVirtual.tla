---------------------------- MODULE MemoriaVirtual -----------------------------
(***************************************************************************)
(* Memoria with the CPU that really uses it: consultarDireccionFisica of   *)
(* cpu/src/utils/mmu.c looks for the page in the TLB, and asks Memoria for *)
(* its frame only when it is not there.  Memoria is never told of a hit,   *)
(* and never tells the CPU of a replacement or a suspension.               *)
(***************************************************************************)
EXTENDS Memoria, MMU

VARIABLES
    cargadoPor,            \* history: the process whose page each frame was loaded with
    perdida                \* history: why a page may hold something else: a clean one
                           \* left its frame, or the CPU used an entry of one that left

varsMV == <<vars, varsMMU, cargadoPor, perdida>>
varsHistoria == <<cargadoPor, perdida>>

InitMV ==
    /\ Init /\ InitMMU(NULO)
    /\ cargadoPor = [m \in Marcos |-> NULO]
    /\ perdida = {}

-----------------------------------------------------------------------------
\* dispatch.c: vaciarTLB, and cicloInstruccion sets the same PCB_ACTUAL.
DespachaCPU(p) ==
    /\ Despacha(p) /\ VaciarTLB(p)
    /\ UNCHANGED varsHistoria

KernelMV ==
    \/ \E p \in Procesos : DespachaCPU(p)
    \/ /\ \/ \E p \in Procesos : \/ PideCrear(p) \/ PideSuspender(p) \/ PideFin(p)
                                 \/ Readmite(p) \/ Desbloquea(p)
          \/ Vuelve
       /\ UNCHANGED <<varsMMU, varsHistoria>>

\* Pages that are present and not modified stay as they are when their process
\* is suspended and their frames freed.
SwapeaEntradasMV ==
    /\ SwapeaEntradas
    /\ LET p == Head(colaKernel).id IN
          perdida' = IF \E i \in Presentes(p) : ~entradas[p][i].modificado
                       THEN perdida \union {"limpia"} ELSE perdida
    /\ UNCHANGED <<varsMMU, cargadoPor>>

HiloKernelMV ==
    \/ SwapeaEntradasMV
    \/ /\ CrearProceso \/ ReseteaOcupados \/ TerminaSuspension \/ FinProceso
       /\ UNCHANGED <<varsMMU, varsHistoria>>

-----------------------------------------------------------------------------
\* consultarDireccionFisica with the page in the TLB: the frame of the entry is
\* used at once.
AccedeAcierto ==
    /\ pcCPU = "libre" /\ ejecutando # NULO
    /\ \E i \in Paginas(ejecutando) \intersect PaginasTLB, w \in Accesos :
          /\ consulta' = [id |-> ejecutando, pagina |-> i, esWrite |-> w]
          /\ marco' = MarcoTLB(i)
          /\ ActualizarTLB(i)
          /\ perdida' = IF entradas[ejecutando][i].presencia THEN perdida
                        ELSE perdida \union {"acierto"}
    /\ pcCPU' = "acceso"
    /\ UNCHANGED <<victima, varsProc, varsKernel, estadosPCBS, entradas, bitarray, memoria,
                   swap, esperado, cargadoPor>>

\* ... and with the page not there: tables, frame and agregarTLB.
AccedeFallo ==
    /\ Accede /\ consulta'.pagina \notin PaginasTLB
    /\ UNCHANGED <<varsMMU, varsHistoria>>

\* Mutant of RespondeMarco: the frame of the access before.
RespondeMarcoViejo == AgregarTLB(consulta.pagina, marco)
RespondeMarco == AgregarTLB(consulta.pagina, marco')

MarcoPresenteMV == MarcoPresente /\ RespondeMarco /\ UNCHANGED varsHistoria

MarcoLibreMV ==
    /\ MarcoLibre /\ RespondeMarco
    /\ cargadoPor' = [cargadoPor EXCEPT ![marco'] = consulta.id]
    /\ UNCHANGED perdida

ReemplazaMV ==
    /\ Reemplaza /\ RespondeMarco
    /\ cargadoPor' = [cargadoPor EXCEPT ![marco'] = consulta.id]
    /\ perdida' = IF entradas[consulta.id][victima].modificado THEN perdida
                  ELSE perdida \union {"limpia"}

HiloCPUMV ==
    \/ MarcoPresenteMV \/ MarcoLibreMV \/ ReemplazaMV
    \/ /\ MarcoFueraDeMemoria \/ PideVictima \/ RecorreClock \/ Lee \/ Escribe
       /\ UNCHANGED <<varsMMU, varsHistoria>>

NextMV ==
    \/ KernelMV \/ HiloKernelMV \/ AccedeAcierto \/ AccedeFallo \/ HiloCPUMV
    \/ NadaMas /\ UNCHANGED varsMV

SpecMV == InitMV /\ [][NextMV]_varsMV

\* hiloCPU looking for a victim: it has mutex_entrada_segundo_nivel and waits at
\* most for mutex_estados_pcb, which nobody holds for long.
PasoDelClock == ReemplazaMV \/ (RecorreClock /\ UNCHANGED <<varsMMU, varsHistoria>>)

FairSpecMV == SpecMV /\ WF_varsMV(PasoDelClock)

-----------------------------------------------------------------------------
(* Properties *)

\* An entry of the TLB is always the frame that the second level table has for
\* that page of the process in the CPU, through every replacement, suspension
\* and change of process (mmu.c:53-65, 150-170; memoria.c:191-258): what gets
\* stale is only whether the page is still in it.
TLBIgualATabla ==
    \A k \in DOMAIN listaTLB :
        entradas[PCB_ACTUAL][listaTLB[k].pagina].marco = listaTLB[k].marco

\* The data of each page is lost only if a page that was not modified left its
\* frame (memoria.c:227, 295) or an entry of the TLB outlived its page
\* (mmu.c:161-164).  Until then each page holds what its process wrote last, in a
\* frame of its own, and no frame is lost.
DatosConservados == perdida = {} => PaginasConservadas /\ MarcosPropios

\* Whatever the TLB kept, an access never goes to a frame that another process
\* loaded: it loses the data of its own process only (mmu.c:57-58, 162), unless
\* clean pages were left in frames that were freed (memoria.c:295).
AccesoPropio ==
    "limpia" \notin perdida /\ pcCPU = "acceso" => cargadoPor[marco] = consulta.id

=============================================================================
