---------------------------- MODULE Planificador ----------------------------
(***************************************************************************)
(* The Kernel's planner (kernel/src/utils/planificador.c, kernel/src/      *)
(* main.c): the main thread that admits consoles and the three threads     *)
(* Aready, readyAexec and hilo_block that move PCBs between the queues,    *)
(* coordinated by four counting semaphores and one mutex per queue.        *)
(*                                                                         *)
(* Every thread is a program counter and one action per step that other    *)
(* threads can observe: a semaphore operation, a critical section, a       *)
(* message sent or received.  A PCB is identified by its id and is owned   *)
(* by one queue or one thread at a time (CadaPcbEnUnLugar), so the field   *)
(* the planner reads, estimacionRafaga, is a function of the id.           *)
(*                                                                         *)
(* The CPU is seen from its dispatch and interrupt ports: any answer it    *)
(* may give to a dispatched PCB.  CicloInstruccion models its inside.      *)
(*                                                                         *)
(* Three variables are histories, which the code does not have and no      *)
(* guard reads: by them TurnoSRT judges the choices of SRT.                *)
(***************************************************************************)
EXTENDS Integers, Sequences, FiniteSets, SequencesExt

CONSTANTS
    MaxProcesos,              \* bound: consoles that ever connect
    MaxRafagas,               \* bound: CPU bursts of a process before EXIT
    GRADO_MULTIPROGRAMACION,
    ALGORITMO_PLANIFICACION,  \* "FIFO" or "SRT"
    ESTIMACION_INICIAL,
    TIEMPO_MAXIMO_BLOQUEADO,  \* as written in the configuration file
    NUM_ALFA, DEN_ALFA,       \* ALFA = NUM_ALFA / DEN_ALFA
    UINT32,                   \* number of values of a uint32_t
    MANTISA,                  \* integers below it are exact in a float
    TiemposIO,                \* arguments of I/O instructions, milliseconds
    Rafagas                   \* lengths of CPU bursts, instructions

ASSUME CotasAssumption ==
    /\ MaxProcesos \in Nat
    /\ MaxRafagas \in Nat
    /\ GRADO_MULTIPROGRAMACION \in Nat \ {0}
    /\ ALGORITMO_PLANIFICACION \in {"FIFO", "SRT"}

ASSUME TiemposAssumption ==
    /\ TIEMPO_MAXIMO_BLOQUEADO \in Nat
    /\ TiemposIO \subseteq Nat

ASSUME EstimacionAssumption ==
    /\ UINT32 \in Nat \ {0}
    /\ MANTISA \in 2..UINT32 /\ UINT32 <= 256 * MANTISA
    /\ ESTIMACION_INICIAL \in 0..UINT32-1
    /\ DEN_ALFA \in Nat \ {0}
    /\ NUM_ALFA \in 0..DEN_ALFA
    /\ Rafagas \subseteq 1..UINT32-1

Pcb == 0..MaxProcesos-1
NULO == -1
SRT == ALGORITMO_PLANIFICACION = "SRT"

SinIO == [pcb |-> NULO, tiempoBloqueo |-> 0]
SinRespuesta == [codigo |-> "NINGUNO", lengthUltimaRafaga |-> 0, tiempoBloqueo |-> 0]

VARIABLES
    id_nuevo_proceso,
    estimacionRafaga,
    consolas_conectadas,          \* ids with an entry in the list
    finalizadas,                  \* ids whose console got RES_FIN_PROCESO
    estado_new, estado_ready, estado_blocked, estado_susp_ready,
    sem_hay_pcb_esperando_ready, sem_multiprogramacion, sem_ready, sem_block,
    id_pcb_ejecutando,
    pcMain,
    pcAready, pcbAready,          \* thread Aready and the PCB it holds
    pcExec, pcbExec,              \* thread readyAexec and the PCB it holds
    pcBlock, ultimoIO,            \* thread hilo_block and the t_IO it holds
    colaKernel,                   \* requests sent to Memoria, not yet served
    respuestasMemoria,            \* answers the Kernel has not received yet
    tablas,                       \* page tables of each process, in Memoria
    respuestaCPU,                 \* answer on the dispatch connection
    interrupciones,               \* interrupts sent, not yet consumed
    rafagas,                      \* bursts each process has run
    interrumpido,                 \* history: PCB whose burst was the last to end, if interrupted
    sinComparar,                  \* history: in a turn, those passed over when the head was taken
    desbordadas                   \* history: PCBs whose estimate was below an interrupted burst

varsMain   == <<id_nuevo_proceso, pcMain>>
varsColas  == <<estado_new, estado_ready, estado_blocked, estado_susp_ready>>
varsSem    == <<sem_hay_pcb_esperando_ready, sem_multiprogramacion, sem_ready, sem_block>>
varsAready == <<pcAready, pcbAready>>
varsHistoria == <<interrumpido, sinComparar, desbordadas>>
varsExec   == <<pcExec, pcbExec, id_pcb_ejecutando, estimacionRafaga, varsHistoria>>
varsBlock  == <<pcBlock, ultimoIO>>
varsMem    == <<colaKernel, respuestasMemoria, tablas>>
varsCPU    == <<respuestaCPU, interrupciones, rafagas>>
varsFin    == <<consolas_conectadas, finalizadas>>
vars == <<varsMain, varsColas, varsSem, varsAready, varsExec, varsBlock,
          varsMem, varsCPU, varsFin>>

-----------------------------------------------------------------------------
(* Arithmetic of the planner *)

\* uint32_t converted to float: exact below MANTISA, above it rounded to a
\* multiple of the unit of its binade, ties to even.
Flotante(x) ==
    LET unidad == CHOOSE u \in {1, 2, 4, 8, 16, 32, 64, 128, 256} :
                      /\ x < MANTISA * u
                      /\ u = 1 \/ x >= MANTISA * (u \div 2)
        q == x \div unidad
        r == 2 * (x % unidad)
    IN  IF x < MANTISA THEN x
        ELSE IF r < unidad \/ (r = unidad /\ q % 2 = 0) THEN q * unidad
        ELSE (q + 1) * unidad

\* ALFA*lengthUltimaRafaga + (1-ALFA)*estimacionRafaga, truncated.
Promedio(rafaga, est) ==
    (NUM_ALFA * rafaga + (DEN_ALFA - NUM_ALFA) * est) \div DEN_ALFA

\* Mutant of Restante: the subtraction of a signed type.
RestanteConSigno(rafaga, est) == est - rafaga

\* Mutant of Restante: the operands are swapped.
RestanteAlReves(rafaga, est) == (rafaga - est) % UINT32

\* estimacionRafaga -= lengthUltimaRafaga, in uint32_t.
Restante(rafaga, est) == (est - rafaga) % UINT32

\* The test of hilo_block: seconds of I/O against the configured value * 1000.
ExcedeBloqueo(tiempoBloqueo) ==
    tiempoBloqueo \div 1000 > TIEMPO_MAXIMO_BLOQUEADO * 1000

\* The index planificacionSRT computes: the first of the shortest jobs in
\* ready, by the float comparison of its loop.
EsElMasCorto(i) ==
    LET est(j) == Flotante(estimacionRafaga[estado_ready[j]]) IN
    /\ \A j \in DOMAIN estado_ready : est(i) <= est(j)
    /\ \A j \in 1..i-1 : est(i) < est(j)

-----------------------------------------------------------------------------
Init ==
    /\ id_nuevo_proceso = 0 /\ pcMain = "aceptar"
    /\ consolas_conectadas = {} /\ finalizadas = {}
    /\ estado_new = <<>> /\ estado_ready = <<>>
    /\ estado_blocked = <<>> /\ estado_susp_ready = <<>>
    /\ sem_multiprogramacion = GRADO_MULTIPROGRAMACION
    /\ sem_hay_pcb_esperando_ready = 0 /\ sem_ready = 0 /\ sem_block = 0
    /\ pcAready = "espera_pcb" /\ pcbAready = NULO
    /\ pcExec = "espera_ready" /\ pcbExec = NULO
    /\ pcBlock = "espera_block" /\ ultimoIO = SinIO
    /\ id_pcb_ejecutando = 0
    /\ estimacionRafaga = [p \in Pcb |-> 0]
    /\ colaKernel = <<>> /\ respuestasMemoria = {}
    /\ tablas = [p \in Pcb |-> "sin_crear"]
    /\ respuestaCPU = SinRespuesta /\ interrupciones = 0
    /\ rafagas = [p \in Pcb |-> 0]
    /\ interrumpido = NULO /\ sinComparar = {} /\ desbordadas = {}

-----------------------------------------------------------------------------
(* main: one console at a time is accepted, received and queued in NEW *)

\* manejarProceso up to the registration of the console; iniciarPcb.
ManejarProceso ==
    /\ pcMain = "aceptar"
    /\ id_nuevo_proceso < MaxProcesos
    /\ id_nuevo_proceso' = id_nuevo_proceso + 1
    /\ estimacionRafaga' = [estimacionRafaga EXCEPT ![id_nuevo_proceso] = ESTIMACION_INICIAL]
    /\ consolas_conectadas' = consolas_conectadas \union {id_nuevo_proceso}
    /\ pcMain' = "push_new"
    /\ UNCHANGED <<finalizadas, pcExec, pcbExec, id_pcb_ejecutando, varsHistoria,
                   varsColas, varsSem, varsAready, varsBlock, varsMem, varsCPU>>

\* ingresarANew: the push, under mutex_estado_new (Aready holds it while it
\* waits for Memoria to create the structures).
IngresarANew ==
    /\ pcMain = "push_new"
    /\ pcAready # "espera_crear"
    /\ estado_new' = Append(estado_new, id_nuevo_proceso - 1)
    /\ pcMain' = "post_new"
    /\ UNCHANGED <<id_nuevo_proceso, estado_ready, estado_blocked, estado_susp_ready,
                   varsSem, varsAready, varsExec, varsBlock, varsMem, varsCPU,
                   varsFin>>

PostNew ==
    /\ pcMain = "post_new"
    /\ sem_hay_pcb_esperando_ready' = sem_hay_pcb_esperando_ready + 1
    /\ pcMain' = "aceptar"
    /\ UNCHANGED <<id_nuevo_proceso, sem_multiprogramacion, sem_ready, sem_block,
                   varsColas, varsAready, varsExec, varsBlock, varsMem, varsCPU,
                   varsFin>>

-----------------------------------------------------------------------------
(* Aready: the long and medium term planner *)

EsperaPcb ==
    /\ pcAready = "espera_pcb"
    /\ sem_hay_pcb_esperando_ready > 0
    /\ sem_hay_pcb_esperando_ready' = sem_hay_pcb_esperando_ready - 1
    /\ pcAready' = "espera_grado"
    /\ UNCHANGED <<pcbAready, sem_multiprogramacion, sem_ready, sem_block, varsMain,
                   varsColas, varsExec, varsBlock, varsMem, varsCPU, varsFin>>

\* Mutant of EsperaGrado: the semaphore is looked at and not taken.
EsperaGradoSinTomar ==
    /\ pcAready = "espera_grado"
    /\ sem_multiprogramacion > 0
    /\ pcAready' = "elige"
    /\ UNCHANGED <<pcbAready, varsMain, varsColas, varsSem, varsExec, varsBlock,
                   varsMem, varsCPU, varsFin>>

EsperaGrado ==
    /\ pcAready = "espera_grado"
    /\ sem_multiprogramacion > 0
    /\ sem_multiprogramacion' = sem_multiprogramacion - 1
    /\ pcAready' = "elige"
    /\ UNCHANGED <<pcbAready, sem_hay_pcb_esperando_ready, sem_ready, sem_block,
                   varsMain, varsColas, varsExec, varsBlock, varsMem, varsCPU,
                   varsFin>>

\* Mutant of Elige: the comparison of the size with 0 is off by one.
EligeSuspSiempre ==
    /\ pcAready = "elige"
    /\ pcAready' = IF Len(estado_susp_ready) >= 0 THEN "pop_susp" ELSE "pop_new"
    /\ UNCHANGED <<pcbAready, varsMain, varsColas, varsSem, varsExec, varsBlock,
                   varsMem, varsCPU, varsFin>>

\* The test of estado_susp_ready, read without its mutex.
Elige ==
    /\ pcAready = "elige"
    /\ pcAready' = IF estado_susp_ready # <<>> THEN "pop_susp" ELSE "pop_new"
    /\ UNCHANGED <<pcbAready, varsMain, varsColas, varsSem, varsExec, varsBlock,
                   varsMem, varsCPU, varsFin>>

\* Mutant of PopSuspReady: queue_peek in the place of queue_pop.
PeekSuspReady ==
    /\ pcAready = "pop_susp"
    /\ estado_susp_ready # <<>>
    /\ pcbAready' = Head(estado_susp_ready)
    /\ pcAready' = "add_ready"
    /\ UNCHANGED <<varsMain, varsColas, varsSem, varsExec, varsBlock, varsMem, varsCPU,
                   varsFin>>

\* Popping an empty queue gives NULL, which the thread dereferences: the
\* guard of the three pops is what SinPopVacio shows always true.
PopSuspReady ==
    /\ pcAready = "pop_susp"
    /\ estado_susp_ready # <<>>
    /\ pcbAready' = Head(estado_susp_ready)
    /\ estado_susp_ready' = Tail(estado_susp_ready)
    /\ pcAready' = "add_ready"
    /\ UNCHANGED <<estado_new, estado_ready, estado_blocked, varsMain, varsSem,
                   varsExec, varsBlock, varsMem, varsCPU, varsFin>>

\* Mutant of PopNew: the last one in is the first one out.
PopNewUltimo ==
    /\ pcAready = "pop_new"
    /\ estado_new # <<>>
    /\ pcbAready' = Last(estado_new)
    /\ estado_new' = Front(estado_new)
    /\ colaKernel' = Append(colaKernel, [codigo |-> "CREAR", id |-> Last(estado_new)])
    /\ pcAready' = "espera_crear"
    /\ UNCHANGED <<estado_ready, estado_blocked, estado_susp_ready, respuestasMemoria,
                   tablas, varsMain, varsSem, varsExec, varsBlock, varsCPU, varsFin>>

\* The pop of NEW and the request to Memoria, holding mutex_estado_new.
PopNew ==
    /\ pcAready = "pop_new"
    /\ estado_new # <<>>
    /\ pcbAready' = Head(estado_new)
    /\ estado_new' = Tail(estado_new)
    /\ colaKernel' = Append(colaKernel, [codigo |-> "CREAR", id |-> Head(estado_new)])
    /\ pcAready' = "espera_crear"
    /\ UNCHANGED <<estado_ready, estado_blocked, estado_susp_ready, respuestasMemoria,
                   tablas, varsMain, varsSem, varsExec, varsBlock, varsCPU, varsFin>>

\* Mutant of EstructurasCreadas: the answer of Memoria is not awaited.
EstructurasSinEsperar ==
    /\ pcAready = "espera_crear"
    /\ pcAready' = "add_ready"
    /\ UNCHANGED <<pcbAready, varsMain, varsColas, varsSem, varsExec, varsBlock,
                   varsMem, varsCPU, varsFin>>

\* comunicacionMemoriaCreacionEstructuras returns; the mutex is released.
EstructurasCreadas ==
    /\ pcAready = "espera_crear"
    /\ "CREAR" \in respuestasMemoria
    /\ respuestasMemoria' = respuestasMemoria \ {"CREAR"}
    /\ pcAready' = "add_ready"
    /\ UNCHANGED <<pcbAready, colaKernel, tablas, varsMain, varsColas, varsSem,
                   varsExec, varsBlock, varsCPU, varsFin>>

AgregaReady ==
    /\ pcAready = "add_ready"
    /\ estado_ready' = Append(estado_ready, pcbAready)
    /\ pcbAready' = NULO
    /\ pcAready' = IF SRT THEN "interrumpe" ELSE "post_ready"
    /\ UNCHANGED <<estado_new, estado_blocked, estado_susp_ready, varsMain, varsSem,
                   varsExec, varsBlock, varsMem, varsCPU, varsFin>>

InterrumpeAready ==
    /\ pcAready = "interrumpe"
    /\ interrupciones' = interrupciones + 1
    /\ pcAready' = "post_ready"
    /\ UNCHANGED <<pcbAready, respuestaCPU, rafagas, varsMain, varsColas, varsSem,
                   varsExec, varsBlock, varsMem, varsFin>>

PostReadyAready ==
    /\ pcAready = "post_ready"
    /\ sem_ready' = sem_ready + 1
    /\ pcAready' = "espera_pcb"
    /\ UNCHANGED <<pcbAready, sem_hay_pcb_esperando_ready, sem_multiprogramacion,
                   sem_block, varsMain, varsColas, varsExec, varsBlock, varsMem,
                   varsCPU, varsFin>>

-----------------------------------------------------------------------------
(* readyAexec: the short term planner; it also waits for the CPU *)

EsperaReady ==
    /\ pcExec = "espera_ready"
    /\ sem_ready > 0
    /\ sem_ready' = sem_ready - 1
    /\ pcExec' = "planifica"
    /\ UNCHANGED <<pcbExec, id_pcb_ejecutando, estimacionRafaga,
                   sem_hay_pcb_esperando_ready, sem_multiprogramacion, sem_block,
                   varsHistoria, varsMain, varsColas, varsAready, varsBlock, varsMem,
                   varsCPU, varsFin>>

\* algoritmoPlanificacion with FIFO: the head leaves the list at once.
PlanificaFIFO ==
    /\ pcExec = "planifica" /\ ~SRT
    /\ estado_ready # <<>>
    /\ pcbExec' = Head(estado_ready)
    /\ estado_ready' = Tail(estado_ready)
    /\ pcExec' = "despacha"
    /\ UNCHANGED <<id_pcb_ejecutando, estimacionRafaga, estado_new, estado_blocked,
                   estado_susp_ready, varsHistoria, varsMain, varsSem, varsAready,
                   varsBlock, varsMem, varsCPU, varsFin>>

\* algoritmoPlanificacion with SRT: the head when the last PCB to run is not in
\* ready; else the shortest one when strictly shorter than that PCB, else that
\* PCB again.  The chosen PCB stays in the list.
PlanificaSRT ==
    /\ pcExec = "planifica" /\ SRT
    /\ \E corto \in DOMAIN estado_ready :
          /\ EsElMasCorto(corto)
          /\ pcbExec' =
               IF ~Contains(estado_ready, id_pcb_ejecutando) THEN Head(estado_ready)
               ELSE IF Flotante(estimacionRafaga[estado_ready[corto]])
                         < Flotante(estimacionRafaga[id_pcb_ejecutando])
                    THEN estado_ready[corto]
                    ELSE id_pcb_ejecutando
    /\ sinComparar' = IF Contains(estado_ready, id_pcb_ejecutando) THEN {}
                      ELSE ToSet(estado_ready)
    /\ pcExec' = "despacha"
    /\ UNCHANGED <<interrumpido, desbordadas, id_pcb_ejecutando, estimacionRafaga,
                   varsMain, varsColas, varsSem, varsAready, varsBlock, varsMem,
                   varsCPU, varsFin>>

\* Mutant of Despacha: the PCB is not taken out of the list.
DespachaSinQuitar ==
    /\ pcExec = "despacha"
    /\ id_pcb_ejecutando' = pcbExec
    /\ pcExec' = "espera_cpu"
    /\ UNCHANGED <<pcbExec, estimacionRafaga, varsHistoria, varsColas, varsMain,
                   varsSem, varsAready, varsBlock, varsMem, varsCPU, varsFin>>

\* Mutant of Despacha: id_pcb_ejecutando is not written.
DespachaSinAnotar ==
    /\ pcExec = "despacha"
    /\ IF Contains(estado_ready, pcbExec)
         THEN \E i \in DOMAIN estado_ready :
                 /\ estado_ready[i] = pcbExec
                 /\ estado_ready' = RemoveAt(estado_ready, i)
         ELSE UNCHANGED estado_ready
    /\ pcExec' = "espera_cpu"
    /\ UNCHANGED <<pcbExec, id_pcb_ejecutando, estimacionRafaga, estado_new,
                   estado_blocked, estado_susp_ready, varsHistoria, varsMain, varsSem,
                   varsAready, varsBlock, varsMem, varsCPU, varsFin>>

\* list_remove_by_condition by id (nothing left to remove after FIFO) and the
\* PCB sent to the CPU's dispatch port.
Despacha ==
    /\ pcExec = "despacha"
    /\ IF Contains(estado_ready, pcbExec)
         THEN \E i \in DOMAIN estado_ready :
                 /\ estado_ready[i] = pcbExec
                 /\ \A j \in 1..i-1 : estado_ready[j] # pcbExec
                 /\ estado_ready' = RemoveAt(estado_ready, i)
         ELSE UNCHANGED estado_ready
    /\ id_pcb_ejecutando' = pcbExec
    /\ pcExec' = "espera_cpu"
    /\ UNCHANGED <<pcbExec, estimacionRafaga, estado_new, estado_blocked,
                   estado_susp_ready, varsHistoria, varsMain, varsSem, varsAready,
                   varsBlock, varsMem, varsCPU, varsFin>>

\* The three answers ejecutarPCB handles.
VuelvePorIO ==
    /\ pcExec = "espera_cpu"
    /\ respuestaCPU.codigo = "IO"
    /\ estimacionRafaga' = [estimacionRafaga EXCEPT
                              ![pcbExec] = Promedio(respuestaCPU.lengthUltimaRafaga, @)]
    /\ estado_blocked' = Append(estado_blocked,
                                [pcb |-> pcbExec, tiempoBloqueo |-> respuestaCPU.tiempoBloqueo])
    /\ pcbExec' = NULO
    /\ interrumpido' = NULO /\ sinComparar' = {}
    /\ respuestaCPU' = SinRespuesta
    /\ pcExec' = "post_block"
    /\ UNCHANGED <<desbordadas, id_pcb_ejecutando, estado_new,
                   estado_ready, estado_susp_ready, interrupciones, rafagas, varsMain,
                   varsSem, varsAready, varsBlock, varsMem, varsFin>>

PostBlock ==
    /\ pcExec = "post_block"
    /\ sem_block' = sem_block + 1
    /\ pcExec' = "espera_ready"
    /\ UNCHANGED <<pcbExec, id_pcb_ejecutando, estimacionRafaga,
                   sem_hay_pcb_esperando_ready, sem_multiprogramacion, sem_ready,
                   varsHistoria, varsMain, varsColas, varsAready, varsBlock, varsMem,
                   varsCPU, varsFin>>

VuelvePorInterrupcion ==
    /\ pcExec = "espera_cpu"
    /\ respuestaCPU.codigo = "INTERRUPCION"
    /\ estimacionRafaga' = [estimacionRafaga EXCEPT
                              ![pcbExec] = Restante(respuestaCPU.lengthUltimaRafaga, @)]
    /\ interrumpido' = pcbExec /\ sinComparar' = {}
    /\ desbordadas' = desbordadas \union
                       {p \in {pcbExec} : respuestaCPU.lengthUltimaRafaga > estimacionRafaga[p]}
    /\ estado_ready' = Append(estado_ready, pcbExec)
    /\ pcbExec' = NULO
    /\ respuestaCPU' = SinRespuesta
    /\ pcExec' = "post_ready"
    /\ UNCHANGED <<id_pcb_ejecutando, estado_new, estado_blocked,
                   estado_susp_ready, interrupciones, rafagas, varsMain, varsSem,
                   varsAready, varsBlock, varsMem, varsFin>>

\* Mutant of PostReadyExec: the sem_post is missing.
PostReadyExecSinPost ==
    /\ pcExec = "post_ready"
    /\ pcExec' = "espera_ready"
    /\ UNCHANGED <<pcbExec, id_pcb_ejecutando, estimacionRafaga, varsHistoria,
                   varsMain, varsColas, varsSem, varsAready, varsBlock, varsMem,
                   varsCPU, varsFin>>

PostReadyExec ==
    /\ pcExec = "post_ready"
    /\ sem_ready' = sem_ready + 1
    /\ pcExec' = "espera_ready"
    /\ UNCHANGED <<pcbExec, id_pcb_ejecutando, estimacionRafaga,
                   sem_hay_pcb_esperando_ready, sem_multiprogramacion, sem_block,
                   varsHistoria, varsMain, varsColas, varsAready, varsBlock, varsMem,
                   varsCPU, varsFin>>

\* execAexit: Memoria is told (no answer awaited), ...
VuelvePorExit ==
    /\ pcExec = "espera_cpu"
    /\ respuestaCPU.codigo = "EXIT"
    /\ colaKernel' = Append(colaKernel, [codigo |-> "FIN", id |-> pcbExec])
    /\ interrumpido' = NULO /\ sinComparar' = {}
    /\ respuestaCPU' = SinRespuesta
    /\ pcExec' = "avisa_consola"
    /\ UNCHANGED <<desbordadas, pcbExec, id_pcb_ejecutando,
                   estimacionRafaga, respuestasMemoria, tablas, interrupciones,
                   rafagas, varsMain, varsColas, varsSem, varsAready, varsBlock,
                   varsFin>>

\* Mutant of AvisaConsola: list_find in the place of list_remove_by_condition.
AvisaConsolaSinQuitar ==
    /\ pcExec = "avisa_consola"
    /\ pcbExec \in consolas_conectadas
    /\ finalizadas' = finalizadas \union {pcbExec}
    /\ pcbExec' = NULO
    /\ pcExec' = "post_grado"
    /\ UNCHANGED <<consolas_conectadas, id_pcb_ejecutando, estimacionRafaga,
                   varsHistoria, varsMain, varsColas, varsSem, varsAready, varsBlock,
                   varsMem, varsCPU>>

\* ... its console is taken from the list, answered and closed, ...
AvisaConsola ==
    /\ pcExec = "avisa_consola"
    /\ pcbExec \in consolas_conectadas
    /\ consolas_conectadas' = consolas_conectadas \ {pcbExec}
    /\ finalizadas' = finalizadas \union {pcbExec}
    /\ pcbExec' = NULO
    /\ pcExec' = "post_grado"
    /\ UNCHANGED <<id_pcb_ejecutando, estimacionRafaga, varsHistoria, varsMain,
                   varsColas, varsSem, varsAready, varsBlock, varsMem, varsCPU>>

\* ... and its place in the degree of multiprogramming is given back.
PostGradoExec ==
    /\ pcExec = "post_grado"
    /\ sem_multiprogramacion' = sem_multiprogramacion + 1
    /\ pcExec' = "espera_ready"
    /\ UNCHANGED <<pcbExec, id_pcb_ejecutando, estimacionRafaga,
                   sem_hay_pcb_esperando_ready, sem_ready, sem_block, varsHistoria,
                   varsMain, varsColas, varsAready, varsBlock, varsMem, varsCPU,
                   varsFin>>

-----------------------------------------------------------------------------
(* hilo_block: the only I/O device, one request at a time *)

EsperaBlock ==
    /\ pcBlock = "espera_block"
    /\ sem_block > 0
    /\ sem_block' = sem_block - 1
    /\ pcBlock' = "pop"
    /\ UNCHANGED <<ultimoIO, sem_hay_pcb_esperando_ready, sem_multiprogramacion, sem_ready,
                   varsMain, varsColas, varsAready, varsExec, varsMem, varsCPU, varsFin>>

PopBlocked ==
    /\ pcBlock = "pop"
    /\ estado_blocked # <<>>
    /\ ultimoIO' = Head(estado_blocked)
    /\ estado_blocked' = Tail(estado_blocked)
    /\ pcBlock' = IF ExcedeBloqueo(Head(estado_blocked).tiempoBloqueo)
                    THEN "suspende" ELSE "duerme"
    /\ UNCHANGED <<estado_new, estado_ready, estado_susp_ready, varsMain, varsSem,
                   varsAready, varsExec, varsMem, varsCPU, varsFin>>

\* Mutant of TerminaIO: the CPU is not interrupted.
TerminaIOSinInterrumpir ==
    /\ pcBlock = "duerme"
    /\ estado_ready' = Append(estado_ready, ultimoIO.pcb)
    /\ ultimoIO' = SinIO
    /\ pcBlock' = "post_ready"
    /\ UNCHANGED <<estado_new, estado_blocked, estado_susp_ready, varsMain, varsSem,
                   varsAready, varsExec, varsMem, varsCPU, varsFin>>

\* usleep for the whole I/O, then addEstadoReady.
TerminaIO ==
    /\ pcBlock = "duerme"
    /\ estado_ready' = Append(estado_ready, ultimoIO.pcb)
    /\ ultimoIO' = SinIO
    /\ pcBlock' = IF SRT THEN "interrumpe" ELSE "post_ready"
    /\ UNCHANGED <<estado_new, estado_blocked, estado_susp_ready, varsMain, varsSem,
                   varsAready, varsExec, varsMem, varsCPU, varsFin>>

InterrumpeBlock ==
    /\ pcBlock = "interrumpe"
    /\ interrupciones' = interrupciones + 1
    /\ pcBlock' = "post_ready"
    /\ UNCHANGED <<ultimoIO, respuestaCPU, rafagas, varsMain, varsColas, varsSem,
                   varsAready, varsExec, varsMem, varsFin>>

PostReadyBlock ==
    /\ pcBlock = "post_ready"
    /\ sem_ready' = sem_ready + 1
    /\ pcBlock' = "espera_block"
    /\ UNCHANGED <<ultimoIO, sem_hay_pcb_esperando_ready, sem_multiprogramacion, sem_block,
                   varsMain, varsColas, varsAready, varsExec, varsMem, varsCPU, varsFin>>

\* usleep for the maximum, then comunicacionMemoriaSuspender.
PideSuspender ==
    /\ pcBlock = "suspende"
    /\ colaKernel' = Append(colaKernel, [codigo |-> "SUSP", id |-> ultimoIO.pcb])
    /\ pcBlock' = "espera_susp"
    /\ UNCHANGED <<ultimoIO, respuestasMemoria, tablas, varsMain, varsColas, varsSem,
                   varsAready, varsExec, varsCPU, varsFin>>

Suspendido ==
    /\ pcBlock = "espera_susp"
    /\ "SUSP" \in respuestasMemoria
    /\ respuestasMemoria' = respuestasMemoria \ {"SUSP"}
    /\ pcBlock' = "post_grado"
    /\ UNCHANGED <<ultimoIO, colaKernel, tablas, varsMain, varsColas, varsSem,
                   varsAready, varsExec, varsCPU, varsFin>>

\* Mutant of PostGradoBlock: the place of the suspended process is not given back.
PostGradoBlockSinPost ==
    /\ pcBlock = "post_grado"
    /\ pcBlock' = "duerme_resto"
    /\ UNCHANGED <<ultimoIO, varsMain, varsColas, varsSem, varsAready, varsExec, varsMem,
                   varsCPU, varsFin>>

PostGradoBlock ==
    /\ pcBlock = "post_grado"
    /\ sem_multiprogramacion' = sem_multiprogramacion + 1
    /\ pcBlock' = "duerme_resto"
    /\ UNCHANGED <<ultimoIO, sem_hay_pcb_esperando_ready, sem_ready, sem_block, varsMain,
                   varsColas, varsAready, varsExec, varsMem, varsCPU, varsFin>>

\* Mutant of TerminaIOSuspendido: the PCB goes back to ready, not admitted again.
TerminaIOSinReadmitir ==
    /\ pcBlock = "duerme_resto"
    /\ estado_ready' = Append(estado_ready, ultimoIO.pcb)
    /\ ultimoIO' = SinIO
    /\ pcBlock' = "post_ready"
    /\ UNCHANGED <<estado_new, estado_blocked, estado_susp_ready, varsMain, varsSem,
                   varsAready, varsExec, varsMem, varsCPU, varsFin>>

\* usleep for the rest of the I/O, then addEstadoSuspReady.
TerminaIOSuspendido ==
    /\ pcBlock = "duerme_resto"
    /\ estado_susp_ready' = Append(estado_susp_ready, ultimoIO.pcb)
    /\ ultimoIO' = SinIO
    /\ pcBlock' = "post_susp"
    /\ UNCHANGED <<estado_new, estado_ready, estado_blocked, varsMain, varsSem,
                   varsAready, varsExec, varsMem, varsCPU, varsFin>>

\* Mutant of PostSusp: the sem_post is missing.
PostSuspSinPost ==
    /\ pcBlock = "post_susp"
    /\ pcBlock' = "espera_block"
    /\ UNCHANGED <<ultimoIO, varsMain, varsColas, varsSem, varsAready, varsExec, varsMem,
                   varsCPU, varsFin>>

PostSusp ==
    /\ pcBlock = "post_susp"
    /\ sem_hay_pcb_esperando_ready' = sem_hay_pcb_esperando_ready + 1
    /\ pcBlock' = "espera_block"
    /\ UNCHANGED <<ultimoIO, sem_multiprogramacion, sem_ready, sem_block, varsMain,
                   varsColas, varsAready, varsExec, varsMem, varsCPU, varsFin>>

-----------------------------------------------------------------------------
(* Memoria's hiloKernel: requests of the Kernel, one at a time, in order *)

HiloKernel ==
    /\ colaKernel # <<>>
    /\ \/ /\ Head(colaKernel).codigo = "CREAR"
          /\ tablas' = [tablas EXCEPT ![Head(colaKernel).id] = "creadas"]
          /\ respuestasMemoria' = respuestasMemoria \union {"CREAR"}
       \/ /\ Head(colaKernel).codigo = "SUSP"
          /\ respuestasMemoria' = respuestasMemoria \union {"SUSP"}
          /\ UNCHANGED tablas
       \/ /\ Head(colaKernel).codigo = "FIN"
          /\ tablas' = [tablas EXCEPT ![Head(colaKernel).id] = "liberadas"]
          /\ UNCHANGED respuestasMemoria
    /\ colaKernel' = Tail(colaKernel)
    /\ UNCHANGED <<varsMain, varsColas, varsSem, varsAready, varsExec, varsBlock,
                   varsCPU, varsFin>>

-----------------------------------------------------------------------------
(* The CPU, from its ports: an answer to the PCB it was sent.  Interrupts   *)
(* that arrive are remembered in one flag and wiped when a cycle starts, so *)
(* any number of those pending is consumed with an answer.                  *)

PuedeResponder == pcExec = "espera_cpu" /\ respuestaCPU = SinRespuesta

Responde(codigo, rafaga, tiempo, consumidas) ==
    /\ respuestaCPU' = [codigo |-> codigo, lengthUltimaRafaga |-> rafaga,
                        tiempoBloqueo |-> tiempo]
    /\ interrupciones' = interrupciones - consumidas
    /\ rafagas' = [rafagas EXCEPT ![pcbExec] = @ + 1]
    /\ UNCHANGED <<varsMain, varsColas, varsSem, varsAready, varsExec, varsBlock,
                   varsMem, varsFin>>

CPUEjecutaIO ==
    /\ PuedeResponder /\ rafagas[pcbExec] < MaxRafagas
    /\ \E rafaga \in Rafagas, tiempo \in TiemposIO, consumidas \in 0..interrupciones :
          Responde("IO", rafaga, tiempo, consumidas)

CPUEjecutaExit ==
    /\ PuedeResponder
    /\ \E rafaga \in Rafagas, consumidas \in 0..interrupciones :
          Responde("EXIT", rafaga, 0, consumidas)

CPUInterrumpida ==
    /\ PuedeResponder /\ rafagas[pcbExec] < MaxRafagas
    /\ \E rafaga \in Rafagas, consumidas \in 1..interrupciones :
          Responde("INTERRUPCION", rafaga, 0, consumidas)

-----------------------------------------------------------------------------
HiloMain   == ManejarProceso \/ IngresarANew \/ PostNew
HiloAready == \/ EsperaPcb \/ EsperaGrado \/ Elige \/ PopSuspReady \/ PopNew
              \/ EstructurasCreadas \/ AgregaReady \/ InterrumpeAready \/ PostReadyAready
HiloExec   == \/ EsperaReady \/ PlanificaFIFO \/ PlanificaSRT \/ Despacha
              \/ VuelvePorIO \/ PostBlock \/ VuelvePorInterrupcion \/ PostReadyExec
              \/ VuelvePorExit \/ AvisaConsola \/ PostGradoExec
HiloBlock  == \/ EsperaBlock \/ PopBlocked \/ TerminaIO \/ InterrumpeBlock
              \/ PostReadyBlock \/ PideSuspender \/ Suspendido \/ PostGradoBlock
              \/ TerminaIOSuspendido \/ PostSusp
CPU        == CPUEjecutaIO \/ CPUEjecutaExit \/ CPUInterrumpida

\* Every console was answered: the Kernel waits for new ones for ever.
Terminado ==
    /\ finalizadas = Pcb
    /\ UNCHANGED vars

Next == HiloMain \/ HiloAready \/ HiloExec \/ HiloBlock \/ HiloKernel \/ CPU \/ Terminado

Spec == Init /\ [][Next]_vars

\* Every thread keeps running while it can (each semaphore has one waiter, so
\* weak fairness is enough), Memoria serves its queue and the CPU answers;
\* nobody is obliged to connect a new console.
FairSpec ==
    /\ Spec
    /\ WF_vars(IngresarANew \/ PostNew)
    /\ WF_vars(HiloAready) /\ WF_vars(HiloExec) /\ WF_vars(HiloBlock)
    /\ WF_vars(HiloKernel) /\ WF_vars(CPU)

-----------------------------------------------------------------------------
(* Properties *)

Uno(condicion) == IF condicion THEN 1 ELSE 0

AreadyConTurno   == pcAready \in {"espera_grado", "elige", "pop_susp", "pop_new"}
AreadyConPcb     == pcAready \in {"espera_crear", "add_ready"}
AreadyAdmitiendo == pcAready \in {"elige", "pop_susp", "pop_new", "espera_crear", "add_ready"}
ExecConPcb       == \/ pcExec \in {"espera_cpu", "avisa_consola"}
                    \/ pcExec = "despacha" /\ ~SRT
BlockConPcb      == pcBlock \in {"duerme", "suspende", "espera_susp", "post_grado", "duerme_resto"}

TypeMain ==
    /\ id_nuevo_proceso \in 0..MaxProcesos
    /\ pcMain \in {"aceptar", "push_new", "post_new"}
    /\ pcMain = "push_new" => id_nuevo_proceso > 0
    /\ consolas_conectadas \subseteq Pcb /\ finalizadas \subseteq Pcb

TypeColas ==
    /\ estado_new \in Seq(Pcb) /\ estado_ready \in Seq(Pcb) /\ estado_susp_ready \in Seq(Pcb)
    /\ estado_blocked \in Seq([pcb : Pcb, tiempoBloqueo : TiemposIO])

TypeSem ==
    /\ sem_hay_pcb_esperando_ready \in Nat /\ sem_multiprogramacion \in Nat
    /\ sem_ready \in Nat /\ sem_block \in Nat

TypeAready ==
    /\ pcAready \in {"espera_pcb", "espera_grado", "elige", "pop_susp", "pop_new",
                     "espera_crear", "add_ready", "interrumpe", "post_ready"}
    /\ IF AreadyConPcb THEN pcbAready \in Pcb ELSE pcbAready = NULO
    /\ pcAready = "interrumpe" => SRT

TypeExec ==
    /\ pcExec \in {"espera_ready", "planifica", "despacha", "espera_cpu", "post_block",
                   "post_ready", "avisa_consola", "post_grado"}
    /\ IF pcExec \in {"despacha", "espera_cpu", "avisa_consola"}
         THEN pcbExec \in Pcb ELSE pcbExec = NULO
    /\ id_pcb_ejecutando \in Nat
    /\ estimacionRafaga \in [Pcb -> 0..UINT32-1]

TypeBlock ==
    /\ pcBlock \in {"espera_block", "pop", "duerme", "interrumpe", "post_ready", "suspende",
                    "espera_susp", "post_grado", "duerme_resto", "post_susp"}
    /\ IF BlockConPcb THEN ultimoIO \in [pcb : Pcb, tiempoBloqueo : TiemposIO]
                      ELSE ultimoIO = SinIO
    /\ pcBlock = "interrumpe" => SRT

TypeMem ==
    /\ colaKernel \in Seq([codigo : {"CREAR", "SUSP", "FIN"}, id : Pcb])
    /\ respuestasMemoria \subseteq {"CREAR", "SUSP"}
    /\ tablas \in [Pcb -> {"sin_crear", "creadas", "liberadas"}]

TypeCPU ==
    /\ interrupciones \in Nat
    /\ rafagas \in [Pcb -> Nat]
    /\ respuestaCPU # SinRespuesta =>
         /\ pcExec = "espera_cpu"
         /\ respuestaCPU.codigo \in {"IO", "EXIT", "INTERRUPCION"}
         /\ respuestaCPU.lengthUltimaRafaga \in Rafagas
         /\ respuestaCPU.codigo = "IO" => respuestaCPU.tiempoBloqueo \in TiemposIO

TypeOK == /\ TypeMain /\ TypeColas /\ TypeSem /\ TypeAready
          /\ TypeExec /\ TypeBlock /\ TypeMem /\ TypeCPU

-----------------------------------------------------------------------------
(* Safety *)

\* Each counting semaphore equals what its queue holds, up to the tokens the
\* threads have in hand: an unbalanced push/post or wait/pop anywhere in the
\* four threads (planificador.c:31-35, 41-80, 86-94, 191-218, 346-369) breaks it.
EsperaContada ==
    sem_hay_pcb_esperando_ready + Uno(pcMain = "post_new") + Uno(pcBlock = "post_susp")
      + Uno(AreadyConTurno) = Len(estado_new) + Len(estado_susp_ready)

ReadyContado ==
    sem_ready + Uno(pcAready \in {"interrumpe", "post_ready"})
      + Uno(pcBlock \in {"interrumpe", "post_ready"}) + Uno(pcExec = "post_ready")
      + Uno(pcExec = "planifica" \/ (SRT /\ pcExec = "despacha")) = Len(estado_ready)

BlockContado ==
    sem_block + Uno(pcExec = "post_block") + Uno(pcBlock = "pop") = Len(estado_blocked)

SemaforosCuentan == EsperaContada /\ ReadyContado /\ BlockContado

\* No thread pops an empty queue.  Aready chooses its queue by reading
\* estado_susp_ready without the mutex (planificador.c:62) and holds one token
\* for two queues: when the test says empty, NEW must have a PCB.
SinPopVacio ==
    /\ pcAready = "pop_susp" => estado_susp_ready # <<>>
    /\ pcAready = "pop_new" => estado_new # <<>>
    /\ pcExec = "planifica" => estado_ready # <<>>
    /\ pcBlock = "pop" => estado_blocked # <<>>

\* sem_multiprogramacion accounts for every admitted process: taken once by
\* Aready, given back once by exit or by suspension (planificador.c:43,186,204).
GradoContado ==
    sem_multiprogramacion + Len(estado_ready) + Len(estado_blocked)
      + Uno(AreadyAdmitiendo) + Uno(ExecConPcb \/ pcExec = "post_grado")
      + Uno(BlockConPcb /\ pcBlock # "duerme_resto") = GRADO_MULTIPROGRAMACION

\* At most GRADO_MULTIPROGRAMACION processes compete for the CPU and for
\* memory (in ready, running or blocked and not suspended), planificador.c:43.
GradoRespetado ==
    Len(estado_ready) + Len(estado_blocked) + Uno(ExecConPcb)
      + Uno(pcBlock \in {"duerme", "suspende", "espera_susp"}) <= GRADO_MULTIPROGRAMACION

\* Number of places that hold process p.
Veces(lista, p)   == Cardinality({i \in DOMAIN lista : lista[i] = p})
VecesIO(lista, p) == Cardinality({i \in DOMAIN lista : lista[i].pcb = p})

Apariciones(p) ==
    Uno(pcMain = "push_new" /\ p = id_nuevo_proceso - 1)
      + Veces(estado_new, p) + Veces(estado_susp_ready, p) + Veces(estado_ready, p)
      + VecesIO(estado_blocked, p)
      + Uno(AreadyConPcb /\ pcbAready = p) + Uno(ExecConPcb /\ pcbExec = p)
      + Uno(BlockConPcb /\ ultimoIO.pcb = p)

\* A PCB is never lost and never in two places, so no thread frees or changes
\* a PCB another one uses: from its connection to its end each process is in
\* exactly one queue or one thread's hands, and afterwards nowhere.
CadaPcbEnUnLugar ==
    \A p \in Pcb :
        Apariciones(p) = Uno(p < id_nuevo_proceso /\ p \notin finalizadas)

\* execAexit finds the console of the process (planificador.c:175, whose result
\* is dereferenced unchecked): consoles in the list are those of the processes
\* that connected and did not end.
ConsolaDeCadaProceso ==
    consolas_conectadas = {p \in Pcb : p < id_nuevo_proceso} \ finalizadas

\* Memoria is asked in a legal order although three threads ask, and nobody
\* waits for the answer to FIN: structures are created once, before anything
\* else is asked of the process, never touched after FIN (it indexes its
\* tables unchecked), and a process runs only once they exist.
PeticionesEnOrden ==
    /\ \A i \in DOMAIN colaKernel :
          LET m == colaKernel[i]
              antes == {colaKernel[j].codigo : j \in {k \in 1..i-1 : colaKernel[k].id = m.id}}
          IN  IF m.codigo = "CREAR" THEN tablas[m.id] = "sin_crear" /\ antes = {}
                                    ELSE tablas[m.id] = "creadas" /\ "FIN" \notin antes
    /\ pcExec = "espera_cpu" => tablas[pcbExec] = "creadas"

\* The tests of suspension (pruebas/SUSPE_1:2 "I/O 13000", pruebas/SUSPE_2:2
\* "I/O 5000", pruebas/SUSPE_KERNEL.cfg:11 "TIEMPO_MAXIMO_BLOQUEADO=8000"): the
\* I/O that takes longer than the maximum is the one that suspends its process.
IOLargaSuspende ==
    pcBlock = "duerme" => ultimoIO.tiempoBloqueo <= TIEMPO_MAXIMO_BLOQUEADO

-----------------------------------------------------------------------------
(* Action properties *)

\* Processes enter memory for the first time in the order their consoles
\* connected, whatever the suspended ones that are admitted in between.
CreacionEnOrdenDeLlegada ==
    [][ \A p, q \in Pcb : (p < q /\ tablas[q] = "sin_crear" /\ tablas'[q] # "sin_crear")
                            => tablas'[p] # "sin_crear" ]_vars

-----------------------------------------------------------------------------
(* Liveness *)

\* The README's promise (README.md:7), as far as the Kernel can keep it: once
\* a process was connected, its console is answered and closed.  Neither is
\* ever undone, so this is p < id_nuevo_proceso ~> p \in finalizadas, in the form
\* that TLC checks sooner.
TodaConsolaAvisada ==
    \A p \in Pcb : []<>(p < id_nuevo_proceso => p \in finalizadas)

-----------------------------------------------------------------------------
(* Refinement: the life cycle of the processes *)

estado == [p \in Pcb |->
    CASE p >= id_nuevo_proceso -> "inexistente"
      [] p \in finalizadas -> "exit"
      [] (pcMain = "push_new" /\ p = id_nuevo_proceso - 1) \/ Contains(estado_new, p) -> "new"
      [] Contains(estado_susp_ready, p) -> "susp_ready"
      [] pcBlock \in {"post_grado", "duerme_resto"} /\ ultimoIO.pcb = p -> "susp_blocked"
      [] \/ \E i \in DOMAIN estado_blocked : estado_blocked[i].pcb = p
         \/ pcBlock \in {"duerme", "suspende", "espera_susp"} /\ ultimoIO.pcb = p -> "blocked"
      [] pcExec \in {"espera_cpu", "avisa_consola"} /\ pcbExec = p -> "exec"
      [] OTHER -> "ready"]

CicloDeVida == INSTANCE CicloDeVida WITH Procesos <- Pcb, Grado <- GRADO_MULTIPROGRAMACION

\* The threads implement the seven-state diagram of CicloDeVida.
CumpleCicloDeVida == CicloDeVida!Spec

=============================================================================
