----------------------------- MODULE KernelCPU ------------------------------
(***************************************************************************)
(* Kernel and CPU together: the threads of Planificador, with the CPU of   *)
(* CicloInstruccion, running given programs, in the place of the arbitrary *)
(* one.  The two share the dispatch connection (pcbExec in, respuestaCPU   *)
(* out) and the interrupt connections.                                     *)
(***************************************************************************)
EXTENDS Planificador

CONSTANTS Programas, MaxDesborde, TiemposBasura

VARIABLES pcDispatch, pcb_actual, PC, PC_inicial, instruccion, hayInterrupcion, recibidas

Codigos == {"NO_OP", "IO", "READ", "COPY", "WRITE", "EXIT"}

\* Programs are sequences of instructions, the last of them EXIT (every script
\* of pruebas/ is); I/O times are those Planificador allows.
ASSUME ProgramasAssumption ==
    /\ MaxDesborde \in Nat
    /\ TiemposBasura \subseteq TiemposIO
    /\ \A p \in Pcb :
          /\ Programas[p] \in Seq([codigo : Codigos, parametro1 : Nat])
          /\ Programas[p] # <<>>
          /\ \A i \in DOMAIN Programas[p] :
                /\ Programas[p][i].codigo = "IO" => Programas[p][i].parametro1 \in TiemposIO
                /\ (Programas[p][i].codigo = "EXIT") <=> (i = Len(Programas[p]))
          /\ 1..Len(Programas[p]) + MaxDesborde \subseteq Rafagas
          /\ Len(Programas[p]) + MaxDesborde < MaxRafagas

\* The PCB that waits on the dispatch connection.
despachado ==
    IF pcExec = "espera_cpu" /\ respuestaCPU = SinRespuesta THEN pcbExec ELSE NULO

Cpu == INSTANCE CicloInstruccion

varsCpu == <<pcDispatch, pcb_actual, PC, PC_inicial, instruccion, hayInterrupcion, recibidas>>
varsKC == <<vars, varsCpu>>

InitKC == Init /\ Cpu!Init

PasoKernel ==
    /\ HiloMain \/ HiloAready \/ HiloExec \/ HiloBlock \/ HiloKernel \/ Terminado
    /\ UNCHANGED varsCpu

varsKernel == <<varsMain, varsColas, varsSem, varsAready, varsExec, varsBlock, varsMem, varsFin>>

\* The answer counts as one more burst of the process.
PasoDispatch ==
    /\ Cpu!HiloDispatch
    /\ rafagas' = IF respuestaCPU' = respuestaCPU THEN rafagas
                  ELSE [rafagas EXCEPT ![pcb_actual] = @ + 1]
    /\ UNCHANGED varsKernel

PasoInterrupt == Cpu!HiloInterrupt /\ UNCHANGED <<varsKernel, rafagas>>

\* The CPU process is gone (or reached the bound MaxDesborde): nothing moves.
CPUPerdida ==
    /\ pcb_actual # NULO
    /\ \/ pcDispatch = "caido"
       \/ PC[pcb_actual] = Len(Programas[pcb_actual]) + MaxDesborde
    /\ UNCHANGED varsKC

NextKC == PasoKernel \/ PasoDispatch \/ PasoInterrupt \/ CPUPerdida

SpecKC == InitKC /\ [][NextKC]_varsKC

\* Weak fairness of every thread of the two processes and of Memoria's.
FairSpecKC ==
    /\ SpecKC
    /\ WF_varsKC((IngresarANew \/ PostNew) /\ UNCHANGED varsCpu)
    /\ WF_varsKC(HiloAready /\ UNCHANGED varsCpu)
    /\ WF_varsKC(HiloExec /\ UNCHANGED varsCpu)
    /\ WF_varsKC(HiloBlock /\ UNCHANGED varsCpu)
    /\ WF_varsKC(HiloKernel /\ UNCHANGED varsCpu)
    /\ WF_varsKC(PasoDispatch)
    /\ WF_varsKC(PasoInterrupt)

-----------------------------------------------------------------------------
(* Properties *)

TypeOKCPU ==
    /\ pcDispatch \in {"espera", "inicia", "ejecuta", "consulta", "termina", "caido"}
    /\ IF pcDispatch = "espera" THEN pcb_actual = NULO ELSE pcb_actual = pcbExec
    /\ \A p \in Pcb : PC[p] \in 0..Len(Programas[p]) + MaxDesborde
    /\ pcDispatch \in {"ejecuta", "consulta", "termina"} => PC_inicial \in 0..PC[pcb_actual]
    /\ instruccion \in [codigo : Codigos \union {"NINGUNA", "INVALIDA"}, parametro1 : Nat]
    /\ hayInterrupcion \in BOOLEAN
    /\ recibidas \in 0..interrupciones

\* The CPU gives the Kernel nothing but what Planificador assumes of it: one
\* answer per PCB sent, a burst of at least one instruction, "interrupted" only
\* when the Kernel sent an interrupt (ciclo_instruccion.c:9-73, interrupt.c).
CPUCumplePlanificador == Spec

\* README.md:7: "Una vez que un proceso finalice tras haber sido ejecutadas
\* todas sus instrucciones, el Kernel devolvera un mensaje de finalizacion a
\* su Consola": a process with no instruction left is on its way out, never
\* queued to run again (fetch would read past its array, ciclo_instruccion.c:5).
ProgramaCompletoTermina ==
    \A p \in Pcb : PC[p] >= Len(Programas[p]) =>
        /\ ~Contains(estado_ready, p)
        /\ \A i \in DOMAIN estado_blocked : estado_blocked[i].pcb # p

\* README.md:7 from end to end: every process that connects is answered, through
\* the Kernel's threads, the CPU and the I/O device (with FIFO).
ProcesoTermina ==
    \A p \in Pcb : p < id_nuevo_proceso ~> p \in finalizadas

=============================================================================
