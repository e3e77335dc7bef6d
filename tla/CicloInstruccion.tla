-------------------------- MODULE CicloInstruccion --------------------------
(***************************************************************************)
(* The CPU (cpu/src/utils/ciclo_instruccion.c, cpu/src/servidor/*.c): the  *)
(* dispatch thread, which runs the instruction cycle of the PCB it was     *)
(* sent, and the interrupt thread, which sets the flag hayInterrupcion     *)
(* the cycle looks at after each instruction.                              *)
(*                                                                         *)
(* The ports are the variables it shares with the Kernel: `despachado`     *)
(* (the PCB waiting on the dispatch connection, or NULO), respuestaCPU     *)
(* (the answer on that connection) and interrupciones (interrupts sent,    *)
(* not consumed by an answer yet, of which `recibidas` have been accepted  *)
(* by the interrupt thread).  KernelCPU composes it with Planificador.     *)
(*                                                                         *)
(* READ, WRITE and COPY are steps like NO_OP here; what they do in memory  *)
(* does not change the cycle.                                              *)
(***************************************************************************)
EXTENDS Integers, Sequences

CONSTANTS
    Pcb, NULO,
    Programas,         \* instructions of each process: [codigo, parametro1]
    MaxDesborde,       \* bound: instructions fetched past a program's end
    TiemposBasura      \* I/O times found in memory past a program's end

VARIABLES
    despachado, respuestaCPU, interrupciones,   \* the ports
    pcDispatch,        \* dispatch thread
    pcb_actual,        \* id of the PCB in the cycle
    PC,                \* field PC of each PCB (it travels with the PCB)
    PC_inicial,
    instruccion,
    hayInterrupcion,
    recibidas

SinInstruccion == [codigo |-> "NINGUNA", parametro1 |-> 0]
SinRespuesta == [codigo |-> "NINGUNO", lengthUltimaRafaga |-> 0, tiempoBloqueo |-> 0]

Init ==
    /\ pcDispatch = "espera" /\ pcb_actual = NULO
    /\ PC = [p \in Pcb |-> 0] /\ PC_inicial = 0
    /\ instruccion = SinInstruccion
    /\ hayInterrupcion = FALSE /\ recibidas = 0

-----------------------------------------------------------------------------
\* servidor / deserializarDispatch: the PCB is received.
RecibePcb ==
    /\ pcDispatch = "espera"
    /\ despachado # NULO
    /\ pcb_actual' = despachado
    /\ pcDispatch' = "inicia"
    /\ UNCHANGED <<PC, PC_inicial, instruccion, hayInterrupcion, recibidas,
                   respuestaCPU, interrupciones>>

\* Mutants of IniciaCiclo: the flag is kept; the burst is counted one short.
IniciaCicloSinLimpiar ==
    /\ pcDispatch = "inicia"
    /\ PC_inicial' = PC[pcb_actual]
    /\ pcDispatch' = "ejecuta"
    /\ UNCHANGED <<pcb_actual, PC, instruccion, hayInterrupcion, recibidas, respuestaCPU,
                   interrupciones>>

IniciaCicloCorrido ==
    /\ pcDispatch = "inicia"
    /\ hayInterrupcion' = FALSE
    /\ PC_inicial' = PC[pcb_actual] + 1
    /\ pcDispatch' = "ejecuta"
    /\ UNCHANGED <<pcb_actual, PC, instruccion, recibidas, respuestaCPU, interrupciones>>

\* cicloInstruccion begins: the flag is wiped, whoever it was raised for.
IniciaCiclo ==
    /\ pcDispatch = "inicia"
    /\ hayInterrupcion' = FALSE
    /\ PC_inicial' = PC[pcb_actual]
    /\ pcDispatch' = "ejecuta"
    /\ UNCHANGED <<pcb_actual, PC, instruccion, recibidas, respuestaCPU, interrupciones>>

\* What fetch may read: past the end of the array, whatever is there.
Leidas(p) ==
    IF PC[p] < Len(Programas[p]) THEN {Programas[p][PC[p] + 1]}
    ELSE [codigo : {"NO_OP", "EXIT", "INVALIDA"}, parametro1 : {0}]
           \union [codigo : {"IO"}, parametro1 : TiemposBasura]

\* Mutant of Ejecuta: PC++ is missing.
EjecutaSinAvanzar ==
    /\ pcDispatch = "ejecuta"
    /\ instruccion' \in Leidas(pcb_actual)
    /\ pcDispatch' = "consulta"
    /\ UNCHANGED <<pcb_actual, PC, PC_inicial, hayInterrupcion, recibidas,
                   respuestaCPU, interrupciones>>

\* fetch, execute and PC++.  An unknown instruction ends the CPU's process.
Ejecuta ==
    /\ pcDispatch = "ejecuta"
    /\ PC[pcb_actual] < Len(Programas[pcb_actual]) + MaxDesborde
    /\ instruccion' \in Leidas(pcb_actual)
    /\ IF instruccion'.codigo = "INVALIDA"
         THEN /\ pcDispatch' = "caido"
              /\ PC' = PC
         ELSE /\ pcDispatch' = "consulta"
              /\ PC' = [PC EXCEPT ![pcb_actual] = @ + 1]
    /\ UNCHANGED <<pcb_actual, PC_inicial, hayInterrupcion, recibidas,
                   respuestaCPU, interrupciones>>

Responde(codigo, tiempo) ==
    /\ respuestaCPU' = [codigo |-> codigo, tiempoBloqueo |-> tiempo,
                        lengthUltimaRafaga |-> PC[pcb_actual] - PC_inicial]
    /\ interrupciones' = interrupciones - recibidas
    /\ recibidas' = 0
    /\ pcDispatch' = "espera"
    /\ pcb_actual' = NULO
    /\ instruccion' = SinInstruccion
    /\ PC_inicial' = 0
    /\ UNCHANGED PC

\* The check after each instruction: with the flag up, the PCB goes back as
\* interrupted, whatever the instruction was.
Interrumpida ==
    /\ pcDispatch = "consulta" /\ hayInterrupcion
    /\ hayInterrupcion' = FALSE
    /\ Responde("INTERRUPCION", 0)

\* Mutant of SigueCiclo: EXIT does not end the cycle.
SigueCicloTrasExit ==
    /\ pcDispatch = "consulta" /\ ~hayInterrupcion
    /\ pcDispatch' = IF instruccion.codigo = "IO" THEN "termina" ELSE "ejecuta"
    /\ UNCHANGED <<pcb_actual, PC, PC_inicial, instruccion, hayInterrupcion, recibidas,
                   respuestaCPU, interrupciones>>

SigueCiclo ==
    /\ pcDispatch = "consulta" /\ ~hayInterrupcion
    /\ pcDispatch' = IF instruccion.codigo \in {"IO", "EXIT"} THEN "termina" ELSE "ejecuta"
    /\ UNCHANGED <<pcb_actual, PC, PC_inicial, instruccion, hayInterrupcion, recibidas,
                   respuestaCPU, interrupciones>>

\* The answer after I/O or EXIT; only that of I/O carries a time.
TerminaCiclo ==
    /\ pcDispatch = "termina"
    /\ Responde(instruccion.codigo, IF instruccion.codigo = "IO" THEN instruccion.parametro1 ELSE 0)
    /\ UNCHANGED hayInterrupcion

\* servidorInterrupt / deserializarInterrupt: one connection accepted.
RecibeInterrupcion ==
    /\ pcDispatch # "caido"
    /\ recibidas < interrupciones
    /\ recibidas' = recibidas + 1
    /\ hayInterrupcion' = TRUE
    /\ UNCHANGED <<pcDispatch, pcb_actual, PC, PC_inicial, instruccion,
                   respuestaCPU, interrupciones>>

HiloDispatch == \/ RecibePcb \/ IniciaCiclo \/ Ejecuta \/ Interrumpida
                \/ SigueCiclo \/ TerminaCiclo
HiloInterrupt == RecibeInterrupcion

=============================================================================
