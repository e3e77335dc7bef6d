------------------------------- MODULE TurnoSRT -------------------------------
(***************************************************************************)
(* What SRT promises, by the histories of Planificador: interrumpido, the  *)
(* PCB whose burst was the last to end, if an interrupt ended it;          *)
(* sinComparar, those in ready when the head was taken without comparing;  *)
(* desbordadas, those whose estimate wrapped around.                       *)
(*                                                                         *)
(* SRT is spread over three places of planificador.c: readyAexec chooses   *)
(* (planificacionSRT), Aready and hilo_block interrupt when they add a PCB *)
(* to ready, and ejecutarPCB keeps the estimates.                          *)
(***************************************************************************)
EXTENDS Planificador

CONSTANT COTA_ESTIMACION      \* no burst and no first estimate is above it

ASSUME CotaAssumption ==
    /\ COTA_ESTIMACION \in Nat
    /\ ESTIMACION_INICIAL <= COTA_ESTIMACION
    /\ \A rafaga \in Rafagas : rafaga <= COTA_ESTIMACION

\* A float has a power of two of exact integers.
ASSUME MantisaAssumption == MANTISA % 2 = 0

-----------------------------------------------------------------------------
(* Properties *)

EnTurno == SRT /\ pcExec \in {"despacha", "espera_cpu"}

\* A PCB that was interrupted loses the CPU only to one whose estimate, as a
\* uint32_t, is strictly less.  The thread that took it back has to find it in
\* ready by id_pcb_ejecutando, an interrupt, a push and a post later, with two
\* other threads adding to the list, and to compare as floats
\* (planificador.c:92-97, 130-158, 364-368).
DesalojoJusto ==
    EnTurno /\ interrumpido # NULO =>
        \/ pcbExec = interrumpido
        \/ estimacionRafaga[pcbExec] < estimacionRafaga[interrumpido]

\* An interrupt for the PCB in the CPU was sent and not answered, or is about
\* to be sent, or the CPU already answered.
AvisoEnCamino ==
    \/ pcAready = "interrumpe" \/ pcBlock = "interrumpe"
    \/ interrupciones > 0
    \/ respuestaCPU # SinRespuesta

\* A PCB in ready with a shorter estimate than the one in turn waits only for
\* one of three reasons: it was there when the head was taken without comparing,
\* after an I/O or an EXIT (planificador.c:134-138); its arrival has its
\* interrupt (planificador.c:46-49, 213-217); or the two estimates are the same
\* float (planificador.c:144).  The interrupt may still be wiped by the CPU.
CortoEsperaConMotivo ==
    EnTurno =>
        \A r \in ToSet(estado_ready) :
            estimacionRafaga[r] < estimacionRafaga[pcbExec] =>
               \/ r \in sinComparar
               \/ AvisoEnCamino
               \/ Flotante(estimacionRafaga[r]) = Flotante(estimacionRafaga[pcbExec])

\* The only way for an estimate to leave the range of what was configured and
\* measured is an interrupted burst longer than its estimate, whose subtraction
\* wraps around (planificador.c:366); neither averages nor the remainders of
\* several interrupts add up to one (planificador.c:344).
EstimacionAcotada ==
    \A p \in Pcb \ desbordadas : estimacionRafaga[p] <= COTA_ESTIMACION

=============================================================================
