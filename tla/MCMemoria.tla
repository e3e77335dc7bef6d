------------------------------ MODULE MCMemoria ------------------------------
(* Instances of Memoria for TLC. *)
EXTENDS Memoria

CONSTANTS p1, p2, a

MCDosProcesos == {p1, p2}
MCUnProceso == {p1}
MCDosPaginas == [p \in Procesos |-> 2]
MCTresPaginas == [p \in Procesos |-> 3]
MCEscritos == {a}
MCLeerYEscribir == {TRUE, FALSE}
MCSoloEscribir == {TRUE}

=============================================================================
