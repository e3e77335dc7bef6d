--------------------------- MODULE MCMemoriaVirtual ----------------------------
(* Instances of MemoriaVirtual for TLC. *)
EXTENDS MemoriaVirtual

CONSTANTS p1, p2, a, b

MCDosProcesos == {p1, p2}
MCUnProceso == {p1}
MCDosPaginas == [p \in Procesos |-> 2]
\* p2 only computes.
MCTresYNinguna == [p \in Procesos |-> IF p = p1 THEN 3 ELSE 0]
MCDosYUna == [p \in Procesos |-> IF p = p1 THEN 2 ELSE 1]
MCEscritos == {a}
MCDosEscritos == {a, b}
MCSinDatos == {"0"}
MCLeerYEscribir == {TRUE, FALSE}
MCSoloEscribir == {TRUE}
MCReemplazos == {"FIFO", "LRU"}
MCLRU == {"LRU"}

=============================================================================
