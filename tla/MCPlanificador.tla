--------------------------- MODULE MCPlanificador ---------------------------
(* Instances of Planificador for TLC. *)
EXTENDS Planificador

\* One I/O below and one above TIEMPO_MAXIMO_BLOQUEADO = 1 as the code reads it.
MCTiemposIO == {500, 1001000}

\* Those of the scripts SUSPE_1 and SUSPE_2.
MCTiemposSUSPE == {13000, 5000}

\* One length, where the estimates make no difference.
MCUnaRafaga == {1}

=============================================================================
