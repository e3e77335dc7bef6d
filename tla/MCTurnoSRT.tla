----------------------------- MODULE MCTurnoSRT -----------------------------
(* Instance of TurnoSRT for TLC. *)
EXTENDS TurnoSRT

\* Below TIEMPO_MAXIMO_BLOQUEADO = 1 as the code reads it: nobody is suspended.
MCTiemposIO == {500}

\* From an estimate of 10: an interrupt leaves 2 or wraps around to 13, an I/O
\* leaves 9 or 11.  As floats 11 and 13 are the same, and 10 is less.
MCRafagas == {8, 13}

=============================================================================
