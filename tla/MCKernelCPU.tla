----------------------------- MODULE MCKernelCPU -----------------------------
(* Instances of KernelCPU for TLC: the shapes of the scripts of pruebas/. *)
EXTENDS KernelCPU

LOCAL I(codigo) == [codigo |-> codigo, parametro1 |-> 0]
LOCAL IOde(tiempo) == [codigo |-> "IO", parametro1 |-> tiempo]

\* SUSPE_1, SUSPE_3 and a process that touches memory, shortened.
ConIO   == <<I("NO_OP"), IOde(1001000), I("EXIT")>>
SinIO_  == <<I("NO_OP"), I("EXIT")>>
ConMemoria == <<I("WRITE"), IOde(500), I("READ"), I("EXIT")>>

MCTresProgramas == [p \in Pcb |-> CASE p = 0 -> ConIO [] p = 1 -> SinIO_ [] OTHER -> ConMemoria]
MCDosProgramas == [p \in Pcb |-> IF p = 0 THEN <<I("NO_OP"), IOde(500), I("EXIT")>> ELSE SinIO_]

MCTiemposIO == {500, 1001000}
MCTiemposBasura == {500}
MCRafagas == 1..6

=============================================================================
