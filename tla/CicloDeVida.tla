----------------------------- MODULE CicloDeVida -----------------------------
(***************************************************************************)
(* What the Kernel's planner promises about its processes, whatever the    *)
(* threads, queues and semaphores it is made of: the seven-state diagram,  *)
(* with one process in the CPU and at most Grado of them competing for it. *)
(* Planificador implements it.                                             *)
(***************************************************************************)
EXTENDS Integers, FiniteSets

CONSTANTS Procesos, Grado

VARIABLE estado

Estados == {"inexistente", "new", "ready", "exec", "blocked",
            "susp_blocked", "susp_ready", "exit"}

Compiten == {p \in Procesos : estado[p] \in {"ready", "exec", "blocked"}}

Init == estado = [p \in Procesos |-> "inexistente"]

Pasa(p, desde, hasta) ==
    /\ estado[p] = desde
    /\ estado' = [estado EXCEPT ![p] = hasta]

HayLugar == Cardinality(Compiten) < Grado
CPULibre == \A p \in Procesos : estado[p] # "exec"

Crear(p)        == Pasa(p, "inexistente", "new")
Admitir(p)      == HayLugar /\ Pasa(p, "new", "ready")
Despachar(p)    == CPULibre /\ Pasa(p, "ready", "exec")
Desalojar(p)    == Pasa(p, "exec", "ready")
Bloquear(p)     == Pasa(p, "exec", "blocked")
Desbloquear(p)  == Pasa(p, "blocked", "ready")
Suspender(p)    == Pasa(p, "blocked", "susp_blocked")
TerminarIO(p)   == Pasa(p, "susp_blocked", "susp_ready")
Readmitir(p)    == HayLugar /\ Pasa(p, "susp_ready", "ready")
Finalizar(p)    == Pasa(p, "exec", "exit")

Next == \E p \in Procesos :
           \/ Crear(p) \/ Admitir(p) \/ Despachar(p) \/ Desalojar(p) \/ Bloquear(p)
           \/ Desbloquear(p) \/ Suspender(p) \/ TerminarIO(p) \/ Readmitir(p) \/ Finalizar(p)

Spec == Init /\ [][Next]_estado

=============================================================================
