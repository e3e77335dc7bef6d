--------------------------- MODULE KernelCPUProofs ---------------------------
(***************************************************************************)
(* Theorems about KernelCPU: the CPU of CicloInstruccion, whatever the     *)
(* programs it runs, is one the proofs of Planificador hold for, and with  *)
(* FIFO no process is ever run past the end of its program.                *)
(***************************************************************************)
EXTENDS KernelCPU, PlanificadorProofs

-----------------------------------------------------------------------------
(* The inductive invariant of the CPU *)

\* The dispatch thread works on the PCB the Kernel waits for.
CicloDelDespachado ==
    /\ pcDispatch \in {"espera", "inicia", "ejecuta", "consulta", "termina", "caido"}
    /\ IF pcDispatch = "espera" THEN pcb_actual = NULO
       ELSE pcb_actual = pcbExec /\ pcExec = "espera_cpu" /\ respuestaCPU = SinRespuesta

\* A burst is counted once, when it is answered, and ran one instruction at
\* least: a process has run no more bursts than instructions.
CuentaDeRafagas ==
    /\ PC \in [Pcb -> Nat]
    /\ \A p \in Pcb : rafagas[p] <= PC[p] /\ PC[p] <= Len(Programas[p]) + MaxDesborde
    /\ PC_inicial \in Nat
    /\ pcDispatch = "ejecuta" => rafagas[pcb_actual] <= PC_inicial /\ PC_inicial <= PC[pcb_actual]
    /\ pcDispatch \in {"consulta", "termina"} =>
          rafagas[pcb_actual] <= PC_inicial /\ PC_inicial < PC[pcb_actual]
    /\ pcDispatch = "caido" => PC_inicial <= PC[pcb_actual]

\* The instruction in the cycle is one the answer can be made of.
InstruccionValida ==
    /\ instruccion \in [codigo : Codigos \union {"NINGUNA", "INVALIDA"}, parametro1 : Nat]
    /\ instruccion.codigo = "IO" => instruccion.parametro1 \in TiemposIO
    /\ pcDispatch = "consulta" => instruccion.codigo \in Codigos
    /\ pcDispatch = "termina" => instruccion.codigo \in {"IO", "EXIT"}

\* Once the cycle wiped it, the flag is up only for an interrupt it received.
BanderaConMotivo ==
    /\ hayInterrupcion \in BOOLEAN
    /\ recibidas \in Nat /\ recibidas <= interrupciones
    /\ pcDispatch \in {"ejecuta", "consulta", "termina"} /\ hayInterrupcion => recibidas > 0

InvCPU == CicloDelDespachado /\ CuentaDeRafagas /\ InstruccionValida /\ BanderaConMotivo

\* A list that is not empty has its elements from 1 to its length.
LEMMA ListaConElementos ==
    ASSUME NEW S, NEW s \in Seq(S), s # <<>>
    PROVE  /\ Len(s) \in Nat \ {0} /\ DOMAIN s = 1..Len(s)
           /\ \A i \in 1..Len(s) : s[i] \in S
BY LenProperties, Largos, ElementOfSeq

\* What the programs and the bounds give.
LEMMA Programa ==
    ASSUME NEW p \in Pcb
    PROVE  /\ Programas[p] \in Seq([codigo : Codigos, parametro1 : Nat])
           /\ Len(Programas[p]) \in Nat \ {0} /\ MaxDesborde \in Nat
           /\ Len(Programas[p]) + MaxDesborde < MaxRafagas
           /\ \A n \in Nat : 0 < n /\ n <= Len(Programas[p]) + MaxDesborde => n \in Rafagas
           /\ \A i \in 1..Len(Programas[p]) :
                 /\ Programas[p][i] \in [codigo : Codigos, parametro1 : Nat]
                 /\ Programas[p][i].codigo = "IO" => Programas[p][i].parametro1 \in TiemposIO
                 /\ (Programas[p][i].codigo = "EXIT") <=> (i = Len(Programas[p]))
<1> DEFINE Instrucciones == [codigo : Codigos, parametro1 : Nat]
<1>1. Programas[p] \in Seq(Instrucciones) /\ Programas[p] # <<>>
  BY ProgramasAssumption
<1>2. /\ MaxDesborde \in Nat /\ Len(Programas[p]) + MaxDesborde < MaxRafagas
      /\ 1..Len(Programas[p]) + MaxDesborde \subseteq Rafagas
      /\ \A i \in DOMAIN Programas[p] :
            /\ Programas[p][i].codigo = "IO" => Programas[p][i].parametro1 \in TiemposIO
            /\ (Programas[p][i].codigo = "EXIT") <=> (i = Len(Programas[p]))
  BY ProgramasAssumption
<1> HIDE DEF Instrucciones
<1>3. /\ Len(Programas[p]) \in Nat \ {0} /\ DOMAIN Programas[p] = 1..Len(Programas[p])
      /\ \A i \in 1..Len(Programas[p]) : Programas[p][i] \in Instrucciones
  BY <1>1, ListaConElementos
<1>4. \A n \in Nat : 0 < n /\ n <= Len(Programas[p]) + MaxDesborde => n \in Rafagas
  BY <1>2, <1>3
<1>5. \A i \in 1..Len(Programas[p]) :
         /\ Programas[p][i] \in Instrucciones
         /\ Programas[p][i].codigo = "IO" => Programas[p][i].parametro1 \in TiemposIO
         /\ (Programas[p][i].codigo = "EXIT") <=> (i = Len(Programas[p]))
  BY <1>2, <1>3
<1> QED  BY <1>1, <1>2, <1>3, <1>4, <1>5, Zenon DEF Instrucciones

\* fetch reads an instruction of the program, or past its end one of those
\* memory may hold.
LEMMA LoLeido ==
    ASSUME NEW p \in Pcb, PC[p] \in Nat, NEW i \in Cpu!Leidas(p)
    PROVE  /\ i \in [codigo : Codigos \union {"NINGUNA", "INVALIDA"}, parametro1 : Nat]
           /\ i.codigo \in Codigos \union {"INVALIDA"}
           /\ i.codigo = "IO" => i.parametro1 \in TiemposIO
           /\ PC[p] < Len(Programas[p]) =>
                 i.codigo # "INVALIDA" /\ (i.codigo = "EXIT" <=> PC[p] + 1 = Len(Programas[p]))
<1>1. CASE PC[p] < Len(Programas[p])
  <2>1. PC[p] + 1 \in 1..Len(Programas[p]) /\ i = Programas[p][PC[p] + 1]
    BY <1>1, Programa DEF Cpu!Leidas
  <2> QED  BY <1>1, <2>1, Programa DEF Codigos
<1>2. CASE ~(PC[p] < Len(Programas[p]))
  <2>1. i \in [codigo : {"NO_OP", "EXIT", "INVALIDA"}, parametro1 : {0}]
              \union [codigo : {"IO"}, parametro1 : TiemposBasura]
    BY <1>2 DEF Cpu!Leidas
  <2>2. /\ i.codigo \in {"NO_OP", "EXIT", "INVALIDA", "IO"}
        /\ i = [codigo |-> i.codigo, parametro1 |-> i.parametro1]
        /\ i.codigo = "IO" => i.parametro1 \in TiemposBasura
        /\ i.parametro1 \in TiemposBasura \union {0}
    BY <2>1
  <2>3. TiemposBasura \subseteq TiemposIO /\ TiemposIO \subseteq Nat
    BY ProgramasAssumption, TiemposAssumption
  <2>4. i.parametro1 \in Nat /\ i.codigo \in Codigos \union {"INVALIDA"}
    BY <2>2, <2>3 DEF Codigos
  <2> QED  BY <1>2, <2>2, <2>3, <2>4
<1> QED  BY <1>1, <1>2

\* The CPU starts waiting for a PCB.
LEMMA CPUInicial == InitKC => InvCPU
<1> SUFFICES ASSUME InitKC PROVE InvCPU
  OBVIOUS
<1>1. \A p \in Pcb : Len(Programas[p]) + MaxDesborde \in Nat
  BY Programa
<1>2. CicloDelDespachado /\ BanderaConMotivo
  <2>1. /\ pcDispatch = "espera" /\ pcb_actual = NULO /\ recibidas = 0 /\ interrupciones = 0
        /\ hayInterrupcion = FALSE
    BY DEF InitKC, Init, Cpu!Init
  <2>2. CicloDelDespachado
    BY <2>1 DEF CicloDelDespachado
  <2>3. recibidas \in Nat /\ recibidas <= interrupciones
    BY <2>1
  <2> QED  BY <2>1, <2>2, <2>3, Zenon DEF BanderaConMotivo
<1>3. CuentaDeRafagas
  BY <1>1 DEF InitKC, Init, Cpu!Init, CuentaDeRafagas
<1>4. InstruccionValida
  BY DEF InitKC, Cpu!Init, Cpu!SinInstruccion, InstruccionValida
<1> QED  BY <1>2, <1>3, <1>4 DEF InvCPU

-----------------------------------------------------------------------------
(* The CPU implements the one of Planificador *)

\* The steps of the Kernel's threads leave alone what the CPU works on: the PCB
\* was sent and nobody else answers for it.
LEMMA KernelRespetaCPU ==
    ASSUME IInv, InvCPU, PasoKernel
    PROVE  InvCPU'
<1> USE DEF NULO, varsMain, varsColas, varsSem, varsAready, varsExec, varsBlock,
            varsMem, varsCPU, varsFin
<1>1. TypeCPU /\ TypeExec /\ TypeSem /\ UNCHANGED varsCpu
  BY DEF IInv, TypeOK, PasoKernel
<1>2. /\ UNCHANGED rafagas /\ interrupciones \in Nat /\ interrupciones' \in Nat
      /\ interrupciones' >= interrupciones
      /\ pcExec = "espera_cpu" /\ respuestaCPU = SinRespuesta
           => UNCHANGED <<pcExec, pcbExec, respuestaCPU>>
  <2>1. CASE HiloMain \/ HiloKernel \/ Terminado
    BY <1>1, <2>1
    DEF HiloMain, ManejarProceso, IngresarANew, PostNew, HiloKernel, Terminado, vars, TypeCPU
  <2>2. CASE HiloAready
    BY <1>1, <2>2
    DEF HiloAready, EsperaPcb, EsperaGrado, Elige, PopSuspReady, PopNew, EstructurasCreadas,
        AgregaReady, InterrumpeAready, PostReadyAready, TypeCPU
  <2>3. CASE HiloExec
    BY <1>1, <2>3
    DEF HiloExec, EsperaReady, PlanificaFIFO, PlanificaSRT, Despacha, VuelvePorIO, PostBlock,
        VuelvePorInterrupcion, PostReadyExec, VuelvePorExit, AvisaConsola, PostGradoExec,
        TypeCPU, SinRespuesta
  <2>4. CASE HiloBlock
    BY <1>1, <2>4
    DEF HiloBlock, EsperaBlock, PopBlocked, TerminaIO, InterrumpeBlock, PostReadyBlock,
        PideSuspender, Suspendido, PostGradoBlock, TerminaIOSuspendido, PostSusp, TypeCPU
  <2> QED  BY <2>1, <2>2, <2>3, <2>4 DEF PasoKernel
<1>3. CicloDelDespachado'
  BY <1>1, <1>2 DEF InvCPU, CicloDelDespachado, varsCpu
<1>4. CuentaDeRafagas'
  BY <1>1, <1>2 DEF InvCPU, CuentaDeRafagas, varsCpu
<1>5. InstruccionValida'
  BY <1>1 DEF InvCPU, InstruccionValida, varsCpu
<1>6. BanderaConMotivo'
  <2>1. BanderaConMotivo /\ UNCHANGED <<pcDispatch, hayInterrupcion, recibidas>>
    BY <1>1 DEF InvCPU, varsCpu
  <2>2. recibidas \in Nat /\ interrupciones \in Nat /\ interrupciones' \in Nat
        /\ recibidas <= interrupciones /\ interrupciones' >= interrupciones
    BY <1>2, <2>1 DEF BanderaConMotivo
  <2>3. recibidas <= interrupciones'
    BY <2>2
  <2> QED  BY <2>1, <2>2, <2>3, Zenon DEF BanderaConMotivo
<1> QED  BY <1>3, <1>4, <1>5, <1>6 DEF InvCPU

\* What an answer of the cycle does: the burst, of a legal length, is counted
\* for the PCB the Kernel waits for.
LEMMA RespuestaLegal ==
    ASSUME IInv, InvCPU, pcDispatch \in {"consulta", "termina"}
    PROVE  /\ pcbExec \in Pcb /\ pcb_actual = pcbExec /\ PuedeResponder
           /\ PC[pcbExec] - PC_inicial \in Rafagas
           /\ rafagas[pcbExec] < MaxRafagas /\ rafagas[pcbExec] + 1 <= PC[pcbExec]
           /\ recibidas \in 0..interrupciones /\ interrupciones \in Nat
           /\ rafagas \in [Pcb -> Nat]
<1>1. pcb_actual = pcbExec /\ pcExec = "espera_cpu" /\ respuestaCPU = SinRespuesta
  BY DEF InvCPU, CicloDelDespachado
<1>2. pcbExec \in Pcb /\ rafagas \in [Pcb -> Nat] /\ interrupciones \in Nat
  BY <1>1 DEF IInv, TypeOK, TypeExec, TypeCPU
<1>3. /\ rafagas[pcbExec] <= PC_inicial /\ PC_inicial < PC[pcbExec] /\ PC_inicial \in Nat
      /\ PC[pcbExec] \in Nat /\ PC[pcbExec] <= Len(Programas[pcbExec]) + MaxDesborde
      /\ rafagas[pcbExec] \in Nat
  BY <1>1, <1>2 DEF InvCPU, CuentaDeRafagas
<1>4. PC[pcbExec] - PC_inicial \in Rafagas
  <2>1. /\ PC[pcbExec] - PC_inicial \in Nat /\ 0 < PC[pcbExec] - PC_inicial
        /\ PC[pcbExec] - PC_inicial <= Len(Programas[pcbExec]) + MaxDesborde
    BY <1>2, <1>3, Programa
  <2>2. \A m \in Nat : 0 < m /\ m <= Len(Programas[pcbExec]) + MaxDesborde => m \in Rafagas
    BY <1>2, Programa
  <2>3. PICK d : d = PC[pcbExec] - PC_inicial
    OBVIOUS
  <2> QED  BY <2>1, <2>2, <2>3
<1>5. rafagas[pcbExec] < MaxRafagas /\ rafagas[pcbExec] + 1 <= PC[pcbExec]
  BY <1>2, <1>3, Programa, CotasAssumption
<1>6. recibidas \in 0..interrupciones
  BY <1>2 DEF InvCPU, BanderaConMotivo
<1> QED  BY <1>1, <1>2, <1>4, <1>5, <1>6 DEF PuedeResponder

\* Every step of the dispatch thread is an answer Planificador allows, or
\* nothing the Kernel sees.
LEMMA DispatchCumple ==
    ASSUME IInv, InvCPU, PasoDispatch
    PROVE  CPU \/ UNCHANGED vars
<1> USE DEF varsMain, varsColas, varsSem, varsAready, varsExec, varsBlock, varsMem, varsCPU,
            varsFin, varsKernel
<1>1. UNCHANGED varsKernel
  BY DEF PasoDispatch
<1>2. CASE Cpu!RecibePcb \/ Cpu!IniciaCiclo \/ Cpu!Ejecuta \/ Cpu!SigueCiclo
  <2>1. UNCHANGED <<respuestaCPU, interrupciones>>
    BY <1>2 DEF Cpu!RecibePcb, Cpu!IniciaCiclo, Cpu!Ejecuta, Cpu!SigueCiclo
  <2>2. UNCHANGED rafagas
    BY <2>1 DEF PasoDispatch
  <2> QED  BY <1>1, <2>1, <2>2 DEF vars
<1>3. CASE Cpu!Interrumpida
  <2> DEFINE largo == PC[pcbExec] - PC_inicial
  <2>1. /\ pcDispatch = "consulta" /\ hayInterrupcion
        /\ respuestaCPU' = [codigo |-> "INTERRUPCION", tiempoBloqueo |-> 0,
                            lengthUltimaRafaga |-> PC[pcb_actual] - PC_inicial]
        /\ interrupciones' = interrupciones - recibidas
    BY <1>3 DEF Cpu!Interrumpida, Cpu!Responde
  <2>2. /\ pcbExec \in Pcb /\ pcb_actual = pcbExec /\ PuedeResponder
        /\ largo \in Rafagas /\ rafagas[pcbExec] < MaxRafagas
        /\ recibidas \in 0..interrupciones /\ interrupciones \in Nat
    BY <2>1, RespuestaLegal
  <2>3. recibidas \in 1..interrupciones
    BY <2>1, <2>2 DEF InvCPU, BanderaConMotivo
  <2>4. respuestaCPU' # respuestaCPU
    BY <2>1, <2>2 DEF PuedeResponder, SinRespuesta
  <2>5. rafagas' = [rafagas EXCEPT ![pcbExec] = @ + 1]
    BY <2>2, <2>4 DEF PasoDispatch
  <2> HIDE DEF largo
  <2>6. Responde("INTERRUPCION", largo, 0, recibidas)
    BY <1>1, <2>1, <2>2, <2>5 DEF Responde, largo
  <2> QED  BY <2>2, <2>3, <2>6 DEF CPU, CPUInterrumpida
<1>4. CASE Cpu!TerminaCiclo
  <2> DEFINE largo == PC[pcbExec] - PC_inicial
             tiempo == IF instruccion.codigo = "IO" THEN instruccion.parametro1 ELSE 0
  <2>1. /\ pcDispatch = "termina"
        /\ respuestaCPU' = [codigo |-> instruccion.codigo, tiempoBloqueo |-> tiempo,
                            lengthUltimaRafaga |-> PC[pcb_actual] - PC_inicial]
        /\ interrupciones' = interrupciones - recibidas
    BY <1>4 DEF Cpu!TerminaCiclo, Cpu!Responde
  <2>2. /\ pcbExec \in Pcb /\ pcb_actual = pcbExec /\ PuedeResponder
        /\ largo \in Rafagas /\ rafagas[pcbExec] < MaxRafagas
        /\ recibidas \in 0..interrupciones
    BY <2>1, RespuestaLegal
  <2>3. /\ instruccion.codigo \in {"IO", "EXIT"}
        /\ instruccion.codigo = "IO" => instruccion.parametro1 \in TiemposIO
    BY <2>1 DEF InvCPU, InstruccionValida
  <2> HIDE DEF tiempo
  <2>4. respuestaCPU' # respuestaCPU
    BY <2>1, <2>2, <2>3 DEF PuedeResponder, SinRespuesta
  <2>5. rafagas' = [rafagas EXCEPT ![pcbExec] = @ + 1]
    BY <2>2, <2>4 DEF PasoDispatch
  <2> HIDE DEF largo
  <2>6. Responde(instruccion.codigo, largo, tiempo, recibidas)
    BY <1>1, <2>1, <2>2, <2>5 DEF Responde, largo
  <2>7. CASE instruccion.codigo = "IO"
    <3>1. Responde("IO", largo, instruccion.parametro1, recibidas)
      BY <2>6, <2>7 DEF tiempo
    <3> QED  BY <2>2, <2>3, <2>7, <3>1 DEF CPU, CPUEjecutaIO
  <2>8. CASE instruccion.codigo = "EXIT"
    <3>1. Responde("EXIT", largo, 0, recibidas)
      BY <2>6, <2>8 DEF tiempo
    <3> QED  BY <2>2, <3>1 DEF CPU, CPUEjecutaExit
  <2> QED  BY <2>3, <2>7, <2>8
<1> QED  BY <1>2, <1>3, <1>4 DEF PasoDispatch, Cpu!HiloDispatch

\* Every step of Kernel and CPU together is one of Planificador.
LEMMA PasoDePlanificador ==
    ASSUME IInv, InvCPU, [NextKC]_varsKC
    PROVE  [Next]_vars
<1>1. CASE PasoKernel
  BY <1>1 DEF PasoKernel, Next
<1>2. CASE PasoDispatch
  BY <1>2, DispatchCumple DEF Next
<1>3. CASE PasoInterrupt
  BY <1>3
  DEF PasoInterrupt, Cpu!HiloInterrupt, Cpu!RecibeInterrupcion, varsKernel, vars, varsCPU
<1>4. CASE CPUPerdida \/ UNCHANGED varsKC
  BY <1>4 DEF CPUPerdida, varsKC
<1> QED  BY <1>1, <1>2, <1>3, <1>4 DEF NextKC

\* The steps of the CPU keep its invariant.
LEMMA CPURespetaCPU ==
    ASSUME IInv, InvCPU, PasoDispatch \/ PasoInterrupt
    PROVE  InvCPU'
<1> USE DEF varsExec, varsKernel
<1>1. /\ UNCHANGED <<pcExec, pcbExec>> /\ TypeCPU /\ TypeExec
      /\ CicloDelDespachado /\ CuentaDeRafagas /\ InstruccionValida /\ BanderaConMotivo
      /\ interrupciones \in Nat /\ rafagas \in [Pcb -> Nat] /\ PC \in [Pcb -> Nat]
      /\ NULO \notin Pcb
  BY CotasAssumption, SMTT(20)
  DEF PasoDispatch, PasoInterrupt, IInv, TypeOK, InvCPU, TypeCPU, CuentaDeRafagas, Pcb, NULO
<1>2. pcDispatch # "espera" => /\ pcbExec \in Pcb /\ pcb_actual = pcbExec
                               /\ pcExec = "espera_cpu" /\ respuestaCPU = SinRespuesta
  BY <1>1 DEF CicloDelDespachado, TypeExec
<1>3. ASSUME PasoDispatch, UNCHANGED respuestaCPU
      PROVE  UNCHANGED rafagas
  BY <1>3 DEF PasoDispatch
<1>4. CASE PasoDispatch /\ Cpu!RecibePcb
  <2>1. /\ pcDispatch' = "inicia" /\ pcb_actual' = despachado /\ despachado # NULO
        /\ UNCHANGED <<PC, PC_inicial, instruccion, hayInterrupcion, recibidas, respuestaCPU,
                       interrupciones, rafagas>>
    BY <1>3, <1>4 DEF Cpu!RecibePcb
  <2>2. CicloDelDespachado'
    BY <1>1, <2>1 DEF CicloDelDespachado, despachado
  <2>3. CuentaDeRafagas'
    BY <1>1, <2>1 DEF CuentaDeRafagas
  <2>4. InstruccionValida'
    BY <1>1, <2>1 DEF InstruccionValida
  <2>5. BanderaConMotivo'
    BY <1>1, <2>1, Zenon DEF BanderaConMotivo
  <2> QED  BY <2>2, <2>3, <2>4, <2>5 DEF InvCPU
<1>5. CASE PasoDispatch /\ Cpu!IniciaCiclo
  <2>1. /\ pcDispatch = "inicia" /\ pcDispatch' = "ejecuta" /\ hayInterrupcion' = FALSE
        /\ PC_inicial' = PC[pcb_actual]
        /\ UNCHANGED <<pcb_actual, PC, instruccion, recibidas, respuestaCPU, interrupciones,
                       rafagas>>
    BY <1>3, <1>5 DEF Cpu!IniciaCiclo
  <2>2. CicloDelDespachado'
    BY <1>1, <2>1 DEF CicloDelDespachado
  <2>3. CuentaDeRafagas'
    BY <1>1, <1>2, <2>1 DEF CuentaDeRafagas
  <2>4. InstruccionValida'
    BY <1>1, <2>1 DEF InstruccionValida
  <2>5. BanderaConMotivo'
    BY <1>1, <2>1, Zenon DEF BanderaConMotivo
  <2> QED  BY <2>2, <2>3, <2>4, <2>5 DEF InvCPU
<1>6. CASE PasoDispatch /\ Cpu!Ejecuta
  <2>1. /\ pcDispatch = "ejecuta" /\ PC[pcbExec] < Len(Programas[pcbExec]) + MaxDesborde
        /\ instruccion' \in Cpu!Leidas(pcbExec)
        /\ UNCHANGED <<pcb_actual, PC_inicial, hayInterrupcion, recibidas, respuestaCPU,
                       interrupciones, rafagas>>
        /\ \/ instruccion'.codigo = "INVALIDA" /\ pcDispatch' = "caido" /\ PC' = PC
           \/ /\ instruccion'.codigo # "INVALIDA" /\ pcDispatch' = "consulta"
              /\ PC' = [PC EXCEPT ![pcbExec] = @ + 1]
    BY <1>2, <1>3, <1>6 DEF Cpu!Ejecuta
  <2>2. /\ instruccion' \in [codigo : Codigos \union {"NINGUNA", "INVALIDA"}, parametro1 : Nat]
        /\ instruccion'.codigo \in Codigos \union {"INVALIDA"}
        /\ instruccion'.codigo = "IO" => instruccion'.parametro1 \in TiemposIO
    BY <1>1, <1>2, <2>1, LoLeido
  <2>3. CicloDelDespachado'
    BY <1>1, <2>1 DEF CicloDelDespachado
  <2>4. CuentaDeRafagas'
    <3>1. PC[pcbExec] \in Nat /\ pcbExec \in Pcb /\ rafagas[pcbExec] \in Nat
          /\ Len(Programas[pcbExec]) \in Nat /\ MaxDesborde \in Nat
      BY <1>1, <1>2, <2>1, Programa
    <3>2. CASE PC' = PC /\ pcDispatch' = "caido"
      BY <1>1, <1>2, <2>1, <3>1, <3>2 DEF CuentaDeRafagas
    <3>3. CASE PC' = [PC EXCEPT ![pcbExec] = @ + 1] /\ pcDispatch' = "consulta"
      <4>1. PC' \in [Pcb -> Nat] /\ PC'[pcbExec] = PC[pcbExec] + 1
            /\ \A p \in Pcb : p # pcbExec => PC'[p] = PC[p]
        BY <1>1, <3>1, <3>3
      <4>2. ASSUME NEW p \in Pcb
            PROVE  rafagas'[p] <= PC'[p] /\ PC'[p] <= Len(Programas[p]) + MaxDesborde
        <5>1. /\ rafagas[p] \in Nat /\ PC[p] \in Nat /\ Len(Programas[p]) \in Nat
              /\ rafagas'[p] = rafagas[p]
          BY <1>1, <1>2, <2>1, Programa DEF CuentaDeRafagas
        <5>2. rafagas[p] <= PC[p] /\ PC[p] <= Len(Programas[p]) + MaxDesborde
          BY <1>1 DEF CuentaDeRafagas
        <5>3. CASE p = pcbExec
          BY <2>1, <3>1, <4>1, <5>1, <5>2, <5>3
        <5>4. CASE p # pcbExec
          BY <3>1, <4>1, <5>1, <5>2, <5>4
        <5> QED  BY <5>3, <5>4
      <4> QED  BY <1>1, <1>2, <2>1, <3>1, <3>3, <4>1, <4>2 DEF CuentaDeRafagas
    <3> QED  BY <2>1, <3>2, <3>3
  <2>5. InstruccionValida'
    BY <2>1, <2>2 DEF InstruccionValida
  <2>6. BanderaConMotivo'
    BY <1>1, <2>1, Zenon DEF BanderaConMotivo
  <2> QED  BY <2>3, <2>4, <2>5, <2>6 DEF InvCPU
<1>7. CASE PasoDispatch /\ Cpu!SigueCiclo
  <2>1. /\ pcDispatch = "consulta"
        /\ \/ instruccion.codigo \in {"IO", "EXIT"} /\ pcDispatch' = "termina"
           \/ pcDispatch' = "ejecuta"
        /\ UNCHANGED <<pcb_actual, PC, PC_inicial, instruccion, hayInterrupcion, recibidas,
                       respuestaCPU, interrupciones, rafagas>>
    BY <1>3, <1>7 DEF Cpu!SigueCiclo
  <2>2. CicloDelDespachado'
    BY <1>1, <2>1 DEF CicloDelDespachado
  <2>3. CuentaDeRafagas'
    BY <1>1, <1>2, <2>1 DEF CuentaDeRafagas
  <2>4. InstruccionValida'
    BY <1>1, <2>1 DEF InstruccionValida
  <2>5. BanderaConMotivo'
    BY <1>1, <2>1, Zenon DEF BanderaConMotivo
  <2> QED  BY <2>2, <2>3, <2>4, <2>5 DEF InvCPU
<1>8. CASE PasoDispatch /\ (Cpu!Interrumpida \/ Cpu!TerminaCiclo)
  <2>1. /\ pcDispatch \in {"consulta", "termina"} /\ pcDispatch' = "espera"
        /\ pcb_actual' = NULO /\ PC_inicial' = 0 /\ PC' = PC /\ recibidas' = 0
        /\ interrupciones' = interrupciones - recibidas
        /\ instruccion' = [codigo |-> "NINGUNA", parametro1 |-> 0]
        /\ hayInterrupcion' \in {FALSE, hayInterrupcion}
    BY <1>8 DEF Cpu!Interrumpida, Cpu!TerminaCiclo, Cpu!Responde, Cpu!SinInstruccion
  <2>2. rafagas' = rafagas \/ rafagas' = [rafagas EXCEPT ![pcbExec] = @ + 1]
    BY <1>2, <1>8, <2>1 DEF PasoDispatch
  <2>3. pcbExec \in Pcb /\ rafagas[pcbExec] + 1 <= PC[pcbExec] /\ recibidas \in 0..interrupciones
    BY <2>1, RespuestaLegal
  <2>4. CicloDelDespachado'
    BY <2>1 DEF CicloDelDespachado
  <2>5. CuentaDeRafagas'
    <3>1. \A p \in Pcb : rafagas'[p] <= PC[p]
      BY <1>1, <2>2, <2>3 DEF CuentaDeRafagas
    <3> QED  BY <1>1, <2>1, <3>1 DEF CuentaDeRafagas
  <2>6. InstruccionValida'
    BY <2>1 DEF InstruccionValida
  <2>7. BanderaConMotivo'
    <3>1. recibidas' \in Nat /\ recibidas' <= interrupciones'
      BY <1>1, <2>1, <2>3
    <3> QED  BY <1>1, <2>1, <3>1, Zenon DEF BanderaConMotivo
  <2> QED  BY <2>4, <2>5, <2>6, <2>7 DEF InvCPU
<1>9. CASE PasoInterrupt
  <2>1. /\ pcDispatch # "caido" /\ recibidas < interrupciones /\ recibidas' = recibidas + 1
        /\ hayInterrupcion' = TRUE
        /\ UNCHANGED <<pcDispatch, pcb_actual, PC, PC_inicial, instruccion, respuestaCPU,
                       interrupciones, rafagas>>
    BY <1>9 DEF PasoInterrupt, Cpu!HiloInterrupt, Cpu!RecibeInterrupcion
  <2>2. CicloDelDespachado'
    BY <1>1, <2>1 DEF CicloDelDespachado
  <2>3. CuentaDeRafagas'
    BY <1>1, <2>1 DEF CuentaDeRafagas
  <2>4. InstruccionValida'
    BY <1>1, <2>1 DEF InstruccionValida
  <2>5. BanderaConMotivo'
    <3>1. recibidas' \in Nat /\ recibidas' <= interrupciones' /\ recibidas' > 0
      BY <1>1, <2>1 DEF BanderaConMotivo
    <3> QED  BY <2>1, <3>1, Zenon DEF BanderaConMotivo
  <2> QED  BY <2>2, <2>3, <2>4, <2>5 DEF InvCPU
<1> QED
  BY <1>4, <1>5, <1>6, <1>7, <1>8, <1>9 DEF PasoDispatch, Cpu!HiloDispatch

\* Kernel and CPU together keep both invariants.
LEMMA PasoConjunto ==
    ASSUME IInv, InvCPU, [NextKC]_varsKC
    PROVE  IInv' /\ InvCPU'
<1>1. IInv'
  BY PasoDePlanificador, InvariantePreservado
<1>2. CASE PasoKernel
  BY <1>1, <1>2, KernelRespetaCPU
<1>3. CASE PasoDispatch \/ PasoInterrupt
  BY <1>1, <1>3, CPURespetaCPU
<1>4. CASE CPUPerdida \/ UNCHANGED varsKC
  <2>1. UNCHANGED varsKC
    BY <1>4 DEF CPUPerdida
  <2>2. InvCPU'
    BY <2>1
    DEF varsKC, vars, varsExec, varsCPU, varsCpu, InvCPU, CicloDelDespachado, CuentaDeRafagas,
        InstruccionValida, BanderaConMotivo
  <2> QED  BY <2>2, <1>1
<1> QED  BY <1>1, <1>2, <1>3, <1>4 DEF NextKC

\* Kernel and CPU together keep the inductive invariant of the planner and the
\* one of the cycle: the dispatch thread answers once, with a burst of at least
\* one instruction, for the PCB hilo_exec waits for (ciclo_instruccion.c:9-73,
\* interrupt.c, planificador.c:82-177).
THEOREM ConjuntoCorrecto == SpecKC => [](IInv /\ InvCPU)
<1>1. InitKC => IInv /\ InvCPU
  BY InvarianteInicial, CPUInicial DEF InitKC
<1>2. IInv /\ InvCPU /\ [NextKC]_varsKC => IInv' /\ InvCPU'
  BY PasoConjunto
<1> QED  BY <1>1, <1>2, PTL DEF SpecKC

\* Every behaviour of Kernel and CPU is one of Planificador, whose CPU is
\* arbitrary: the cycle sends one answer per PCB, only EXIT, an IO with the time
\* of the instruction or "interrupted", and the last one only when the Kernel
\* sent an interrupt (ciclo_instruccion.c:9-73, interrupt.c).  What is proved
\* of Planificador holds of the two programs together.
THEOREM CPUImplementaPlanificador == SpecKC => CPUCumplePlanificador
<1>1. InitKC => Init
  BY DEF InitKC
<1>2. IInv /\ InvCPU /\ [NextKC]_varsKC => [Next]_vars
  BY PasoDePlanificador
<1> QED
  BY <1>1, <1>2, ConjuntoCorrecto, PTL DEF SpecKC, CPUCumplePlanificador, Spec

\* The type invariant of the CPU (ciclo_instruccion.c, interrupt.c).
THEOREM TipoDeCPU == SpecKC => []TypeOKCPU
<1>1. ASSUME IInv, InvCPU
      PROVE  TypeOKCPU
  <2>1. /\ CicloDelDespachado /\ CuentaDeRafagas /\ InstruccionValida /\ BanderaConMotivo
        /\ interrupciones \in Nat
    BY <1>1 DEF InvCPU, IInv, TypeOK, TypeCPU
  <2>2. \A p \in Pcb : PC[p] \in 0..Len(Programas[p]) + MaxDesborde
    BY <2>1, Programa DEF CuentaDeRafagas
  <2>3. pcDispatch \in {"ejecuta", "consulta", "termina"} => PC_inicial \in 0..PC[pcb_actual]
    <3>1. pcDispatch \in {"ejecuta", "consulta", "termina"} => pcb_actual \in Pcb
      BY <1>1, <2>1 DEF CicloDelDespachado, IInv, TypeOK, TypeExec
    <3> QED  BY <2>1, <3>1 DEF CuentaDeRafagas
  <2>4. recibidas \in 0..interrupciones
    BY <2>1 DEF BanderaConMotivo
  <2> QED
    BY <2>1, <2>2, <2>3, <2>4
    DEF TypeOKCPU, CicloDelDespachado, InstruccionValida, BanderaConMotivo
<1> QED  BY <1>1, ConjuntoCorrecto, PTL

-----------------------------------------------------------------------------
(* With FIFO nobody interrupts: EXIT always ends the process *)

\* The process has ended, is being ended, or its EXIT is in the cycle or in the
\* answer the Kernel is about to read.
VaAlFinal(p) ==
    \/ p \in finalizadas
    \/ pcExec = "avisa_consola" /\ p = pcbExec
    \/ /\ pcExec = "espera_cpu" /\ p = pcbExec
       /\ \/ pcDispatch \in {"consulta", "termina"} /\ instruccion.codigo = "EXIT"
          \/ respuestaCPU.codigo = "EXIT"

SinInterrupciones == interrupciones = 0 /\ recibidas = 0 /\ hayInterrupcion = FALSE

CompletosSalen == \A p \in Pcb : PC[p] >= Len(Programas[p]) => VaAlFinal(p)

InvFIFO == SinInterrupciones /\ CompletosSalen

\* Who is on its way out is in no queue of the Kernel: each process is in one place.
LEMMA SalirEsEstarFuera ==
    ASSUME IInv, NEW p \in Pcb, VaAlFinal(p)
    PROVE  /\ ~Contains(estado_ready, p)
           /\ \A i \in DOMAIN estado_blocked : estado_blocked[i].pcb # p
<1>1. EstadosPorLugar!(p) /\ TypeColas
  BY EstadoSegunLugar DEF EstadosPorLugar, IInv, TypeOK
<1>2. estado[p] \in {"exec", "exit"}
  BY <1>1 DEF VaAlFinal, LugarExec
<1>3. ~(Veces(estado_ready, p) > 0) /\ ~(VecesIO(estado_blocked, p) > 0)
  BY <1>1, <1>2 DEF LugarReady, LugarBlocked
<1> QED  BY <1>1, <1>3, VecesBasico, VecesIOBasico DEF TypeColas

\* The running process has not ended.
LEMMA EjecutaNoFinalizado ==
    ASSUME IInv, pcExec = "espera_cpu"
    PROVE  pcbExec \in Pcb /\ pcbExec \notin finalizadas
<1>1. pcbExec \in Pcb
  BY DEF IInv, TypeOK, TypeExec
<1>2. EstadosPorLugar!(pcbExec)
  BY <1>1, EstadoSegunLugar DEF EstadosPorLugar
<1>3. estado[pcbExec] = "exec"
  BY <1>2 DEF LugarExec
<1> QED  BY <1>1, <1>2, <1>3

\* The Kernel sends no interrupt with FIFO, and takes an EXIT to its end.
LEMMA KernelFIFO ==
    ASSUME ~SRT, IInv, InvCPU, InvFIFO, PasoKernel
    PROVE  InvFIFO'
<1> USE DEF NULO, varsMain, varsColas, varsSem, varsAready, varsExec, varsBlock,
            varsMem, varsCPU, varsFin
<1>1. TypeAready /\ TypeBlock /\ UNCHANGED varsCpu /\ CicloDelDespachado
  BY DEF IInv, TypeOK, PasoKernel, InvCPU
<1>2. SRT = FALSE /\ pcAready # "interrumpe" /\ pcBlock # "interrumpe"
  BY <1>1 DEF TypeAready, TypeBlock
<1>3. /\ UNCHANGED interrupciones /\ finalizadas \subseteq finalizadas'
      /\ \/ UNCHANGED <<pcExec, pcbExec, respuestaCPU>>
         \/ pcExec \notin {"espera_cpu", "avisa_consola"}
         \/ pcExec = "espera_cpu" /\ respuestaCPU.codigo \in {"IO", "INTERRUPCION"}
         \/ /\ pcExec = "espera_cpu" /\ respuestaCPU.codigo = "EXIT"
            /\ pcExec' = "avisa_consola" /\ pcbExec' = pcbExec
         \/ pcExec = "avisa_consola" /\ pcbExec \in finalizadas'
  <2>1. CASE HiloMain \/ HiloKernel \/ Terminado
    BY <2>1
    DEF HiloMain, ManejarProceso, IngresarANew, PostNew, HiloKernel, Terminado, vars
  <2>2. CASE HiloAready
    BY <1>2, <2>2
    DEF HiloAready, EsperaPcb, EsperaGrado, Elige, PopSuspReady, PopNew, EstructurasCreadas,
        AgregaReady, InterrumpeAready, PostReadyAready
  <2>3. CASE HiloExec
    BY <2>3
    DEF HiloExec, EsperaReady, PlanificaFIFO, PlanificaSRT, Despacha, VuelvePorIO, PostBlock,
        VuelvePorInterrupcion, PostReadyExec, VuelvePorExit, AvisaConsola, PostGradoExec
  <2>4. CASE HiloBlock
    BY <1>2, <2>4
    DEF HiloBlock, EsperaBlock, PopBlocked, TerminaIO, InterrumpeBlock, PostReadyBlock,
        PideSuspender, Suspendido, PostGradoBlock, TerminaIOSuspendido, PostSusp
  <2> QED  BY <2>1, <2>2, <2>3, <2>4 DEF PasoKernel
<1>4. SinInterrupciones'
  BY <1>1, <1>3, Zenon DEF InvFIFO, SinInterrupciones, varsCpu
<1>5. CompletosSalen'
  <2> SUFFICES ASSUME NEW p \in Pcb, VaAlFinal(p)
               PROVE  VaAlFinal(p)'
    BY <1>1 DEF InvFIFO, CompletosSalen, varsCpu
  <2>1. pcDispatch \in {"consulta", "termina"} => respuestaCPU.codigo = "NINGUNO"
    BY <1>1 DEF CicloDelDespachado, SinRespuesta
  <2>2. UNCHANGED <<pcDispatch, instruccion>>
    BY <1>1 DEF varsCpu
  <2> QED  BY <1>3, <2>1, <2>2 DEF VaAlFinal
<1> QED  BY <1>4, <1>5 DEF InvFIFO

\* Without the flag, the cycle that reaches EXIT answers EXIT.
LEMMA CPUFIFO ==
    ASSUME IInv, InvCPU, InvFIFO, PasoDispatch \/ PasoInterrupt
    PROVE  InvFIFO'
<1> USE DEF varsExec, varsKernel, varsFin
<1>1. /\ UNCHANGED <<pcExec, pcbExec, finalizadas>>
      /\ CicloDelDespachado /\ PC \in [Pcb -> Nat]
      /\ interrupciones = 0 /\ recibidas = 0 /\ hayInterrupcion = FALSE
  BY DEF PasoDispatch, PasoInterrupt, InvCPU, CuentaDeRafagas, InvFIFO, SinInterrupciones
<1>2. ~PasoInterrupt
  BY <1>1 DEF PasoInterrupt, Cpu!HiloInterrupt, Cpu!RecibeInterrupcion
<1>3. pcDispatch # "espera" => /\ pcbExec \in Pcb /\ pcbExec \notin finalizadas
                               /\ pcb_actual = pcbExec /\ pcExec = "espera_cpu"
                               /\ respuestaCPU.codigo # "EXIT"
  BY <1>1, EjecutaNoFinalizado DEF CicloDelDespachado, SinRespuesta
<1>4. SinInterrupciones'
  <2>1. interrupciones' = 0 /\ recibidas' = 0
    BY <1>1, <1>2
    DEF PasoDispatch, Cpu!HiloDispatch, Cpu!RecibePcb, Cpu!IniciaCiclo, Cpu!Ejecuta,
        Cpu!SigueCiclo, Cpu!Interrumpida, Cpu!TerminaCiclo, Cpu!Responde
  <2>2. hayInterrupcion' = FALSE
    BY <1>1, <1>2, Zenon
    DEF PasoDispatch, Cpu!HiloDispatch, Cpu!RecibePcb, Cpu!IniciaCiclo, Cpu!Ejecuta,
        Cpu!SigueCiclo, Cpu!Interrumpida, Cpu!TerminaCiclo
  <2> QED  BY <2>1, <2>2, Zenon DEF SinInterrupciones
<1>5. ASSUME NEW p \in Pcb, PC'[p] >= Len(Programas[p])
      PROVE  VaAlFinal(p)'
  <2>1. PC[p] >= Len(Programas[p]) => VaAlFinal(p)
    BY DEF InvFIFO, CompletosSalen
  <2>2. CASE Cpu!RecibePcb \/ Cpu!IniciaCiclo
    <3>1. PC' = PC /\ respuestaCPU' = respuestaCPU /\ pcDispatch \in {"espera", "inicia"}
      BY <2>2 DEF Cpu!RecibePcb, Cpu!IniciaCiclo
    <3> QED  BY <1>1, <1>5, <2>1, <3>1 DEF VaAlFinal
  <2>3. CASE Cpu!Ejecuta
    <3>1. /\ pcDispatch = "ejecuta" /\ instruccion' \in Cpu!Leidas(pcbExec)
          /\ respuestaCPU' = respuestaCPU
          /\ \/ PC' = PC
             \/ PC' = [PC EXCEPT ![pcbExec] = @ + 1] /\ pcDispatch' = "consulta"
          /\ instruccion'.codigo = "INVALIDA" => PC' = PC
          /\ instruccion'.codigo # "INVALIDA" => PC' # PC
      <4>1. /\ pcDispatch = "ejecuta" /\ instruccion' \in Cpu!Leidas(pcbExec)
            /\ respuestaCPU' = respuestaCPU
            /\ \/ instruccion'.codigo = "INVALIDA" /\ PC' = PC
               \/ /\ instruccion'.codigo # "INVALIDA" /\ pcDispatch' = "consulta"
                  /\ PC' = [PC EXCEPT ![pcbExec] = @ + 1]
        BY <1>3, <2>3 DEF Cpu!Ejecuta
      <4>2. PC[pcbExec] \in Nat
        BY <1>1, <1>3, <4>1
      <4> QED  BY <1>1, <1>3, <4>1, <4>2
    <3>2. CASE p = pcbExec
      <4>1. ~VaAlFinal(p)
        BY <1>3, <3>1, <3>2 DEF VaAlFinal
      <4>2. PC[p] < Len(Programas[p]) /\ PC[p] \in Nat /\ Len(Programas[p]) \in Nat
        BY <1>1, <2>1, <4>1, Programa
      <4>3. PC'[p] = PC[p] + 1 /\ pcDispatch' = "consulta" /\ PC[p] + 1 = Len(Programas[p])
        BY <1>1, <1>5, <3>1, <3>2, <4>2
      <4>4. instruccion'.codigo = "EXIT"
        BY <3>1, <3>2, <4>2, <4>3, LoLeido
      <4> QED  BY <1>1, <1>3, <3>1, <3>2, <4>3, <4>4 DEF VaAlFinal
    <3>3. CASE p # pcbExec
      BY <1>1, <1>5, <2>1, <3>1, <3>3 DEF VaAlFinal
    <3> QED  BY <3>2, <3>3
  <2>4. CASE Cpu!SigueCiclo
    <3>1. /\ PC' = PC /\ respuestaCPU' = respuestaCPU /\ instruccion' = instruccion
          /\ instruccion.codigo = "EXIT" => pcDispatch' = "termina"
      BY <2>4 DEF Cpu!SigueCiclo
    <3> QED  BY <1>1, <1>5, <2>1, <3>1 DEF VaAlFinal
  <2>5. CASE Cpu!TerminaCiclo
    <3>1. /\ PC' = PC /\ pcDispatch = "termina" /\ respuestaCPU'.codigo = instruccion.codigo
      BY <2>5 DEF Cpu!TerminaCiclo, Cpu!Responde
    <3> QED  BY <1>1, <1>3, <1>5, <2>1, <3>1 DEF VaAlFinal
  <2>6. ~Cpu!Interrumpida
    BY <1>1, Zenon DEF Cpu!Interrumpida
  <2> QED
    BY <1>2, <2>2, <2>3, <2>4, <2>5, <2>6 DEF PasoDispatch, Cpu!HiloDispatch
<1> QED  BY <1>4, <1>5 DEF InvFIFO, CompletosSalen

\* With FIFO, README.md:7 holds of every program: a process whose instructions
\* were all executed is on its way out and never queued to run again, so fetch
\* (ciclo_instruccion.c:5) reads nothing past its end.  With SRT it does not
\* (run kernelcpu_exit_interrumpido).
THEOREM CompletoTerminaConFIFO ==
    ALGORITMO_PLANIFICACION = "FIFO" => (SpecKC => []ProgramaCompletoTermina)
<1> SUFFICES ASSUME ALGORITMO_PLANIFICACION = "FIFO"
             PROVE  SpecKC => []ProgramaCompletoTermina
  OBVIOUS
<1>1. ~SRT
  BY DEF SRT
<1>2. InitKC => InvFIFO
  <2> SUFFICES ASSUME InitKC PROVE InvFIFO
    OBVIOUS
  <2>1. SinInterrupciones
    BY DEF InitKC, Init, Cpu!Init, SinInterrupciones
  <2>2. CompletosSalen
    BY Programa DEF InitKC, Cpu!Init, CompletosSalen
  <2> QED  BY <2>1, <2>2 DEF InvFIFO
<1>3. IInv /\ InvCPU /\ InvFIFO /\ [NextKC]_varsKC => InvFIFO'
  <2> SUFFICES ASSUME IInv, InvCPU, InvFIFO, [NextKC]_varsKC PROVE InvFIFO'
    OBVIOUS
  <2>1. CASE PasoKernel
    BY <1>1, <2>1, KernelFIFO
  <2>2. CASE PasoDispatch \/ PasoInterrupt
    BY <2>2, CPUFIFO
  <2>3. CASE CPUPerdida \/ UNCHANGED varsKC
    <3>1. UNCHANGED varsKC
      BY <2>3 DEF CPUPerdida
    <3> QED
      BY <3>1
      DEF varsKC, vars, varsExec, varsCPU, varsFin, varsCpu, InvFIFO, SinInterrupciones,
          CompletosSalen, VaAlFinal
  <2> QED  BY <2>1, <2>2, <2>3 DEF NextKC
<1>4. IInv /\ InvFIFO => ProgramaCompletoTermina
  BY SalirEsEstarFuera DEF InvFIFO, CompletosSalen, ProgramaCompletoTermina
<1> QED  BY <1>2, <1>3, <1>4, ConjuntoCorrecto, PTL DEF SpecKC
=============================================================================
