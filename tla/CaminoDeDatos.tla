----------------------------- MODULE CaminoDeDatos -----------------------------
(***************************************************************************)
(* What a process carries from its script to its frames.  The console      *)
(* turns a script into instructions (Guion), every module sends packets    *)
(* (Serializacion) over sockets that may cut them, and the CPU walks the   *)
(* tables that Memoria made (TablasPaginas) for each address.              *)
(*                                                                         *)
(* The modules run at once: consoles arrive and Memoria makes tables while *)
(* the CPU walks those of another process.  The order of the queues of the *)
(* Kernel is left to Planificador (any PCB that waits may be next), the    *)
(* flag of interrupts to KernelCPU (one may be seen after each             *)
(* instruction), and the frame of a page and the TLB to MemoriaVirtual     *)
(* (any frame, and always a walk).                                         *)
(***************************************************************************)
EXTENDS Guion, Serializacion, TablasPaginas, FiniteSets

CONSTANTS
    Consolas, NULO,
    Argumentos,                \* <<guion, tamanio>> that each console may be given
    CANTIDAD_FRAMES,
    ESTIMACION_INICIAL, NUM_ALFA, DEN_ALFA,
    UINT32,                    \* 2^32
    SEGMENTO                   \* cells that one recv surely returns

\* The fixed fields of the longest packet arrive together.
ASSUME CaminoAssumption ==
    /\ SEGMENTO \in Nat /\ SEGMENTO >= 8
    /\ CANTIDAD_FRAMES \in Nat \ {0}
    /\ UINT32 \in Nat \ {0} /\ ESTIMACION_INICIAL \in 0..UINT32-1
    /\ DEN_ALFA \in Nat \ {0} /\ NUM_ALFA \in 0..DEN_ALFA

\* A line has two unsigned parameters, and a console is given an unsigned size.
ASSUME ArgumentosAssumption ==
    \A c \in Consolas : \A argv \in Argumentos[c] :
        argv[1].lineas \in Seq(LINEA) /\ argv[2] \in Nat

\* An instruction, with the cells that may not have arrived, and a PCB.
INSTR == [identificador : Identificadores \union {BASURA}, parametro1 : Nat \union {BASURA},
          parametro2 : Nat \union {BASURA}]
PCB == [id : Nat, tamanioProceso : Nat, PC : Nat, tablaDePaginas : Int, estimacionRafaga : Int,
        lengthUltimaRafaga : Int, instrucciones : Seq(INSTR)]

\* NULL is not a PCB.
ASSUME NuloAssumption == NULO \notin PCB

VARIABLES
    consolas,                  \* [estado, guion, tamanio, respuesta]
    redConsola,                \* the packet on the connection of each console
    id_nuevo_proceso, consolas_conectadas,
    estado_new, creando,       \* PCBs without tables, and the one that waits for them
    estado_ready,
    estado_blocked,            \* t_IO
    colaKernel, redCrear,      \* requests of the Kernel to Memoria, and the answer
    swap,                      \* [id, tamanio] of each file
    estadoMemoria,
    redDispatch, redMemoria,   \* connections of the CPU with the Kernel and Memoria
    cpu,
    historia                   \* history, by id: console and instructions executed

varsConsola == <<consolas, redConsola>>
varsKernel == <<id_nuevo_proceso, consolas_conectadas, estado_new, creando, estado_ready,
                estado_blocked>>
varsMemoria == <<varsTablas, swap, estadoMemoria>>
varsCPU == <<cpu, historia>>
vars == <<varsConsola, varsKernel, colaKernel, redCrear, varsMemoria, redDispatch, redMemoria,
          varsCPU>>

Init ==
    /\ consolas = [c \in Consolas |->
                      [estado |-> "inicio", guion |-> NULO, tamanio |-> 0, respuesta |-> NULO]]
    /\ redConsola = [c \in Consolas |-> NULO]
    /\ id_nuevo_proceso = 0 /\ consolas_conectadas = {}
    /\ estado_new = <<>> /\ creando = NULO /\ estado_ready = {} /\ estado_blocked = {}
    /\ colaKernel = <<>> /\ redCrear = NULO
    /\ InitTablas /\ swap = {} /\ estadoMemoria = "anda"
    /\ redDispatch = NULO /\ redMemoria = NULO
    /\ cpu = [fase |-> "inicio", traduccion |-> NULO, pcb |-> NULO, PC_inicial |-> 0,
              accesos |-> <<>>, marco |-> 0, dato |-> 0]
    /\ historia = <<>>

-----------------------------------------------------------------------------
(* Sockets *)

\* recibirPaquete: one recv for the stream, of all its cells or of the first ones;
\* the rest is what malloc left.
recibirPaquete(p) ==
    {[p EXCEPT !.stream = [k \in 1..p.size |-> IF k <= n THEN @[k] ELSE BASURA]] :
        n \in (IF p.size < SEGMENTO THEN p.size ELSE SEGMENTO)..p.size}

LlegaCon(red, codigos) == red # NULO /\ red.codigo \in codigos

-----------------------------------------------------------------------------
(* Consola: main *)

ConsolaEnvia(c) ==
    /\ consolas[c].estado = "inicio"
    /\ \E argv \in Argumentos[c] :
          LET g == argv[1]
              t == argv[2]
              proceso == [tamanioProceso |-> t,
                          instrucciones |-> obtenerInstrucciones(leerInstrucciones(g))] IN
          /\ consolas' = [consolas EXCEPT ![c].guion = g, ![c].tamanio = t,
                             ![c].estado = IF ConsolaCae(g) THEN "caida" ELSE "espera"]
          /\ redConsola' = [redConsola EXCEPT ![c] =
                               IF ConsolaCae(g) THEN NULO ELSE armarPaqueteCon(proceso, "PROCESO")]
    /\ UNCHANGED <<varsKernel, colaKernel, redCrear, varsMemoria, redDispatch, redMemoria, varsCPU>>

ConsolaRecibe(c) ==
    /\ LlegaCon(redConsola[c], {"RES_FIN_PROCESO"})
    /\ consolas' = [consolas EXCEPT ![c].estado = "respondida",
                       ![c].respuesta = deserializarUINT32(redConsola[c].stream)]
    /\ redConsola' = [redConsola EXCEPT ![c] = NULO]
    /\ UNCHANGED <<varsKernel, colaKernel, redCrear, varsMemoria, redDispatch, redMemoria, varsCPU>>

-----------------------------------------------------------------------------
(* Kernel *)

iniciarPcb(proceso) ==
    [id |-> id_nuevo_proceso, tamanioProceso |-> proceso.tamanioProceso, PC |-> 0,
     tablaDePaginas |-> 0, estimacionRafaga |-> ESTIMACION_INICIAL, lengthUltimaRafaga |-> 0,
     instrucciones |-> proceso.instrucciones]

\* manejarProceso and ingresarANew.
ManejarProceso(c) ==
    /\ LlegaCon(redConsola[c], {"PROCESO"})
    /\ \E r \in recibirPaquete(redConsola[c]) :
          estado_new' = Append(estado_new, iniciarPcb(deserializarProceso(r.stream)))
    /\ redConsola' = [redConsola EXCEPT ![c] = NULO]
    /\ id_nuevo_proceso' = id_nuevo_proceso + 1
    /\ consolas_conectadas' = consolas_conectadas \union {[id |-> id_nuevo_proceso, socket |-> c]}
    /\ historia' = Append(historia, [consola |-> c, ejecutadas |-> <<>>])
    /\ UNCHANGED <<consolas, creando, estado_ready, estado_blocked, colaKernel, redCrear,
                   varsMemoria, redDispatch, redMemoria, cpu>>

\* Aready and comunicacionMemoriaCreacionEstructuras.
PideCrear ==
    /\ creando = NULO /\ estado_new # <<>>
    /\ creando' = Head(estado_new) /\ estado_new' = Tail(estado_new)
    /\ colaKernel' = Append(colaKernel, armarPaqueteCon(Head(estado_new), "REQ_CREAR_PROCESO"))
    /\ UNCHANGED <<varsConsola, id_nuevo_proceso, consolas_conectadas, estado_ready,
                   estado_blocked, redCrear, varsMemoria, redDispatch, redMemoria, varsCPU>>

RecibeTabla ==
    /\ redCrear # NULO
    /\ estado_ready' = estado_ready \union
          {[creando EXCEPT !.tablaDePaginas = deserializarUINT32(redCrear.stream)]}
    /\ creando' = NULO /\ redCrear' = NULO
    /\ UNCHANGED <<varsConsola, id_nuevo_proceso, consolas_conectadas, estado_new,
                   estado_blocked, colaKernel, varsMemoria, redDispatch, redMemoria, varsCPU>>

\* ejecutarPCB: one at a time, the connection of the last one was closed.
Despacha ==
    /\ redDispatch = NULO /\ cpu.fase = "ocioso"
    /\ \E p \in estado_ready :
          /\ redDispatch' = armarPaqueteCon(p, "REQ_PCB_A_EJECUTAR")
          /\ estado_ready' = estado_ready \ {p}
    /\ UNCHANGED <<varsConsola, id_nuevo_proceso, consolas_conectadas, estado_new, creando,
                   estado_blocked, colaKernel, redCrear, varsMemoria, redMemoria, varsCPU>>

TrasIO(p) == [p EXCEPT !.estimacionRafaga =
    (NUM_ALFA * p.lengthUltimaRafaga + (DEN_ALFA - NUM_ALFA) * @) \div DEN_ALFA]
TrasInterrupcion(p) == [p EXCEPT !.estimacionRafaga = (@ - p.lengthUltimaRafaga) % UINT32]

VuelveIO ==
    /\ LlegaCon(redDispatch, {"PCB_EJECUTADO_IO"})
    /\ \E r \in recibirPaquete(redDispatch) :
          LET io == deserializarIO(r.stream) IN
          estado_blocked' = estado_blocked \union {[io EXCEPT !.pcb = TrasIO(@)]}
    /\ redDispatch' = NULO
    /\ UNCHANGED <<varsConsola, id_nuevo_proceso, consolas_conectadas, estado_new, creando,
                   estado_ready, colaKernel, redCrear, varsMemoria, redMemoria, varsCPU>>

VuelveInterrumpido ==
    /\ LlegaCon(redDispatch, {"PCB_EJECUTADO_INTERRUPCION"})
    /\ \E r \in recibirPaquete(redDispatch) :
          estado_ready' = estado_ready \union {TrasInterrupcion(deserializarPCB(r.stream, 0))}
    /\ redDispatch' = NULO
    /\ UNCHANGED <<varsConsola, id_nuevo_proceso, consolas_conectadas, estado_new, creando,
                   estado_blocked, colaKernel, redCrear, varsMemoria, redMemoria, varsCPU>>

\* execAexit: Memoria is told, and the console of that id gets its id.
VuelveExit ==
    /\ LlegaCon(redDispatch, {"PCB_EJECUTADO_EXIT"})
    /\ \E r \in recibirPaquete(redDispatch) :
          LET p == deserializarPCB(r.stream, 0) IN
          \E conectada \in {k \in consolas_conectadas : k.id = p.id} :
             /\ colaKernel' = Append(colaKernel, armarPaqueteCon(p, "REQ_FIN_PROCESO"))
             /\ redConsola' = [redConsola EXCEPT ![conectada.socket] =
                                  armarPaqueteCon(p.id, "RES_FIN_PROCESO")]
             /\ consolas_conectadas' = consolas_conectadas \ {conectada}
    /\ redDispatch' = NULO
    /\ UNCHANGED <<consolas, id_nuevo_proceso, estado_new, creando, estado_ready,
                   estado_blocked, redCrear, varsMemoria, redMemoria, varsCPU>>

\* hilo_block, with the I/O slept.
TerminaIO ==
    /\ \E io \in estado_blocked :
          /\ estado_blocked' = estado_blocked \ {io}
          /\ estado_ready' = estado_ready \union {io.pcb}
    /\ UNCHANGED <<varsConsola, id_nuevo_proceso, consolas_conectadas, estado_new, creando,
                   colaKernel, redCrear, varsMemoria, redDispatch, redMemoria, varsCPU>>

-----------------------------------------------------------------------------
(* Memoria *)

\* hiloKernel.  The end of a process leaves its tables in the lists.
CrearProceso ==
    /\ estadoMemoria = "anda" /\ colaKernel # <<>>
    /\ Head(colaKernel).codigo = "REQ_CREAR_PROCESO"
    /\ \E r \in recibirPaquete(Head(colaKernel)) :
          LET p == deserializarPCB(r.stream, 0) IN
          /\ crearTablas(p.id, p.tamanioProceso)
          /\ swap' = swap \union
                {[id |-> p.id, tamanio |-> marcosProceso(p.tamanioProceso) * TAM_PAGINA]}
    /\ redCrear' = armarPaqueteCon(Len(tablasPrimerNivel), "RES_CREAR_PROCESO")
    /\ colaKernel' = Tail(colaKernel)
    /\ UNCHANGED <<varsConsola, varsKernel, estadoMemoria, redDispatch, redMemoria, varsCPU>>

FinProceso ==
    /\ estadoMemoria = "anda" /\ colaKernel # <<>>
    /\ Head(colaKernel).codigo = "REQ_FIN_PROCESO"
    /\ \E r \in recibirPaquete(Head(colaKernel)) :
          swap' = {f \in swap : f.id # deserializarPCB(r.stream, 0).id}
    /\ colaKernel' = Tail(colaKernel)
    /\ UNCHANGED <<varsConsola, varsKernel, redCrear, varsTablas, estadoMemoria, redDispatch,
                   redMemoria, varsCPU>>

\* hiloCPU: the request that came gets its answer.
Atiende(codigos) == estadoMemoria = "anda" /\ LlegaCon(redMemoria, codigos)
ContestaCPU(e, cod) ==
    /\ redMemoria' = armarPaqueteCon(e, cod)
    /\ UNCHANGED <<varsConsola, varsKernel, colaKernel, redCrear, varsMemoria, redDispatch, varsCPU>>

\* list_get gives NULL for an index past the list, and it is read.
CaeMemoria ==
    /\ estadoMemoria' = "caida"
    /\ UNCHANGED <<varsConsola, varsKernel, colaKernel, redCrear, varsTablas, swap, redDispatch,
                   redMemoria, varsCPU>>

DaTraduccion ==
    /\ Atiende({"REQ_TRADUCCION_DIRECCIONES"})
    /\ ContestaCPU([tamanio_pagina |-> TAM_PAGINA, paginas_por_tabla |-> ENTRADAS_POR_TABLA],
                   "RES_TRADUCCION_DIRECCIONES")

EntradaDe(tablas, consulta) == Toma(Toma(tablas, consulta.tablaDePaginas), consulta.entradaPagina)
HayEntrada(tablas, consulta) ==
    Hay(tablas, consulta.tablaDePaginas)
    /\ Hay(Toma(tablas, consulta.tablaDePaginas), consulta.entradaPagina)

ConsultaEnTabla ==
    /\ Atiende({"REQ_TABLA_SEGUNDO_NIVEL"})
    /\ LET consulta == deserializarConsulta(redMemoria.stream) IN
          \/ /\ HayEntrada(tablasPrimerNivel, consulta)
             /\ ContestaCPU(EntradaDe(tablasPrimerNivel, consulta).tablaSegundoNivel,
                            "RES_TABLA_SEGUNDO_NIVEL")
          \/ ~HayEntrada(tablasPrimerNivel, consulta) /\ CaeMemoria

DaMarco ==
    /\ Atiende({"REQ_MARCO_LECTURA", "REQ_MARCO_ESCRITURA"})
    /\ LET consulta == deserializarConsulta(redMemoria.stream) IN
          \/ /\ HayEntrada(tablasSegundoNivel, consulta)
             /\ \E marco \in 0..CANTIDAD_FRAMES-1 : ContestaCPU(marco, "RES_MARCO")
          \/ ~HayEntrada(tablasSegundoNivel, consulta) /\ CaeMemoria

\* What is read is told apart by the address that it was read from.
Lee == /\ Atiende({"REQ_READ"})
       /\ ContestaCPU(deserializarUINT32(redMemoria.stream), "RES_READ")
Escribe == Atiende({"REQ_WRITE"}) /\ ContestaCPU(1, "RES_WRITE")

-----------------------------------------------------------------------------
(* CPU *)

\* obtenerTraduccionDeDirecciones, before the CPU listens: a message of 5 characters.
PideTraduccion ==
    /\ cpu.fase = "inicio"
    /\ redMemoria' = armarPaqueteCon(<<"h", "o", "l", "a", "0">>, "REQ_TRADUCCION_DIRECCIONES")
    /\ cpu' = [cpu EXCEPT !.fase = "traduccion"]
    /\ UNCHANGED <<varsConsola, varsKernel, colaKernel, redCrear, varsMemoria, redDispatch, historia>>

RecibeTraduccion ==
    /\ cpu.fase = "traduccion" /\ LlegaCon(redMemoria, {"RES_TRADUCCION_DIRECCIONES"})
    /\ cpu' = [cpu EXCEPT !.fase = "ocioso",
                          !.traduccion = deserializarTraduccion(redMemoria.stream)]
    /\ redMemoria' = NULO
    /\ UNCHANGED <<varsConsola, varsKernel, colaKernel, redCrear, varsMemoria, redDispatch, historia>>

RecibePcb ==
    /\ cpu.fase = "ocioso" /\ LlegaCon(redDispatch, {"REQ_PCB_A_EJECUTAR"})
    /\ \E r \in recibirPaquete(redDispatch) :
          LET p == deserializarPCB(r.stream, 0) IN
          cpu' = [cpu EXCEPT !.fase = "fetch", !.pcb = p, !.PC_inicial = p.PC]
    /\ UNCHANGED <<varsConsola, varsKernel, colaKernel, redCrear, varsMemoria, redDispatch,
                   redMemoria, historia>>

fetch(pcb) == pcb.instrucciones[pcb.PC + 1]

\* The addresses that execute translates, in order.
Lectura(direccion) == [direccion |-> direccion, codigo |-> "REQ_MARCO_LECTURA"]
Escritura(direccion) == [direccion |-> direccion, codigo |-> "REQ_MARCO_ESCRITURA"]
AccesosDe(i) ==
    CASE i.identificador = "READ" -> <<Lectura(i.parametro1)>>
      [] i.identificador = "COPY" -> <<Lectura(i.parametro2), Escritura(i.parametro1)>>
      [] i.identificador = "WRITE" -> <<Escritura(i.parametro1)>>
      [] OTHER -> <<>>

\* Past the last instruction, or with a cell that did not arrive, what executes is
\* whatever the heap holds: the run ends there.
Ejecutable(pcb) ==
    pcb.PC < Len(pcb.instrucciones) /\ \A campo \in DOMAIN fetch(pcb) : fetch(pcb)[campo] # BASURA

Fetch ==
    /\ cpu.fase = "fetch"
    /\ \/ /\ Ejecutable(cpu.pcb)
          /\ cpu' = [cpu EXCEPT !.fase = "execute", !.accesos = AccesosDe(fetch(cpu.pcb))]
          /\ historia' = [historia EXCEPT ![cpu.pcb.id + 1].ejecutadas = Append(@, fetch(cpu.pcb))]
       \/ /\ ~Ejecutable(cpu.pcb)
          /\ cpu' = [cpu EXCEPT !.fase = "caida"]
          /\ UNCHANGED historia
    /\ UNCHANGED <<varsConsola, varsKernel, colaKernel, redCrear, varsMemoria, redDispatch, redMemoria>>

Pagina == obtenerNumeroPagina(cpu.traduccion, Head(cpu.accesos).direccion)

PideAMemoria(e, cod) ==
    /\ redMemoria' = armarPaqueteCon(e, cod)
    /\ UNCHANGED <<varsConsola, varsKernel, colaKernel, redCrear, varsMemoria, redDispatch, historia>>

\* consultarTablaSegundoNivel
ConsultaTabla ==
    /\ cpu.fase = "execute" /\ cpu.accesos # <<>>
    /\ PideAMemoria([tablaDePaginas |-> cpu.pcb.tablaDePaginas, id |-> cpu.pcb.id,
                     entradaPagina |-> obtenerEntradaTabla1erNivel(cpu.traduccion, Pagina)],
                    "REQ_TABLA_SEGUNDO_NIVEL")
    /\ cpu' = [cpu EXCEPT !.fase = "tabla"]

\* consultarMarco, of the table that was answered.
ConsultaMarco ==
    /\ cpu.fase = "tabla" /\ LlegaCon(redMemoria, {"RES_TABLA_SEGUNDO_NIVEL"})
    /\ PideAMemoria([tablaDePaginas |-> deserializarUINT32(redMemoria.stream), id |-> cpu.pcb.id,
                     entradaPagina |-> obtenerEntradaTabla2doNivel(cpu.traduccion, Pagina)],
                    Head(cpu.accesos).codigo)
    /\ cpu' = [cpu EXCEPT !.fase = "marco"]

DireccionFisica(marco) ==
    obtenerDireccionFisica(cpu.traduccion,
        obtenerDesplazamiento(cpu.traduccion, Head(cpu.accesos).direccion, Pagina), marco)

\* memoria_read, or memoria_write of the parameter of WRITE or of what COPY read.
AccedeAMemoria ==
    /\ cpu.fase = "marco" /\ LlegaCon(redMemoria, {"RES_MARCO"})
    /\ LET marco == deserializarUINT32(redMemoria.stream)
           i == fetch(cpu.pcb) IN
          /\ cpu' = [cpu EXCEPT !.fase = "dato", !.marco = marco]
          /\ \/ /\ Head(cpu.accesos).codigo = "REQ_MARCO_LECTURA"
                /\ PideAMemoria(DireccionFisica(marco), "REQ_READ")
             \/ /\ Head(cpu.accesos).codigo = "REQ_MARCO_ESCRITURA"
                /\ PideAMemoria([direccionFisica |-> DireccionFisica(marco), id |-> cpu.pcb.id,
                                 dato |-> IF i.identificador = "COPY" THEN cpu.dato
                                          ELSE i.parametro2], "REQ_WRITE")

RecibeDato ==
    /\ cpu.fase = "dato" /\ LlegaCon(redMemoria, {"RES_READ", "RES_WRITE"})
    /\ cpu' = [cpu EXCEPT !.fase = "execute", !.accesos = Tail(@),
                  !.dato = IF redMemoria.codigo = "RES_READ"
                             THEN deserializarUINT32(redMemoria.stream) ELSE 0]
    /\ redMemoria' = NULO
    /\ UNCHANGED <<varsConsola, varsKernel, colaKernel, redCrear, varsMemoria, redDispatch, historia>>

Contesta(e, cod) ==
    /\ redDispatch' = armarPaqueteCon(e, cod)
    /\ cpu' = [cpu EXCEPT !.fase = "ocioso", !.pcb = NULO, !.PC_inicial = 0, !.marco = 0, !.dato = 0]

\* Mutant of Avanza: PC++ is missing.
SinAvanzar(pcb) == [pcb EXCEPT !.lengthUltimaRafaga = pcb.PC + 1 - cpu.PC_inicial]
Avanza(pcb) ==
    [pcb EXCEPT !.PC = @ + 1, !.lengthUltimaRafaga = pcb.PC + 1 - cpu.PC_inicial]

\* The flag is looked at after each instruction, IO and EXIT included.
TerminaInstruccion ==
    /\ cpu.fase = "execute" /\ cpu.accesos = <<>>
    /\ LET i == fetch(cpu.pcb) IN
          \/ Contesta(Avanza(cpu.pcb), "PCB_EJECUTADO_INTERRUPCION")
          \/ /\ i.identificador = "IO"
             /\ Contesta([tiempoBloqueo |-> i.parametro1, pcb |-> Avanza(cpu.pcb)],
                         "PCB_EJECUTADO_IO")
          \/ i.identificador = "EXIT" /\ Contesta(Avanza(cpu.pcb), "PCB_EJECUTADO_EXIT")
          \/ /\ i.identificador \notin {"IO", "EXIT"}
             /\ cpu' = [cpu EXCEPT !.pcb.PC = @ + 1, !.fase = "fetch", !.marco = 0, !.dato = 0]
             /\ UNCHANGED redDispatch
    /\ UNCHANGED <<varsConsola, varsKernel, colaKernel, redCrear, varsMemoria, redMemoria, historia>>

-----------------------------------------------------------------------------
(* The whole *)

Consola == \E c \in Consolas : ConsolaEnvia(c) \/ ConsolaRecibe(c)
Kernel == \/ \E c \in Consolas : ManejarProceso(c)
          \/ PideCrear \/ RecibeTabla \/ Despacha
          \/ VuelveIO \/ VuelveInterrumpido \/ VuelveExit \/ TerminaIO
Memoria == CrearProceso \/ FinProceso \/ DaTraduccion \/ ConsultaEnTabla \/ DaMarco \/ Lee \/ Escribe
CPU == \/ PideTraduccion \/ RecibeTraduccion \/ RecibePcb \/ Fetch \/ ConsultaTabla
       \/ ConsultaMarco \/ AccedeAMemoria \/ RecibeDato \/ TerminaInstruccion

\* The system stops when a module fell or every console ended.
Detenido ==
    /\ \/ estadoMemoria = "caida" \/ cpu.fase = "caida"
       \/ \A c \in Consolas : consolas[c].estado \in {"caida", "respondida"}
    /\ UNCHANGED vars

Next == Consola \/ Kernel \/ Memoria \/ CPU \/ Detenido
Spec == Init /\ [][Next]_vars

-----------------------------------------------------------------------------
(* Properties *)

EnElKernel == {estado_new[k] : k \in DOMAIN estado_new} \union ({creando} \ {NULO})
              \union estado_ready \union {io.pcb : io \in estado_blocked}
Pcbs == EnElKernel \union ({cpu.pcb} \ {NULO})

GuionDe(id) == consolas[historia[id + 1].consola].guion
Programa(id) == obtenerInstrucciones(GuionDe(id).lineas)

\* A process whose script is read whole and whose packets fit in what one recv
\* returns.
Entero(id) == Ultima(GuionDe(id)).identificador = "EXIT" /\ 8 + 3 * Len(Programa(id)) <= SEGMENTO

\* Every PCB that the Kernel or the CPU holds has all the instructions of its
\* script, those that NO_OP expands to included, and the size that its console
\* was given, however many times it was serialized (inicializacion.c:9-57,
\* estructuras.c:103-244, socket.c:66).  A script whose last line is not EXIT
\* loses it, and a process longer than a segment may lose instructions.
ProgramaIntacto ==
    \A p \in Pcbs : Entero(p.id) =>
        /\ p.instrucciones = Programa(p.id)
        /\ p.tamanioProceso = consolas[historia[p.id + 1].consola].tamanio

\* Each instruction of the script is executed once and in order, across bursts,
\* interrupts and I/O, and the console that is answered is the one whose script
\* was executed up to an EXIT, with the id of its process: the last line, unless
\* the script has another EXIT.  It may not be the first one, as an EXIT that is
\* interrupted is run past (ciclo_instruccion.c:9-73, planificador.c:166-187, 332-388).
EjecutaElGuion ==
    \A id \in 0..Len(historia) - 1 :
        LET ejecutadas == historia[id + 1].ejecutadas
            consola == consolas[historia[id + 1].consola] IN
        Entero(id) =>
            /\ ejecutadas = SubSeq(Programa(id), 1, Len(ejecutadas))
            /\ consola.estado = "respondida" =>
                  /\ ejecutadas # <<>> /\ ejecutadas[Len(ejecutadas)].identificador = "EXIT"
                  /\ consola.respuesta = id

\* A process that waits for an I/O waits for the time of the IO that it executed
\* last: the time and the PCB travel in one packet (estructuras.c:228-244, 420).
IODelGuion ==
    \A io \in estado_blocked : Entero(io.pcb.id) =>
        LET i == Programa(io.pcb.id)[io.pcb.PC] IN
        i.identificador = "IO" /\ io.tiempoBloqueo = i.parametro1

\* Every packet on the way was written exactly as long as it was allocated: the
\* table of sizes agrees with the serializers for each structure and number of
\* instructions (estructuras.c:319-488).
PaquetesExactos ==
    \A p \in ({redConsola[c] : c \in Consolas} \union {redCrear, redDispatch, redMemoria}
              \union {colaKernel[k] : k \in DOMAIN colaKernel}) \ {NULO} :
        p.escrito = p.size

Consultado == deserializarConsulta(redMemoria.stream)
Direccion == Head(cpu.accesos).direccion

\* The walk of the two levels ends in the entry of the page of the address, of
\* the process that executes, and in a page of its own swap file, while other
\* processes arrive and end and the lists of tables grow (mmu.c:107-182,
\* memoria.c:96-199, swap.c:13-62).
PaginaPropia ==
    LlegaCon(redMemoria, {"REQ_MARCO_LECTURA", "REQ_MARCO_ESCRITURA"})
      /\ HayEntrada(tablasSegundoNivel, Consultado) =>
        LET entrada == EntradaDe(tablasSegundoNivel, Consultado) IN
        /\ entrada = [id |-> cpu.pcb.id, paginaSwap |-> Direccion \div TAM_PAGINA]
        /\ \E f \in swap : f.id = entrada.id /\ (entrada.paginaSwap + 1) * TAM_PAGINA <= f.tamanio

\* Memoria reads past a table only for an address past the size of its process
\* (memoria.c:187, 199): the last page, of a table that is not full, is there.
SoloCaeFuera ==
    estadoMemoria = "caida" => Direccion >= consolas[historia[cpu.pcb.id + 1].consola].tamanio

\* The four bytes of an access to an aligned address are those of its offset in
\* the frame of its page, and of no other frame (mmu.c:184-190, memoria.c:71-89).
\* Those of an address that is not aligned may end in the next frame.
AccesoEnElMarco ==
    LlegaCon(redMemoria, {"REQ_READ", "REQ_WRITE"}) /\ TAM_PAGINA % 4 = 0 /\ Direccion % 4 = 0 =>
        LET fisica == redMemoria.stream[1] IN
        /\ fisica % TAM_PAGINA = Direccion % TAM_PAGINA
        /\ fisica \div TAM_PAGINA = cpu.marco /\ (fisica + 3) \div TAM_PAGINA = cpu.marco

=============================================================================
