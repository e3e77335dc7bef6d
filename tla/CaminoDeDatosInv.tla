------------------------- MODULE CaminoDeDatosInv -------------------------
(***************************************************************************)
(* The inductive invariant of CaminoDeDatos, in three layers: what each    *)
(* part holds and each packet carries (InvTipos), which process is where   *)
(* and which tables are its own (InvProcesos), and how far the script of   *)
(* each process was executed (InvGuiones).  Each layer is preserved by     *)
(* every step that starts where the layers before it hold.                 *)
(***************************************************************************)
EXTENDS CaminoDeDatos

-----------------------------------------------------------------------------
(* 1. What each part holds, and each packet carries *)

\* What is sent, kept and asked: an IO (estructuras.h), a process, an access of an
\* instruction, the sizes that Memoria tells the CPU.
TIO == [tiempoBloqueo : Nat, pcb : PCB]
PROC == [tamanioProceso : Nat, instrucciones : Seq(INSTR)]
ACCESO == [direccion : Nat, codigo : {"REQ_MARCO_LECTURA", "REQ_MARCO_ESCRITURA"}]
TAMANIOS == [tamanio_pagina |-> TAM_PAGINA, paginas_por_tabla |-> ENTRADAS_POR_TABLA]
FASES == {"inicio", "traduccion", "ocioso", "fetch", "execute", "tabla", "marco", "dato", "caida"}

\* What a packet carries.
PcbDe(paquete) == deserializarPCB(paquete.stream, 0)
IoDe(paquete) == deserializarIO(paquete.stream)
ProcesoDe(paquete) == deserializarProceso(paquete.stream)
NumeroDe(paquete) == deserializarUINT32(paquete.stream)

\* A packet is the one that is built from what it carries.
LlevaPCB(paquete, codigos) ==
    /\ paquete.codigo \in codigos /\ PcbDe(paquete) \in PCB
    /\ paquete = armarPaqueteCon(PcbDe(paquete), paquete.codigo)
LlevaIO(paquete) ==
    /\ paquete.codigo = "PCB_EJECUTADO_IO" /\ IoDe(paquete) \in TIO
    /\ paquete = armarPaqueteCon(IoDe(paquete), "PCB_EJECUTADO_IO")
LlevaProceso(paquete) ==
    /\ paquete.codigo = "PROCESO" /\ ProcesoDe(paquete) \in PROC
    /\ paquete = armarPaqueteCon(ProcesoDe(paquete), "PROCESO")
LlevaNumero(paquete, codigos) ==
    /\ paquete.codigo \in codigos /\ NumeroDe(paquete) \in Int
    /\ paquete = armarPaqueteCon(NumeroDe(paquete), paquete.codigo)

\* The instructions b are what a recv may leave of the instructions a: as many, and
\* the same ones when the packet fits in a segment.
Recorte(a, b) == Len(b) = Len(a) /\ (8 + 3 * Len(a) <= SEGMENTO => b = a)

\* The consoles, and what is on their connections.
GUIONES == {NULO} \union UNION {{argv[1] : argv \in Argumentos[c]} : c \in Consolas}
CONSOLA == [estado : {"inicio", "espera", "caida", "respondida"}, guion : GUIONES,
            tamanio : Nat, respuesta : Int \union {NULO}]
TiposConsola ==
    /\ consolas \in [Consolas -> CONSOLA]
    /\ DOMAIN redConsola = Consolas
    /\ \A c \in Consolas :
          \/ redConsola[c] = NULO
          \/ LlevaProceso(redConsola[c])
          \/ LlevaNumero(redConsola[c], {"RES_FIN_PROCESO"})

\* The queues of the Kernel, and one history for each id it gave.
HISTORIA == [consola : Consolas, ejecutadas : Seq(INSTR)]
TiposKernel ==
    /\ id_nuevo_proceso \in Nat
    /\ consolas_conectadas \subseteq [id : Nat, socket : Consolas]
    /\ estado_new \in Seq(PCB)
    /\ creando \in PCB \union {NULO}
    /\ estado_ready \subseteq PCB
    /\ estado_blocked \subseteq TIO
    /\ historia \in Seq(HISTORIA)
    /\ Len(historia) = id_nuevo_proceso

\* The requests of the Kernel to Memoria: at most one asks for tables, with the PCB
\* that the Kernel is creating, and its answer is not there yet.
EsSecuencia(s) == s \in Seq({s[k] : k \in DOMAIN s})
Cola ==
    /\ EsSecuencia(colaKernel)
    /\ \A k \in 1..Len(colaKernel) :
          LlevaPCB(colaKernel[k], {"REQ_CREAR_PROCESO", "REQ_FIN_PROCESO"})
    /\ \A k \in 1..Len(colaKernel) :
          colaKernel[k].codigo = "REQ_CREAR_PROCESO" =>
             /\ creando # NULO /\ redCrear = NULO /\ PcbDe(colaKernel[k]) = creando
             /\ \A j \in 1..Len(colaKernel) : colaKernel[j].codigo = "REQ_CREAR_PROCESO" => j = k
    /\ redCrear # NULO => creando # NULO /\ LlevaNumero(redCrear, {"RES_CREAR_PROCESO"})

\* The tables and the swap files of Memoria.
TiposMemoria ==
    /\ tablasPrimerNivel \in Seq(Seq([id : Nat, tablaSegundoNivel : Nat]))
    /\ tablasSegundoNivel \in Seq(Seq([id : Nat, paginaSwap : Nat]))
    /\ swap \subseteq [id : Nat, tamanio : Nat]

\* The registers of the CPU: it executes only what is executable, and asks Memoria
\* only while it has accesses to make.
Ejecuta == {"execute", "tabla", "marco", "dato"}
ConPcb == {"fetch", "caida"} \union Ejecuta
REGISTROS == [fase : FASES, traduccion : {NULO, TAMANIOS}, pcb : PCB \union {NULO},
              PC_inicial : Nat, accesos : Seq(ACCESO), marco : Int, dato : Int]
TiposCPU ==
    /\ cpu \in REGISTROS
    /\ cpu.fase \notin {"inicio", "traduccion"} => cpu.traduccion = TAMANIOS
    /\ cpu.fase \in Ejecuta => Ejecutable(cpu.pcb)
    /\ cpu.fase \in {"tabla", "marco", "dato"} => cpu.accesos # <<>>

\* What is on the connection of dispatch: while the CPU has a PCB, the request that
\* brought it, which is the one the Kernel waits an answer for.
Dispatch ==
    /\ \/ redDispatch = NULO
       \/ LlevaPCB(redDispatch, {"REQ_PCB_A_EJECUTAR", "PCB_EJECUTADO_EXIT",
                                 "PCB_EJECUTADO_INTERRUPCION"})
       \/ LlevaIO(redDispatch)
    /\ IF cpu.fase \in ConPcb
         THEN cpu.pcb \in PCB /\ redDispatch.codigo = "REQ_PCB_A_EJECUTAR"
         ELSE cpu.pcb = NULO
    /\ cpu.fase \in {"inicio", "traduccion"} => redDispatch = NULO

\* The address of the access under way, by the sizes of Memoria.
Entrada1 == (Direccion \div TAM_PAGINA) \div ENTRADAS_POR_TABLA
Entrada2 == (Direccion \div TAM_PAGINA) % ENTRADAS_POR_TABLA
Fisica == Direccion - (Direccion \div TAM_PAGINA) * TAM_PAGINA + cpu.marco * TAM_PAGINA

\* What is on the connection of the CPU with Memoria in each phase: the question of
\* that phase, about the access under way, or its answer.
EnTraduccion ==
    \/ redMemoria = armarPaqueteCon(<<"h", "o", "l", "a", "0">>, "REQ_TRADUCCION_DIRECCIONES")
    \/ redMemoria = armarPaqueteCon(TAMANIOS, "RES_TRADUCCION_DIRECCIONES")
EnTabla ==
    \/ redMemoria = armarPaqueteCon([tablaDePaginas |-> cpu.pcb.tablaDePaginas, id |-> cpu.pcb.id,
                                     entradaPagina |-> Entrada1], "REQ_TABLA_SEGUNDO_NIVEL")
    \/ LlevaNumero(redMemoria, {"RES_TABLA_SEGUNDO_NIVEL"})
EnMarco ==
    \/ redMemoria = armarPaqueteCon([tablaDePaginas |-> Consultado.tablaDePaginas,
                                     id |-> cpu.pcb.id,
                                     entradaPagina |-> Entrada2], Head(cpu.accesos).codigo)
    \/ LlevaNumero(redMemoria, {"RES_MARCO"})
EnDato ==
    \/ redMemoria = armarPaqueteCon(Fisica, "REQ_READ")
    \/ redMemoria = armarPaqueteCon([direccionFisica |-> Fisica, id |-> cpu.pcb.id,
                        dato |-> deserializarPeticion(redMemoria.stream).dato], "REQ_WRITE")
    \/ LlevaNumero(redMemoria, {"RES_READ", "RES_WRITE"})
Consultas ==
    /\ cpu.fase = "traduccion" => EnTraduccion
    /\ cpu.fase = "tabla" => EnTabla
    /\ cpu.fase = "marco" => EnMarco
    /\ cpu.fase = "dato" => EnDato
    /\ cpu.fase \notin {"traduccion", "tabla", "marco", "dato"} => redMemoria = NULO

InvTipos == /\ TiposConsola /\ TiposKernel /\ Cola /\ TiposMemoria
            /\ TiposCPU /\ Dispatch /\ Consultas

-----------------------------------------------------------------------------
(* 2. Which process is where, and which tables are its own *)

\* The size and the instructions that the console of a process was given.
TamanioDe(id) == consolas[historia[id + 1].consola].tamanio
Leido(id) == obtenerInstrucciones(leerInstrucciones(GuionDe(id)))

\* A PCB is of a process of some console, with its size and its instructions.
Bueno(p) ==
    /\ p.id < Len(historia) /\ p.tamanioProceso = TamanioDe(p.id)
    /\ Recorte(Leido(p.id), p.instrucciones)

\* The PCB that is in the CPU, or on its way there or back.
EnCPU == IF cpu.fase \in ConPcb THEN {cpu.pcb}
         ELSE IF redDispatch = NULO THEN {}
         ELSE IF redDispatch.codigo = "PCB_EJECUTADO_IO" THEN {IoDe(redDispatch).pcb}
         ELSE {PcbDe(redDispatch)}

\* A console has no process until the Kernel takes the one it sent, and one from then on.
UnProcesoPorConsola ==
    /\ \A c \in Consolas :
        /\ LlegaCon(redConsola[c], {"PROCESO"}) =>
             /\ ProcesoDe(redConsola[c]) = [tamanioProceso |-> consolas[c].tamanio,
                   instrucciones |-> obtenerInstrucciones(leerInstrucciones(consolas[c].guion))]
        /\ consolas[c].estado = "inicio" => redConsola[c] = NULO
        /\ consolas[c].estado = "inicio" \/ LlegaCon(redConsola[c], {"PROCESO"}) =>
             \A k \in 1..Len(historia) : historia[k].consola # c
    /\ \A j, k \in 1..Len(historia) : historia[j].consola = historia[k].consola => j = k

Buenos == \A p \in EnElKernel \union EnCPU : Bueno(p)

\* The processes get their tables in the order of their ids, which number the first
\* level tables too: Proximo is the id of the next one.
Proximo == id_nuevo_proceso - Len(estado_new) - (IF creando = NULO THEN 0 ELSE 1)
Despachados == estado_ready \union {io.pcb : io \in estado_blocked} \union EnCPU
Numeracion ==
    /\ Proximo >= 0
    /\ \A k \in 1..Len(estado_new) :
          estado_new[k].id = id_nuevo_proceso - Len(estado_new) + k - 1
    /\ creando # NULO => creando.id = Proximo
    /\ \A p \in Despachados : p.id < Proximo /\ p.tablaDePaginas = p.id
    /\ creando = NULO => Len(tablasPrimerNivel) = Proximo
    /\ (\E k \in 1..Len(colaKernel) : colaKernel[k].codigo = "REQ_CREAR_PROCESO")
          => Len(tablasPrimerNivel) = Proximo
    /\ redCrear # NULO =>
          Len(tablasPrimerNivel) = Proximo + 1 /\ NumeroDe(redCrear) = Proximo
    /\ Len(tablasPrimerNivel) \in {Proximo, Proximo + 1}

\* The tables of a process are the ones of a process of its size, all its own.
TablaDe(id) ==
    LET marcos == marcosProceso(TamanioDe(id))
        tabla == tablasPrimerNivel[id + 1] IN
    /\ DOMAIN tabla = 1..Tablas(marcos)
    /\ \A t \in 1..Tablas(marcos) :
          /\ Hay(tablasSegundoNivel, tabla[t].tablaSegundoNivel)
          /\ Toma(tablasSegundoNivel, tabla[t].tablaSegundoNivel) =
                [j \in 1..Entradas(marcos, t) |-> [id |-> id, paginaSwap |-> ID_EN_SWAP(t, j)]]
TablasHechas == \A id \in 0..Len(tablasPrimerNivel)-1 : TablaDe(id)

\* A process that was dispatched is in one of ready, blocked and the CPU, and once.
UnSitio ==
    /\ \A p, q \in estado_ready : p.id = q.id => p = q
    /\ \A a, b \in estado_blocked : a.pcb.id = b.pcb.id => a = b
    /\ \A p \in estado_ready, a \in estado_blocked : p.id # a.pcb.id
    /\ \A p \in EnCPU : /\ \A q \in estado_ready : p.id # q.id
                        /\ \A a \in estado_blocked : p.id # a.pcb.id

\* A process that did not end has the connection of its console and, once it has
\* tables, its swap file; one that Memoria is asked to forget has no connection.
Conectadas ==
    /\ \A k \in consolas_conectadas :
          k.id < Len(historia) /\ k.socket = historia[k.id + 1].consola
    /\ \A p \in EnElKernel \union EnCPU : \E k \in consolas_conectadas : k.id = p.id
    /\ \A j \in 1..Len(colaKernel) : colaKernel[j].codigo = "REQ_FIN_PROCESO" =>
          /\ PcbDe(colaKernel[j]).id < Len(tablasPrimerNivel)
          /\ \A k \in consolas_conectadas : k.id # PcbDe(colaKernel[j]).id
    /\ \A k \in consolas_conectadas : k.id < Len(tablasPrimerNivel) =>
          [id |-> k.id, tamanio |-> marcosProceso(TamanioDe(k.id)) * TAM_PAGINA] \in swap

\* The walk of the page tables goes through the tables of the process that executes,
\* and Memoria falls in it only with an address outside that process.
EntradaPropia(v) ==
    LET tabla == tablasPrimerNivel[cpu.pcb.id + 1] IN
    Entrada1 + 1 \in DOMAIN tabla /\ v = tabla[Entrada1 + 1].tablaSegundoNivel
Recorrido ==
    /\ cpu.fase = "tabla" /\ LlegaCon(redMemoria, {"RES_TABLA_SEGUNDO_NIVEL"}) =>
         EntradaPropia(NumeroDe(redMemoria))
    /\ cpu.fase = "marco" /\ LlegaCon(redMemoria, {"REQ_MARCO_LECTURA", "REQ_MARCO_ESCRITURA"}) =>
         EntradaPropia(Consultado.tablaDePaginas)
    /\ estadoMemoria = "caida" =>
         /\ \/ cpu.fase = "tabla" /\ LlegaCon(redMemoria, {"REQ_TABLA_SEGUNDO_NIVEL"})
            \/ /\ cpu.fase = "marco"
               /\ LlegaCon(redMemoria, {"REQ_MARCO_LECTURA", "REQ_MARCO_ESCRITURA"})
         /\ Direccion >= TamanioDe(cpu.pcb.id)

InvProcesos == /\ UnProcesoPorConsola /\ Buenos /\ Numeracion /\ TablasHechas
               /\ UnSitio /\ Conectadas /\ Recorrido

-----------------------------------------------------------------------------
(* 3. How far the script of each process was executed *)

\* The first n instructions of its script are what a process executed.
Ejecutadas(id) == historia[id + 1].ejecutadas
Hasta(id, n) == n <= Len(Programa(id)) /\ Ejecutadas(id) = SubSeq(Programa(id), 1, n)

\* The PCBs whose PC counts what was executed: in the CPU it advances only after Fetch.
Esperan == EnElKernel \union (IF cpu.fase \in Ejecuta THEN {} ELSE EnCPU)
AlDia ==
    /\ \A p \in Esperan : Entero(p.id) => Hasta(p.id, p.PC)
    /\ cpu.fase \in Ejecuta /\ Entero(cpu.pcb.id) => Hasta(cpu.pcb.id, cpu.pcb.PC + 1)
    /\ \A id \in 0..Len(historia) - 1 : Entero(id) => Hasta(id, Len(Ejecutadas(id)))

\* A process is blocked by the IO that it executed last, for the time that it says.
EsIO(io) == /\ io.pcb.PC >= 1 /\ Programa(io.pcb.id)[io.pcb.PC].identificador = "IO"
            /\ io.tiempoBloqueo = Programa(io.pcb.id)[io.pcb.PC].parametro1
Bloqueos ==
    /\ \A io \in estado_blocked : Entero(io.pcb.id) => EsIO(io)
    /\ LlegaCon(redDispatch, {"PCB_EJECUTADO_IO"}) /\ Entero(IoDe(redDispatch).pcb.id) =>
         EsIO(IoDe(redDispatch))

\* A process ends with an EXIT, and its console is answered after that, with its id.
Terminado(id) ==
    /\ Ejecutadas(id) # <<>>
    /\ Ejecutadas(id)[Len(Ejecutadas(id))].identificador = "EXIT"
Cerrado(id, c) ==
    /\ id \in 0..Len(historia)-1 /\ historia[id + 1].consola = c
    /\ \A k \in consolas_conectadas : k.id # id
    /\ Entero(id) => Terminado(id)
Finales ==
    /\ LlegaCon(redDispatch, {"PCB_EJECUTADO_EXIT"}) /\ Entero(PcbDe(redDispatch).id) =>
         Terminado(PcbDe(redDispatch).id)
    /\ \A c \in Consolas :
         /\ LlegaCon(redConsola[c], {"RES_FIN_PROCESO"}) => Cerrado(NumeroDe(redConsola[c]), c)
         /\ consolas[c].estado = "respondida" => Cerrado(consolas[c].respuesta, c)

InvGuiones == AlDia /\ Bloqueos /\ Finales
=============================================================================
