------------------------------ MODULE Memoria -------------------------------
(***************************************************************************)
(* The Memoria module (memoria/src/utils/server.c, memoria.c, swap.c): the *)
(* page tables, frames and swap files of the processes, and the two        *)
(* threads that serve requests, hiloKernel and hiloCPU, which exclude each *)
(* other by mutex_entrada_segundo_nivel (held by hiloCPU through the whole *)
(* of obtenerMarco).                                                       *)
(*                                                                         *)
(* A page is one datum, and the two levels of tables are one function from *)
(* pages (TablasPaginas has the levels).  Here the CPU asks Memoria for    *)
(* the frame of every access, as it does after each change of process;     *)
(* MemoriaVirtual gives it its TLB.                                        *)
(***************************************************************************)
EXTENDS Integers, Sequences, FiniteSets

CONSTANTS
    Procesos, NULO,
    PAGINAS,               \* pages of each process, marcosProceso of its size
    MARCOS_POR_PROCESO,
    CANTIDAD_FRAMES,
    GRADO,                 \* processes that compete for frames
    ALGORITMO_REEMPLAZO,   \* "CLOCK" or "CLOCK-M"
    Escritos,              \* what processes write
    Accesos,               \* values of esWrite the programs use
    MaxSuspensiones        \* bound: suspensions of one run

ASSUME MemoriaAssumption ==
    /\ NULO \notin Procesos
    /\ PAGINAS \in [Procesos -> Nat]
    /\ MARCOS_POR_PROCESO \in Nat \ {0}
    /\ CANTIDAD_FRAMES \in Nat \ {0}
    /\ GRADO \in Nat \ {0}
    /\ ALGORITMO_REEMPLAZO \in {"CLOCK", "CLOCK-M"}
    /\ Accesos \subseteq BOOLEAN
    /\ MaxSuspensiones \in Nat

Paginas(p) == 0..PAGINAS[p]-1
Marcos == 0..CANTIDAD_FRAMES-1

\* TAM_MEMORIA, the number of no frame, in new entries.
SIN_MARCO == CANTIDAD_FRAMES

\* 'X' fills memory and '0' a swap file.
Datos == Escritos \union {"X", "0"}

VARIABLES
    fase,              \* of each process, as the Kernel knows it
    ejecutando,        \* the process in the CPU
    suspensiones,      \* counter of the bound
    colaKernel, pcKernel,              \* hiloKernel
    pcCPU, consulta, victima, marco,   \* hiloCPU and the access it serves
    estadosPCBS, entradas, bitarray, memoria, swap,
    esperado           \* history: what each process wrote last in each page

varsProc   == <<fase, ejecutando, suspensiones>>
varsKernel == <<colaKernel, pcKernel>>
varsAcceso == <<pcCPU, consulta, victima, marco>>
vars == <<varsProc, varsKernel, varsAcceso, estadosPCBS, entradas, bitarray, memoria,
          swap, esperado>>

EntradaNueva == [marco |-> SIN_MARCO, presencia |-> FALSE, uso |-> FALSE, modificado |-> FALSE]
SinConsulta == [id |-> NULO, pagina |-> 0, esWrite |-> FALSE]

Presentes(p) == {i \in Paginas(p) : entradas[p][i].presencia}
MarcosDe(p) == {entradas[p][i].marco : i \in Presentes(p)}

\* mutex_entrada_segundo_nivel, held by hiloCPU while it looks for a victim.
MutexLibre == pcCPU \notin {"clock", "reemplaza"}

Init ==
    /\ fase = [p \in Procesos |-> "nuevo"] /\ ejecutando = NULO /\ suspensiones = 0
    /\ colaKernel = <<>> /\ pcKernel = "espera"
    /\ pcCPU = "libre" /\ consulta = SinConsulta /\ victima = 0 /\ marco = SIN_MARCO
    /\ estadosPCBS = [p \in Procesos |-> [marcosOcupados |-> 0, punteroClock |-> 0]]
    /\ entradas = [p \in Procesos |-> [i \in Paginas(p) |-> EntradaNueva]]
    /\ bitarray = {}
    /\ memoria = [m \in Marcos |-> "X"]
    /\ swap = [p \in Procesos |-> [i \in Paginas(p) |-> "X"]]
    /\ esperado = [p \in Procesos |-> [i \in Paginas(p) |-> "0"]]

-----------------------------------------------------------------------------
(* The Kernel, as Planificador shows it from here: it asks in order, waits  *)
(* for the answers to CREAR and SUSP and not for the one to FIN, and admits *)
(* a suspended process again without telling Memoria.                       *)

Vivo(p) == fase[p] \in {"activo", "bloqueado"}

HayLugar ==
    Cardinality({p \in Procesos : Vivo(p) \/ fase[p] \in {"creando", "suspendiendo"}}) < GRADO

Pide(codigo, p, nueva) ==
    /\ colaKernel' = Append(colaKernel, [codigo |-> codigo, id |-> p])
    /\ fase' = [fase EXCEPT ![p] = nueva]
    /\ UNCHANGED <<pcKernel, varsAcceso, estadosPCBS, entradas, bitarray, memoria, swap, esperado>>

PideCrear(p) ==
    /\ fase[p] = "nuevo" /\ HayLugar
    /\ Pide("CREAR", p, "creando")
    /\ UNCHANGED <<ejecutando, suspensiones>>

PideSuspender(p) ==
    /\ fase[p] = "bloqueado"
    /\ suspensiones < MaxSuspensiones
    /\ suspensiones' = suspensiones + 1
    /\ Pide("SUSP", p, "suspendiendo")
    /\ UNCHANGED ejecutando

PideFin(p) ==
    /\ ejecutando = p /\ pcCPU = "libre"
    /\ ejecutando' = NULO
    /\ Pide("FIN", p, "fin")
    /\ UNCHANGED suspensiones

Readmite(p) ==
    /\ fase[p] = "suspendido" /\ HayLugar
    /\ fase' = [fase EXCEPT ![p] = "activo"]
    /\ UNCHANGED <<ejecutando, suspensiones, varsKernel, varsAcceso, estadosPCBS, entradas,
                   bitarray, memoria, swap, esperado>>

Despacha(p) ==
    /\ ejecutando = NULO /\ fase[p] = "activo"
    /\ ejecutando' = p
    /\ UNCHANGED <<fase, suspensiones, varsKernel, varsAcceso, estadosPCBS, entradas,
                   bitarray, memoria, swap, esperado>>

\* The PCB comes back from the CPU, interrupted or blocked by an I/O.
Vuelve ==
    /\ ejecutando # NULO /\ pcCPU = "libre"
    /\ \E nueva \in {"activo", "bloqueado"} : fase' = [fase EXCEPT ![ejecutando] = nueva]
    /\ ejecutando' = NULO
    /\ UNCHANGED <<suspensiones, varsKernel, varsAcceso, estadosPCBS, entradas,
                   bitarray, memoria, swap, esperado>>

Desbloquea(p) ==
    /\ fase[p] = "bloqueado"
    /\ fase' = [fase EXCEPT ![p] = "activo"]
    /\ UNCHANGED <<ejecutando, suspensiones, varsKernel, varsAcceso, estadosPCBS, entradas,
                   bitarray, memoria, swap, esperado>>

Kernel ==
    \/ \E p \in Procesos : \/ PideCrear(p) \/ PideSuspender(p) \/ PideFin(p)
                           \/ Readmite(p) \/ Despacha(p) \/ Desbloquea(p)
    \/ Vuelve

-----------------------------------------------------------------------------
(* hiloKernel *)

Cabeza(codigo) == colaKernel # <<>> /\ Head(colaKernel).codigo = codigo

\* inicializarEstructurasProceso, crearArchivoSwap and the answer.
CrearProceso ==
    /\ Cabeza("CREAR")
    /\ LET p == Head(colaKernel).id IN
          /\ entradas' = [entradas EXCEPT ![p] = [i \in Paginas(p) |-> EntradaNueva]]
          /\ estadosPCBS' = [estadosPCBS EXCEPT ![p] = [marcosOcupados |-> 0, punteroClock |-> 0]]
          /\ swap' = [swap EXCEPT ![p] = [i \in Paginas(p) |-> "0"]]
          /\ fase' = [fase EXCEPT ![p] = "activo"]
    /\ colaKernel' = Tail(colaKernel)
    /\ UNCHANGED <<pcKernel, ejecutando, suspensiones, varsAcceso, bitarray, memoria, esperado>>

\* swapearEntradaSegundoNivel: what becomes of an entry, ...
SwapeadaSinModificado(entrada) == [entrada EXCEPT !.presencia = FALSE, !.uso = FALSE]
Swapeada(entrada) ==
    [entrada EXCEPT !.presencia = FALSE, !.uso = FALSE, !.modificado = FALSE]

\* ... and of the swap file, when the pages of sucias are.
GuardadasSinEscribir(p, sucias) == swap[p]
Guardadas(p, sucias) ==
    [i \in Paginas(p) |-> IF i \in sucias THEN memoria[entradas[p][i].marco] ELSE swap[p][i]]

\* suspenderProceso: the pages that are present and modified go to swap and
\* leave their frames; ...
SwapeaEntradas ==
    /\ pcKernel = "espera" /\ Cabeza("SUSP") /\ MutexLibre
    /\ LET p == Head(colaKernel).id
           sucias == {i \in Presentes(p) : entradas[p][i].modificado}
       IN  /\ swap' = [swap EXCEPT ![p] = Guardadas(p, sucias)]
           /\ entradas' = [entradas EXCEPT ![p] = [i \in Paginas(p) |->
                 IF i \in sucias THEN Swapeada(entradas[p][i]) ELSE entradas[p][i]]]
           /\ bitarray' = bitarray \ {entradas[p][i].marco : i \in sucias}
    /\ pcKernel' = "ocupados"
    /\ UNCHANGED <<colaKernel, varsProc, varsAcceso, estadosPCBS, memoria, esperado>>

\* ... the count of frames is reset without the mutex; ...
ReseteaOcupadosNunca ==
    /\ pcKernel = "ocupados"
    /\ pcKernel' = "eliminar"
    /\ UNCHANGED <<colaKernel, varsProc, varsAcceso, estadosPCBS, entradas, bitarray, memoria,
                   swap, esperado>>

ReseteaOcupados ==
    /\ pcKernel = "ocupados"
    /\ estadosPCBS' = [estadosPCBS EXCEPT ![Head(colaKernel).id].marcosOcupados = 0]
    /\ pcKernel' = "eliminar"
    /\ UNCHANGED <<colaKernel, varsProc, varsAcceso, entradas, bitarray, memoria, swap, esperado>>

\* eliminarMarcos: the frames of present entries are free; the entries stay as
\* they are.
EliminarMarcos(p) == bitarray' = bitarray \ MarcosDe(p)

\* ... the frames that are left are freed, and the answer is sent.
TerminaSuspension ==
    /\ pcKernel = "eliminar" /\ MutexLibre
    /\ EliminarMarcos(Head(colaKernel).id)
    /\ fase' = [fase EXCEPT ![Head(colaKernel).id] = "suspendido"]
    /\ colaKernel' = Tail(colaKernel)
    /\ pcKernel' = "espera"
    /\ UNCHANGED <<ejecutando, suspensiones, varsAcceso, estadosPCBS, entradas, memoria,
                   swap, esperado>>

\* eliminarMarcos and eliminarArchivoSwap.
FinProceso ==
    /\ Cabeza("FIN") /\ MutexLibre
    /\ LET p == Head(colaKernel).id IN
          /\ EliminarMarcos(p)
          /\ swap' = [swap EXCEPT ![p] = [i \in Paginas(p) |-> "X"]]
    /\ colaKernel' = Tail(colaKernel)
    /\ UNCHANGED <<pcKernel, varsProc, varsAcceso, estadosPCBS, entradas, memoria, esperado>>

HiloKernel == CrearProceso \/ SwapeaEntradas \/ ReseteaOcupados \/ TerminaSuspension \/ FinProceso

-----------------------------------------------------------------------------
(* The CPU's accesses and hiloCPU *)

\* An instruction of the process in the CPU asks for the frame of a page.
Accede ==
    /\ pcCPU = "libre" /\ ejecutando # NULO
    /\ \E i \in Paginas(ejecutando), w \in Accesos :
          consulta' = [id |-> ejecutando, pagina |-> i, esWrite |-> w]
    /\ pcCPU' = "marco"
    /\ UNCHANGED <<victima, marco, varsProc, varsKernel, estadosPCBS, entradas, bitarray,
                   memoria, swap, esperado>>

Entrada == entradas[consulta.id][consulta.pagina]
Estado == estadosPCBS[consulta.id]

\* The last assignments of obtenerMarco.
Usada(entrada) ==
    [entrada EXCEPT !.uso = TRUE, !.modificado = @ \/ consulta.esWrite]

ObtieneMarco(m) ==
    /\ marco' = m
    /\ pcCPU' = "acceso"
    /\ UNCHANGED <<consulta, varsProc, varsKernel, esperado>>

\* obtenerMarco of a page that is present.
MarcoPresente ==
    /\ pcCPU = "marco" /\ Entrada.presencia
    /\ entradas' = [entradas EXCEPT ![consulta.id][consulta.pagina] = Usada(@)]
    /\ ObtieneMarco(Entrada.marco)
    /\ UNCHANGED <<victima, estadosPCBS, bitarray, memoria, swap>>

\* escribirMarco of the page that leerPaginaSwap read, and bitarray_set_bit.
Carga(m, contenido) == memoria' = [memoria EXCEPT ![m] = contenido]

TomaMarco(m) == bitarray' = bitarray \union {m}

\* obtenerMarco with frames to spare: the first one free in bitarray.
MarcoLibre ==
    /\ pcCPU = "marco" /\ ~Entrada.presencia
    /\ Estado.marcosOcupados < MARCOS_POR_PROCESO
    /\ \E m \in Marcos \ bitarray :
          /\ \A n \in 0..m-1 : n \in bitarray
          /\ TomaMarco(m)
          /\ Carga(m, swap[consulta.id][consulta.pagina])
          /\ entradas' = [entradas EXCEPT ![consulta.id][consulta.pagina] =
                             Usada([@ EXCEPT !.marco = m, !.presencia = TRUE])]
          /\ ObtieneMarco(m)
    /\ estadosPCBS' = [estadosPCBS EXCEPT ![consulta.id].marcosOcupados = @ + 1]
    /\ UNCHANGED <<victima, swap>>

\* With none free the search runs past the end of bitarray and what it takes
\* for a frame is not in memory.
MarcoFueraDeMemoria ==
    /\ pcCPU = "marco" /\ ~Entrada.presencia
    /\ Estado.marcosOcupados < MARCOS_POR_PROCESO
    /\ Marcos \subseteq bitarray
    /\ pcCPU' = "desborde"
    /\ UNCHANGED <<consulta, victima, marco, varsProc, varsKernel, estadosPCBS, entradas,
                   bitarray, memoria, swap, esperado>>

\* obtenerMarco with all its frames taken: reemplazar.
PideVictima ==
    /\ pcCPU = "marco" /\ ~Entrada.presencia
    /\ Estado.marcosOcupados >= MARCOS_POR_PROCESO
    /\ pcCPU' = "clock"
    /\ UNCHANGED <<consulta, victima, marco, varsProc, varsKernel, estadosPCBS, entradas,
                   bitarray, memoria, swap, esperado>>

\* The victim conditions of reemplazarClock and of reemplazarClockM.
EsVictima(entrada) ==
    /\ entrada.presencia
    /\ IF ALGORITMO_REEMPLAZO = "CLOCK" THEN ~entrada.uso
       ELSE ~(entrada.modificado \/ entrada.uso) \/ ~entrada.uso

\* A page that is not chosen loses its bit of use, if it is present, and the
\* pointer moves.
SinOportunidad(entrada) == entrada
SegundaOportunidad(entrada) == [entrada EXCEPT !.uso = @ /\ ~entrada.presencia]

SiguienteSinVuelta(puntero) == puntero + 1
Siguiente(puntero) == (puntero + 1) % PAGINAS[consulta.id]

\* One turn of their loop.
RecorreClock ==
    /\ pcCPU = "clock"
    /\ LET i == Estado.punteroClock
           recorredor == entradas[consulta.id][i]
       IN  /\ estadosPCBS' = [estadosPCBS EXCEPT ![consulta.id].punteroClock = Siguiente(@)]
           /\ IF EsVictima(recorredor)
                THEN /\ victima' = i /\ pcCPU' = "reemplaza"
                     /\ UNCHANGED entradas
                ELSE /\ entradas' = [entradas EXCEPT ![consulta.id][i] = SegundaOportunidad(@)]
                     /\ UNCHANGED <<victima, pcCPU>>
    /\ UNCHANGED <<consulta, marco, varsProc, varsKernel, bitarray, memoria, swap, esperado>>

\* The rest of obtenerMarco: a modified victim is written to swap and leaves
\* its frame; one that is not modified stays present, with the frame it had.
Reemplaza ==
    /\ pcCPU = "reemplaza"
    /\ LET p == consulta.id
           v == entradas[p][victima]
           sale == IF v.modificado THEN [v EXCEPT !.modificado = FALSE, !.presencia = FALSE] ELSE v
           swapDe == IF v.modificado THEN [swap[p] EXCEPT ![victima] = memoria[v.marco]] ELSE swap[p]
       IN  /\ swap' = [swap EXCEPT ![p] = swapDe]
           /\ estadosPCBS' = IF v.modificado
                               THEN [estadosPCBS EXCEPT ![p].marcosOcupados = @ - 1]
                               ELSE estadosPCBS
           /\ Carga(v.marco, swapDe[consulta.pagina])
           /\ entradas' = [entradas EXCEPT
                 ![p][victima] = sale,
                 ![p][consulta.pagina] = Usada([@ EXCEPT !.marco = v.marco, !.presencia = TRUE])]
           /\ ObtieneMarco(v.marco)
    /\ victima' = 0
    /\ UNCHANGED bitarray

\* leerDireccionFisica / writeEnMemoria with the frame obtained.
TerminaAcceso ==
    /\ pcCPU' = "libre" /\ consulta' = SinConsulta /\ marco' = SIN_MARCO
    /\ UNCHANGED <<victima, varsProc, varsKernel, estadosPCBS, entradas, bitarray, swap>>

Lee ==
    /\ pcCPU = "acceso" /\ ~consulta.esWrite
    /\ UNCHANGED <<memoria, esperado>>
    /\ TerminaAcceso

Escribe ==
    /\ pcCPU = "acceso" /\ consulta.esWrite
    /\ \E dato \in Escritos :
          /\ memoria' = [memoria EXCEPT ![marco] = dato]
          /\ esperado' = [esperado EXCEPT ![consulta.id][consulta.pagina] = dato]
    /\ TerminaAcceso

HiloCPU == \/ MarcoPresente \/ MarcoLibre \/ MarcoFueraDeMemoria \/ PideVictima
           \/ RecorreClock \/ Reemplaza \/ Lee \/ Escribe

-----------------------------------------------------------------------------
\* All the processes ended, or the behaviour of Memoria is not defined any more.
NadaMas ==
    /\ pcCPU = "desborde" \/ \A p \in Procesos : fase[p] = "fin"
    /\ UNCHANGED vars

Next == Kernel \/ HiloKernel \/ Accede \/ HiloCPU \/ NadaMas

Spec == Init /\ [][Next]_vars

\* The threads of Memoria serve what they are asked.
FairSpec == Spec /\ WF_vars(HiloKernel) /\ WF_vars(HiloCPU)

-----------------------------------------------------------------------------
(* Properties *)

\* f gives each page of each process an element of S.
DeCadaPagina(f, S) ==
    /\ f = [p \in Procesos |-> f[p]]
    /\ \A p \in Procesos : f[p] \in [Paginas(p) -> S]

TypeOK ==
    /\ fase \in [Procesos -> {"nuevo", "creando", "activo", "bloqueado", "suspendiendo",
                              "suspendido", "fin"}]
    /\ ejecutando \in Procesos \union {NULO}
    /\ suspensiones \in 0..MaxSuspensiones
    /\ colaKernel \in Seq([codigo : {"CREAR", "SUSP", "FIN"}, id : Procesos])
    /\ pcKernel \in {"espera", "ocupados", "eliminar"}
    /\ pcCPU \in {"libre", "marco", "clock", "reemplaza", "acceso", "desborde"}
    /\ IF pcCPU = "libre" THEN consulta = SinConsulta
       ELSE /\ consulta \in [id : Procesos, pagina : Nat, esWrite : BOOLEAN]
            /\ {consulta.pagina, victima} \subseteq Paginas(consulta.id)
    /\ pcCPU # "reemplaza" => victima = 0
    /\ IF pcCPU = "acceso" THEN marco \in Marcos ELSE marco = SIN_MARCO
    /\ estadosPCBS \in [Procesos -> [marcosOcupados : 0..MARCOS_POR_PROCESO,
                                     punteroClock : Nat]]
    /\ \A p \in Procesos : estadosPCBS[p].punteroClock \in Paginas(p) \union {0}
    /\ DeCadaPagina(entradas, [marco : Marcos \union {SIN_MARCO}, presencia : BOOLEAN,
                               uso : BOOLEAN, modificado : BOOLEAN])
    /\ bitarray \subseteq Marcos
    /\ memoria \in [Marcos -> Datos]
    /\ DeCadaPagina(swap, Datos)
    /\ DeCadaPagina(esperado, Datos)

\* A page that is present has a frame, and one that is modified is present: its
\* data is never left behind by a replacement or a suspension (memoria.c:226-242,
\* 292-309), whichever page the clock picks and whenever the process comes back.
ModificadaPresente ==
    \A p \in Procesos : \A i \in Paginas(p) :
        /\ entradas[p][i].presencia => entradas[p][i].marco \in Marcos
        /\ entradas[p][i].modificado => entradas[p][i].presencia

\* The loop of the clock has an end (memoria.c:392-414): a process is never
\* counted more frames than it has present pages, although a replacement takes
\* one from the count (239) and a suspension resets it without the mutex (333).
HayVictima ==
    \A p \in Procesos :
        Vivo(p) => estadosPCBS[p].marcosOcupados <= Cardinality(Presentes(p))

\* Processes whose FIN was not served yet.
ConMarcos == {p \in Procesos : fase[p] = "fin" => \E i \in DOMAIN colaKernel :
                                  colaKernel[i] = [codigo |-> "FIN", id |-> p]}

\* While every page a process loads is modified before it leaves, processes
\* never share a frame, a frame is taken iff one of them uses it, and every frame
\* comes back after a suspension or the end, with FIN served at any later time
\* (memoria.c:205-222, 260-308).
MarcosPropios ==
    /\ \A p, q \in ConMarcos : p # q => MarcosDe(p) \intersect MarcosDe(q) = {}
    /\ bitarray = UNION {MarcosDe(p) : p \in ConMarcos}

\* README.md:6, "un esquema de memoria virtual (paginacion a demanda)": a page
\* holds what its process wrote last, in a frame or in swap.
PaginasConservadas ==
    \A p \in Procesos : \A i \in Paginas(p) :
        Vivo(p) => esperado[p][i] = IF entradas[p][i].presencia
                                      THEN memoria[entradas[p][i].marco] ELSE swap[p][i]

\* "MARCOS_POR_PROCESO" (pruebas/MEMORIA_MEMORIA.cfg:7): the frames of a process.
MarcosAcotados ==
    \A p \in Procesos : Vivo(p) => Cardinality(MarcosDe(p)) <= MARCOS_POR_PROCESO

\* The search for a victim ends, with its page loaded.
ReemplazoTermina == pcCPU = "clock" ~> pcCPU = "acceso"

=============================================================================
