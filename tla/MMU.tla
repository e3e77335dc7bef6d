---------------------------------- MODULE MMU ----------------------------------
(***************************************************************************)
(* The TLB of the CPU (cpu/src/utils/mmu.c): a list of at most             *)
(* ENTRADAS_TLB entries, replaced by FIFO, in place and round a circular   *)
(* index, or by LRU, by the time of the last access.  dispatch.c empties   *)
(* it when the process that arrives is not the one of the last burst.      *)
(*                                                                         *)
(* One thread of the CPU uses it, so each function of mmu.c is a step.  It *)
(* is composed with Memoria in MemoriaVirtual.                             *)
(***************************************************************************)
EXTENDS Integers, Sequences, FiniteSets

CONSTANTS
    ENTRADAS_TLB,
    Reemplazos             \* the values of REEMPLAZO_TLB to start with

ASSUME TLBAssumption ==
    /\ ENTRADAS_TLB \in Nat \ {0}
    /\ Reemplazos \subseteq {"FIFO", "LRU"}

VARIABLES
    REEMPLAZO_TLB,         \* of the configuration, read when the CPU starts
    listaTLB, indiceFIFO,
    PCB_ACTUAL,            \* the process of the entries
    orden,                 \* history: pages of the TLB, the next to leave first
    corrido                \* history: indiceFIFO was not 0 at the last emptying

varsMMU == <<REEMPLAZO_TLB, listaTLB, indiceFIFO, PCB_ACTUAL, orden, corrido>>

\* PCB_ACTUAL starts as 0, which may be the id of a process: with the TLB empty
\* it makes no difference.
InitMMU(ninguno) ==
    /\ REEMPLAZO_TLB \in Reemplazos
    /\ listaTLB = <<>> /\ indiceFIFO = 0 /\ PCB_ACTUAL = ninguno
    /\ orden = <<>> /\ corrido = FALSE

PaginasTLB == {listaTLB[k].pagina : k \in DOMAIN listaTLB}
Posicion(pagina) == CHOOSE k \in DOMAIN listaTLB : listaTLB[k].pagina = pagina
MarcoTLB(pagina) == listaTLB[Posicion(pagina)].marco

\* tiempoAccesoGlobal grows at each access and the code only compares times: here
\* it is above the time of every entry, and after each access times are numbered
\* again from 0, in the same order.
tiempoAccesoGlobal == ENTRADAS_TLB
Renumera(lista) ==
    [k \in DOMAIN lista |-> [lista[k] EXCEPT !.tiempoAcceso =
        Cardinality({j \in DOMAIN lista : lista[j].tiempoAcceso < @})]]

newEntradaTLB(p, m) == [pagina |-> p, marco |-> m, tiempoAcceso |-> tiempoAccesoGlobal]

\* list_sort by time, list_remove of the first and list_add.
Ordenada == [k \in DOMAIN listaTLB |->
                listaTLB[CHOOSE j \in DOMAIN listaTLB : listaTLB[j].tiempoAcceso = k - 1]]
reemplazarTLB_LRU(nueva) == Append(Tail(Ordenada), nueva)

reemplazarTLB_FIFO(nueva) == [listaTLB EXCEPT ![indiceFIFO + 1] = nueva]

\* Mutant of incrementarIndiceFIFO: the index stays.
SinIncrementar == indiceFIFO
incrementarIndiceFIFO == (indiceFIFO + 1) % ENTRADAS_TLB

\* agregarTLB: an entry more while there is room, and a replacement after that.
AgregarTLB(pagina, marco) ==
    LET nueva == newEntradaTLB(pagina, marco) IN
    /\ \/ /\ Len(listaTLB) < ENTRADAS_TLB
          /\ listaTLB' = Renumera(Append(listaTLB, nueva))
          /\ orden' = IF corrido THEN orden ELSE Append(orden, pagina)
          /\ UNCHANGED indiceFIFO
       \/ /\ Len(listaTLB) = ENTRADAS_TLB
          /\ IF REEMPLAZO_TLB = "FIFO"
               THEN /\ listaTLB' = Renumera(reemplazarTLB_FIFO(nueva))
                    /\ indiceFIFO' = incrementarIndiceFIFO
               ELSE /\ listaTLB' = Renumera(reemplazarTLB_LRU(nueva))
                    /\ UNCHANGED indiceFIFO
          /\ orden' = IF corrido THEN orden ELSE Append(Tail(orden), pagina)
    /\ UNCHANGED <<REEMPLAZO_TLB, PCB_ACTUAL, corrido>>

\* A list with one of its elements moved to the end.
AlFinal(lista, x) ==
    LET i == CHOOSE k \in DOMAIN lista : lista[k] = x
    IN  [k \in DOMAIN lista |-> IF k < i THEN lista[k]
                                ELSE IF k < Len(lista) THEN lista[k + 1] ELSE x]

\* actualizarTLB, of the entry of a page that was found.
ActualizarTLB(pagina) ==
    /\ listaTLB' = Renumera([listaTLB EXCEPT
                                ![Posicion(pagina)].tiempoAcceso = tiempoAccesoGlobal])
    /\ orden' = IF corrido \/ REEMPLAZO_TLB = "FIFO" THEN orden
                ELSE AlFinal(orden, pagina)
    /\ UNCHANGED <<REEMPLAZO_TLB, indiceFIFO, PCB_ACTUAL, corrido>>

\* Mutant of VaciarTLB: the entries stay.
VaciarTLBNunca(pcb_nuevo) ==
    /\ PCB_ACTUAL' = pcb_nuevo
    /\ UNCHANGED <<REEMPLAZO_TLB, listaTLB, indiceFIFO, orden, corrido>>

\* vaciarTLB: indiceFIFO stays where it was.
VaciarTLB(pcb_nuevo) ==
    /\ IF PCB_ACTUAL # pcb_nuevo
         THEN listaTLB' = <<>> /\ orden' = <<>> /\ corrido' = (indiceFIFO # 0)
         ELSE UNCHANGED <<listaTLB, orden, corrido>>
    /\ PCB_ACTUAL' = pcb_nuevo
    /\ UNCHANGED <<REEMPLAZO_TLB, indiceFIFO>>

-----------------------------------------------------------------------------
\* A page is in the TLB once, and the page that leaves is always the first of
\* the order of the policy, arrivals for FIFO and last uses for LRU, whatever
\* mixture of hits, misses and changes of process came before (mmu.c:19-105).
\* FIFO loses its order when the TLB is emptied with indiceFIFO in the middle
\* (mmu.c:58), until it is emptied with it at 0 again.
ReemplazoEnOrden ==
    /\ Len(listaTLB) <= ENTRADAS_TLB
    /\ Cardinality(PaginasTLB) = Len(listaTLB)
    /\ ~corrido => PaginasTLB = {orden[k] : k \in DOMAIN orden}

=============================================================================
