----------------------------- MODULE TablasPaginas -----------------------------
(***************************************************************************)
(* The two levels of page tables (memoria/src/utils/memoria.c, 91-189) and *)
(* the arithmetic that the CPU walks them with (cpu/src/utils/mmu.c,       *)
(* 172-190).  All the tables of all the processes are in two lists that    *)
(* only grow; a process knows its own by indices.                          *)
(***************************************************************************)
EXTENDS Integers, Sequences

CONSTANTS TAM_PAGINA, ENTRADAS_POR_TABLA

ASSUME TablasAssumption ==
    /\ TAM_PAGINA \in Nat \ {0}
    /\ ENTRADAS_POR_TABLA \in Nat \ {0}

VARIABLES
    tablasPrimerNivel,     \* tables of [id, tablaSegundoNivel]
    tablasSegundoNivel     \* tables of [id, paginaSwap]

varsTablas == <<tablasPrimerNivel, tablasSegundoNivel>>

InitTablas == tablasPrimerNivel = <<>> /\ tablasSegundoNivel = <<>>

marcosProceso(tamanio) == (tamanio + TAM_PAGINA - 1) \div TAM_PAGINA

\* Mutant of Tablas: what is left over has no table.
TablasCompletas(marcos) == marcos \div ENTRADAS_POR_TABLA

\* paginasDeSegundoNivelCompletas, and one more with what is left over.
Tablas(marcos) == (marcos \div ENTRADAS_POR_TABLA)
                  + (IF marcos % ENTRADAS_POR_TABLA > 0 THEN 1 ELSE 0)
Entradas(marcos, t) ==
    IF t <= marcos \div ENTRADAS_POR_TABLA THEN ENTRADAS_POR_TABLA
    ELSE marcos % ENTRADAS_POR_TABLA

\* Mutant of ID_EN_SWAP: the count starts again in each table.
EnCadaTabla(t, j) == j - 1
\* ID_EN_SWAP when entry j of table t is created: all those before are full.
ID_EN_SWAP(t, j) == (t - 1) * ENTRADAS_POR_TABLA + j - 1

\* inicializarEstructurasProceso; the index it gives is the length of the list.
crearTablas(id, tamanio) ==
    LET marcos == marcosProceso(tamanio) IN
    /\ tablasSegundoNivel' = tablasSegundoNivel \o
          [t \in 1..Tablas(marcos) |->
              [j \in 1..Entradas(marcos, t) |-> [id |-> id, paginaSwap |-> ID_EN_SWAP(t, j)]]]
    /\ tablasPrimerNivel' = Append(tablasPrimerNivel,
          [t \in 1..Tablas(marcos) |->
              [id |-> id, tablaSegundoNivel |-> Len(tablasSegundoNivel) + t - 1]])

\* list_get.
Hay(lista, i) == i \in 0..Len(lista) - 1
Toma(lista, i) == lista[i + 1]

-----------------------------------------------------------------------------
(* The arithmetic of the MMU, with the sizes t that Memoria gave it. *)

obtenerNumeroPagina(t, direccion) == direccion \div t.tamanio_pagina
obtenerEntradaTabla1erNivel(t, pagina) == pagina \div t.paginas_por_tabla
obtenerEntradaTabla2doNivel(t, pagina) == pagina % t.paginas_por_tabla
\* Mutant of obtenerDesplazamiento: the page is counted in its own table.
DesplazamientoEnTabla(t, direccion, pagina) ==
    direccion - (pagina % t.paginas_por_tabla) * t.tamanio_pagina
obtenerDesplazamiento(t, direccion, pagina) == direccion - pagina * t.tamanio_pagina
obtenerDireccionFisica(t, desplazamiento, marco) == desplazamiento + marco * t.tamanio_pagina

=============================================================================
