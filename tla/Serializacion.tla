----------------------------- MODULE Serializacion -----------------------------
(***************************************************************************)
(* Packets (static/src/serializacion/estructuras.c): each structure that   *)
(* the modules exchange, as it is laid out in a buffer, the size that is   *)
(* allocated for it, and what the receiver reads back.                     *)
(*                                                                         *)
(* A buffer is a sequence of cells of four bytes: an enumeration and a     *)
(* uint32_t are one each, and a character of a message is one too.         *)
(***************************************************************************)
EXTENDS Integers, Sequences

CONSTANT BASURA            \* a cell of malloc that nothing was written to

-----------------------------------------------------------------------------
(* serializar...: the cells that are written, from an offset on. *)

\* Mutant of serializarInstrucciones: the last parameter is written twice.
serializarUltimoParametro(instrucciones) ==
    [k \in 1..3 * Len(instrucciones) |->
        LET i == instrucciones[(k - 1) \div 3 + 1] IN
        IF k % 3 = 1 THEN i.identificador ELSE i.parametro2]
serializarInstrucciones(instrucciones) ==
    [k \in 1..3 * Len(instrucciones) |->
        LET i == instrucciones[(k - 1) \div 3 + 1] IN
        CASE k % 3 = 1 -> i.identificador
          [] k % 3 = 2 -> i.parametro1
          [] k % 3 = 0 -> i.parametro2]

serializarProceso(p) ==
    <<p.tamanioProceso, Len(p.instrucciones)>> \o serializarInstrucciones(p.instrucciones)

serializarPCB(p) ==
    <<p.id, p.tamanioProceso, p.PC, p.tablaDePaginas, p.estimacionRafaga,
      p.lengthUltimaRafaga, Len(p.instrucciones)>> \o serializarInstrucciones(p.instrucciones)

serializarIO(io) == <<io.tiempoBloqueo>> \o serializarPCB(io.pcb)
serializarTraduccion(t) == <<t.tamanio_pagina, t.paginas_por_tabla>>
serializarUINT32(n) == <<n>>
serializarConsulta(c) == <<c.entradaPagina, c.tablaDePaginas, c.id>>
serializarPeticion(p) == <<p.direccionFisica, p.dato, p.id>>
serializarMensaje(m) == <<Len(m)>> \o m

\* The codes by the structure they carry.
CodigosPCB == {"REQ_PCB_A_EJECUTAR", "PCB_EJECUTADO_EXIT", "PCB_EJECUTADO_INTERRUPCION",
               "REQ_CREAR_PROCESO", "REQ_FIN_PROCESO", "REQ_SUSP_PROCESO"}
CodigosUINT32 == {"REQ_INTERRUPCION", "RES_FIN_PROCESO", "RES_CREAR_PROCESO",
                  "RES_SUSP_PROCESO", "RES_TABLA_SEGUNDO_NIVEL", "RES_MARCO", "REQ_READ",
                  "RES_READ", "RES_WRITE"}
CodigosConsulta == {"REQ_TABLA_SEGUNDO_NIVEL", "REQ_MARCO_ESCRITURA", "REQ_MARCO_LECTURA"}

serializarEstructura(e, cod) ==
    CASE cod = "PROCESO" -> serializarProceso(e)
      [] cod = "REQ_TRADUCCION_DIRECCIONES" -> serializarMensaje(e)
      [] cod = "RES_TRADUCCION_DIRECCIONES" -> serializarTraduccion(e)
      [] cod = "PCB_EJECUTADO_IO" -> serializarIO(e)
      [] cod = "REQ_WRITE" -> serializarPeticion(e)
      [] cod \in CodigosPCB -> serializarPCB(e)
      [] cod \in CodigosUINT32 -> serializarUINT32(e)
      [] cod \in CodigosConsulta -> serializarConsulta(e)

-----------------------------------------------------------------------------
(* tamanioEstructura: the cells that are allocated. *)

TamanioPCB(p) == 7 + 3 * Len(p.instrucciones)

\* Mutant of tamanioEstructura: the time of the I/O has no room.
tamanioEstructuraIOSinTiempo(e, cod) ==
    CASE cod = "PROCESO" -> 2 + 3 * Len(e.instrucciones)
      [] cod = "REQ_TRADUCCION_DIRECCIONES" -> Len(e) + 1
      [] cod = "RES_TRADUCCION_DIRECCIONES" -> 2
      [] cod = "PCB_EJECUTADO_IO" -> TamanioPCB(e.pcb)
      [] cod \in CodigosPCB -> TamanioPCB(e)
      [] cod \in CodigosUINT32 -> 1
      [] cod \in CodigosConsulta \union {"REQ_WRITE"} -> 3

tamanioEstructura(e, cod) ==
    CASE cod = "PROCESO" -> 2 + 3 * Len(e.instrucciones)
      [] cod = "REQ_TRADUCCION_DIRECCIONES" -> Len(e) + 1
      [] cod = "RES_TRADUCCION_DIRECCIONES" -> 2
      [] cod = "PCB_EJECUTADO_IO" -> 1 + TamanioPCB(e.pcb)
      [] cod \in CodigosPCB -> TamanioPCB(e)
      [] cod \in CodigosUINT32 -> 1
      [] cod \in CodigosConsulta \union {"REQ_WRITE"} -> 3

\* armarPaqueteCon: the stream holds what was written inside the size, and what
\* malloc left in the cells that were not; how much was written is kept.
armarPaqueteCon(e, cod) ==
    LET escrito == serializarEstructura(e, cod)
        size == tamanioEstructura(e, cod)
    IN  [codigo |-> cod, size |-> size, escrito |-> Len(escrito),
         stream |-> [k \in 1..size |-> IF k <= Len(escrito) THEN escrito[k] ELSE BASURA]]

-----------------------------------------------------------------------------
(* deserializar...: what is read, from an offset on. *)

Celda(stream, k) == IF k \in DOMAIN stream THEN stream[k] ELSE BASURA

deserializarInstrucciones(stream, offset) ==
    [i \in 1..Celda(stream, offset) |->
        [identificador |-> Celda(stream, offset + 3 * i - 2),
         parametro1 |-> Celda(stream, offset + 3 * i - 1),
         parametro2 |-> Celda(stream, offset + 3 * i)]]

deserializarProceso(stream) ==
    [tamanioProceso |-> Celda(stream, 1), instrucciones |-> deserializarInstrucciones(stream, 2)]

deserializarPCB(stream, offset) ==
    [id |-> Celda(stream, offset + 1), tamanioProceso |-> Celda(stream, offset + 2),
     PC |-> Celda(stream, offset + 3), tablaDePaginas |-> Celda(stream, offset + 4),
     estimacionRafaga |-> Celda(stream, offset + 5),
     lengthUltimaRafaga |-> Celda(stream, offset + 6),
     instrucciones |-> deserializarInstrucciones(stream, offset + 7)]

deserializarIO(stream) ==
    [tiempoBloqueo |-> Celda(stream, 1), pcb |-> deserializarPCB(stream, 1)]
deserializarTraduccion(stream) ==
    [tamanio_pagina |-> Celda(stream, 1), paginas_por_tabla |-> Celda(stream, 2)]
deserializarUINT32(stream) == Celda(stream, 1)
deserializarConsulta(stream) ==
    [entradaPagina |-> Celda(stream, 1), tablaDePaginas |-> Celda(stream, 2),
     id |-> Celda(stream, 3)]
deserializarPeticion(stream) ==
    [direccionFisica |-> Celda(stream, 1), dato |-> Celda(stream, 2), id |-> Celda(stream, 3)]

=============================================================================
