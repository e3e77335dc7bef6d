--------------------------------- MODULE Guion ---------------------------------
(***************************************************************************)
(* From a script to the instructions of its process: leerInstrucciones and *)
(* obtenerInstrucciones of consola/src/utils/inicializacion.c and          *)
(* obtenerInstruccion of static/src/instruccion.c.                         *)
(*                                                                         *)
(* A line is the instruction it spells, with 0 for a parameter it has not, *)
(* or one that obtenerInstruccion does not know (an empty one, say).       *)
(***************************************************************************)
EXTENDS Integers, Sequences

Identificadores == {"NO_OP", "IO", "READ", "COPY", "WRITE", "EXIT"}
Conocida(linea) == linea.identificador \in Identificadores

\* A line as it is read, whether its identifier is known or not.
LINEA == [identificador : STRING, parametro1 : Nat, parametro2 : Nat]

\* A script is its lines and whether a newline follows the last one.
Ultima(guion) == guion.lineas[Len(guion.lineas)]

\* Mutant of leerInstrucciones: EXIT is not appended either.
LineasSinUltima(guion) == SubSeq(guion.lineas, 1, Len(guion.lineas) - 1)
\* leerInstrucciones appends each line that fgets reads before the end of the
\* file; the last one, which ends there, only if it is EXIT.
leerInstrucciones(guion) ==
    IF Ultima(guion).identificador = "EXIT" THEN guion.lineas
    ELSE SubSeq(guion.lineas, 1, Len(guion.lineas) - 1)

\* After a newline, or with no line, the last fgets gives NULL, which strcmp
\* reads; a line that is not known ends the console.
ConsolaCae(guion) ==
    \/ guion.lineas = <<>> \/ guion.saltoFinal
    \/ \E k \in DOMAIN leerInstrucciones(guion) : ~Conocida(leerInstrucciones(guion)[k])

\* NO_OP n is n instructions, numbered in parametro2, and one at least.
Expande(linea) ==
    IF linea.identificador = "NO_OP"
      THEN [j \in 1..(IF linea.parametro1 > 1 THEN linea.parametro1 ELSE 1) |->
               [linea EXCEPT !.parametro2 = j]]
      ELSE <<linea>>

\* obtenerInstrucciones: each line after those before it.
obtenerInstrucciones(lineas) ==
    LET hasta[n \in 0..Len(lineas)] ==
            IF n = 0 THEN <<>> ELSE hasta[n-1] \o Expande(lineas[n])
    IN  hasta[Len(lineas)]

=============================================================================
