---------------------------- MODULE MCCaminoDeDatos ----------------------------
(* Instances of CaminoDeDatos for TLC. *)
EXTENDS CaminoDeDatos, TLC

CONSTANTS c1, c2

Linea(i, p1, p2) == [identificador |-> i, parametro1 |-> p1, parametro2 |-> p2]
Guionado(lineas) == [lineas |-> lineas, saltoFinal |-> FALSE]
SALIDA == Linea("EXIT", 0, 0)

\* Pages 1, 2 and 3, of both tables; 6 is not aligned.
Accede == Guionado(<<Linea("WRITE", 8, 7), Linea("COPY", 12, 6), SALIDA>>)
\* NO_OP that expands, and one of zero.
Bloquea == Guionado(<<Linea("NO_OP", 2, 0), Linea("IO", 5, 0), SALIDA>>)
\* More instructions than a segment holds.
Largo == Guionado(<<Linea("NO_OP", 0, 0), Linea("NO_OP", 3, 0), SALIDA>>)
\* An EXIT that is not the last line.
DosSalidas == Guionado(<<SALIDA, Linea("IO", 3, 0), SALIDA>>)
SinExit == Guionado(<<Linea("NO_OP", 1, 0), Linea("READ", 0, 0)>>)
ConSalto == [Guionado(<<SALIDA>>) EXCEPT !.saltoFinal = TRUE]

\* Sizes of one page, of a table that is not full after one that is, and of two
\* full tables.
MCArgumentos ==
    c1 :> {<<Accede, 13>>, <<Accede, 9>>, <<Bloquea, 16>>, <<Largo, 4>>, <<SinExit, 4>>,
          <<DosSalidas, 4>>}
    @@ c2 :> {<<Accede, 16>>, <<Bloquea, 9>>, <<Largo, 9>>, <<ConSalto, 4>>}

=============================================================================
