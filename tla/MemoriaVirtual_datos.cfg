SPECIFICATION SpecMV
CONSTANTS
    p1 = p1
    p2 = p2
    a = a
    b = b
    NULO = NULO
    Procesos <- MCDosProcesos
    PAGINAS <- MCDosYUna
    MARCOS_POR_PROCESO = 1
    CANTIDAD_FRAMES = 2
    GRADO = 2
    ALGORITMO_REEMPLAZO = "CLOCK"
    Escritos <- MCEscritos
    Accesos <- MCLeerYEscribir
    MaxSuspensiones = 1
    ENTRADAS_TLB = 2
    Reemplazos <- MCLRU
INVARIANTS
    DatosConservados
    AccesoPropio
    TLBIgualATabla
