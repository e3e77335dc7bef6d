SPECIFICATION SpecMV
CONSTANTS
    p1 = p1
    p2 = p2
    a = a
    b = b
    NULO = NULO
    Procesos <- MCUnProceso
    PAGINAS <- MCDosPaginas
    MARCOS_POR_PROCESO = 1
    CANTIDAD_FRAMES = 4
    GRADO = 1
    ALGORITMO_REEMPLAZO = "CLOCK-M"
    Escritos <- MCDosEscritos
    Accesos <- MCSoloEscribir
    MaxSuspensiones = 0
    ENTRADAS_TLB = 2
    Reemplazos <- MCLRU
INVARIANTS
    PaginasConservadas
