SPECIFICATION Spec
CONSTANTS
    p1 = p1
    p2 = p2
    a = a
    NULO = NULO
    Procesos <- MCUnProceso
    PAGINAS <- MCTresPaginas
    MARCOS_POR_PROCESO = 2
    CANTIDAD_FRAMES = 4
    GRADO = 1
    ALGORITMO_REEMPLAZO = "CLOCK-M"
    Escritos <- MCEscritos
    Accesos <- MCSoloEscribir
    MaxSuspensiones = 0
INVARIANTS
    MarcosAcotados
