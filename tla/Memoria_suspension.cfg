SPECIFICATION Spec
CONSTANTS
    p1 = p1
    p2 = p2
    a = a
    NULO = NULO
    Procesos <- MCDosProcesos
    PAGINAS <- MCDosPaginas
    MARCOS_POR_PROCESO = 2
    CANTIDAD_FRAMES = 4
    GRADO = 2
    ALGORITMO_REEMPLAZO = "CLOCK"
    Escritos <- MCEscritos
    Accesos <- MCLeerYEscribir
    MaxSuspensiones = 1
INVARIANTS
    PaginasConservadas
