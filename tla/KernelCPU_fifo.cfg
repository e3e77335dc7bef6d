SPECIFICATION FairSpecKC
CONSTANTS
    MaxProcesos = 3
    MaxRafagas = 8
    GRADO_MULTIPROGRAMACION = 2
    ALGORITMO_PLANIFICACION = "FIFO"
    ESTIMACION_INICIAL = 2
    TIEMPO_MAXIMO_BLOQUEADO = 1
    NUM_ALFA = 1
    DEN_ALFA = 2
    UINT32 = 16
    MANTISA = 8
    TiemposIO <- MCTiemposIO
    Rafagas <- MCRafagas
    Programas <- MCTresProgramas
    MaxDesborde = 1
    TiemposBasura <- MCTiemposBasura
INVARIANTS
    ProgramaCompletoTermina
PROPERTIES
    CPUCumplePlanificador
    ProcesoTermina
