SPECIFICATION SpecKC
CONSTANTS
    MaxProcesos = 2
    MaxRafagas = 8
    GRADO_MULTIPROGRAMACION = 2
    ALGORITMO_PLANIFICACION = "SRT"
    ESTIMACION_INICIAL = 2
    TIEMPO_MAXIMO_BLOQUEADO = 1
    NUM_ALFA = 1
    DEN_ALFA = 2
    UINT32 = 16
    MANTISA = 8
    TiemposIO <- MCTiemposIO
    Rafagas <- MCRafagas
    Programas <- MCDosProgramas
    MaxDesborde = 1
    TiemposBasura <- MCTiemposBasura
INVARIANTS
    ProgramaCompletoTermina
