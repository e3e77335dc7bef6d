SPECIFICATION Spec
CONSTANTS
    MaxProcesos = 2
    MaxRafagas = 2
    GRADO_MULTIPROGRAMACION = 2
    ALGORITMO_PLANIFICACION = "SRT"
    ESTIMACION_INICIAL = 4
    TIEMPO_MAXIMO_BLOQUEADO = 8000
    NUM_ALFA = 1
    DEN_ALFA = 2
    UINT32 = 16
    MANTISA = 8
    TiemposIO <- MCTiemposSUSPE
    Rafagas <- MCUnaRafaga
INVARIANTS
    IOLargaSuspende
