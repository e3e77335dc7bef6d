SPECIFICATION Spec
CONSTANTS
    MaxProcesos = 3
    MaxRafagas = 2
    GRADO_MULTIPROGRAMACION = 2
    ALGORITMO_PLANIFICACION = "FIFO"
    ESTIMACION_INICIAL = 4
    TIEMPO_MAXIMO_BLOQUEADO = 1
    NUM_ALFA = 1
    DEN_ALFA = 2
    UINT32 = 16
    MANTISA = 8
    TiemposIO <- MCTiemposIO
    Rafagas <- MCUnaRafaga
INVARIANTS
    SemaforosCuentan
    SinPopVacio
    GradoContado
    GradoRespetado
    CadaPcbEnUnLugar
    ConsolaDeCadaProceso
    PeticionesEnOrden
PROPERTIES
    CreacionEnOrdenDeLlegada
    CumpleCicloDeVida
