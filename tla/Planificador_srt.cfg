SPECIFICATION FairSpec
CONSTANTS
    MaxProcesos = 3
    MaxRafagas = 1
    GRADO_MULTIPROGRAMACION = 3
    ALGORITMO_PLANIFICACION = "SRT"
    ESTIMACION_INICIAL = 10
    TIEMPO_MAXIMO_BLOQUEADO = 1
    NUM_ALFA = 1
    DEN_ALFA = 2
    UINT32 = 16
    MANTISA = 8
    COTA_ESTIMACION = 13
    TiemposIO <- MCTiemposIO
    Rafagas <- MCRafagas
INVARIANTS
    TypeOK
    CadaPcbEnUnLugar
    SemaforosCuentan
    DesalojoJusto
    CortoEsperaConMotivo
    EstimacionAcotada
PROPERTIES
    TodaConsolaAvisada
