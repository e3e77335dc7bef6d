SPECIFICATION FairSpecMV
CONSTANTS
    p1 = p1
    p2 = p2
    a = a
    b = b
    NULO = NULO
    Procesos <- MCDosProcesos
    PAGINAS <- MCTresYNinguna
    MARCOS_POR_PROCESO = 2
    CANTIDAD_FRAMES = 2
    GRADO = 1
    ALGORITMO_REEMPLAZO = "CLOCK-M"
    Escritos <- MCSinDatos
    Accesos <- MCLeerYEscribir
    MaxSuspensiones = 1
    ENTRADAS_TLB = 2
    Reemplazos <- MCReemplazos
INVARIANTS
    TypeOK
    ModificadaPresente
    HayVictima
    ReemplazoEnOrden
    TLBIgualATabla
PROPERTIES
    ReemplazoTermina
