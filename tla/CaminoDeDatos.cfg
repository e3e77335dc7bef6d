SPECIFICATION Spec
CONSTANTS
  c1 = c1
  c2 = c2
  NULO = NULO
  BASURA = BASURA
  Consolas = {c1, c2}
  Argumentos <- MCArgumentos
  TAM_PAGINA = 4
  ENTRADAS_POR_TABLA = 2
  CANTIDAD_FRAMES = 2
  ESTIMACION_INICIAL = 3
  NUM_ALFA = 1
  DEN_ALFA = 2
  SEGMENTO = 20
  UINT32 = 65536
INVARIANTS
  ProgramaIntacto
  EjecutaElGuion
  IODelGuion
  PaquetesExactos
  PaginaPropia
  SoloCaeFuera
  AccesoEnElMarco
