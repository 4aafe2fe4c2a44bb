SPECIFICATION SpecConsola
CONSTANTS
  MAX_CADENA = 7
  TrasLaTabla <- CualquierByte
  Sesiones <- CuatroSesiones
  Nombre <- NombresCortos
  TamParte = 4
  Modulo32 = 64
  Mapas <- MapasCortos
  TamPagina = 2
  UTILIZABLE = UTILIZABLE
  MEMORIA_KERNEL = MEMORIA_KERNEL
  INUTILIZABLE = INUTILIZABLE
  Llamadas <- LlamadasCortas
  NTOA = 5
  AnchoPuntero = 4
  Modulo <- Modulos
  TopeSize = 1000
  Celdas <- CeldasCortas
  RegionDeSesion <- PrimeraRegion
INVARIANTS
  TipoOK
  SinRestosViejos
  SoloLoTecleado
  OrdenReconocida
  MataAlEscrito
  RegionMayor
  EnteroLegible
  CampoCompleto
  BuferDelimitado
  SalidaFiel
PROPERTIES
  RefinaEditor
