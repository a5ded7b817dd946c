SPECIFICATION Registro
CONSTANTS
  Empty <- MCEmpty
  NotFound <- MCNotFound
  Lista <- MCLista
  Temp <- MCTemp
  Names <- Apart
  Tokens <- ApartTokens
  Inside <- ApartInside
  Files <- MCFiles
  Ports <- MCPorts
  Copias <- MCCopias
  Discos <- MCDiscos
  Faults <- NoFaults
  Peticiones <- WithAName
INVARIANT TreeOK
INVARIANT UniqueLines
INVARIANT ListReady
PROPERTY ErrorHasNoEffect
PROPERTY Isolation
PROPERTY CodesMeanWhatTheClientPrints
