SPECIFICATION Registro
CONSTANTS
  Empty <- MCEmpty
  NotFound <- MCNotFound
  Lista <- MCLista
  Temp <- MCTemp
  Names <- Nested
  Tokens <- NestedTokens
  Inside <- NestedInside
  Files <- MCFiles
  Ports <- OnePort
  Copias <- MCCopias
  Discos <- MCDiscos
  Faults <- NoFaults
  Peticiones <- WithAName
PROPERTY FoundIsTheUser
