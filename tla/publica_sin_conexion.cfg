SPECIFICATION Registro
CONSTANTS
  Empty <- MCEmpty
  NotFound <- MCNotFound
  Lista <- MCLista
  Temp <- MCTemp
  Names <- Apart
  Tokens <- ApartTokens
  Inside <- ApartInside
  Files <- MCFiles
  Ports <- MCPorts
  Copias <- MCCopias
  Discos <- MCDiscos
  Faults <- NoFaults
  Peticiones <- WithAName
PROPERTY PublisherIsConnected
