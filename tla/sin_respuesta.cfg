SPECIFICATION FairSpec
CONSTANTS
  c1 = c1
  c2 = c2
  c3 = c3
  Nadie = Nadie
  Clients <- Dos
  Empty <- MCEmpty
  NotFound <- MCNotFound
  Lista <- MCLista
  Temp <- MCTemp
  Names <- MCNames
  Tokens <- MCTokens
  Inside <- MCInside
  Files <- MCFiles
  Ports <- MCPorts
  Copias <- MCCopias
  Discos <- Used
  Faults <- RpcOnly
  Peticiones <- Few
CHECK_DEADLOCK FALSE
PROPERTY ServedIsAnswered
