SPECIFICATION Spec
CONSTANTS
  c1 = c1
  c2 = c2
  p1 = p1
  p2 = p2
  p3 = p3
  ana = ana
  luis = luis
  Ninguno = Ninguno
  Procs <- MCProcs
  Ordenes <- DosCuentas
  MaxCola = 1
  MaxEra = 0
  Empty <- MCEmpty
  NotFound <- MCNotFound
  Lista <- MCLista
  Temp <- MCTemp
  Names <- MCNames
  Tokens <- MCTokens
  Inside <- MCInside
  Files <- MCFiles
  Ports <- MCPorts
  Copias <- MCCopias
  Discos <- MCDiscos
  Faults <- NoFaults
  Peticiones <- Request
CHECK_DEADLOCK FALSE
PROPERTY UnregisterIsOnesOwn
