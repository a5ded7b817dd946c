SPECIFICATION Spec
CONSTANTS
  c1 = c1
  c2 = c2
  p1 = p1
  p2 = p2
  p3 = p3
  ana = ana
  luis = luis
  Ninguno = Ninguno
  Procs <- MCProcs
  Ordenes <- Muchas
  MaxCola = 1
  MaxEra = 1
  Empty <- MCEmpty
  NotFound <- MCNotFound
  Lista <- MCLista
  Temp <- MCTemp
  Names <- MCNames
  Tokens <- MCTokens
  Inside <- MCInside
  Files <- MCFiles
  Ports <- MCPorts
  Copias <- MCCopias
  Discos <- MCDiscos
  Faults <- SysFaults
  Peticiones <- Request
CHECK_DEADLOCK FALSE
SYMMETRY Iguales
VIEW Vista
INVARIANT TypeOK
INVARIANT BeliefIsTrue
INVARIANT OneSessionPerUser
PROPERTY AnnouncedIsServed
PROPERTY LinesEndWithTheirSession
