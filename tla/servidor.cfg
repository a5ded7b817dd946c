SPECIFICATION Spec
CONSTANTS
  c1 = c1
  c2 = c2
  c3 = c3
  Nadie = Nadie
  Clients <- Tres
  Empty <- MCEmpty
  NotFound <- MCNotFound
  Lista <- MCLista
  Temp <- MCTemp
  Names <- MCNames
  Tokens <- MCTokens
  Inside <- MCInside
  Files <- MCFiles
  Ports <- MCPorts
  Copias <- MCCopias
  Discos <- Used
  Faults <- KillOnly
  Peticiones <- Five
CHECK_DEADLOCK FALSE
SYMMETRY Iguales
INVARIANT OwnSocket
INVARIANT NothingStale
INVARIANT ServedOnce
INVARIANT ListingMatchesCount
INVARIANT ListReady
PROPERTY ServesAtomically
PROPERTY NothingLost
