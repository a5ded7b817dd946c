SPECIFICATION Spec
CONSTANTS
  Tipos <- DeUsuarios
  MaxN = 2
  Caidas <- Nadie
CHECK_DEADLOCK FALSE
INVARIANT MessagesApart
