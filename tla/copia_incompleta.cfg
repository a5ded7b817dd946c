SPECIFICATION Spec
CONSTANTS
  Tipos <- DeArchivos
  MaxN = 2
  Caidas <- Nadie
CHECK_DEADLOCK FALSE
INVARIANT CopyIsTheFile
