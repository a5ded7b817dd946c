SPECIFICATION FairSpec
CONSTANTS
  Tipos <- Conversaciones
  MaxN = 3
  Caidas <- Todas
CHECK_DEADLOCK FALSE
INVARIANT TypeOK
INVARIANT SurvivesAGoodClient
PROPERTY Delivers
PROPERTY EveryDialogueEnds
