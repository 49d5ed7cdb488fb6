CONSTANTS
  Jobs = {j1, j2}
  Docs = {d1, d2}
  Orders = {o1}
  NoOrder = NoOrder
  Nobody = Nobody
  AnEdit = AnEdit
  MaxAmount = 1
  MaxVersion = 2
SPECIFICATION FairSpec
PROPERTY IssuedIsImmutable
PROPERTY NoLostSave
PROPERTY ImplementsRegister
PROPERTY EveryRequestEnds
