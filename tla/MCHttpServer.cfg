SPECIFICATION MCSpec
CONSTANTS
  Conns = {c1, c2}
  Posters = {c2}
  LeafLen = 3
  Lump = 2
  Burst = 2
  Limit = 2
  UpLen = 2
INVARIANTS
  UploadIntact
PROPERTIES
  AnsweredOnce
  LeafSentWhole
  LeafFinishes
  RelayMoves
