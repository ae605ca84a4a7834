SPECIFICATION FairSpec
CONSTANTS
  Meshes <- AllMeshes
  OriginTtl = 3
  SessionTtl = 4
  DefaultMtu = 1
CHECK_DEADLOCK FALSE
INVARIANTS
    ForwardingInv
    AnswersComeBack
    GivenUpRightly
    DatagramsArrive
PROPERTIES
    WaitersSettle
