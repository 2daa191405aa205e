\* What a marker that is a part of another one breaks.
SPECIFICATION Spec
CONSTANTS
  Width <- WidthDef
  MinTokens = 3
  Ratio = 3
  MinDoc = 2
  Size = 12
  Overlap = 4
  Qids <- QidsDef
  Question <- QuestionDef
  Gold <- GoldDef
  StopWords <- StopWordsDef
  NeutralNames <- NeutralNamesDef
  MaxName = 4
  Marked = {"__old__"}
  Seen <- SeenDef
  Heldout <- HeldoutDef
  Subject <- SubjectDef
  K = 5
  TopN = 4
  Suspect = {"ignore_previous"}
  Units <- UnitsDef
  Configs <- ConfigsDef
PROPERTY MarkersProveOrigin
CHECK_DEADLOCK FALSE
