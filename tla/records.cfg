SPECIFICATION Spec
CONSTANTS
  First = h1
  Second = h2
  File = i1
  Other = i2
  Hand = Hand
  Null = Null
  None = None
  Void = Void
  Absent = Absent
  NoValue = NoValue
  BlobParts <- RecordParts
  FileParts <- StoreParts
  ReadParts <- ViewParts
  AnswerParts <- LetterParts
  RateParts <- LimitParts
SYMMETRY Symmetry
INVARIANTS RegistersHold BlobsHold FilesHold
PROPERTIES DisclosuresHold RequestsHold
CHECK_DEADLOCK FALSE
