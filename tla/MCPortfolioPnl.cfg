CONSTANTS
  w1 = w1
  w2 = w2
  p1 = p1
  p2 = p2
  Writer <- OneWriter
  Reader <- TwoReaders
  MaxTx = 2
  Entries <- SomeEntries
  Edits <- SomeEdits
  Openings <- OneOpening
  Strategy = "LIFO"
  Unit = 1000
  MaxStamp = 1
  Further <- AnyKind
SPECIFICATION Spec
CHECK_DEADLOCK FALSE
SYMMETRY ReaderSymmetry
INVARIANT TypeOK
INVARIANT CheckpointSound
INVARIANT CalculatorsSound
PROPERTY AnswersFromOneLedger
