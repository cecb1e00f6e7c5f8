SPECIFICATION Spec
CONSTANTS
  Calls = {c1, c2}
  Frames <- MCFrames
  FlatTail = FALSE
  MaxFrames = 5
INVARIANTS
  StreamTypeOK
  StreamMatchesAssembly
  CallsAwaitVerdict
  FirstCloseTells
PROPERTY
  NothingAfterClose
