SPECIFICATION Spec
CONSTANTS
  Calls = {c1, c2}
  Frames <- MCFrames
  FlatTail = TRUE
  MaxFrames = 3
INVARIANT
  AssemblyDropsHalves
