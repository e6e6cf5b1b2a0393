CONSTANTS
  FrameBytes = 3
  MaxId = 3
  MaxFlips = 1
  MaxFrames = 1
SPECIFICATION Spec
INVARIANTS IdsCycle
