SPECIFICATION Spec
CONSTANTS
  Frames <- AllFrames
  MaxFrames = 4
  MaxWire = 2
  MaxTurns = 3
INVARIANT TranscriptFaithful
INVARIANT OtpOnce
INVARIANT ClickCurrent
INVARIANT ErrorTells
INVARIANT GuessNeedsHold
