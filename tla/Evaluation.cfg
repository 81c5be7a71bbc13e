\* Metrics of the runs, and what the gate makes of them over two versions.
CONSTANTS
  Case <- MCCase
  Expected <- MCExpected
  Chat <- MCChat
  Transcript <- MCTranscript
  Wording <- MCWording
  Run <- MCRun
  Tolerance = 1500
  MinN = 6
  DoneMinN = 1
  MaxVersion = 2
  MaxPromotions = 2
SPECIFICATION Spec
INVARIANTS
  DriftBounded
  OutputsAgree
  CasesKeptApart
  ScoreEarned
PROPERTIES
  PassNotWorse
