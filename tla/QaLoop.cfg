\* The cases are run twice.
CONSTANTS
  m1 = m1
  c1 = c1
  None = None
  Zero = 0
  Default = 400
  Amount <- MCAmount
  Tier <- MCTier
  Case <- MCCase
  Deck <- MCDeck
  Told <- MCTold
  Errors <- MCErrors
  JudgeFails = TRUE
  MaxRounds = 2
SPECIFICATION Spec
INVARIANTS
  DeterminationTells
  StrongPassEarned
  DefectsOfProduct
  RegressionReported
  ExpectsWhatIsPinned
\* The campaign is over after its last run.
CHECK_DEADLOCK FALSE
