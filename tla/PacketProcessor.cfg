CONSTANTS
  s1 = s1
  s2 = s2
  Conns = {a, b}
  Sessions = {s1, s2}
  Components <- MCComponents
  Fragments = 3
  MaxPerRound = 2
  MaxAttempts <- MCMaxAttempts
SPECIFICATION ProcessorSpec
SYMMETRY ConnSymmetry
INVARIANTS BusinessOnWhole RepeatedOnlyUnanswered LeftOnlyByDiscard OncePerSending
CHECK_DEADLOCK FALSE
