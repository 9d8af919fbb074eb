CONSTANTS
  Options <- MCOptions
  Words <- MCWords
  MaxWords = 5
SPECIFICATION CommandLineSpec
INVARIANTS CountsAreKept ValuesGoToTheirOption
