SPECIFICATION Spec
CONSTANTS
  None = None
  Files <- MCFiles
  Contexts <- MCContexts
  Budgets <- MCBudgets
  MaxRuns = 0
  MaxColony = 4
INVARIANT LevelMatchesBand
\* The scan is completed, or the file could not be parsed.
CHECK_DEADLOCK FALSE
