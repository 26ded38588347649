SPECIFICATION Spec
CONSTANTS
  None = None
  Files <- MCFiles
  Contexts <- MCContexts
  Budgets <- MCBudgets
  MaxRuns = 1
  MaxColony = 4
INVARIANTS TypeOK AggregatesAgree PathsAreGrounded FixNeverRaisesRisk
  PlansAreSound FormatsAgree ParsedOnEvidence
\* The scan is completed, or the file could not be parsed.
CHECK_DEADLOCK FALSE
