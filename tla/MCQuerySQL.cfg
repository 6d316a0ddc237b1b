SPECIFICATION Spec
CONSTANTS
  Requests <- MCRequests
  Effects <- MCEffects
  Lower <- MCLower
  Tails = {"", "E"}
  Width = 16
  MaxVariables = 3
INVARIANTS
  TypeOK
  VariablesGiven
  RowsReachClient
  ChangesReachClient
  OnlyFailuresLeak
CHECK_DEADLOCK FALSE
