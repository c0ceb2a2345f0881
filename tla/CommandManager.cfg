SPECIFICATION ConsoleSpec
CONSTANTS
  Names = {help, stop, list}
  Executors = {e1}
  Unset = unset
  Nothing = nothing
  MaxCommands = 3
INVARIANT ExecuteRunsExisting
\* The process may end.
CHECK_DEADLOCK FALSE
