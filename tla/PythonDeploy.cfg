CONSTANTS
  Slugs = {"a", "b"}
  Branches = {"main", "dev"}
  None = None
  Initial <- MCInitial
  Calls = 2
  Edits = 0
SPECIFICATION Spec
CHECK_DEADLOCK FALSE
INVARIANT PythonUploadsScaffold
