SPECIFICATION Spec
CONSTANTS
  Root = "devices"
  Trees <- MCTrees
  Requests <- MCRequests
  Calls = 2
  Chunk = 8
  Behind <- MCBehind
  MayUnplug = {TRUE, FALSE}
INVARIANTS TypeOK FindsFirst NeverAstray
PROPERTY Returns
CHECK_DEADLOCK FALSE
