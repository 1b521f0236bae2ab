SPECIFICATION Spec
CONSTANTS
  Program = "Copy"
  SoundModes = {TRUE, FALSE}
  NoNode <- MCNoNode
  Node <- MCNode
  Func <- MCFunc
  Entries <- MCEntries
  Globals <- MCGlobals
  Body <- MCBody
  Params <- MCParams
  Return <- MCReturn
  ArgObject <- MCArgObject
  isDeclaration <- MCisDeclaration
  isAllocWrapper <- MCisAllocWrapper
  isHeapAllocatingFunction <- MCisHeapAllocatingFunction
  hasLibFacts <- MChasLibFacts
  LibFacts <- MCLibFacts
  targetsAt <- MCtargetsAt
INVARIANT ConstraintsApplied
CHECK_DEADLOCK FALSE
