SPECIFICATION Spec
CONSTANTS
  Module = "Calls"
  LazyModes = {TRUE, FALSE}
  FixpointModes = {TRUE, FALSE}
  NoValue <- MCNoValue
  NoFunction <- MCNoFunction
  Functions <- MCFunctions
  Func <- MCFunc
  GlobalObject <- MCGlobalObject
  Value <- MCValue
  FunctionOf <- MCFunctionOf
  isDeclaration <- MCisDeclaration
  TypeOf <- MCTypeOf
  Args <- MCArgs
  ReturnValues <- MCReturnValues
  VarArgs <- MCVarArgs
  InitializerGlobals <- MCInitializerGlobals
  EntryPoints <- MCEntryPoints
  Instructions <- MCInstructions
  mayAlias <- MCmayAlias
  targetsAt <- MCtargetsAt
  SetId <- MCSetId
  FunctionOps <- functionOps
  UserOps <- globalOps
  ConstructorOps <- constructorOps
INVARIANTS Partition MergeReady CountExact LeastCallGraph
PROPERTIES AliasesOnlyGrow AliasSpec Termination
CHECK_DEADLOCK FALSE
