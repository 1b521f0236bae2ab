SPECIFICATION Spec
CONSTANTS
  Module = "Phi"
  LazyModes = {TRUE, FALSE}
  FixpointModes = {TRUE, FALSE}
  NoValue <- MCNoValue
  NoFunction <- MCNoFunction
  Functions <- MCFunctions
  Func <- MCFunc
  GlobalObject <- MCGlobalObject
  Value <- MCValue
  FunctionOf <- MCFunctionOf
  isDeclaration <- MCisDeclaration
  TypeOf <- MCTypeOf
  Args <- MCArgs
  ReturnValues <- MCReturnValues
  VarArgs <- MCVarArgs
  InitializerGlobals <- MCInitializerGlobals
  EntryPoints <- MCEntryPoints
  Instructions <- MCInstructions
  mayAlias <- MCmayAlias
  targetsAt <- MCtargetsAt
  SetId <- MCSetId
  FunctionOps <- functionOps
  UserOps <- globalOps
  ConstructorOps <- constructorOps
INVARIANT MayAliasMerged
CHECK_DEADLOCK FALSE
