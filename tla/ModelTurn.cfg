\* Budgets around every boundary; the schemas of a tool against what a model may generate
\* and what a provider may send.
CONSTANTS
  MaxChars = 12
  MemoryLimit = 2
  Heading = 2
  Prompts <- MCPrompts
  Tasks <- MCTasks
  Memories <- MCMemories
  Schemas <- MCSchemas
  Generated <- MCGenerated
  Payloads <- MCPayloads
  Registers <- MCRegisters
  Admits <- MCAdmits
  Equals <- MCEquals
  Means <- MCMeans
  Same <- MCSame
  Judges <- MCJudges
  Nests <- MCNests
SPECIFICATION Spec
CHECK_DEADLOCK FALSE
INVARIANTS BudgetKept TaskBeforeMemory BestMemoryFirst NoMarkupAsText CallsAreAdmissible AdmittedIsValid
