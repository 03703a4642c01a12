CONSTANTS
  Prompts = {2, 3}
  NoPrompt = None
  Budgets = {1, 2}
  NoBudget = Unbounded
  MaxTokens = 3
SPECIFICATION Spec
INVARIANTS
  TypeOK
  InputIsOwn
  CountsAddUp
  CutIsLength
