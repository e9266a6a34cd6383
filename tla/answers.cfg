SPECIFICATION Answers
CONSTANTS
  a1 = a1
  a2 = a2
  None = None
  Account <- MCAccount
  KindOf <- MCKindOf
  Mode = {"all", "compound"}
  MaxTokens = 1
  NSeats = 3
  OptionLists <- MCOptionLists
  MaxRounds = 1
  Requested <- MCRequested
  WizardLogin = {w1, w2}
  OtherLogin = {o1}
  Antigravity = ag
  StateMax = 3
  MaxTicks = 1
  NoLogin = NoLogin
  Adapter = {"claude", "claude_custom", "openai", "openai_compat", "antigravity", "cliproxy", "goose", "aider"}
  Index = {0, 1}
  MaxLines = 4
INVARIANTS TypesOK CollectedIsShown CouncilKeepsRules  
PROPERTIES KeepsPromise RequestsEnd
\* A request that is over stays so.
CHECK_DEADLOCK FALSE
