SPECIFICATION Spec
CONSTANTS
  Token = {"a", "b"}
  Prompts <- MCPrompts
  Sessions = {1, 2}
  Scopes = {1, 2}
  Likely <- MCLikely
  Batch = 2
  MaxOutput = 2
  ContextSize = 5
INVARIANTS
  KvInv
PROPERTIES
  ImplementsTranslation
  RequestsEnd
CHECK_DEADLOCK FALSE
