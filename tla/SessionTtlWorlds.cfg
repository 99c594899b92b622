SPECIFICATION Spec
CONSTANTS
  Requests = {r1, r2}
  Values = {v1, v2}
  Prompts <- MCPrompts
  TTL = 2
  MaxLlm = 1
  Worlds <- MCWorlds
INVARIANTS ProviderGoesFirst RetentionBounded PromptUnambiguous OwnerRefusedAtTheEnd AnswerMeansPrompt CounterExpires
CHECK_DEADLOCK FALSE
