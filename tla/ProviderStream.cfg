SPECIFICATION Spec
CONSTANTS
  Providers = {"anthropic", "openai", "google"}
  MaxFrags = 3
  MaxBlocks = 2
  Reasons = {"tool_use", "tool_calls", "refusal", "STOP", "unknown"}
INVARIANTS MessageIsFaithful TerminalIsTrue
PROPERTIES ImplementsAssistantFeed StreamSettles
