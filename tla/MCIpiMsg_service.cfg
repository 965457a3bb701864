SPECIFICATION Spec
CONSTANTS
  NumHarts = 2
  PoolSize = 1
  Masks <- AllButNone
  Kinds = {"rfence", "fence_i", "send_ipi"}
  MaxCalls = 2
  Prompt = {"send_ipi"}
PROPERTIES
  MailNotOverwritten
  CallsReturn
  ImplementsRemoteFence
  SignalsArrive
CHECK_DEADLOCK FALSE
