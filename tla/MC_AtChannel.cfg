CONSTANTS
  Handlers <- MCHandlers
  Requesters <- MCRequesters
  Program <- MCProgram
  InitSteps <- MCInitSteps
  Kinds <- MCKinds
  ReplyOf <- MCReplyOf
  UnsolKinds <- MCUnsolKinds
  InitConv = InitConv
  None = None
  MaxOpens = 2
  MaxUnsol = 1

SPECIFICATION Spec

INVARIANT TypeOK
INVARIANT NoDanglingFilter
PROPERTY ConversationReturns

CHECK_DEADLOCK FALSE
