SPECIFICATION Spec
CONSTANTS
  n1 = n1
  n2 = n2
  n3 = n3
  w1 = w1
  w2 = w2
  w3 = w3
  b1 = b1
  b2 = b2
  d1 = d1
  d2 = d2
  r1 = r1
  r2 = r2
  r3 = r3
  DbNodes <- MCNodes
  log_index <- MCLog
  NoLeader = NoLeader
  Writes <- MCWrites
  NoWrite = NoWrite
  Amounts = {10, 60}
  Opening = 50
  Buyers <- MCBuyers
  tickets <- MCTickets
  Ids <- MCIds
  Sources <- MCSources
  lower <- MCLower
  MaxTotal = 4
  agg_size = 1
  Dictionary <- MCDictionary
  Phrases <- MCPhrases
  Letters <- MCLetters
  MaxTyped = 4
  min_prefix_len = 2
  max_prefix_len = 3
  max_suggestions = 2
  Calls <- MCCalls
  Kinds <- MCKinds
  role <- MCRole
  NoRoute = NoRoute
  NoBreaker = NoBreaker
  bucket_size = 1
  failure_limit = 2
  success_limit = 1
  MaxRefills = 1
INVARIANT MustNotExcludes
CHECK_DEADLOCK FALSE
