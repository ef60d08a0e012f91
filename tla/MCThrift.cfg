CONSTANTS
  a = a
  b = b
  Clients <- MCClients
  Services <- MCServices
  Workers = 1
  Reusers <- MCReusers
  Programs <- MCPrograms
  Dialects <- MCDialects
  MaxPending = 2
SPECIFICATION Spec
INVARIANTS
  ArgsArrive
  ReplyOfThisCall
  OutcomeArrives
  InStep
PROPERTY
  ServedCallReturns
