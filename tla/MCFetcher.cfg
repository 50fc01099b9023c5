SPECIFICATION Spec
CONSTANTS
  a = a
  b = b
  c = c
  Adapters = {"hn", "lobsters", "reddit"}
  Ids = {a, b, c}
  Blank = ""
  Requests <- MCRequests
  Lists <- MCLists
  Narrowed = {"tag"}
  Unusable <- MCUnusable
  PageSize = 2
  Healthy = {"k2", "k3", "tag"}
  MaxFaults = 2
INVARIANTS
  TypeOK
  AnswerIsUnion
  FetchInv
  CompleteWithoutError
  RejectedTokenDropped
PROPERTY StoriesArrive
