\* proxy.cpp delete handler (no namespace, no auth), namespace policy "quorum".
CONSTANTS
  Req = {r1, r2}
  Groups = {1, 2}
  n1 = n1
  NoNs = NoNs
  NoObj = NoObj
  Offsets = {0}
  Policy1 = "quorum"
  Namespaces <- MCNamespaces
  GroupsCount <- MCGroupsCount
  SuccessCopies <- MCSuccessCopies
  NeedsAuth <- MCNeedsAuth
  Ts = {0}
  DieLimit = 1
  MaxLive = 1
  DeleteHandler = "proxy_cpp"

SPECIFICATION Spec

INVARIANT AtMostOneReply
PROPERTIES ReplyEventually ImplementsHttpExchange
