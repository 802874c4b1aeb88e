\* Namespace-aware delete handler, namespace policy "all".
CONSTANTS
  Req = {r1, r2}
  Groups = {1, 2}
  n1 = n1
  NoNs = NoNs
  NoObj = NoObj
  Offsets = {0}
  Policy1 = "all"
  Namespaces <- MCNamespaces
  GroupsCount <- MCGroupsCount
  SuccessCopies <- MCSuccessCopies
  NeedsAuth <- MCNeedsAuth
  Ts = {0}
  DieLimit = 1
  MaxLive = 1
  DeleteHandler = "namespace"

SPECIFICATION Spec

INVARIANT TypeOK
INVARIANT AtMostOneReply
INVARIANT NoUnauthorizedRemove
INVARIANT GetUnpacksEmbeddedObject
PROPERTY ReplyEventually
