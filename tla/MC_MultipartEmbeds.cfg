\* Uploads in parts: a later part is written at a nonzero offset.
CONSTANTS
  Req = {r1, r2, r3}
  Groups = {1}
  n1 = n1
  NoNs = NoNs
  NoObj = NoObj
  Offsets = {0, 1}
  Policy1 = "all"
  Namespaces <- MCNamespaces
  GroupsCount <- MCGroupsCount
  SuccessCopies <- MCSuccessCopies
  NeedsAuth <- MCNeedsAuth
  Ts = {0}
  DieLimit = 1
  MaxLive = 1
  DeleteHandler = "namespace"

SPECIFICATION Spec
INVARIANT GetUnpacksEmbeddedObject
