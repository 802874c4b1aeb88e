\* src/src/delete.cpp: the 401 path falls through and removes.
CONSTANTS
  Req = {r1, r2}
  Groups = {1, 2}
  n1 = n1
  NoNs = NoNs
  NoObj = NoObj
  Offsets = {0}
  Policy1 = "all"
  Namespaces <- MCNamespaces
  GroupsCount <- MCGroupsCount
  SuccessCopies <- MCSuccessCopies
  NeedsAuth <- MCNeedsAuth
  Ts = {0}
  DieLimit = 1
  MaxLive = 1
  DeleteHandler = "delete_cpp"

SPECIFICATION Spec

INVARIANT NoUnauthorizedRemove
