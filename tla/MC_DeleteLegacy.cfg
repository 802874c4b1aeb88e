\* delete.cpp delete handler, namespace policy "any": it still answers every request.
CONSTANTS
  Req = {r1, r2}
  Groups = {1, 2}
  n1 = n1
  NoNs = NoNs
  NoObj = NoObj
  Offsets = {0}
  Policy1 = "any"
  Namespaces <- MCNamespaces
  GroupsCount <- MCGroupsCount
  SuccessCopies <- MCSuccessCopies
  NeedsAuth <- MCNeedsAuth
  Ts = {0}
  DieLimit = 1
  MaxLive = 1
  DeleteHandler = "delete_cpp"

SPECIFICATION Spec


PROPERTY ReplyEventually
