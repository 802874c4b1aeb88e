------------------------- MODULE MC_ProxyRequests -------------------------
(***************************************************************************)
(* Instantiation of ProxyRequests for TLC: two concurrent requests, two    *)
(* replica groups and one namespace "n1" that requires credentials and    *)
(* writes both groups.  The success policy is chosen per configuration.   *)
(***************************************************************************)
EXTENDS ProxyRequests

CONSTANTS n1, Policy1

MCNamespaces == {n1}
MCGroupsCount == [n \in MCNamespaces |-> Cardinality(Groups)]
MCSuccessCopies == [n \in MCNamespaces |-> Policy1]
MCNeedsAuth == [n \in MCNamespaces |-> TRUE]
=============================================================================
