---------------------------- MODULE HttpExchange ----------------------------
(***************************************************************************)
(* What the proxy promises every HTTP request, as spec 4.4, 7 and 9 state *)
(* it: a request is either rejected during dispatch, with a validation,   *)
(* auth or precondition code and before any storage operation, or it is   *)
(* dispatched and later completed by its callback with a code of its      *)
(* endpoint ("Dispatched -> Completed(result)").  Either way it gets one   *)
(* response, and a dispatched request always completes.                    *)
(***************************************************************************)
EXTENDS Sequences

CONSTANT Req

VARIABLES phase,  \* phase[r] \in {"idle", "dispatched", "done"}
          kind,   \* the endpoint of r
          reply   \* the response codes r received

vars == <<phase, kind, reply>>

Kinds == {"upload", "get", "delete", "dinfo", "ping"}

(* Codes of the dispatch phase (spec 7): validation 400, auth 401, no      *)
(* replica groups 404, precondition or unknown error 500; ping answers in *)
(* dispatch.                                                               *)
SyncCodes(k) ==
    CASE k = "upload" -> {400, 401, 500}
      [] k = "delete" -> {400, 401, 404, 500}
      [] k = "ping"   -> {200, 500}
      [] OTHER        -> {404, 500}

(* Codes of the completion callback: no validation or auth codes there.    *)
AsyncCodes(k) ==
    CASE k = "upload" -> {200, 500}
      [] k = "get"    -> {200, 304, 404, 500}
      [] k = "delete" -> {200, 404, 500}
      [] OTHER        -> {200, 404, 500, 503}

Init == /\ phase = [r \in Req |-> "idle"]
        /\ kind = [r \in Req |-> "none"]
        /\ reply = [r \in Req |-> <<>>]

Reject(r) ==
    /\ phase[r] = "idle"
    /\ \E k \in Kinds : \E c \in SyncCodes(k) :
         /\ phase' = [phase EXCEPT ![r] = "done"]
         /\ kind' = [kind EXCEPT ![r] = k]
         /\ reply' = [reply EXCEPT ![r] = <<c>>]

Dispatch(r) ==
    /\ phase[r] = "idle"
    /\ \E k \in Kinds \ {"ping"} :
         /\ phase' = [phase EXCEPT ![r] = "dispatched"]
         /\ kind' = [kind EXCEPT ![r] = k]
    /\ UNCHANGED reply

Respond(r) ==
    /\ phase[r] = "dispatched"
    /\ \E c \in AsyncCodes(kind[r]) :
         /\ phase' = [phase EXCEPT ![r] = "done"]
         /\ reply' = [reply EXCEPT ![r] = <<c>>]
    /\ UNCHANGED kind

Next == \E r \in Req : Reject(r) \/ Dispatch(r) \/ Respond(r)

Spec == Init /\ [][Next]_vars /\ \A r \in Req : WF_vars(Respond(r))
=============================================================================
