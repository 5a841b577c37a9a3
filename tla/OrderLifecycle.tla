--------------------------- MODULE OrderLifecycle ---------------------------
(***************************************************************************)
(* What the purchase-request component promises, without its handlers: a   *)
(* request is submitted PENDING, leaves PENDING once, and an approval and  *)
(* the purchase it creates are one step.  This is the contract stated by   *)
(* the comments and error texts of purchase-request.service.ts ("Only      *)
(* PENDING requests can be transitioned") and by prisma/schema.prisma ("A  *)
(* purchase record created when a PurchaseRequest is approved").           *)
(***************************************************************************)
CONSTANT RequestIds

VARIABLES status,   \* status[r]: the RequestStatus of r, or "NONE" before r exists
          bought    \* the requests for which a Purchase exists

lifecycleVars == <<status, bought>>

Init ==
    /\ status = [r \in RequestIds |-> "NONE"]
    /\ bought = {}

Submit(r) ==
    /\ status[r] = "NONE"
    /\ status' = [status EXCEPT ![r] = "PENDING"]
    /\ UNCHANGED bought

Approve(r) ==
    /\ status[r] = "PENDING"
    /\ status' = [status EXCEPT ![r] = "APPROVED"]
    /\ bought' = bought \cup {r}

Close(r) ==
    /\ status[r] = "PENDING"
    /\ \E s \in {"REJECTED", "CANCELLED"} : status' = [status EXCEPT ![r] = s]
    /\ UNCHANGED bought

Next == \E r \in RequestIds : Submit(r) \/ Approve(r) \/ Close(r)

Spec == Init /\ [][Next]_lifecycleVars
=============================================================================
