-------------------------- MODULE OrderToInvitation --------------------------
(***************************************************************************)
(* PurchaseRequests together with the call that lives on what it sells:    *)
(* InvitationService.create looks up a purchase, never its request, and    *)
(* makes the invitation of it in a later await.  Whether the order is an   *)
(* approved one, as the controller asks, is thus up to the decisions on    *)
(* the request.  Slugs, pages and the cache are InvitationPages' concern.  *)
(***************************************************************************)
EXTENDS PurchaseRequests

CONSTANT Openers   \* creations of invitations that can be served at the same time

VARIABLES invited,   \* requests whose purchase has an invitation
          opening,   \* opening[o]: the purchase o has found, or Nil
          overtaken, \* history, overtaken[h]: the request h has read PENDING was decided since
          raced      \* history: requests decided by such a call

invitations == <<invited, opening>>
jointVars == <<vars, invitations, overtaken, raced>>

Close(o) == opening' = [opening EXCEPT ![o] = Nil]

\* a client's own purchase that has no invitation
FindPurchase(o) ==
    /\ opening[o] = Nil
    /\ \E p \in purchases :
           /\ p.req \notin invited
           /\ opening' = [opening EXCEPT ![o] = p]
    /\ UNCHANGED <<vars, invited>>

\* invitations.purchase_id is unique
Insert(o) ==
    /\ opening[o] # Nil
    /\ invited' = invited \cup {opening[o].req}
    /\ Close(o)
    /\ UNCHANGED vars

\* the slug is taken, or the call is cut off
GiveUp(o) ==
    /\ opening[o] # Nil
    /\ Close(o)
    /\ UNCHANGED <<vars, invited>>

Deciders == {h \in Handlers : at[h] \in {"statusTx", "writeCancel"}}
Decided(r) == status'[r] # status[r]

\* bookkeeping that no action reads
Track ==
    /\ overtaken' = [h \in Handlers |->
           /\ h \in Deciders /\ at'[h] = at[h]
           /\ overtaken[h] \/ Decided(call[h].req)]
    /\ raced' = raced \cup
           {call[h].req : h \in {g \in Deciders :
                                     overtaken[g] /\ at'[g] # at[g] /\ Decided(call[g].req)}}

JointInit ==
    /\ Init
    /\ invited = {} /\ opening = [o \in Openers |-> Nil]
    /\ overtaken = [h \in Handlers |-> FALSE] /\ raced = {}

JointNext ==
    /\ \/ Next /\ UNCHANGED invitations
       \/ \E o \in Openers : FindPurchase(o) \/ Insert(o) \/ GiveUp(o)
    /\ Track

JointSpec == JointInit /\ [][JointNext]_jointVars

-----------------------------------------------------------------------------
(* invitation.controller.ts:50 "The client must have an APPROVED order for  *)
(* the chosen template": an invitation is one of a request that is approved *)
(* and stays so, unless two decisions on the request overlapped.            *)
InvitedIfApproved == \A r \in invited : status[r] = "APPROVED" \/ r \in raced

(* purchase-request.service.ts:151 "Only PENDING requests can be            *)
(* transitioned": a resolved request changes only by a decision that had    *)
(* read it PENDING before another one wrote it.                             *)
ResolvedUnlessRaced ==
    [][\A r \in RequestIds :
           status[r] \notin {"NONE", "PENDING"} /\ status'[r] # status[r] => r \in raced']_jointVars
=============================================================================
