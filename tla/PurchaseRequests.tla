-------------------------- MODULE PurchaseRequests --------------------------
(***************************************************************************)
(* PurchaseRequestService (src/src/purchase-request): a client asks for a  *)
(* template, an admin approves or rejects, client or admin cancels, and an *)
(* approval creates the Purchase in the same database transaction.         *)
(*                                                                         *)
(* A handler is one HTTP call being served.  Every await of the service is *)
(* a step of its own, so two handlers interleave wherever Node may switch  *)
(* between them; an interactive $transaction is one step, the one in which *)
(* it commits or rolls back (its first statement locks the request's row   *)
(* until then, and readers see the committed row).                         *)
(***************************************************************************)
EXTENDS Naturals, FiniteSets

CONSTANTS Handlers,         \* calls that can be served at the same time
          Users, Admins,    \* accounts, and those with role ADMIN
          Templates,        \* rows of templates (the code never deletes one)
          UnknownTemplate,  \* a templateId that names no row
          RequestIds,       \* ids purchaseRequest.create can draw
          Slugs,            \* values of `invite-${randomUUID().substring(0, 8)}`
          Phones,           \* contact phones, trimmed
          Blank,            \* a contact phone of spaces only: "" once trimmed
          Nil               \* null, undefined, no row

ASSUME ConstantsAssumption ==
    /\ Admins \subseteq Users
    /\ UnknownTemplate \notin Templates
    /\ Blank \notin Phones
    /\ Nil \notin Phones \cup {Blank} \cup [user : Users \ Admins, template : Templates]

Statuses == {"PENDING", "APPROVED", "REJECTED", "CANCELLED"}

Clients == Users \ Admins
ContactPhones == Phones \cup {Blank}

VARIABLES order,      \* order[r]: the client and template of row r of purchase_requests, or Nil
          status,     \* status[r]: its status, "NONE" while there is no row
          purchases,  \* rows of purchases
          phone,      \* phone[u]: users.phone_number
          at,         \* at[h]: the await handler h is about to issue
          call,       \* call[h]: caller, params and dto of the call h serves
          seen        \* seen[h]: the order updateStatus has read

rows == <<order, status, purchases, phone>>
vars == <<order, status, purchases, phone, at, call, seen>>

Orders == [user : Clients, template : Templates]
Purchases == [req : RequestIds, order : Orders, slug : Slugs]

CreateCalls == [user : Clients, template : Templates \cup {UnknownTemplate}, phone : ContactPhones]
StatusCalls == [req : RequestIds, status : Statuses]
CancelCalls == [req : RequestIds, user : Users]

CreateSteps == {"findTemplate", "insertRequest", "readUser", "findPhone", "adoptPhone"}
StatusSteps == {"readForStatus", "statusTx"}
CancelSteps == {"readForCancel", "writeCancel"}

-----------------------------------------------------------------------------
Goto(h, step) ==
    /\ at' = [at EXCEPT ![h] = step]
    /\ UNCHANGED <<call, seen>>

End(h) ==
    /\ at' = [at EXCEPT ![h] = "idle"]
    /\ call' = [call EXCEPT ![h] = Nil]
    /\ seen' = [seen EXCEPT ![h] = Nil]

Begin(h, step, c) ==
    /\ at[h] = "idle"
    /\ at' = [at EXCEPT ![h] = step]
    /\ call' = [call EXCEPT ![h] = c]
    /\ UNCHANGED <<order, status, purchases, phone, seen>>

FreeIds == {r \in RequestIds : status[r] = "NONE"}
Creating == {h \in Handlers : at[h] \in {"findTemplate", "insertRequest"}}

\* bound: a create call starts only while an unused id is left for it
RoomForRequest == Cardinality(Creating) < Cardinality(FreeIds)

-----------------------------------------------------------------------------
(* POST /purchase-requests, role CLIENT *)

BeginCreate(h) ==
    /\ RoomForRequest
    /\ \E c \in CreateCalls : Begin(h, "findTemplate", c)

FindTemplate(h) ==
    /\ at[h] = "findTemplate"
    /\ IF call[h].template \in Templates THEN Goto(h, "insertRequest") ELSE End(h)
    /\ UNCHANGED rows

InsertRequest(h) ==
    /\ at[h] = "insertRequest"
    /\ \E r \in FreeIds :
           /\ order' = [order EXCEPT ![r] = [user |-> call[h].user, template |-> call[h].template]]
           /\ status' = [status EXCEPT ![r] = "PENDING"]
    /\ Goto(h, "readUser")
    /\ UNCHANGED <<purchases, phone>>

\* null and "" both count as "no phone number"
ReadUser(h) ==
    /\ at[h] = "readUser"
    /\ IF phone[call[h].user] \in {Nil, Blank} THEN Goto(h, "findPhone") ELSE End(h)
    /\ UNCHANGED rows

PhoneTaken(p) == \E u \in Users : phone[u] = p

FindPhone(h) ==
    /\ at[h] = "findPhone"
    /\ IF PhoneTaken(call[h].phone) THEN End(h) ELSE Goto(h, "adoptPhone")
    /\ UNCHANGED rows

\* users.phone_number is unique: a number another row holds by now refuses the update
AdoptPhone(h) ==
    /\ at[h] = "adoptPhone"
    /\ LET u == call[h].user  p == call[h].phone
       IN  IF \E v \in Users \ {u} : phone[v] = p
           THEN End(h) /\ UNCHANGED phone
           ELSE End(h) /\ phone' = [phone EXCEPT ![u] = p]
    /\ UNCHANGED <<order, status, purchases>>

-----------------------------------------------------------------------------
(* PATCH /purchase-requests/:id/status, role ADMIN *)

\* the dto's @IsEnum(RequestStatus) lets every status through
BeginUpdateStatus(h) == \E c \in StatusCalls : Begin(h, "readForStatus", c)

\* mutant: the status of the row is not looked at
Pending_AnyStatus(r) == status[r] # "NONE"

\* the row exists and is PENDING
Pending(r) == status[r] = "PENDING"

ReadForStatus(h) ==
    /\ at[h] = "readForStatus"
    /\ IF Pending(call[h].req)
       THEN /\ seen' = [seen EXCEPT ![h] = order[call[h].req]]
            /\ at' = [at EXCEPT ![h] = "statusTx"]
            /\ UNCHANGED call
       ELSE End(h)
    /\ UNCHANGED rows

\* mutant: only the slug is indexed
KeyTaken_SlugOnly(r, slug) == \E p \in purchases : p.slug = slug

\* purchases.purchase_request_id and purchases.slug are unique
KeyTaken(r, slug) == \E p \in purchases : p.req = r \/ p.slug = slug

\* mutant: every status but REJECTED buys
Approves_NotRejected(h) == call[h].status # "REJECTED"

Approves(h) == call[h].status = "APPROVED"

SetStatus(h) == status' = [status EXCEPT ![call[h].req] = call[h].status]

\* mutant: no transaction, so a refused purchase leaves the status written
StatusTx_NotAtomic(h) ==
    /\ at[h] = "statusTx"
    /\ SetStatus(h)
    /\ End(h)
    /\ UNCHANGED <<order, purchases, phone>>

StatusTx(h) ==
    /\ at[h] = "statusTx"
    /\ \/ /\ ~Approves(h)
          /\ SetStatus(h)
          /\ End(h)
          /\ UNCHANGED purchases
       \/ /\ Approves(h)
          /\ \E slug \in Slugs :
                 \/ /\ ~KeyTaken(call[h].req, slug)
                    /\ SetStatus(h)
                    /\ End(h)
                    /\ purchases' = purchases \cup
                           {[req |-> call[h].req, order |-> seen[h], slug |-> slug]}
                 \/ /\ KeyTaken(call[h].req, slug)      \* the whole transaction rolls back
                    /\ End(h)
                    /\ UNCHANGED <<status, purchases>>
    /\ UNCHANGED <<order, phone>>

-----------------------------------------------------------------------------
(* PATCH /purchase-requests/:id/cancel, roles CLIENT and ADMIN *)

BeginCancel(h) == \E c \in CancelCalls : Begin(h, "readForCancel", c)

MayCancel(u, r) == order[r].user = u \/ u \in Admins

ReadForCancel(h) ==
    /\ at[h] = "readForCancel"
    /\ IF Pending(call[h].req) /\ MayCancel(call[h].user, call[h].req)
       THEN Goto(h, "writeCancel")
       ELSE End(h)
    /\ UNCHANGED rows

WriteCancel(h) ==
    /\ at[h] = "writeCancel"
    /\ status' = [status EXCEPT ![call[h].req] = "CANCELLED"]
    /\ End(h)
    /\ UNCHANGED <<order, purchases, phone>>

-----------------------------------------------------------------------------
\* an awaited database call throws, or the process dies and takes the call with it
Crash(h) ==
    /\ at[h] # "idle"
    /\ End(h)
    /\ UNCHANGED rows

Init ==
    /\ order = [r \in RequestIds |-> Nil]
    /\ status = [r \in RequestIds |-> "NONE"]
    /\ purchases = {}
    /\ phone \in [Users -> Phones \cup {Nil}]
    /\ \A u, v \in Users : phone[u] = phone[v] => u = v \/ phone[u] = Nil
    /\ at = [h \in Handlers |-> "idle"]
    /\ call = [h \in Handlers |-> Nil]
    /\ seen = [h \in Handlers |-> Nil]

\* one step of the service on behalf of h
Serve(h) ==
    \/ FindTemplate(h) \/ InsertRequest(h) \/ ReadUser(h) \/ FindPhone(h) \/ AdoptPhone(h)
    \/ ReadForStatus(h) \/ StatusTx(h)
    \/ ReadForCancel(h) \/ WriteCancel(h)

Arrive(h) == BeginCreate(h) \/ BeginUpdateStatus(h) \/ BeginCancel(h)

Next == \E h \in Handlers : Arrive(h) \/ Serve(h) \/ Crash(h)

Spec == Init /\ [][Next]_vars

-----------------------------------------------------------------------------
(* Decisions on one request, one at a time: what the read-then-write of    *)
(* updateStatus and cancel silently assumes                                *)

Deciding(h) == at[h] \in StatusSteps \cup CancelSteps

OneDecisionPerRequest ==
    \A h, g \in Handlers :
        Deciding(h) /\ Deciding(g) /\ call[h].req = call[g].req => h = g

SerialSpec == Init /\ [][Next /\ OneDecisionPerRequest']_vars

-----------------------------------------------------------------------------
RowTypes ==
    /\ order \in [RequestIds -> Orders \cup {Nil}]
    /\ status \in [RequestIds -> Statuses \cup {"NONE"}]
    /\ \A r \in RequestIds : status[r] = "NONE" <=> order[r] = Nil
    /\ purchases \subseteq Purchases
    /\ phone \in [Users -> ContactPhones \cup {Nil}]

CallTypes ==
    /\ at \in [Handlers -> CreateSteps \cup StatusSteps \cup CancelSteps \cup {"idle"}]
    /\ call \in [Handlers -> CreateCalls \cup StatusCalls \cup CancelCalls \cup {Nil}]
    /\ seen \in [Handlers -> Orders \cup {Nil}]

\* what a handler has learnt by the time it stands at a step
CallFacts(h) ==
    /\ at[h] \in CreateSteps => call[h] \in CreateCalls
    /\ at[h] \in CreateSteps \ {"findTemplate"} => call[h].template \in Templates
    /\ at[h] \in StatusSteps => call[h] \in StatusCalls
    /\ at[h] \in CancelSteps => call[h] \in CancelCalls
    /\ at[h] = "statusTx" => seen[h] # Nil /\ seen[h] = order[call[h].req]
    /\ at[h] = "writeCancel" => status[call[h].req] # "NONE"

(* Every variable stays within its type, and a handler that is about to     *)
(* write holds a row that exists and, in updateStatus, is the one it read.  *)
TypeOK == RowTypes /\ CallTypes /\ \A h \in Handlers : CallFacts(h)

(* An approved request has its purchase: the status update and the insert   *)
(* of updateStatus commit together or not at all, whatever raced with them. *)
ApprovedHasPurchase ==
    \A r \in RequestIds :
        status[r] = "APPROVED" => \E p \in purchases : p.req = r

(* A purchase belongs to the client and the template of its request, though *)
(* updateStatus copies them from the row it read before the transaction.    *)
PurchaseMatchesRequest ==
    \A p \in purchases : status[p.req] # "NONE" /\ p.order = order[p.req]

(* A request is bought at most once and no invitation slug is given twice,  *)
(* even when two approvals, or an approval and a re-approval, are served.   *)
BoughtOnce ==
    \A p, q \in purchases : p.req = q.req \/ p.slug = q.slug => p = q

(* A client's order lends its contact phone to one account at most.         *)
PhonesUnique ==
    \A u, v \in Users : phone[u] = phone[v] /\ phone[u] # Nil => u = v

(* A purchase appears in the step that makes its request APPROVED, and no   *)
(* step of the component takes one away.                                    *)
PurchaseOnlyByApproval ==
    [][/\ purchases \subseteq purchases'
       /\ \A p \in purchases' \ purchases : status'[p.req] = "APPROVED"]_vars

(* Serialised decisions implement the lifecycle of OrderLifecycle: PENDING  *)
(* once, resolved once, bought in the step that approves.                   *)
Lifecycle == INSTANCE OrderLifecycle WITH
    bought <- {p.req : p \in purchases}

LifecycleSpec == Lifecycle!Spec

-----------------------------------------------------------------------------
(* A claim of a comment that two concurrent calls break.                    *)

(* purchase-request.service.ts:151 "Only PENDING requests can be            *)
(* transitioned": a resolved request keeps its status.                      *)
ResolvedIsFinal ==
    [][\A r \in RequestIds :
           status[r] \notin {"NONE", "PENDING"} => status'[r] = status[r]]_vars
=============================================================================
