----------------------- MODULE PurchaseRequestsProofs -----------------------
(***************************************************************************)
(* Theorems about PurchaseRequests, for any number of handlers, users and  *)
(* requests: what holds whatever interleaves, what the lifecycle of        *)
(* OrderLifecycle needs besides, and what OrderToInvitation makes of it.   *)
(***************************************************************************)
EXTENDS OrderToInvitation, TLAPS

-----------------------------------------------------------------------------
(* Typing: one lemma per way a handler moves, one per action that writes. *)

LEMMA TypeInit == Init => TypeOK
BY ConstantsAssumption
   DEF Init, TypeOK, RowTypes, CallTypes, CallFacts,
       ContactPhones, CreateSteps, StatusSteps, CancelSteps

LEMMA TypeArrive ==
    ASSUME TypeOK, NEW h \in Handlers, Arrive(h)
    PROVE  TypeOK'
<1>1. \/ \E c \in CreateCalls : Begin(h, "findTemplate", c)
      \/ \E c \in StatusCalls : Begin(h, "readForStatus", c)
      \/ \E c \in CancelCalls : Begin(h, "readForCancel", c)
    BY DEF Arrive, BeginCreate, BeginUpdateStatus, BeginCancel
<1> QED
    BY <1>1 DEF TypeOK, RowTypes, CallTypes, CallFacts, Begin,
                CreateSteps, StatusSteps, CancelSteps

(* A call that ends leaves the other handlers' facts alone, as long as no   *)
(* row disappears or changes hands.                                         *)
LEMMA TypeEnd ==
    ASSUME TypeOK, NEW h \in Handlers, End(h),
           order' = order, status' \in [RequestIds -> Statuses \cup {"NONE"}],
           \A q \in RequestIds : status'[q] = "NONE" <=> status[q] = "NONE"
    PROVE  CallTypes' /\ \A g \in Handlers : CallFacts(g)'
BY DEF TypeOK, RowTypes, CallTypes, CallFacts, End, CreateSteps, StatusSteps, CancelSteps,
       StatusCalls, CancelCalls

LEMMA TypeServe ==
    ASSUME TypeOK, NEW h \in Handlers, Serve(h) \/ Crash(h)
    PROVE  TypeOK'
<1> USE DEF rows
<1>1. CASE End(h) /\ UNCHANGED rows
    <2>1. CallTypes' /\ \A g \in Handlers : CallFacts(g)'
        BY <1>1, TypeEnd DEF TypeOK, RowTypes
    <2> QED BY <1>1, <2>1 DEF TypeOK, RowTypes
<1>2. CASE FindTemplate(h)
    BY <1>1, <1>2 DEF FindTemplate, Goto, TypeOK, RowTypes, CallTypes, CallFacts,
                      CreateSteps, StatusSteps, CancelSteps
<1>3. CASE InsertRequest(h)
    <2>1. PICK r \in FreeIds :
              /\ order' = [order EXCEPT ![r] = [user |-> call[h].user, template |-> call[h].template]]
              /\ status' = [status EXCEPT ![r] = "PENDING"]
        BY <1>3 DEF InsertRequest
    <2>2. r \in RequestIds /\ status[r] = "NONE" /\ order[r] = Nil
        BY <2>1 DEF FreeIds, TypeOK, RowTypes
    <2>3. call[h] \in CreateCalls /\ call[h].template \in Templates
        BY <1>3 DEF InsertRequest, TypeOK, CallFacts, CreateSteps
    <2>4. [user |-> call[h].user, template |-> call[h].template] \in Orders
        BY <2>3 DEF CreateCalls, Orders
    <2>5. RowTypes'
        <3>1. Nil \notin Orders
            BY ConstantsAssumption DEF Orders, Clients
        <3> QED BY <1>3, <2>1, <2>2, <2>4, <3>1 DEF InsertRequest, TypeOK, RowTypes, Statuses
    <2>6. CallTypes' /\ \A g \in Handlers : CallFacts(g)'
        BY <1>3, <2>1, <2>2, <2>3
           DEF InsertRequest, Goto, TypeOK, RowTypes, CallTypes, CallFacts,
               CreateSteps, StatusSteps, CancelSteps, StatusCalls, CancelCalls
    <2> QED BY <2>5, <2>6 DEF TypeOK
<1>4. CASE ReadUser(h) \/ FindPhone(h)
    BY <1>1, <1>4 DEF ReadUser, FindPhone, Goto, TypeOK, RowTypes, CallTypes, CallFacts,
                      CreateSteps, StatusSteps, CancelSteps
<1>5. CASE AdoptPhone(h)
    <2>1. call[h].user \in Users /\ call[h].phone \in ContactPhones
        BY <1>5 DEF AdoptPhone, TypeOK, CallFacts, CreateSteps, CreateCalls, Clients
    <2>2. CallTypes' /\ \A g \in Handlers : CallFacts(g)'
        BY <1>5, TypeEnd DEF AdoptPhone, TypeOK, RowTypes
    <2> QED BY <1>5, <2>1, <2>2 DEF AdoptPhone, TypeOK, RowTypes
<1>6. CASE ReadForStatus(h)
    <2>1. call[h].req \in RequestIds
        BY <1>6 DEF ReadForStatus, TypeOK, CallFacts, StatusSteps, StatusCalls
    <2> QED
        BY <1>1, <1>6, <2>1
           DEF ReadForStatus, Pending, TypeOK, RowTypes, CallTypes, CallFacts,
               CreateSteps, StatusSteps, CancelSteps
<1>7. CASE StatusTx(h)
    <2>1. /\ call[h].req \in RequestIds /\ call[h].status \in Statuses
          /\ seen[h] \in Orders /\ seen[h] = order[call[h].req]
          /\ status[call[h].req] # "NONE"
        BY <1>7 DEF StatusTx, TypeOK, RowTypes, CallTypes, CallFacts, StatusSteps, StatusCalls
    <2>2. "NONE" \notin Statuses
        BY DEF Statuses
    <2>3. /\ status' \in [RequestIds -> Statuses \cup {"NONE"}]
          /\ \A q \in RequestIds : status'[q] = "NONE" <=> status[q] = "NONE"
        BY <1>7, <2>1, <2>2 DEF StatusTx, SetStatus, TypeOK, RowTypes
    <2>4. CallTypes' /\ \A g \in Handlers : CallFacts(g)'
        BY <1>7, <2>3, TypeEnd DEF StatusTx
    <2>5. purchases' \subseteq Purchases
        BY <1>7, <2>1 DEF StatusTx, TypeOK, RowTypes, Purchases
    <2> QED BY <1>7, <2>3, <2>4, <2>5 DEF StatusTx, TypeOK, RowTypes
<1>8. CASE ReadForCancel(h)
    BY <1>1, <1>8 DEF ReadForCancel, Pending, Goto, TypeOK, RowTypes, CallTypes, CallFacts,
                      CreateSteps, StatusSteps, CancelSteps
<1>9. CASE WriteCancel(h)
    <2>1. call[h].req \in RequestIds /\ status[call[h].req] # "NONE"
        BY <1>9 DEF WriteCancel, TypeOK, CallFacts, CancelSteps, CancelCalls
    <2>2. /\ status' \in [RequestIds -> Statuses \cup {"NONE"}]
          /\ \A q \in RequestIds : status'[q] = "NONE" <=> status[q] = "NONE"
        BY <1>9, <2>1 DEF WriteCancel, TypeOK, RowTypes, Statuses
    <2>3. CallTypes' /\ \A g \in Handlers : CallFacts(g)'
        BY <1>9, <2>2, TypeEnd DEF WriteCancel
    <2> QED BY <1>9, <2>2, <2>3 DEF WriteCancel, TypeOK, RowTypes
<1>10. CASE Crash(h)
    BY <1>1, <1>10 DEF Crash
<1> QED
    BY <1>2, <1>3, <1>4, <1>5, <1>6, <1>7, <1>8, <1>9, <1>10 DEF Serve

LEMMA TypeStep == TypeOK /\ [Next]_vars => TypeOK'
<1>1. TypeOK /\ UNCHANGED vars => TypeOK'
    BY DEF vars, TypeOK, RowTypes, CallTypes, CallFacts
<1> QED
    BY <1>1, TypeArrive, TypeServe DEF Next

(* Every variable stays within its type; in particular updateStatus buys    *)
(* the order that its request still is.                                     *)
THEOREM Typing == Spec => []TypeOK
BY TypeInit, TypeStep, PTL DEF Spec

-----------------------------------------------------------------------------
(* The rows: what holds of requests, purchases and phones at once. *)

RowsInv == TypeOK /\ ApprovedHasPurchase /\ PurchaseMatchesRequest /\ BoughtOnce /\ PhonesUnique

LEMMA RowsInit == Init => RowsInv
BY TypeInit DEF Init, RowsInv, ApprovedHasPurchase, PurchaseMatchesRequest, BoughtOnce, PhonesUnique

(* The transaction of updateStatus either changes no row, sets a status     *)
(* other than APPROVED, or approves and buys at once.                       *)
LEMMA StatusTxEffect ==
    ASSUME TypeOK, NEW h \in Handlers, StatusTx(h)
    PROVE  /\ order' = order /\ phone' = phone
           /\ call[h].req \in RequestIds /\ status[call[h].req] # "NONE"
           /\ seen[h] = order[call[h].req]
           /\ call[h].status \in Statuses
           /\ \/ status' = status /\ purchases' = purchases
              \/ /\ call[h].status # "APPROVED"
                 /\ status' = [status EXCEPT ![call[h].req] = call[h].status]
                 /\ purchases' = purchases
              \/ /\ status' = [status EXCEPT ![call[h].req] = "APPROVED"]
                 /\ \E slug \in Slugs :
                        /\ ~KeyTaken(call[h].req, slug)
                        /\ purchases' = purchases \cup
                               {[req |-> call[h].req, order |-> seen[h], slug |-> slug]}
<1>1. /\ call[h].req \in RequestIds /\ call[h].status \in Statuses
      /\ status[call[h].req] # "NONE" /\ seen[h] = order[call[h].req]
    BY DEF StatusTx, TypeOK, RowTypes, CallFacts, StatusSteps, StatusCalls
<1>2. CASE ~Approves(h)
    BY <1>1, <1>2 DEF StatusTx, Approves, SetStatus
<1>3. CASE Approves(h)
    BY <1>1, <1>3 DEF StatusTx, Approves, SetStatus
<1> QED BY <1>2, <1>3

LEMMA RowsServe ==
    ASSUME RowsInv, NEW h \in Handlers, Serve(h) \/ Crash(h)
    PROVE  RowsInv'
<1> USE DEF RowsInv
<1>1. TypeOK'
    BY TypeServe
<1>2. CASE UNCHANGED rows
    BY <1>1, <1>2 DEF rows, ApprovedHasPurchase, PurchaseMatchesRequest, BoughtOnce, PhonesUnique
<1>3. CASE FindTemplate(h) \/ ReadUser(h) \/ FindPhone(h) \/ ReadForStatus(h)
              \/ ReadForCancel(h) \/ Crash(h)
    BY <1>2, <1>3 DEF FindTemplate, ReadUser, FindPhone, ReadForStatus, ReadForCancel, Crash
<1>4. CASE InsertRequest(h)
    <2>1. PICK r \in FreeIds :
              /\ order' = [order EXCEPT ![r] = [user |-> call[h].user, template |-> call[h].template]]
              /\ status' = [status EXCEPT ![r] = "PENDING"]
              /\ purchases' = purchases /\ phone' = phone
        BY <1>4 DEF InsertRequest
    <2>2. r \in RequestIds /\ status[r] = "NONE"
        BY <2>1 DEF FreeIds
    <2>3. PurchaseMatchesRequest'
        <3>1. \A p \in purchases : p.req \in RequestIds /\ p.req # r
            BY <2>2 DEF TypeOK, RowTypes, Purchases, PurchaseMatchesRequest
        <3> QED BY <2>1, <3>1 DEF TypeOK, RowTypes, PurchaseMatchesRequest
    <2>4. ApprovedHasPurchase'
        BY <2>1, <2>2 DEF TypeOK, RowTypes, ApprovedHasPurchase
    <2> QED BY <1>1, <2>1, <2>3, <2>4 DEF BoughtOnce, PhonesUnique
<1>5. CASE AdoptPhone(h)
    <2>1. /\ order' = order /\ status' = status /\ purchases' = purchases
          /\ \/ phone' = phone
             \/ /\ \A v \in Users \ {call[h].user} : phone[v] # call[h].phone
                /\ phone' = [phone EXCEPT ![call[h].user] = call[h].phone]
        BY <1>5 DEF AdoptPhone
    <2>2. call[h].user \in Users
        BY <1>5 DEF AdoptPhone, TypeOK, CallFacts, CreateSteps, CreateCalls, Clients
    <2>3. PhonesUnique'
        BY <2>1, <2>2 DEF TypeOK, RowTypes, PhonesUnique
    <2> QED
        BY <1>1, <2>1, <2>3 DEF ApprovedHasPurchase, PurchaseMatchesRequest, BoughtOnce
<1>6. CASE StatusTx(h)
    <2> DEFINE r == call[h].req
    <2>1. /\ order' = order /\ phone' = phone
          /\ r \in RequestIds /\ status[r] # "NONE" /\ seen[h] = order[r]
          /\ call[h].status \in Statuses
        BY <1>6, StatusTxEffect
    <2>2. PhonesUnique'
        BY <2>1 DEF PhonesUnique
    <2>3. CASE status' = status /\ purchases' = purchases
        BY <1>2, <2>1, <2>3 DEF rows
    <2>4. CASE /\ call[h].status # "APPROVED"
               /\ status' = [status EXCEPT ![r] = call[h].status]
               /\ purchases' = purchases
        <3>1. ApprovedHasPurchase'
            BY <2>1, <2>4 DEF TypeOK, RowTypes, ApprovedHasPurchase
        <3>2. PurchaseMatchesRequest'
            BY <2>1, <2>4 DEF TypeOK, RowTypes, Purchases, PurchaseMatchesRequest, Statuses
        <3> QED BY <1>1, <2>2, <2>4, <3>1, <3>2 DEF BoughtOnce
    <2>5. ASSUME NEW slug \in Slugs,
                 ~KeyTaken(r, slug),
                 status' = [status EXCEPT ![r] = "APPROVED"],
                 purchases' = purchases \cup {[req |-> r, order |-> seen[h], slug |-> slug]}
          PROVE  ApprovedHasPurchase' /\ PurchaseMatchesRequest' /\ BoughtOnce'
        <3> DEFINE new == [req |-> r, order |-> seen[h], slug |-> slug]
        <3>1. new.req = r /\ new.order = order[r] /\ new.slug = slug /\ new \in purchases'
            BY <2>1, <2>5
        <3> HIDE DEF new
        <3>2. ApprovedHasPurchase'
            BY <2>1, <2>5, <3>1 DEF TypeOK, RowTypes, ApprovedHasPurchase, new
        <3>3. PurchaseMatchesRequest'
            BY <2>1, <2>5, <3>1 DEF TypeOK, RowTypes, Purchases, PurchaseMatchesRequest, new
        <3>4. BoughtOnce'
            BY <2>5, <3>1 DEF BoughtOnce, KeyTaken, new
        <3> QED BY <3>2, <3>3, <3>4
    <2> QED BY <1>1, <1>6, <2>2, <2>3, <2>4, <2>5, StatusTxEffect
<1>7. CASE WriteCancel(h)
    <2>1. /\ status' = [status EXCEPT ![call[h].req] = "CANCELLED"]
          /\ order' = order /\ purchases' = purchases /\ phone' = phone
        BY <1>7 DEF WriteCancel
    <2>2. ApprovedHasPurchase'
        BY <2>1 DEF TypeOK, RowTypes, ApprovedHasPurchase
    <2>3. PurchaseMatchesRequest'
        BY <2>1 DEF TypeOK, RowTypes, Purchases, PurchaseMatchesRequest
    <2> QED BY <1>1, <2>1, <2>2, <2>3 DEF BoughtOnce, PhonesUnique
<1> QED
    BY <1>3, <1>4, <1>5, <1>6, <1>7 DEF Serve

LEMMA RowsStep == RowsInv /\ [Next]_vars => RowsInv'
<1>1. ASSUME RowsInv, TypeOK', UNCHANGED rows PROVE RowsInv'
    BY <1>1 DEF RowsInv, rows, ApprovedHasPurchase, PurchaseMatchesRequest, BoughtOnce, PhonesUnique
<1>2. ASSUME RowsInv, NEW h \in Handlers, Arrive(h) PROVE UNCHANGED rows
    BY <1>2 DEF Arrive, BeginCreate, BeginUpdateStatus, BeginCancel, Begin, rows
<1>3. UNCHANGED vars => UNCHANGED rows
    BY DEF vars, rows
<1> QED
    BY <1>1, <1>2, <1>3, TypeStep, RowsServe DEF Next, RowsInv

LEMMA RowsAlways == Spec => []RowsInv
BY RowsInit, RowsStep, PTL DEF Spec

(* An approved request has its purchase, however many calls race on it.     *)
THEOREM ApprovalBuys == Spec => []ApprovedHasPurchase
BY RowsAlways, PTL DEF RowsInv

(* A purchase carries the client and template of its request.               *)
THEOREM PurchasesMatch == Spec => []PurchaseMatchesRequest
BY RowsAlways, PTL DEF RowsInv

(* No two purchases share a request or a slug, however approvals race.      *)
THEOREM Uniqueness == Spec => []BoughtOnce
BY RowsAlways, PTL DEF RowsInv

(* Two orders that adopt the same contact phone do not both keep it.        *)
THEOREM PhonesAreUnique == Spec => []PhonesUnique
BY RowsAlways, PTL DEF RowsInv

-----------------------------------------------------------------------------
(* Steps *)

LEMMA BuysWell ==
    ASSUME TypeOK, NEW h \in Handlers, Arrive(h) \/ Serve(h) \/ Crash(h)
    PROVE  /\ purchases \subseteq purchases'
           /\ \A p \in purchases' \ purchases : status'[p.req] = "APPROVED"
<1>1. CASE StatusTx(h)
    BY <1>1, StatusTxEffect DEF TypeOK, RowTypes
<1>2. CASE ~StatusTx(h)
    <2>1. purchases' = purchases
        BY <1>2 DEF Arrive, BeginCreate, BeginUpdateStatus, BeginCancel, Begin, Serve, Crash, rows,
                    FindTemplate, InsertRequest, ReadUser, FindPhone, AdoptPhone,
                    ReadForStatus, ReadForCancel, WriteCancel
    <2> QED BY <2>1
<1> QED BY <1>1, <1>2

(* A purchase appears only in the step that approves its request, and stays. *)
THEOREM BuyingStep == Spec => PurchaseOnlyByApproval
<1> DEFINE Buys ==
        /\ purchases \subseteq purchases'
        /\ \A p \in purchases' \ purchases : status'[p.req] = "APPROVED"
<1>1. TypeOK /\ [Next]_vars => [Buys]_vars
    BY BuysWell DEF Next
<1> QED BY <1>1, Typing, PTL DEF Spec, PurchaseOnlyByApproval

-----------------------------------------------------------------------------
(***************************************************************************)
(* Refinement: when the decisions on a request are taken one at a time,    *)
(* the service implements OrderLifecycle.  What serialisation buys is that *)
(* a request a handler has found PENDING is still PENDING when it writes.  *)
(***************************************************************************)

StillPending ==
    \A h \in Handlers : at[h] \in {"statusTx", "writeCancel"} => Pending(call[h].req)

SerialInv == TypeOK /\ OneDecisionPerRequest /\ StillPending

LEMMA SerialInit == Init => SerialInv
BY TypeInit DEF Init, SerialInv, OneDecisionPerRequest, StillPending, Deciding,
                StatusSteps, CancelSteps

LEMMA SerialStep == SerialInv /\ [Next /\ OneDecisionPerRequest']_vars => SerialInv'
<1> SUFFICES ASSUME SerialInv, [Next /\ OneDecisionPerRequest']_vars PROVE SerialInv'
    OBVIOUS
<1> USE DEF SerialInv
<1>1. TypeOK'
    BY TypeStep
<1>2. CASE UNCHANGED vars
    BY <1>1, <1>2 DEF vars, OneDecisionPerRequest, StillPending, Deciding, Pending
<1>3. ASSUME NEW h \in Handlers, Arrive(h) \/ Serve(h) \/ Crash(h), OneDecisionPerRequest'
      PROVE  StillPending'
    <2>1. CASE Arrive(h)
        BY <2>1 DEF Arrive, BeginCreate, BeginUpdateStatus, BeginCancel, Begin,
                    TypeOK, CallTypes, StillPending, Pending
    <2>2. ASSUME End(h), status' = status PROVE StillPending'
        BY <2>2 DEF End, TypeOK, CallTypes, StillPending, Pending
    <2>3. CASE InsertRequest(h)
        BY <2>3 DEF InsertRequest, Goto, FreeIds, TypeOK, RowTypes, CallTypes, CallFacts,
                    StillPending, Pending, StatusSteps, CancelSteps, StatusCalls, CancelCalls
    <2>4. CASE FindTemplate(h) \/ ReadUser(h) \/ FindPhone(h) \/ ReadForCancel(h)
        BY <2>2, <2>4 DEF FindTemplate, ReadUser, FindPhone, ReadForCancel, Goto, rows,
                          TypeOK, CallTypes, StillPending, Pending
    <2>5. CASE AdoptPhone(h) \/ Crash(h)
        BY <2>2, <2>5 DEF AdoptPhone, Crash, rows
    <2>6. CASE ReadForStatus(h)
        BY <2>2, <2>6 DEF ReadForStatus, rows, TypeOK, CallTypes, StillPending, Pending
    <2>7. CASE StatusTx(h) \/ WriteCancel(h)
        <3>1. End(h)
            BY <2>7 DEF StatusTx, WriteCancel
        <3>2. \A q \in RequestIds : q # call[h].req => status'[q] = status[q]
            BY <2>7 DEF StatusTx, WriteCancel, SetStatus, TypeOK, RowTypes
        <3>3. ASSUME NEW g \in Handlers, g # h, at[g] \in {"statusTx", "writeCancel"}
              PROVE  call[g].req \in RequestIds /\ call[g].req # call[h].req
            <4>1. Deciding(g) /\ Deciding(h)
                BY <2>7, <3>3 DEF Deciding, StatusTx, WriteCancel, StatusSteps, CancelSteps
            <4> QED BY <3>3, <4>1 DEF OneDecisionPerRequest, TypeOK, CallFacts,
                                      StatusSteps, CancelSteps, StatusCalls, CancelCalls
        <3> QED BY <3>1, <3>2, <3>3 DEF End, TypeOK, CallTypes, StillPending, Pending
    <2> QED BY <1>3, <2>1, <2>3, <2>4, <2>5, <2>6, <2>7 DEF Serve
<1> QED BY <1>1, <1>2, <1>3 DEF Next

LEMMA LifecycleStep ==
    SerialInv /\ [Next]_vars => [Lifecycle!Next]_(Lifecycle!lifecycleVars)
<1> SUFFICES ASSUME SerialInv, [Next]_vars
             PROVE  Lifecycle!Next \/ UNCHANGED Lifecycle!lifecycleVars
    BY DEF Lifecycle!lifecycleVars
<1> USE DEF SerialInv
<1>1. status' = status /\ purchases' = purchases => UNCHANGED Lifecycle!lifecycleVars
    BY DEF Lifecycle!lifecycleVars
<1>2. CASE UNCHANGED vars
    BY <1>1, <1>2 DEF vars
<1>3. ASSUME NEW h \in Handlers, Arrive(h) \/ Serve(h) \/ Crash(h)
      PROVE  Lifecycle!Next \/ UNCHANGED Lifecycle!lifecycleVars
    <2>1. CASE Arrive(h) \/ Crash(h) \/ FindTemplate(h) \/ ReadUser(h) \/ FindPhone(h)
               \/ AdoptPhone(h) \/ ReadForStatus(h) \/ ReadForCancel(h)
        BY <1>1, <2>1 DEF Arrive, BeginCreate, BeginUpdateStatus, BeginCancel, Begin, Crash, rows,
                          FindTemplate, ReadUser, FindPhone, AdoptPhone, ReadForStatus, ReadForCancel
    <2>2. CASE InsertRequest(h)
        <3>1. PICK r \in RequestIds : /\ status[r] = "NONE" /\ purchases' = purchases
                                      /\ status' = [status EXCEPT ![r] = "PENDING"]
            BY <2>2 DEF InsertRequest, FreeIds
        <3> QED BY <3>1 DEF Lifecycle!Next, Lifecycle!Submit
    <2>3. CASE WriteCancel(h)
        <3>1. /\ call[h].req \in RequestIds /\ status[call[h].req] = "PENDING"
              /\ status' = [status EXCEPT ![call[h].req] = "CANCELLED"] /\ purchases' = purchases
            BY <2>3 DEF WriteCancel, TypeOK, CallFacts, CancelSteps, CancelCalls, StillPending, Pending
        <3> QED BY <3>1 DEF Lifecycle!Next, Lifecycle!Close
    <2>4. CASE StatusTx(h)
        <3> DEFINE r == call[h].req
        <3>1. r \in RequestIds /\ status[r] = "PENDING" /\ call[h].status \in Statuses
            BY <2>4, StatusTxEffect DEF StatusTx, StillPending, Pending
        <3>2. CASE status' = status /\ purchases' = purchases
            BY <1>1, <3>2
        <3>3. CASE /\ call[h].status # "APPROVED" /\ purchases' = purchases
                   /\ status' = [status EXCEPT ![r] = call[h].status]
            <4>1. CASE call[h].status = "PENDING"
                BY <1>1, <3>1, <3>3, <4>1 DEF TypeOK, RowTypes
            <4>2. CASE call[h].status \in {"REJECTED", "CANCELLED"}
                BY <3>1, <3>3, <4>2 DEF Lifecycle!Next, Lifecycle!Close
            <4> QED BY <3>1, <3>3, <4>1, <4>2 DEF Statuses
        <3>4. CASE /\ status' = [status EXCEPT ![r] = "APPROVED"]
                   /\ \E slug \in Slugs : purchases' = purchases \cup
                          {[req |-> r, order |-> seen[h], slug |-> slug]}
            <4>1. PICK p : p.req = r /\ purchases' = purchases \cup {p}
                <5>1. PICK slug \in Slugs : purchases' = purchases \cup
                          {[req |-> r, order |-> seen[h], slug |-> slug]}
                    BY <3>4
                <5>2. [req |-> r, order |-> seen[h], slug |-> slug].req = r
                    OBVIOUS
                <5> QED BY <5>1, <5>2
            <4>2. {q.req : q \in purchases'} = {q.req : q \in purchases} \cup {r}
                BY <4>1
            <4> QED BY <3>1, <3>4, <4>2 DEF Lifecycle!Next, Lifecycle!Approve
        <3>5. \/ status' = status /\ purchases' = purchases
              \/ /\ call[h].status # "APPROVED" /\ purchases' = purchases
                 /\ status' = [status EXCEPT ![r] = call[h].status]
              \/ /\ status' = [status EXCEPT ![r] = "APPROVED"]
                 /\ \E slug \in Slugs : purchases' = purchases \cup
                        {[req |-> r, order |-> seen[h], slug |-> slug]}
            BY <2>4, StatusTxEffect
        <3> QED BY <3>2, <3>3, <3>4, <3>5
    <2> QED BY <1>3, <2>1, <2>2, <2>3, <2>4 DEF Serve
<1> QED BY <1>2, <1>3 DEF Next

(* With one decision per request at a time, every behaviour of the service  *)
(* is a behaviour of the lifecycle: the read-then-write of updateStatus and *)
(* cancel lacks nothing else.                                               *)
THEOREM SerialImplementsLifecycle == SerialSpec => LifecycleSpec
<1>1. Init => Lifecycle!Init
    BY DEF Init, Lifecycle!Init
<1>2. [Next /\ OneDecisionPerRequest']_vars => [Next]_vars
    OBVIOUS
<1> QED
    BY <1>1, <1>2, SerialInit, SerialStep, LifecycleStep, PTL
       DEF SerialSpec, LifecycleSpec, Lifecycle!Spec

-----------------------------------------------------------------------------
(***************************************************************************)
(* OrderToInvitation.  A call between read and write of a request is       *)
(* overtaken or finds it still PENDING; so an approved request is          *)
(* rewritten by an overtaken call only.                                    *)
(***************************************************************************)

LEMMA JointInner == JointNext => [Next]_vars
BY DEF JointNext, FindPurchase, Insert, GiveUp

(* The creation of invitations adds nothing to what happens to requests,    *)
(* purchases and phones: all theorems above hold of the composition.        *)
THEOREM JointImplements == JointSpec => Spec
<1>1. [JointNext]_jointVars => [Next]_vars
    BY JointInner DEF jointVars
<1> QED BY <1>1, PTL DEF JointSpec, JointInit, Spec

LEMMA JointRows == JointSpec => []RowsInv
BY JointImplements, RowsAlways, PTL

Moves(h) == Arrive(h) \/ Serve(h) \/ Crash(h)

(* Only the write of a decision changes the status of a row that exists.    *)
LEMMA DecisionEffect ==
    ASSUME TypeOK, NEW h \in Handlers, Moves(h),
           NEW r \in RequestIds, status[r] # "NONE", Decided(r)
    PROVE  h \in Deciders /\ call[h].req = r /\ at'[h] = "idle"
<1>1. StatusTx(h) \/ WriteCancel(h)
    BY DEF Moves, Arrive, BeginCreate, BeginUpdateStatus, BeginCancel, Begin, Serve, Crash, rows,
           FindTemplate, InsertRequest, FreeIds, ReadUser, FindPhone, AdoptPhone,
           ReadForStatus, ReadForCancel, Decided, TypeOK, RowTypes
<1>2. h \in Deciders /\ End(h)
    BY <1>1 DEF StatusTx, WriteCancel, Deciders
<1>3. \A q \in RequestIds : q # call[h].req => status'[q] = status[q]
    BY <1>1 DEF StatusTx, WriteCancel, SetStatus, TypeOK, RowTypes
<1> QED BY <1>2, <1>3 DEF End, Decided, TypeOK, CallTypes

(* A call stays before its write or arrives there by its read.              *)
LEMMA DeciderStep ==
    ASSUME TypeOK, NEW h \in Handlers, Moves(h), NEW g \in Deciders'
    PROVE  \/ g \in Deciders /\ at'[g] = at[g] /\ call'[g] = call[g]
           \/ g \notin Deciders /\ call'[g] = call[g] /\ UNCHANGED status /\ Pending(call[g].req)
<1> USE DEF TypeOK, CallTypes
<1>1. CASE g # h
    BY <1>1 DEF Moves, Arrive, BeginCreate, BeginUpdateStatus, BeginCancel, Begin, Serve, Crash,
                FindTemplate, InsertRequest, ReadUser, FindPhone, AdoptPhone, ReadForStatus,
                StatusTx, ReadForCancel, WriteCancel, Goto, End, Deciders
<1>2. CASE g = h
    <2>1. ~End(h)
        BY <1>2 DEF End, Deciders
    <2>2. ReadForStatus(h) \/ ReadForCancel(h)
        BY <1>2, <2>1
           DEF Moves, Arrive, BeginCreate, BeginUpdateStatus, BeginCancel, Begin, Serve, Crash,
               FindTemplate, InsertRequest, ReadUser, FindPhone, AdoptPhone, StatusTx, WriteCancel,
               Goto, Deciders
    <2> QED BY <1>2, <2>1, <2>2 DEF ReadForStatus, ReadForCancel, Goto, Deciders, rows
<1> QED BY <1>1, <1>2

Trusted == \A h \in Deciders : overtaken[h] \/ Pending(call[h].req)
BoughtApproved == \A p \in purchases : status[p.req] = "APPROVED" \/ p.req \in raced
InvitedBought ==
    /\ \A r \in invited : \E p \in purchases : p.req = r
    /\ opening \in [Openers -> purchases \cup {Nil}]

JointInv == Trusted /\ BoughtApproved /\ InvitedBought

LEMMA Overtaking ==
    ASSUME TypeOK, Trusted, JointNext, NEW r \in RequestIds,
           status[r] \notin {"NONE", "PENDING"}, Decided(r)
    PROVE  r \in raced'
<1>1. PICK h \in Handlers : Moves(h)
    BY DEF JointNext, Next, FindPurchase, Insert, GiveUp, vars, Decided, Moves
<1>2. h \in Deciders /\ call[h].req = r /\ at'[h] = "idle"
    BY <1>1, DecisionEffect
<1>3. overtaken[h] /\ at'[h] # at[h]
    BY <1>2 DEF Trusted, Pending, Deciders
<1> QED BY <1>2, <1>3 DEF JointNext, Track

LEMMA JointStep == RowsInv /\ RowsInv' /\ JointInv /\ [JointNext]_jointVars => JointInv'
<1> SUFFICES ASSUME RowsInv, RowsInv', JointInv, [JointNext]_jointVars PROVE JointInv'
    OBVIOUS
<1> USE DEF JointInv, RowsInv
<1>1. CASE UNCHANGED jointVars
    BY <1>1 DEF jointVars, vars, invitations, Trusted, Deciders, Pending, BoughtApproved, InvitedBought
<1>2. ASSUME NEW h \in Handlers, Moves(h), UNCHANGED invitations, JointNext PROVE JointInv'
    <2>1. Trusted'
        <3> SUFFICES ASSUME NEW g \in Deciders', ~overtaken'[g] PROVE Pending(call[g].req)'
            BY DEF Trusted
        <3>1. CASE g \in Deciders /\ at'[g] = at[g] /\ call'[g] = call[g]
            <4>1. ~overtaken[g] /\ ~Decided(call[g].req)
                BY <1>2, <3>1 DEF JointNext, Track, Deciders
            <4> QED BY <3>1, <4>1 DEF Trusted, Pending, Decided
        <3>2. CASE call'[g] = call[g] /\ UNCHANGED status /\ Pending(call[g].req)
            BY <3>2 DEF Pending
        <3> QED BY <1>2, <3>1, <3>2, DeciderStep
    <2>2. BoughtApproved'
        <3> SUFFICES ASSUME NEW p \in purchases', status'[p.req] # "APPROVED" PROVE p.req \in raced'
            BY DEF BoughtApproved
        <3>1. p \in purchases
            BY <1>2, BuysWell DEF Moves
        <3>2. p.req \in RequestIds
            BY <3>1 DEF TypeOK, RowTypes, Purchases
        <3>3. CASE p.req \in raced
            BY <1>2, <3>3 DEF JointNext, Track
        <3>4. CASE status[p.req] = "APPROVED"
            BY <1>2, <3>2, <3>4, Overtaking DEF Decided
        <3> QED BY <3>1, <3>3, <3>4 DEF BoughtApproved
    <2>3. InvitedBought'
        BY <1>2, BuysWell DEF InvitedBought, invitations, Moves
    <2> QED BY <2>1, <2>2, <2>3
<1>3. ASSUME NEW o \in Openers, FindPurchase(o) \/ Insert(o) \/ GiveUp(o), Track PROVE JointInv'
    <2>1. UNCHANGED vars
        BY <1>3 DEF FindPurchase, Insert, GiveUp
    <2>2. Trusted'
        BY <1>3, <2>1 DEF vars, Track, Trusted, Deciders, Decided, Pending
    <2>3. BoughtApproved'
        BY <1>3, <2>1 DEF vars, Track, BoughtApproved
    <2>4. InvitedBought'
        <3>1. purchases' = purchases
            BY <2>1 DEF vars
        <3>2. CASE FindPurchase(o)
            BY <3>1, <3>2 DEF FindPurchase, InvitedBought
        <3>3. CASE Insert(o)
            BY <3>1, <3>3 DEF Insert, Close, InvitedBought
        <3>4. CASE GiveUp(o)
            BY <3>1, <3>4 DEF GiveUp, Close, InvitedBought
        <3> QED BY <1>3, <3>2, <3>3, <3>4
    <2> QED BY <2>2, <2>3, <2>4
<1> QED BY <1>1, <1>2, <1>3 DEF JointNext, Next, Moves

LEMMA JointAlways == JointSpec => []JointInv
<1>1. JointInit => JointInv
    BY DEF JointInit, Init, JointInv, Trusted, Deciders, BoughtApproved, InvitedBought
<1> QED BY <1>1, JointStep, JointRows, PTL DEF JointSpec

(* An invitation is one of an approved order, which stays approved, unless  *)
(* two decisions on its request overlapped.                                 *)
THEOREM InvitationsPaidFor == JointSpec => []InvitedIfApproved
<1>1. JointInv => InvitedIfApproved
    BY DEF JointInv, BoughtApproved, InvitedBought, InvitedIfApproved
<1> QED BY <1>1, JointAlways, PTL

(* A resolved request changes only by a call that had read it PENDING.      *)
THEOREM Resolutions == JointSpec => ResolvedUnlessRaced
<1> DEFINE Good ==
        \A r \in RequestIds :
            status[r] \notin {"NONE", "PENDING"} /\ status'[r] # status[r] => r \in raced'
<1>1. RowsInv /\ JointInv /\ [JointNext]_jointVars => [Good]_jointVars
    BY Overtaking DEF RowsInv, JointInv, Decided
<1> QED BY <1>1, JointAlways, JointRows, PTL DEF JointSpec, ResolvedUnlessRaced
=============================================================================
