------------------------- MODULE UserAccountsProofs -------------------------
(***************************************************************************)
(* Theorems about UserAccounts for any number of calls, accounts, contacts *)
(* and standings: what a call has read is so unless it has been overtaken; *)
(* hence what the indexes are left to refuse, a number replaced by an      *)
(* order, a stale entry of the cache and a deactivated account let in each *)
(* have an overlap of two calls, or a crash, behind them.                  *)
(***************************************************************************)
EXTENDS UserAccounts, TLAPS

\* Next without its bookkeeping
Step ==
    \/ \E h \in Handlers : Arrive(h) \/ Serve(h) \/ Crash(h)
    \/ \E u \in Users : Expire(u)

-----------------------------------------------------------------------------
(* Typing *)

LEMMA TypeInit == Init => TypeOK
BY ConstantsAssumption
   DEF Init, TypeOK, Types, RowTypes, CallTypes, CallFacts, Accounts, Stale

LEMMA AfterEnd ==
    ASSUME Types, NEW h \in Handlers, End(h), Accounts \subseteq Accounts'
    PROVE  CallTypes' /\ \A g \in Handlers : CallFacts(g)'
<1>1. CallTypes'
    BY DEF Types, CallTypes, End
<1>2. ASSUME NEW g \in Handlers PROVE CallFacts(g)'
    BY <1>2 DEF Types, CallTypes, CallFacts, End
<1> QED BY <1>1, <1>2

LEMMA AfterGoto ==
    ASSUME Types, NEW h \in Handlers, NEW step \in Steps, Goto(h, step), Accounts' = Accounts,
           \/ at[h] \in {"lookup", "fill"} /\ step \in {"readUser", "admitted"}
           \/ at[h] \in {"findEmail", "findPhone"} /\ step \in {"findPhone", "write"}
           \/ at[h] \in {"readPhone", "findOwner"} /\ step \in {"findOwner", "adopt"}
    PROVE  CallTypes' /\ \A g \in Handlers : CallFacts(g)'
<1>1. CallTypes'
    BY DEF Types, CallTypes, Goto, dto
<1>2. ASSUME NEW g \in Handlers PROVE CallFacts(g)'
    BY <1>2 DEF Types, CallTypes, CallFacts, Goto, dto
<1> QED BY <1>1, <1>2

LEMMA RowsKept ==
    ASSUME Types, UNCHANGED table,
           UNCHANGED entry \/ \E u \in Users : entry' = [entry EXCEPT ![u] = Nil]
    PROVE  RowTypes' /\ Accounts' = Accounts
BY DEF Types, RowTypes, table, Accounts

\* an account that is written to exists afterwards
LEMMA RowsSaved ==
    ASSUME Types, NEW h \in Handlers, NEW u \in Users, Save(h, u), UNCHANGED entry,
           u \in Accounts \/ (newEmail[h] # Nil /\ newStanding[h] # Nil)
    PROVE  RowTypes' /\ Accounts' = Accounts \cup {u}
<1>1. /\ email' \in [Users -> Emails \cup {Nil}]
      /\ phone' \in [Users -> Phones \cup {Nil}]
      /\ standing' \in [Users -> Standings \cup {Nil}]
    BY DEF Save, Given, Types, RowTypes, CallTypes
<1>2. email'[u] # Nil /\ standing'[u] # Nil
    BY DEF Save, Given, Types, RowTypes, Accounts
<1>3. ASSUME NEW v \in Users, v # u
      PROVE  email'[v] = email[v] /\ phone'[v] = phone[v] /\ standing'[v] = standing[v]
    BY <1>3 DEF Save, Types, RowTypes
<1>4. Accounts' = Accounts \cup {u}
    BY <1>2, <1>3 DEF Accounts
<1>5. ASSUME NEW v \in Users
      PROVE  /\ v \in Accounts' <=> standing'[v] # Nil
             /\ v \notin Accounts' => phone'[v] = Nil /\ entry'[v] = Nil
    BY <1>2, <1>3, <1>4 DEF Types, RowTypes
<1> QED BY <1>1, <1>4, <1>5 DEF Types, RowTypes

LEMMA TypeArrive == ASSUME Types, NEW h \in Handlers, Arrive(h) PROVE Types'
<1>1. PICK step \in {"lookup", "readUpdate", "findEmail", "readPhone"},
           u \in Users \cup {Nil}, e \in Emails \cup {Nil}, p \in Phones \cup {Nil},
           s \in Standings \cup {Nil} :
          /\ BeginWith(h, step, u, e, p, s)
          /\ step \in {"lookup", "readPhone"} => u \in Accounts
          /\ step = "findEmail" => u = Nil /\ e # Nil /\ s # Nil
          /\ step = "readPhone" => e = Nil /\ s = Nil
    <2>1. CASE BeginValidate(h)
        BY <2>1 DEF BeginValidate, Accounts
    <2>2. CASE BeginUpdate(h)
        BY <2>2 DEF BeginUpdate
    <2>3. CASE BeginCreate(h)
        BY <2>3, ConstantsAssumption DEF BeginCreate
    <2>4. CASE BeginSignUp(h)
        BY <2>4, ConstantsAssumption DEF BeginSignUp
    <2>5. CASE BeginOrder(h)
        BY <2>5 DEF BeginOrder, Accounts
    <2> QED BY <2>1, <2>2, <2>3, <2>4, <2>5 DEF Arrive
<1>2. RowTypes' /\ Accounts' = Accounts
    BY <1>1, RowsKept DEF BeginWith
<1>3. CallTypes'
    BY <1>1 DEF BeginWith, Types, CallTypes, Steps
<1>4. ASSUME NEW g \in Handlers PROVE CallFacts(g)'
    BY <1>1, <1>2 DEF BeginWith, Types, CallTypes, CallFacts
<1> QED BY <1>2, <1>3, <1>4 DEF Types

LEMMA TypeServe == ASSUME Types, NEW h \in Handlers, Serve(h) \/ Crash(h) PROVE Types'
<1>1. CASE Lookup(h)
    <2>1. RowTypes' /\ Accounts' = Accounts
        BY <1>1, RowsKept DEF Lookup
    <2>2. End(h) \/ \E step \in {"readUser", "admitted"} : Goto(h, step)
        BY <1>1 DEF Lookup, Decide
    <2> QED BY <1>1, <2>1, <2>2, AfterEnd, AfterGoto DEF Lookup, Types, Steps
<1>2. CASE ReadUser(h)
    <2>1. RowTypes' /\ Accounts' = Accounts
        BY <1>2, RowsKept DEF ReadUser
    <2>2. user[h] \in Accounts
        BY <1>2 DEF ReadUser, Types, CallFacts
    <2>3. standing[user[h]] \in Standings
        BY <2>2 DEF Types, RowTypes, Accounts
    <2>4. CallTypes'
        BY <1>2, <2>3 DEF ReadUser, dto, Types, CallTypes, Steps
    <2>5. ASSUME NEW g \in Handlers PROVE CallFacts(g)'
        BY <1>2, <2>1, <2>2, <2>3, ConstantsAssumption
           DEF ReadUser, dto, Types, CallTypes, CallFacts
    <2> QED BY <2>1, <2>4, <2>5 DEF Types
<1>3. CASE Fill(h)
    <2>1. user[h] \in Accounts /\ seen[h] \in Standings
        BY <1>3 DEF Fill, Types, CallFacts, CallTypes
    <2>2. RowTypes' /\ Accounts' = Accounts
        BY <1>3, <2>1 DEF Fill, table, Types, RowTypes, Accounts
    <2>3. End(h) \/ Goto(h, "admitted")
        BY <1>3 DEF Fill, Decide
    <2> QED BY <1>3, <2>2, <2>3, AfterEnd, AfterGoto DEF Fill, Types, Steps
<1>4. CASE Leave(h) \/ Crash(h)
    <2>1. RowTypes' /\ Accounts' = Accounts /\ End(h)
        BY <1>4, RowsKept DEF Leave, Crash
    <2> QED BY <2>1, AfterEnd DEF Types
<1>5. CASE ReadUpdate(h)
    <2>1. RowTypes' /\ Accounts' = Accounts
        BY <1>5, RowsKept DEF ReadUpdate
    <2>2. CASE End(h)
        BY <2>1, <2>2, AfterEnd DEF Types
    <2>3. CASE ~End(h)
        <3>1. CallTypes'
            BY <1>5, <2>3 DEF ReadUpdate, Types, CallTypes, Steps
        <3>2. ASSUME NEW g \in Handlers PROVE CallFacts(g)'
            BY <1>5, <2>1, <2>3 DEF ReadUpdate, Types, CallTypes, CallFacts
        <3> QED BY <2>1, <3>1, <3>2 DEF Types
    <2> QED BY <2>2, <2>3
<1>6. CASE FindEmail(h) \/ FindPhone(h)
    <2>1. RowTypes' /\ Accounts' = Accounts
        BY <1>6, RowsKept DEF FindEmail, FindPhone
    <2>2. End(h) \/ \E step \in {"findPhone", "write"} : Goto(h, step)
        BY <1>6 DEF FindEmail, FindPhone
    <2> QED BY <1>6, <2>1, <2>2, AfterEnd, AfterGoto DEF FindEmail, FindPhone, Types, Steps
<1>7. CASE Write(h)
    <2>1. CASE UNCHANGED table /\ End(h)
        <3>1. RowTypes' /\ Accounts' = Accounts
            BY <1>7, <2>1, RowsKept DEF Write
        <3> QED BY <2>1, <3>1, AfterEnd DEF Types
    <2>2. CASE user[h] # Nil /\ Save(h, user[h]) /\ GotoDrop(h)
        <3>1. user[h] \in Accounts /\ user[h] \in Users
            BY <1>7, <2>2 DEF Write, Types, CallFacts, Accounts
        <3>2. RowTypes' /\ Accounts' = Accounts
            BY <1>7, <2>2, <3>1, RowsSaved DEF Write
        <3>3. CallTypes'
            BY <2>2 DEF GotoDrop, Types, CallTypes, Steps
        <3>4. ASSUME NEW g \in Handlers PROVE CallFacts(g)'
            BY <2>2, <3>1, <3>2 DEF GotoDrop, Types, CallTypes, CallFacts
        <3> QED BY <3>2, <3>3, <3>4 DEF Types
    <2>3. CASE user[h] = Nil /\ (\E u \in Users \ Accounts : Save(h, u)) /\ End(h)
        <3>1. newEmail[h] # Nil /\ newStanding[h] # Nil
            BY <1>7, <2>3, ConstantsAssumption DEF Write, Types, CallFacts, Accounts
        <3>2. RowTypes' /\ Accounts \subseteq Accounts'
            BY <1>7, <2>3, <3>1, RowsSaved DEF Write
        <3> QED BY <2>3, <3>2, AfterEnd DEF Types
    <2> QED BY <1>7, <2>1, <2>2, <2>3 DEF Write
<1>8. CASE Drop(h)
    <2>1. user[h] \in Users
        BY <1>8 DEF Drop, Types, CallFacts, Accounts
    <2>2. RowTypes' /\ Accounts' = Accounts
        BY <1>8, <2>1, RowsKept DEF Drop
    <2> QED BY <1>8, <2>2, AfterEnd DEF Drop, Types
<1>9. CASE ReadPhone(h) \/ FindOwner(h)
    <2>1. RowTypes' /\ Accounts' = Accounts
        BY <1>9, RowsKept DEF ReadPhone, FindOwner
    <2>2. End(h) \/ \E step \in {"findOwner", "adopt"} : Goto(h, step)
        BY <1>9 DEF ReadPhone, FindOwner
    <2> QED BY <1>9, <2>1, <2>2, AfterEnd, AfterGoto DEF ReadPhone, FindOwner, Types, Steps
<1>10. CASE Adopt(h)
    <2>1. user[h] \in Accounts /\ user[h] \in Users
        BY <1>10 DEF Adopt, Types, CallFacts, Accounts
    <2>2. RowTypes' /\ Accounts' = Accounts
        BY <1>10, <2>1, RowsKept, RowsSaved DEF Adopt
    <2> QED BY <1>10, <2>2, AfterEnd DEF Adopt, Types
<1> QED BY <1>1, <1>2, <1>3, <1>4, <1>5, <1>6, <1>7, <1>8, <1>9, <1>10 DEF Serve

LEMMA TypeExpire == ASSUME Types, NEW u \in Users, Expire(u) PROVE Types'
<1>1. RowTypes' /\ Accounts' = Accounts
    BY RowsKept DEF Expire
<1>2. CallTypes' /\ \A g \in Handlers : CallFacts(g)'
    BY <1>1 DEF Expire, dto, Types, CallTypes, CallFacts
<1> QED BY <1>1, <1>2 DEF Types

LEMMA TypeStep == TypeOK /\ [Next]_vars => TypeOK'
<1> SUFFICES ASSUME TypeOK, [Next]_vars PROVE TypeOK'
    OBVIOUS
<1>1. CASE UNCHANGED vars
    BY <1>1 DEF vars, TypeOK, Types, RowTypes, CallTypes, CallFacts, Accounts, Stale
<1>2. CASE Next
    <2>1. Types'
        BY <1>2, TypeArrive, TypeServe, TypeExpire DEF Next, TypeOK
    <2>2. overtaken' \in [Handlers -> BOOLEAN]
        BY <1>2 DEF Next, Track, Trusting
    <2>3. excused' \subseteq {u \in Users : Stale(u)'}
        <3>1. ASSUME NEW g \in Handlers, Excuses(g) PROVE user[g] \in Users
            BY <3>1 DEF Excuses, TypeOK, Types, CallFacts, Accounts
        <3> QED BY <1>2, <3>1 DEF Next, Track, TypeOK
    <2> QED BY <2>1, <2>2, <2>3 DEF TypeOK
<1> QED BY <1>1, <1>2

(* Every variable keeps its type; only accounts that exist are cached,      *)
(* updated or let in.                                                       *)
THEOREM Typing == Spec => []TypeOK
BY TypeInit, TypeStep, PTL DEF Spec

-----------------------------------------------------------------------------
(* What a call trusts *)

Trusted(h) ==
    /\ at[h] = "fill" => seen[h] = standing[user[h]]
    /\ at[h] \in {"findPhone", "write", "findOwner", "adopt"} => ~EmailTaken(h)
    /\ at[h] \in {"write", "adopt"} => ~PhoneTaken(h)
    /\ at[h] \in {"findOwner", "adopt"} => phone[user[h]] = Nil

TrustInv == TypeOK /\ \A h \in Handlers : overtaken[h] \/ Trusted(h)

\* a call stays where it is only if another one takes the step
LEMMA OthersStep ==
    ASSUME TypeOK, NEW h \in Handlers, Arrive(h) \/ Serve(h) \/ Crash(h), NEW g \in Handlers
    PROVE  /\ g = h => at'[g] # at[g]
           /\ g # h => /\ at'[g] = at[g] /\ user'[g] = user[g] /\ seen'[g] = seen[g]
                       /\ newEmail'[g] = newEmail[g] /\ newPhone'[g] = newPhone[g]
<1> USE DEF TypeOK, Types, CallTypes
<1>1. CASE Arrive(h)
    BY <1>1 DEF Arrive, BeginValidate, BeginUpdate, BeginCreate, BeginSignUp, BeginOrder, BeginWith
<1>2. CASE End(h) /\ at[h] # "idle"
    BY <1>2 DEF End
<1>3. CASE ~End(h) /\ (Lookup(h) \/ Fill(h) \/ FindEmail(h) \/ FindPhone(h))
    BY <1>3 DEF Lookup, Fill, Decide, FindEmail, FindPhone, Goto, dto
<1>4. CASE ~End(h) /\ (ReadUser(h) \/ ReadUpdate(h))
    BY <1>4 DEF ReadUser, ReadUpdate, dto
<1>5. CASE ~End(h) /\ Write(h)
    BY <1>5 DEF Write, GotoDrop
<1>6. CASE ~End(h) /\ (ReadPhone(h) \/ FindOwner(h))
    BY <1>6 DEF ReadPhone, FindOwner, Goto, dto
<1>7. CASE Serve(h) \/ Crash(h)
    <2>1. at[h] # "idle"
        BY <1>7 DEF Serve, Crash, Lookup, ReadUser, Fill, Leave, ReadUpdate, FindEmail, FindPhone,
                    Write, Drop, ReadPhone, FindOwner, Adopt
    <2>2. ~End(h) => ~Leave(h) /\ ~Drop(h) /\ ~Adopt(h) /\ ~Crash(h)
        BY DEF Leave, Drop, Adopt, Crash
    <2> QED BY <1>2, <1>3, <1>4, <1>5, <1>6, <1>7, <2>1, <2>2 DEF Serve
<1> QED BY <1>1, <1>7

\* a step that brings a call to where it trusts something is the read of it
LEMMA JustRead ==
    ASSUME TypeOK, NEW h \in Handlers, Arrive(h) \/ Serve(h) \/ Crash(h),
           Trusting(h) => Trusted(h)
    PROVE  Trusted(h)'
<1> USE DEF TypeOK, Types, CallTypes, Trusted
<1>1. CASE Arrive(h)
    BY <1>1 DEF Arrive, BeginValidate, BeginUpdate, BeginCreate, BeginSignUp, BeginOrder, BeginWith
<1>2. CASE End(h)
    BY <1>2 DEF End
<1>3. CASE ~End(h) /\ ReadUser(h)
    BY <1>3 DEF ReadUser, table, dto
<1>4. CASE ~End(h) /\ FindEmail(h)
    BY <1>4 DEF FindEmail, Goto, table, dto, EmailTaken
<1>5. CASE ~End(h) /\ FindPhone(h)
    BY <1>5 DEF FindPhone, Goto, table, dto, EmailTaken, PhoneTaken, Trusting
<1>6. CASE ~End(h) /\ ReadPhone(h)
    BY <1>6 DEF ReadPhone, Goto, table, dto, EmailTaken, CallFacts
<1>7. CASE ~End(h) /\ FindOwner(h)
    BY <1>7 DEF FindOwner, Goto, table, dto, EmailTaken, PhoneTaken, Trusting
<1>8. CASE ~End(h) /\ (Lookup(h) \/ Fill(h) \/ ReadUpdate(h) \/ Write(h))
    BY <1>8 DEF Lookup, Fill, Decide, Goto, ReadUpdate, Write, GotoDrop
<1>9. ~End(h) => ~Leave(h) /\ ~Drop(h) /\ ~Adopt(h) /\ ~Crash(h)
    BY DEF Leave, Drop, Adopt, Crash
<1> QED BY <1>1, <1>2, <1>3, <1>4, <1>5, <1>6, <1>7, <1>8, <1>9 DEF Serve

LEMMA TrustInit == Init => TrustInv
BY TypeInit DEF Init, TrustInv, Trusted

LEMMA TrustStep == TrustInv /\ [Next]_vars => TrustInv'
<1> SUFFICES ASSUME TrustInv, [Next]_vars PROVE TrustInv'
    OBVIOUS
<1>1. TypeOK'
    BY TypeStep DEF TrustInv
<1>2. CASE UNCHANGED vars
    BY <1>1, <1>2 DEF vars, TrustInv, Trusted, EmailTaken, PhoneTaken
<1>3. ASSUME Next, NEW g \in Handlers PROVE overtaken'[g] \/ Trusted(g)'
    <2>1. overtaken'[g] <=>
              /\ Trusting(g)'
              /\ overtaken[g] \/ (Trusting(g) /\ at'[g] = at[g] /\ Overtakes(g))
        BY <1>3 DEF Next, Track
    <2>2. CASE ~Trusting(g)'
        BY <2>2 DEF Trusting, Trusted
    <2>3. CASE /\ at'[g] = at[g] /\ user'[g] = user[g] /\ seen'[g] = seen[g]
               /\ newEmail'[g] = newEmail[g] /\ newPhone'[g] = newPhone[g]
        <3>1. CASE overtaken[g]
            BY <2>1, <2>2, <3>1
        <3>2. CASE ~overtaken[g] /\ ~Overtakes(g) /\ Trusting(g)'
            BY <2>3, <3>2 DEF TrustInv, Trusted, Overtakes, Trusting
        <3> QED BY <2>1, <2>2, <2>3, <3>1, <3>2 DEF Trusting
    <2>4. CASE Arrive(g) \/ Serve(g) \/ Crash(g)
        <3>1. CASE overtaken[g]
            BY <2>1, <2>2, <3>1
        <3>2. CASE ~overtaken[g]
            BY <2>4, <3>2, JustRead DEF TrustInv
        <3> QED BY <3>1, <3>2
    <2>5. CASE \E u \in Users : Expire(u)
        BY <2>3, <2>5 DEF Expire, dto
    <2>6. CASE \E h \in Handlers : Arrive(h) \/ Serve(h) \/ Crash(h)
        BY <2>3, <2>4, <2>6, OthersStep DEF TrustInv
    <2> QED BY <1>3, <2>5, <2>6 DEF Next
<1> QED BY <1>1, <1>2, <1>3 DEF TrustInv

LEMMA Trust == Spec => []TrustInv
BY TrustInit, TrustStep, PTL DEF Spec

(* The index refuses a write only if the contact was taken by another call  *)
(* since this one found it free.                                            *)
THEOREM Conflicts == Spec => []ConflictsFoundInTime
<1>1. TrustInv => ConflictsFoundInTime
    BY DEF TrustInv, Trusted, ConflictsFoundInTime
<1> QED BY Trust, <1>1, PTL

(* An order replaces a phone number only if the account was given it after  *)
(* the order had found that it had none.                                    *)
THEOREM NumbersReplaced == Spec => NumbersReplacedRaced
<1>1. TrustInv /\ [Next]_vars =>
          [\A h \in Handlers :
               at[h] = "adopt" /\ Adopt(h) /\ phone[user[h]] # Nil /\ phone' # phone
               => overtaken[h]]_vars
    BY DEF TrustInv, Trusted
<1> QED BY Trust, <1>1, PTL DEF Spec, NumbersReplacedRaced

-----------------------------------------------------------------------------
(* The cache *)

RightsInv == TrustInv /\ StaleRightsExplained

\* an entry that becomes stale is being dropped or is excused
LEMMA StaleStep ==
    ASSUME RightsInv, Next, NEW u \in Users, Stale(u)'
    PROVE  u \in excused' \/ \E h \in Handlers : at'[h] = "drop" /\ user'[h] = u
<1> USE DEF RightsInv, TrustInv, TypeOK, Types, RowTypes, CallTypes
<1>1. \/ u \in excused
      \/ \E h \in Handlers : Excuses(h) /\ user[h] = u
      => u \in excused'
    BY DEF Next, Track
<1>2. CASE Stale(u)
    <2>1. CASE u \in excused
        BY <1>1, <2>1
    <2>2. CASE u \notin excused
        <3>1. PICK g \in Handlers : at[g] = "drop" /\ user[g] = u
            BY <1>2, <2>2 DEF StaleRightsExplained
        <3>2. CASE at'[g] = at[g] /\ user'[g] = user[g]
            BY <3>1, <3>2
        <3>3. CASE Arrive(g) \/ Serve(g)
            <4>1. Drop(g)
                BY <3>1, <3>3
                   DEF Arrive, BeginValidate, BeginUpdate, BeginCreate, BeginSignUp, BeginOrder,
                       BeginWith, Serve, Lookup, ReadUser, Fill, Leave, ReadUpdate, FindEmail,
                       FindPhone, Write, ReadPhone, FindOwner, Adopt
            <4> QED BY <3>1, <4>1 DEF Drop, Stale
        <3>4. CASE Crash(g)
            BY <1>1, <3>1, <3>4 DEF Excuses
        <3> QED BY <3>2, <3>3, <3>4, OthersStep DEF Next, Expire
    <2> QED BY <2>1, <2>2
<1>3. CASE ~Stale(u)
    <2>1. entry'[u] # entry[u] \/ standing'[u] # standing[u]
        BY <1>3 DEF Stale
    <2>2. ~\E v \in Users : Expire(v)
        BY <1>3 DEF Expire, Stale, table
    <2>3. PICK h \in Handlers : Arrive(h) \/ Serve(h) \/ Crash(h)
        BY <2>2 DEF Next
    <2>4. CASE Fill(h)
        <3>1. user[h] = u /\ seen[h] # standing[u]
            BY <1>3, <2>4 DEF Fill, Stale, table
        <3>2. overtaken[h]
            BY <2>4, <3>1 DEF Fill, Trusted
        <3> QED BY <1>1, <2>4, <3>1, <3>2 DEF Excuses, Fill
    <2>5. CASE Write(h)
        <3>1. standing'[u] # standing[u]
            BY <2>1, <2>5 DEF Write
        <3>2. CASE user[h] # Nil /\ Save(h, user[h]) /\ GotoDrop(h)
            BY <3>1, <3>2 DEF Save, GotoDrop
        <3>3. ASSUME NEW v \in Users \ Accounts, Save(h, v)
              PROVE  FALSE
            <4>1. v = u
                BY <3>1, <3>3 DEF Save
            <4>2. entry[u] = Nil /\ entry' = entry
                BY <2>5, <3>3, <4>1 DEF Write
            <4> QED BY <4>2 DEF Stale
        <3> QED BY <2>5, <3>1, <3>2, <3>3 DEF Write, table
    <2>6. CASE Drop(h)
        BY <1>3, <2>6 DEF Drop, Stale, table
    <2>7. CASE Adopt(h)
        <3>1. newStanding[h] = Nil
            BY <2>7 DEF Adopt, CallFacts
        <3> QED BY <2>1, <2>7, <3>1 DEF Adopt, Save, Given, table
    <2> QED
        BY <2>1, <2>3, <2>4, <2>5, <2>6, <2>7
           DEF Arrive, BeginValidate, BeginUpdate, BeginCreate, BeginSignUp, BeginOrder, BeginWith,
               Serve, Crash, Lookup, ReadUser, Leave, ReadUpdate, FindEmail, FindPhone, ReadPhone,
               FindOwner, table
<1> QED BY <1>2, <1>3

LEMMA RightsInit == Init => RightsInv
BY TrustInit DEF Init, RightsInv, StaleRightsExplained, Stale

LEMMA RightsStep == RightsInv /\ [Next]_vars => RightsInv'
<1> SUFFICES ASSUME RightsInv, [Next]_vars PROVE RightsInv'
    OBVIOUS
<1>1. TrustInv'
    BY TrustStep DEF RightsInv
<1>2. CASE UNCHANGED vars
    BY <1>1, <1>2 DEF vars, RightsInv, StaleRightsExplained, Stale
<1>3. CASE Next
    BY <1>1, <1>3, StaleStep DEF RightsInv, StaleRightsExplained
<1> QED BY <1>2, <1>3

LEMMA Rights == Spec => []RightsInv
BY RightsInit, RightsStep, PTL DEF Spec

(* An entry of the cache is stale only while an update is still to delete   *)
(* it, or was cut off before, or because a validate stored it after it had  *)
(* been overtaken.                                                          *)
THEOREM StaleRights == Spec => []StaleRightsExplained
<1>1. RightsInv => StaleRightsExplained
    BY DEF RightsInv
<1> QED BY Rights, <1>1, PTL

(* A request of a deactivated account is let in only for such a reason.     *)
THEOREM Deactivated == Spec => DeactivatedStayOut
<1>1. ASSUME RightsInv, [Next]_vars, NEW h \in Handlers,
             at[h] # "admitted", at'[h] = "admitted", standing[user[h]] \in Inactive
      PROVE  \/ at[h] = "fill" /\ overtaken[h]
             \/ user[h] \in excused
             \/ \E g \in Handlers : at[g] = "drop" /\ user[g] = user[h]
    <2> USE <1>1 DEF RightsInv, TrustInv, TypeOK, Types, CallTypes
    <2>1. Lookup(h) \/ Fill(h)
        <3>1. Arrive(h) \/ Serve(h) \/ Crash(h)
            BY OthersStep DEF Next, Expire, vars
        <3>2. ~Arrive(h)
            BY DEF Arrive, BeginValidate, BeginUpdate, BeginCreate, BeginSignUp, BeginOrder,
                   BeginWith
        <3>3. ~End(h)
            BY DEF End
        <3> QED
            BY <3>1, <3>2, <3>3
               DEF Serve, Crash, ReadUser, Leave, ReadUpdate, FindEmail, FindPhone, Write, GotoDrop,
                   Drop, ReadPhone, FindOwner, Adopt, Goto
    <2>2. CASE Fill(h)
        <3>1. seen[h] \notin Inactive
            BY <2>2 DEF Fill, Decide, End
        <3> QED BY <2>2, <3>1 DEF Fill, Trusted
    <2>3. CASE Lookup(h)
        <3>1. entry[user[h]] # Nil /\ entry[user[h]] \notin Inactive
            BY <2>3 DEF Lookup, Decide, End, Goto
        <3>2. user[h] \in Users
            BY <2>3 DEF Lookup, CallFacts, Accounts
        <3> QED BY <3>1, <3>2 DEF StaleRightsExplained, Stale
    <2> QED BY <2>1, <2>2, <2>3
<1>2. RightsInv /\ [Next]_vars =>
          [\A h \in Handlers :
               at[h] # "admitted" /\ at'[h] = "admitted" /\ standing[user[h]] \in Inactive
               => \/ at[h] = "fill" /\ overtaken[h]
                  \/ user[h] \in excused
                  \/ \E g \in Handlers : at[g] = "drop" /\ user[g] = user[h]]_vars
    BY <1>1
<1> QED BY Rights, <1>2, PTL DEF Spec, DeactivatedStayOut

-----------------------------------------------------------------------------
(* Refinement of ReadThroughCache *)

\* what the calls are to the cache, read off where they stand
Asked == [h \in Handlers |-> IF at[h] = "fill" THEN user[h] ELSE Nil]
Held == [h \in Handlers |-> IF at[h] = "fill" THEN seen[h] ELSE Nil]
Owed == [h \in Handlers |-> IF at[h] = "drop" THEN {user[h]} ELSE {}]

\* a step of one call shows in its own place only
LEMMA PlacesStep ==
    ASSUME TypeOK, NEW h \in Handlers, Arrive(h) \/ Serve(h) \/ Crash(h)
    PROVE  /\ Asked' = [Asked EXCEPT ![h] = IF at'[h] = "fill" THEN user'[h] ELSE Nil]
           /\ Held' = [Held EXCEPT ![h] = IF at'[h] = "fill" THEN seen'[h] ELSE Nil]
           /\ Owed' = [Owed EXCEPT ![h] = IF at'[h] = "drop" THEN {user'[h]} ELSE {}]
           /\ at[h] # "fill" /\ at'[h] # "fill" => Asked' = Asked /\ Held' = Held
           /\ at[h] # "drop" /\ at'[h] # "drop" => Owed' = Owed
<1>1. \A g \in Handlers : g # h => at'[g] = at[g] /\ user'[g] = user[g] /\ seen'[g] = seen[g]
    BY OthersStep
<1>2. at[h] # "fill" /\ at'[h] # "fill" => Asked' = Asked /\ Held' = Held
    BY <1>1 DEF Asked, Held
<1>3. at[h] # "drop" /\ at'[h] # "drop" => Owed' = Owed
    BY <1>1 DEF Owed
<1> QED BY <1>1, <1>2, <1>3 DEF Asked, Held, Owed

\* a call that is, and stays, away from the cache and leaves the table alone
LEMMA AwayStep ==
    ASSUME TypeOK, NEW h \in Handlers, Arrive(h) \/ Serve(h) \/ Crash(h),
           standing' = standing, entry' = entry,
           at[h] \notin {"fill", "drop"}, at'[h] \notin {"fill", "drop"}
    PROVE  UNCHANGED Cache!cacheVars
<1>1. Asked' = Asked /\ Held' = Held /\ Owed' = Owed
    BY PlacesStep
<1> QED BY <1>1 DEF Asked, Held, Owed, Cache!cacheVars

LEMMA CacheInit == Init => Cache!Init
BY DEF Init, Cache!Init

LEMMA CacheServe ==
    ASSUME TypeOK, TypeOK', NEW h \in Handlers, Arrive(h) \/ Serve(h) \/ Crash(h)
    PROVE  Cache!Next \/ UNCHANGED Cache!cacheVars
<1> USE DEF TypeOK, Types, RowTypes, CallTypes
<1>1. CASE Arrive(h)
    <2>1. /\ standing' = standing /\ entry' = entry
          /\ at[h] \notin {"fill", "drop"} /\ at'[h] \notin {"fill", "drop"}
        BY <1>1 DEF Arrive, BeginValidate, BeginUpdate, BeginCreate, BeginSignUp, BeginOrder,
                    BeginWith, table
    <2> QED BY <1>1, <2>1, AwayStep
<1>2. CASE ReadUser(h)
    <2>1. /\ user[h] \in Users /\ standing[user[h]] # Nil /\ at'[h] = "fill" /\ user'[h] = user[h]
          /\ seen'[h] = standing[user[h]] /\ standing' = standing /\ entry' = entry
        BY <1>2 DEF ReadUser, CallFacts, Accounts, table
    <2>2. Asked[h] = Nil /\ Owed[h] = {}
        BY <1>2 DEF ReadUser, Asked, Owed
    <2>3. /\ Asked' = [Asked EXCEPT ![h] = user[h]] /\ Held' = [Held EXCEPT ![h] = standing[user[h]]]
          /\ Owed' = Owed
        BY <1>2, <2>1, PlacesStep DEF Serve, ReadUser
    <2>4. Cache!Read(h)
        BY <2>1, <2>2, <2>3 DEF Cache!Read, Cache!Free, Asked, Held, Owed
    <2> QED BY <2>4 DEF Cache!Next
<1>3. CASE Fill(h)
    <2>1. /\ user[h] \in Users /\ at'[h] \notin {"fill", "drop"} /\ standing' = standing
          /\ entry' = [entry EXCEPT ![user[h]] = seen[h]]
        BY <1>3 DEF Fill, Decide, Goto, End, CallFacts, Accounts, table
    <2>2. Asked[h] = user[h] /\ Held[h] = seen[h] /\ Owed[h] = {}
        BY <1>3 DEF Fill, Asked, Held, Owed
    <2>3. /\ Asked' = [Asked EXCEPT ![h] = Nil] /\ Held' = [Held EXCEPT ![h] = Nil]
          /\ Owed' = Owed
        BY <1>3, <2>1, PlacesStep DEF Serve, Fill
    <2>4. Asked[h] # Nil
        BY <2>1, <2>2, ConstantsAssumption
    <2>5. Cache!Store(h)
        BY <2>1, <2>2, <2>3, <2>4 DEF Cache!Store, Asked, Held, Owed
    <2> QED BY <2>5 DEF Cache!Next
<1>4. CASE Write(h)
    <2>1. Asked[h] = Nil /\ Owed[h] = {} /\ entry' = entry
        BY <1>4 DEF Write, Asked, Owed
    <2>2. CASE UNCHANGED table /\ End(h)
        BY <1>4, <2>1, <2>2, AwayStep DEF Write, Serve, End, table
    <2>3. CASE user[h] # Nil /\ Save(h, user[h]) /\ GotoDrop(h)
        <3>1. user[h] \in Users /\ at'[h] = "drop" /\ user'[h] = user[h]
            BY <1>4, <2>3 DEF GotoDrop
        <3>2. /\ Asked' = Asked /\ Held' = Held /\ Owed' = [Owed EXCEPT ![h] = {user[h]}]
            BY <1>4, <3>1, PlacesStep DEF Serve, Write
        <3>3. \A u \in Users : u # user[h] => standing'[u] = standing[u]
            BY <2>3 DEF Save
        <3>4. /\ {user[h]} \in SUBSET Users
              /\ \A u \in Users \ {user[h]} : standing[u] # Nil => standing'[u] = standing[u]
            BY <3>1, <3>3
        <3>5. standing' \in [Users -> Standings \cup {Nil}]
            OBVIOUS
        <3>6. Cache!Change(h)
            BY <2>1, <3>2, <3>4, <3>5 DEF Cache!Change, Cache!Free, Asked, Held, Owed
        <3> QED BY <3>6 DEF Cache!Next
    <2>4. CASE (\E u \in Users \ Accounts : Save(h, u)) /\ End(h)
        <3>1. at'[h] = "idle"
            BY <2>4 DEF End
        <3>2. /\ Asked' = Asked /\ Held' = Held /\ Owed' = [Owed EXCEPT ![h] = {}]
            BY <1>4, <3>1, PlacesStep DEF Serve, Write
        <3>3. \A u \in Users : standing[u] # Nil => standing'[u] = standing[u]
            BY <2>4 DEF Save, Accounts
        <3>4. Cache!Change(h)
            BY <2>1, <3>2, <3>3 DEF Cache!Change, Cache!Free, Asked, Held, Owed
        <3> QED BY <3>4 DEF Cache!Next
    <2> QED BY <1>4, <2>2, <2>3, <2>4 DEF Write
<1>5. CASE Drop(h)
    <2>1. user[h] \in Users /\ at'[h] = "idle" /\ standing' = standing
        BY <1>5 DEF Drop, End, CallFacts, Accounts, table
    <2>2. Asked[h] = Nil /\ Held[h] = Nil /\ Owed[h] = {user[h]}
        BY <1>5 DEF Drop, Asked, Held, Owed
    <2>3. Asked' = Asked /\ Held' = Held /\ Owed' = [Owed EXCEPT ![h] = {}]
        BY <1>5, <2>1, PlacesStep DEF Serve, Drop
    <2>4. {user[h]} \ {user[h]} = {}
        OBVIOUS
    <2>5. Owed' = [Owed EXCEPT ![h] = @ \ {user[h]}]
        BY <2>2, <2>3, <2>4
    <2>6. Cache!Delete(h)
        BY <1>5, <2>1, <2>2, <2>3, <2>5 DEF Drop, Cache!Delete, Asked, Held, Owed
    <2> QED BY <2>6 DEF Cache!Next
<1>6. CASE Crash(h)
    <2>1. at'[h] = "idle" /\ standing' = standing /\ entry' = entry
        BY <1>6 DEF Crash, End, table
    <2>2. /\ Asked' = [Asked EXCEPT ![h] = Nil] /\ Held' = [Held EXCEPT ![h] = Nil]
          /\ Owed' = [Owed EXCEPT ![h] = {}]
        BY <2>1, PlacesStep
    <2>3. Cache!GiveUp(h)
        BY <2>1, <2>2 DEF Cache!GiveUp, Asked, Held, Owed
    <2> QED BY <2>3 DEF Cache!Next
<1>7. CASE Lookup(h) \/ Leave(h) \/ ReadUpdate(h) \/ FindEmail(h) \/ FindPhone(h) \/ ReadPhone(h)
           \/ FindOwner(h) \/ Adopt(h)
    <2>1. entry' = entry /\ at[h] \notin {"fill", "drop"} /\ at'[h] \notin {"fill", "drop"}
        BY <1>7 DEF Lookup, Decide, Leave, ReadUpdate, FindEmail, FindPhone, ReadPhone, FindOwner,
                    Adopt, Goto, End
    <2>2. standing' = standing
        <3>1. CASE Adopt(h)
            <4>1. newStanding[h] = Nil
                BY <3>1 DEF Adopt, CallFacts
            <4> QED BY <3>1, <4>1 DEF Adopt, Save, Given, table
        <3> QED
            BY <1>7, <3>1 DEF Lookup, Leave, ReadUpdate, FindEmail, FindPhone, ReadPhone, FindOwner,
                              table
    <2> QED BY <2>1, <2>2, AwayStep
<1> QED BY <1>1, <1>2, <1>3, <1>4, <1>5, <1>6, <1>7 DEF Serve

LEMMA CacheStep ==
    TypeOK /\ TypeOK' /\ [Next]_vars => [Cache!Next]_(Cache!cacheVars)
<1> SUFFICES ASSUME TypeOK, TypeOK', [Next]_vars
             PROVE  Cache!Next \/ UNCHANGED Cache!cacheVars
    BY DEF Cache!cacheVars
<1>1. CASE UNCHANGED vars
    BY <1>1 DEF vars, Cache!cacheVars
<1>2. ASSUME NEW u \in Users, Expire(u) PROVE Cache!Next
    <2>1. Cache!Expire(u)
        BY <1>2 DEF Expire, table, Cache!Expire
    <2> QED BY <2>1 DEF Cache!Next
<1> QED BY <1>1, <1>2, CacheServe DEF Next

(* The service implements the abstract cache: nothing but a validate that   *)
(* has read it since stores a standing, and every change of the standing of *)
(* an account that exists owes the deletion of its key.                     *)
THEOREM CacheKept == Spec => CacheSpec
BY Typing, CacheInit, CacheStep, PTL DEF Spec, CacheSpec, Cache!Spec
=============================================================================
