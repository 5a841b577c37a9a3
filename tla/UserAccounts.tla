---------------------------- MODULE UserAccounts ----------------------------
(***************************************************************************)
(* The users table and the cache of it that every authenticated request    *)
(* goes through: UserService (src/src/user) and JwtStrategy.validate       *)
(* (src/src/auth/strategies).  An account has two unique contacts and a    *)
(* standing, its role and is_active taken together.  validate reads the    *)
(* standing through the cache `users:id:<id>`, the updates delete the key  *)
(* after they have written.  That contacts are free is looked up in        *)
(* statements of its own; only the indexes of the table make it so.  The   *)
(* hashing of a password and the audit log change nothing kept here.       *)
(***************************************************************************)
EXTENDS Naturals

CONSTANTS Handlers,   \* calls that can be served at the same time
          Users,      \* accounts that can come to exist
          Emails, Phones,
          Standings,  \* what role and is_active come to
          Inactive,   \* those of them with is_active false
          Newcomer,   \* the standing that a sign-up gives
          Nil

ASSUME ConstantsAssumption ==
    /\ Inactive \subseteq Standings /\ Newcomer \in Standings
    /\ Nil \notin Users \cup Emails \cup Phones \cup Standings

VARIABLES email,     \* email[u]: the account's email, Nil while there is no such account
          phone,     \* phone[u]: its phone number, Nil if it has none
          standing,  \* standing[u]: its role and is_active
          entry,     \* entry[u]: the standing in the cache, Nil if there is none
          at,        \* at[h]: the await handler h is about to issue
          user,      \* user[h]: the account the call is about
          newEmail, newPhone, newStanding,  \* what it is to write, Nil if nothing
          seen,      \* seen[h]: the standing that validate has read
          overtaken, \* history, overtaken[h]: what h has read is no longer so
          excused    \* history: accounts whose stale entry a crash or an overtaken call has left

vars == <<email, phone, standing, entry, at, user, newEmail, newPhone, newStanding, seen,
          overtaken, excused>>
table == <<email, phone, standing>>
dto == <<newEmail, newPhone, newStanding>>

Steps == {"lookup", "readUser", "fill", "admitted",
          "readUpdate", "findEmail", "findPhone", "write", "drop",
          "readPhone", "findOwner", "adopt"}

Accounts == {u \in Users : email[u] # Nil}

-----------------------------------------------------------------------------
Goto(h, step) == at' = [at EXCEPT ![h] = step] /\ UNCHANGED <<user, dto, seen>>

End(h) ==
    /\ at' = [at EXCEPT ![h] = "idle"]
    /\ user' = [user EXCEPT ![h] = Nil]
    /\ newEmail' = [newEmail EXCEPT ![h] = Nil]
    /\ newPhone' = [newPhone EXCEPT ![h] = Nil]
    /\ newStanding' = [newStanding EXCEPT ![h] = Nil]
    /\ seen' = [seen EXCEPT ![h] = Nil]

BeginWith(h, step, u, e, p, s) ==
    /\ at[h] = "idle"
    /\ at' = [at EXCEPT ![h] = step]
    /\ user' = [user EXCEPT ![h] = u]
    /\ newEmail' = [newEmail EXCEPT ![h] = e]
    /\ newPhone' = [newPhone EXCEPT ![h] = p]
    /\ newStanding' = [newStanding EXCEPT ![h] = s]
    /\ UNCHANGED <<table, entry, seen>>

-----------------------------------------------------------------------------
(* JwtStrategy.validate *)

BeginValidate(h) == \E u \in Accounts : BeginWith(h, "lookup", u, Nil, Nil, Nil)

Decide(h, s) == IF s \in Inactive THEN End(h) ELSE Goto(h, "admitted")

Lookup(h) ==
    /\ at[h] = "lookup"
    /\ IF entry[user[h]] = Nil THEN Goto(h, "readUser") ELSE Decide(h, entry[user[h]])
    /\ UNCHANGED <<table, entry>>

ReadUser(h) ==
    /\ at[h] = "readUser"
    /\ at' = [at EXCEPT ![h] = "fill"]
    /\ seen' = [seen EXCEPT ![h] = standing[user[h]]]
    /\ UNCHANGED <<table, entry, user, dto>>

\* mutant: a deactivated account is not cached, and its owner let in
Fill_Admits(h) ==
    /\ at[h] = "fill"
    /\ entry' = [entry EXCEPT ![user[h]] = seen[h]]
    /\ Goto(h, "admitted")
    /\ UNCHANGED table

Fill(h) ==
    /\ at[h] = "fill"
    /\ entry' = [entry EXCEPT ![user[h]] = seen[h]]
    /\ Decide(h, seen[h])
    /\ UNCHANGED table

\* the request goes on with the rights it was let in with
Leave(h) == at[h] = "admitted" /\ End(h) /\ UNCHANGED <<table, entry>>

-----------------------------------------------------------------------------
(* updateProfile, updateUserByAdmin, createUserByAdmin, register, googleLogin *)

BeginUpdate(h) ==
    \E u \in Users, e \in Emails \cup {Nil}, p \in Phones \cup {Nil}, s \in Standings \cup {Nil} :
        BeginWith(h, "readUpdate", u, e, p, s)

BeginCreate(h) ==
    \E e \in Emails, p \in Phones, s \in Standings : BeginWith(h, "findEmail", Nil, e, p, s)

\* a sign-up looks at the same contacts; one with Google has no phone number
BeginSignUp(h) ==
    \E e \in Emails, p \in Phones \cup {Nil} : BeginWith(h, "findEmail", Nil, e, p, Newcomer)

\* a contact that the account already has is neither looked up nor written
ReadUpdate(h) ==
    /\ at[h] = "readUpdate"
    /\ \/ user[h] \notin Accounts /\ End(h)
       \/ /\ user[h] \in Accounts
          /\ newEmail' = [newEmail EXCEPT ![h] = IF @ = email[user[h]] THEN Nil ELSE @]
          /\ newPhone' = [newPhone EXCEPT ![h] = IF @ = phone[user[h]] THEN Nil ELSE @]
          /\ at' = [at EXCEPT ![h] = "findEmail"]
          /\ UNCHANGED <<user, newStanding, seen>>
    /\ UNCHANGED <<table, entry>>

EmailTaken(h) == newEmail[h] # Nil /\ \E u \in Users \ {user[h]} : email[u] = newEmail[h]
PhoneTaken(h) == newPhone[h] # Nil /\ \E u \in Users \ {user[h]} : phone[u] = newPhone[h]

FindEmail(h) ==
    /\ at[h] = "findEmail"
    /\ IF EmailTaken(h) THEN End(h) ELSE Goto(h, "findPhone")
    /\ UNCHANGED <<table, entry>>

\* mutant: only the email is looked up
FindPhone_Skipped(h) ==
    /\ at[h] = "findPhone"
    /\ Goto(h, "write")
    /\ UNCHANGED <<table, entry>>

FindPhone(h) ==
    /\ at[h] = "findPhone"
    /\ IF PhoneTaken(h) THEN End(h) ELSE Goto(h, "write")
    /\ UNCHANGED <<table, entry>>

Given(new, old) == IF new = Nil THEN old ELSE new

Save(h, u) ==
    /\ email' = [email EXCEPT ![u] = Given(newEmail[h], @)]
    /\ phone' = [phone EXCEPT ![u] = Given(newPhone[h], @)]
    /\ standing' = [standing EXCEPT ![u] = Given(newStanding[h], @)]

\* mutant: the key is not deleted
GotoDrop_Forgotten(h) == End(h)

\* what has been written is of no more use
GotoDrop(h) ==
    /\ at' = [at EXCEPT ![h] = "drop"]
    /\ newEmail' = [newEmail EXCEPT ![h] = Nil]
    /\ newPhone' = [newPhone EXCEPT ![h] = Nil]
    /\ newStanding' = [newStanding EXCEPT ![h] = Nil]
    /\ UNCHANGED <<user, seen>>

\* the indexes of users refuse a contact that another account has
Write(h) ==
    /\ at[h] = "write"
    /\ \/ (EmailTaken(h) \/ PhoneTaken(h)) /\ End(h) /\ UNCHANGED table
       \/ /\ ~EmailTaken(h) /\ ~PhoneTaken(h)
          /\ \/ user[h] # Nil /\ Save(h, user[h]) /\ GotoDrop(h)
             \/ user[h] = Nil /\ (\E u \in Users \ Accounts : Save(h, u)) /\ End(h)
    /\ UNCHANGED entry

Drop(h) ==
    /\ at[h] = "drop"
    /\ entry' = [entry EXCEPT ![user[h]] = Nil]
    /\ End(h)
    /\ UNCHANGED table

-----------------------------------------------------------------------------
(* PurchaseRequestService.create, from its third comment on *)

BeginOrder(h) == \E u \in Accounts, p \in Phones : BeginWith(h, "readPhone", u, Nil, p, Nil)

\* mutant: the number given with an order is always taken over
ReadPhone_Any(h) == at[h] = "readPhone" /\ Goto(h, "findOwner") /\ UNCHANGED <<table, entry>>

ReadPhone(h) ==
    /\ at[h] = "readPhone"
    /\ IF phone[user[h]] = Nil THEN Goto(h, "findOwner") ELSE End(h)
    /\ UNCHANGED <<table, entry>>

FindOwner(h) ==
    /\ at[h] = "findOwner"
    /\ IF \E u \in Users : phone[u] = newPhone[h] THEN End(h) ELSE Goto(h, "adopt")
    /\ UNCHANGED <<table, entry>>

Adopt(h) ==
    /\ at[h] = "adopt"
    /\ IF PhoneTaken(h) THEN UNCHANGED table ELSE Save(h, user[h])
    /\ End(h)
    /\ UNCHANGED entry

-----------------------------------------------------------------------------
\* the entry's five minutes run out
Expire(u) ==
    /\ entry[u] # Nil
    /\ entry' = [entry EXCEPT ![u] = Nil]
    /\ UNCHANGED <<table, at, user, dto, seen>>

\* a statement throws, or the process dies, at any await
Crash(h) == at[h] # "idle" /\ End(h) /\ UNCHANGED <<table, entry>>

Init ==
    /\ email = [u \in Users |-> Nil]
    /\ phone = [u \in Users |-> Nil]
    /\ standing = [u \in Users |-> Nil]
    /\ entry = [u \in Users |-> Nil]
    /\ at = [h \in Handlers |-> "idle"]
    /\ user = [h \in Handlers |-> Nil]
    /\ newEmail = [h \in Handlers |-> Nil]
    /\ newPhone = [h \in Handlers |-> Nil]
    /\ newStanding = [h \in Handlers |-> Nil]
    /\ seen = [h \in Handlers |-> Nil]
    /\ overtaken = [h \in Handlers |-> FALSE]
    /\ excused = {}

Arrive(h) ==
    \/ BeginValidate(h) \/ BeginUpdate(h) \/ BeginCreate(h) \/ BeginSignUp(h) \/ BeginOrder(h)

Serve(h) ==
    \/ Lookup(h) \/ ReadUser(h) \/ Fill(h) \/ Leave(h)
    \/ ReadUpdate(h) \/ FindEmail(h) \/ FindPhone(h) \/ Write(h) \/ Drop(h)
    \/ ReadPhone(h) \/ FindOwner(h) \/ Adopt(h)

-----------------------------------------------------------------------------
Stale(u) == entry[u] # Nil /\ entry[u] # standing[u]

Trusting(h) == at[h] \in {"fill", "findPhone", "write", "findOwner", "adopt"}

\* this step changes what h has read and is about to act on
Overtakes(h) ==
    \/ at[h] = "fill" /\ standing'[user[h]] # standing[user[h]]
    \/ at[h] \in {"findOwner", "adopt"} /\ phone[user[h]] = Nil /\ phone'[user[h]] # Nil
    \/ ~EmailTaken(h) /\ EmailTaken(h)'
    \/ ~PhoneTaken(h) /\ PhoneTaken(h)'

\* this step leaves a stale entry for a reason that the code does not exclude
Excuses(h) ==
    \/ at[h] = "fill" /\ overtaken[h] /\ Fill(h)
    \/ at[h] = "drop" /\ Crash(h)

\* bookkeeping of the history variables, which no action reads
Track ==
    /\ overtaken' = [h \in Handlers |->
                         /\ Trusting(h)'
                         /\ overtaken[h] \/ (Trusting(h) /\ at'[h] = at[h] /\ Overtakes(h))]
    /\ excused' = {u \in excused \cup {user[h] : h \in {g \in Handlers : Excuses(g)}} : Stale(u)'}

Next ==
    /\ \/ \E h \in Handlers : Arrive(h) \/ Serve(h) \/ Crash(h)
       \/ \E u \in Users : Expire(u)
    /\ Track

Spec == Init /\ [][Next]_vars

-----------------------------------------------------------------------------
RowTypes ==
    /\ email \in [Users -> Emails \cup {Nil}]
    /\ phone \in [Users -> Phones \cup {Nil}]
    /\ standing \in [Users -> Standings \cup {Nil}]
    /\ entry \in [Users -> Standings \cup {Nil}]
    /\ \A u \in Users :
           /\ u \in Accounts <=> standing[u] # Nil
           /\ u \notin Accounts => phone[u] = Nil /\ entry[u] = Nil

CallTypes ==
    /\ at \in [Handlers -> Steps \cup {"idle"}]
    /\ user \in [Handlers -> Users \cup {Nil}]
    /\ newEmail \in [Handlers -> Emails \cup {Nil}]
    /\ newPhone \in [Handlers -> Phones \cup {Nil}]
    /\ newStanding \in [Handlers -> Standings \cup {Nil}]
    /\ seen \in [Handlers -> Standings \cup {Nil}]

\* what a handler has by the time it stands at a step
CallFacts(h) ==
    /\ at[h] \in {"lookup", "readUser", "fill", "admitted", "drop", "readPhone", "findOwner",
                  "adopt"} => user[h] \in Accounts
    /\ at[h] \in {"findEmail", "findPhone", "write"} =>
           \/ user[h] \in Accounts
           \/ user[h] = Nil /\ newEmail[h] # Nil /\ newStanding[h] # Nil
    /\ at[h] = "fill" => seen[h] # Nil
    /\ at[h] \in {"readPhone", "findOwner", "adopt"} => newEmail[h] = Nil /\ newStanding[h] = Nil

Types == RowTypes /\ CallTypes /\ \A h \in Handlers : CallFacts(h)

(* Every variable stays within its type; only accounts that exist are       *)
(* cached, updated or let in.                                               *)
TypeOK ==
    /\ Types
    /\ overtaken \in [Handlers -> BOOLEAN]
    /\ excused \subseteq {u \in Users : Stale(u)}

(* user.service.ts:44 "Validates that email and phone number are unique     *)
(* across users.  Throws ConflictException if either is already taken", and *)
(* purchase-request.service.ts:61: the index is left to refuse a write,     *)
(* with a 500, only if the contact was taken by another call since it was   *)
(* found free.                                                              *)
ConflictsFoundInTime ==
    \A h \in Handlers :
        at[h] \in {"write", "adopt"} /\ (EmailTaken(h) \/ PhoneTaken(h)) => overtaken[h]

(* purchase-request.service.ts:56 "Update User phone number in profile if   *)
(* not already set": an order replaces a number only if the account was     *)
(* given it after the order had found that it had none.                     *)
NumbersReplacedRaced ==
    [][\A h \in Handlers :
           at[h] = "adopt" /\ Adopt(h) /\ phone[user[h]] # Nil /\ phone' # phone
           => overtaken[h]]_vars

(* user.service.ts:142, 233: an update that changes what validate has       *)
(* cached deletes it: an entry is stale only while the update is still to   *)
(* delete it, or was cut off before, or if validate stored it after it had  *)
(* been overtaken by the update.                                            *)
StaleRightsExplained ==
    \A u \in Users : Stale(u) =>
        u \in excused \/ \E h \in Handlers : at[h] = "drop" /\ user[h] = u

(* jwt.strategy.ts:66: a request of a deactivated account is let in only    *)
(* for a reason that the staleness of the cache has: the update has not got *)
(* to deleting the entry, or was cut off before, or overtook the validate   *)
(* that filled it, or overtakes this one.                                   *)
DeactivatedStayOut ==
    [][\A h \in Handlers :
           at[h] # "admitted" /\ at'[h] = "admitted" /\ standing[user[h]] \in Inactive
           => \/ at[h] = "fill" /\ overtaken[h]
              \/ user[h] \in excused
              \/ \E g \in Handlers : at[g] = "drop" /\ user[g] = user[h]]_vars

-----------------------------------------------------------------------------
(* Where the users table and its cache stand in ReadThroughCache: a call of *)
(* validate has read between readUser and fill, an update owes the deletion *)
(* of its account's key while it stands at drop.                            *)
Cache == INSTANCE ReadThroughCache WITH
    Clients <- Handlers, Keys <- Users, Values <- Standings, source <- standing,
    asked <- [h \in Handlers |-> IF at[h] = "fill" THEN user[h] ELSE Nil],
    held <- [h \in Handlers |-> IF at[h] = "fill" THEN seen[h] ELSE Nil],
    owed <- [h \in Handlers |-> IF at[h] = "drop" THEN {user[h]} ELSE {}]

(* The service implements ReadThroughCache: only validate fills the cache,  *)
(* with a standing that it read since it began, and whoever changes the     *)
(* standing of an account that exists goes on to delete its key or is cut   *)
(* off; sign-ups, creations and the adoption of a phone number change       *)
(* nothing that could be cached.                                            *)
CacheSpec == Cache!Spec
=============================================================================
