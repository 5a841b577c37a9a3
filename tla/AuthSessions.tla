---------------------------- MODULE AuthSessions ----------------------------
(***************************************************************************)
(* AuthService (src/src/auth): sign-up, login, refresh-token rotation and  *)
(* logout over the rows of users and refresh_tokens.                       *)
(*                                                                         *)
(* refresh creates the successor and revokes the presented token in two    *)
(* separate statements, each awaited, on the strength of a row it read     *)
(* before both; so does login with the account it read.  Every await that  *)
(* reads or writes a row is a step, and a handler may be lost at any of    *)
(* them.  A token is known by its row: the hash stored is one-to-one with  *)
(* the random value the client is given.                                   *)
(***************************************************************************)
EXTENDS Naturals, FiniteSets

CONSTANTS Handlers,   \* calls that can be served at the same time
          Users,      \* e-mail addresses, each at most one account
          Tokens,     \* refresh tokens that can be drawn
          Nil

ASSUME ConstantsAssumption == Nil \notin Users \cup Tokens

VARIABLES account,    \* account[u]: "none", or users.is_active as "active" / "inactive"
          owner,      \* owner[t]: user of row t of refresh_tokens, Nil while there is no row
          revoked,    \* revoked[t]: "no", or the revoked_reason
          successor,  \* successor[t]: replaced_by
          expired,    \* rows whose expires_at has passed
          held,       \* tokens that an answer has carried to a client
          session,    \* history: session[t] is the token of the login that t descends from
          at,         \* at[h]: the await handler h is about to issue
          who,        \* who[h]: the account a sign-up or login is about
          presented,  \* presented[h]: the token a refresh or logout came with, Nil if unknown
          fresh,      \* fresh[h]: the row h has created and not yet answered with
          raced,      \* history: sessions in which a refresh was overtaken, see Track
          lost        \* history: sessions of which an answer was lost

actual == <<account, owner, revoked, successor, expired, held, session,
            at, who, presented, fresh>>
vars == <<actual, raced, lost>>
tokenRows == <<owner, revoked, successor, session>>
callState == <<at, who, presented, fresh>>

EntrySteps == {"findContacts", "insertUser", "findUser", "findGoogleUser",
               "insertGoogleUser", "createToken"}
RefreshSteps == {"findToken", "createSuccessor", "revokeOld"}
LogoutSteps == {"revoke"}
Steps == EntrySteps \cup RefreshSteps \cup LogoutSteps \cup {"answer"}

-----------------------------------------------------------------------------
Goto(h, step) ==
    /\ at' = [at EXCEPT ![h] = step]
    /\ UNCHANGED <<who, presented, fresh>>

End(h) ==
    /\ at' = [at EXCEPT ![h] = "idle"]
    /\ who' = [who EXCEPT ![h] = Nil]
    /\ presented' = [presented EXCEPT ![h] = Nil]
    /\ fresh' = [fresh EXCEPT ![h] = Nil]

Begin(h, step, u, t) ==
    /\ at[h] = "idle"
    /\ at' = [at EXCEPT ![h] = step]
    /\ who' = [who EXCEPT ![h] = u]
    /\ presented' = [presented EXCEPT ![h] = t]
    /\ UNCHANGED <<account, expired, held, fresh, tokenRows>>

FreeTokens == {t \in Tokens : owner[t] = Nil}
Drawing == {h \in Handlers : at[h] \in (EntrySteps \cup RefreshSteps) \ {"revokeOld"}}

\* bound: a call that may draw a token starts only while one is left for it
RoomForToken == Cardinality(Drawing) < Cardinality(FreeTokens)

\* refreshToken.create: a row for user u in session s (Nil: a session of its own)
CreateRow(h, u, s) ==
    \E t \in FreeTokens :
        /\ owner' = [owner EXCEPT ![t] = u]
        /\ session' = [session EXCEPT ![t] = IF s = Nil THEN t ELSE s]
        /\ fresh' = [fresh EXCEPT ![h] = t]
        /\ UNCHANGED <<revoked, successor>>

-----------------------------------------------------------------------------
(* register, login, googleLogin *)

BeginEntry(h) ==
    /\ RoomForToken
    /\ \E u \in Users, step \in {"findContacts", "findUser", "findGoogleUser"} :
           Begin(h, step, u, Nil)

\* e-mail and phone are looked up; another account may hold the phone
FindContacts(h) ==
    /\ at[h] = "findContacts"
    /\ \/ End(h)
       \/ account[who[h]] = "none" /\ Goto(h, "insertUser")
    /\ UNCHANGED <<account, expired, held, tokenRows>>

\* users.email and users.phone_number are unique: the insert may be refused
InsertUser(h) ==
    /\ at[h] \in {"insertUser", "insertGoogleUser"}
    /\ \/ /\ account[who[h]] = "none"
          /\ account' = [account EXCEPT ![who[h]] = "active"]
          /\ Goto(h, "createToken")
       \/ /\ at[h] = "insertUser" \/ account[who[h]] # "none"
          /\ End(h)
          /\ UNCHANGED account
    /\ UNCHANGED <<expired, held, tokenRows>>

\* mutant: the account's state is not looked at
FindUser_AnyState(h) ==
    /\ at[h] = "findUser"
    /\ \/ End(h)
       \/ account[who[h]] # "none" /\ Goto(h, "createToken")
    /\ UNCHANGED <<account, expired, held, tokenRows>>

\* unknown e-mail, wrong or missing password, lock-out: refused whatever the account
FindUser(h) ==
    /\ at[h] = "findUser"
    /\ \/ End(h)
       \/ account[who[h]] = "active" /\ Goto(h, "createToken")
    /\ UNCHANGED <<account, expired, held, tokenRows>>

FindGoogleUser(h) ==
    /\ at[h] = "findGoogleUser"
    /\ \/ account[who[h]] = "none" /\ Goto(h, "insertGoogleUser")
       \/ account[who[h]] = "active" /\ Goto(h, "createToken")
       \/ End(h)                          \* bad Google token, or a deactivated account
    /\ UNCHANGED <<account, expired, held, tokenRows>>

\* buildTokenResponse
CreateToken(h) ==
    /\ at[h] = "createToken"
    /\ CreateRow(h, who[h], Nil)
    /\ at' = [at EXCEPT ![h] = "answer"]
    /\ UNCHANGED <<account, expired, held, who, presented>>

-----------------------------------------------------------------------------
(* refresh *)

BeginRefresh(h) ==
    /\ RoomForToken
    /\ \E t \in held \cup {Nil} : Begin(h, "findToken", Nil, t)

\* mutant: the row is found by its hash and not asked whether it is revoked
Live_EvenRevoked(t) == t # Nil /\ t \notin expired /\ account[owner[t]] = "active"

Live(t) == t # Nil /\ revoked[t] = "no" /\ t \notin expired /\ account[owner[t]] = "active"

\* mutant: the presented token is revoked before its successor exists
FindToken_RevokesFirst(h) ==
    /\ at[h] = "findToken"
    /\ IF Live(presented[h]) THEN Goto(h, "createSuccessor") ELSE End(h)
    /\ revoked' = [t \in Tokens |->
           IF t = presented[h] /\ Live(t) THEN "ROTATED" ELSE revoked[t]]
    /\ UNCHANGED <<account, owner, successor, expired, held, session>>

FindToken(h) ==
    /\ at[h] = "findToken"
    /\ IF Live(presented[h]) THEN Goto(h, "createSuccessor") ELSE End(h)
    /\ UNCHANGED <<account, expired, held, tokenRows>>

\* mutant: the successor is answered and the old row left live
CreateSuccessor_NoRevoke(h) ==
    /\ at[h] = "createSuccessor"
    /\ CreateRow(h, owner[presented[h]], session[presented[h]])
    /\ at' = [at EXCEPT ![h] = "answer"]
    /\ UNCHANGED <<account, expired, held, who, presented>>

CreateSuccessor(h) ==
    /\ at[h] = "createSuccessor"
    /\ CreateRow(h, owner[presented[h]], session[presented[h]])
    /\ at' = [at EXCEPT ![h] = "revokeOld"]
    /\ UNCHANGED <<account, expired, held, who, presented>>

\* mutant: replaced_by is given the id of the row itself
RevokeOld_Self(h) ==
    /\ at[h] = "revokeOld"
    /\ revoked' = [revoked EXCEPT ![presented[h]] = "ROTATED"]
    /\ successor' = [successor EXCEPT ![presented[h]] = presented[h]]
    /\ Goto(h, "answer")
    /\ UNCHANGED <<account, owner, expired, held, session>>

\* mutant: replaced_by is not recorded
RevokeOld_NoLink(h) ==
    /\ at[h] = "revokeOld"
    /\ revoked' = [revoked EXCEPT ![presented[h]] = "ROTATED"]
    /\ Goto(h, "answer")
    /\ UNCHANGED <<account, owner, successor, expired, held, session>>

\* by id, whatever has become of the row since it was read
RevokeOld(h) ==
    /\ at[h] = "revokeOld"
    /\ revoked' = [revoked EXCEPT ![presented[h]] = "ROTATED"]
    /\ successor' = [successor EXCEPT ![presented[h]] = fresh[h]]
    /\ Goto(h, "answer")
    /\ UNCHANGED <<account, owner, expired, held, session>>

-----------------------------------------------------------------------------
(* logout *)

BeginLogout(h) == \E t \in held \cup {Nil} : Begin(h, "revoke", Nil, t)

\* updateMany: no row, no change; a row already revoked is marked again
RevokeOnLogout(h) ==
    /\ at[h] = "revoke"
    /\ Goto(h, "answer")
    /\ revoked' = [t \in Tokens |-> IF t = presented[h] THEN "LOGOUT" ELSE revoked[t]]
    /\ UNCHANGED <<account, owner, successor, expired, held, session>>

-----------------------------------------------------------------------------
\* the answer reaches the client with the token just created, if any
Answer(h) ==
    /\ at[h] = "answer"
    /\ held' = held \cup ({fresh[h]} \ {Nil})
    /\ End(h)
    /\ UNCHANGED <<account, expired, tokenRows>>

\* a call throws, or its answer never arrives, or the process dies
Crash(h) ==
    /\ at[h] # "idle"
    /\ End(h)
    /\ UNCHANGED <<account, expired, held, tokenRows>>

\* seven days pass
Expire(t) ==
    /\ owner[t] # Nil /\ t \notin expired
    /\ expired' = expired \cup {t}
    /\ UNCHANGED <<account, held, tokenRows, callState>>

\* UserService.updateUserByAdmin writes users.is_active
SetActive(u) ==
    /\ account[u] # "none"
    /\ account' = [account EXCEPT ![u] = IF @ = "active" THEN "inactive" ELSE "active"]
    /\ UNCHANGED <<expired, held, tokenRows, callState>>

Init ==
    /\ account \in [Users -> {"none", "active"}]
    /\ owner = [t \in Tokens |-> Nil]
    /\ revoked = [t \in Tokens |-> "no"]
    /\ successor = [t \in Tokens |-> Nil]
    /\ session = [t \in Tokens |-> Nil]
    /\ expired = {} /\ held = {}
    /\ at = [h \in Handlers |-> "idle"]
    /\ who = [h \in Handlers |-> Nil]
    /\ presented = [h \in Handlers |-> Nil]
    /\ fresh = [h \in Handlers |-> Nil]
    /\ raced = {} /\ lost = {}

\* a refresh that has found its token live and has yet to replace it
Rotating(h) == at[h] \in {"createSuccessor", "revokeOld"}

Offering(h) == at[h] = "answer" /\ fresh[h] # Nil

\* a token is revoked while another refresh, having found it live, goes on;
\* a token about to be answered does not come to be held
Track ==
    /\ raced' = raced \cup
           {session'[t] : t \in {u \in Tokens :
               /\ revoked[u] = "no" /\ revoked'[u] # "no"
               /\ \E g \in Handlers : Rotating(g)' /\ presented'[g] = u}}
    /\ lost' = lost \cup
           {session[fresh[h]] : h \in {g \in Handlers :
               Offering(g) /\ ~Offering(g)' /\ fresh[g] \notin held'}}

Arrive(h) == BeginEntry(h) \/ BeginRefresh(h) \/ BeginLogout(h)

Serve(h) ==
    \/ FindContacts(h) \/ InsertUser(h) \/ FindUser(h) \/ FindGoogleUser(h) \/ CreateToken(h)
    \/ FindToken(h) \/ CreateSuccessor(h) \/ RevokeOld(h)
    \/ RevokeOnLogout(h) \/ Answer(h)

Step ==
    \/ \E h \in Handlers : Arrive(h) \/ Serve(h) \/ Crash(h)
    \/ \E t \in Tokens : Expire(t)
    \/ \E u \in Users : SetActive(u)

Next == Step /\ Track

Spec == Init /\ [][Next]_vars

\* the event loop resumes every pending await; clients, admins and clocks owe nothing
FairSpec == Spec /\ \A h \in Handlers : WF_actual(Serve(h))

-----------------------------------------------------------------------------
RowTypes ==
    /\ account \in [Users -> {"none", "active", "inactive"}]
    /\ owner \in [Tokens -> Users \cup {Nil}]
    /\ revoked \in [Tokens -> {"no", "ROTATED", "LOGOUT"}]
    /\ successor \in [Tokens -> Tokens \cup {Nil}]
    /\ session \in [Tokens -> Tokens \cup {Nil}]
    /\ expired \subseteq Tokens
    /\ held \subseteq {t \in Tokens : owner[t] # Nil}
    /\ \A t \in Tokens : owner[t] = Nil <=> session[t] = Nil
    /\ \A t \in Tokens : owner[t] = Nil => revoked[t] = "no" /\ successor[t] = Nil

CallTypes ==
    /\ at \in [Handlers -> Steps \cup {"idle"}]
    /\ who \in [Handlers -> Users \cup {Nil}]
    /\ presented \in [Handlers -> held \cup {Nil}]
    /\ fresh \in [Handlers -> Tokens \cup {Nil}]

\* what a handler has learnt by the time it stands at a step
CallFacts(h) ==
    /\ at[h] \in EntrySteps => who[h] \in Users
    /\ at[h] \in {"createSuccessor", "revokeOld"} => presented[h] # Nil
    /\ at[h] = "revokeOld" =>
           /\ fresh[h] # Nil
           /\ owner[fresh[h]] = owner[presented[h]]
           /\ session[fresh[h]] = session[presented[h]]
    /\ fresh[h] # Nil =>
           /\ at[h] \in {"revokeOld", "answer"}
           /\ owner[fresh[h]] # Nil
           /\ fresh[h] \notin held
           /\ \A g \in Handlers : fresh[g] = fresh[h] => g = h

CodeOK == RowTypes /\ CallTypes /\ \A h \in Handlers : CallFacts(h)

(* Every variable stays within its type; a handler that is about to revoke  *)
(* has made a successor of the same account, which no client holds yet.     *)
TypeOK == CodeOK /\ raced \subseteq Tokens /\ lost \subseteq Tokens

(* replaced_by links a revoked token to another one of the same account and *)
(* session, no token replaces two, and a rotated token names its successor, *)
(* whatever refreshes and logouts of one token overlap.                     *)
ChainsSound ==
    /\ \A t \in Tokens : revoked[t] = "ROTATED" => successor[t] # Nil
    /\ \A t \in Tokens : successor[t] # Nil =>
           /\ revoked[t] # "no" /\ successor[t] # t
           /\ owner[successor[t]] = owner[t] /\ session[successor[t]] = session[t]
    /\ \A s, t \in Tokens : successor[s] = successor[t] /\ successor[s] # Nil => s = t

(* A revoked token stays revoked: nothing rotates or logs it back in.       *)
RevocationIsFinal ==
    [][\A t \in Tokens : revoked[t] # "no" => revoked'[t] # "no"]_vars

Usable(t) == t \in held /\ revoked[t] = "no"

(* Rotation replaces: a session has at most one token that a client holds   *)
(* and the service would still exchange, unless one of its refreshes was    *)
(* overtaken between the row it read and the row it wrote.                  *)
OneUsablePerSession ==
    \A s, t \in Tokens :
        Usable(s) /\ Usable(t) /\ session[s] = session[t] /\ session[t] \notin raced => s = t

(* Logging out the token in use leaves its session without a usable token,  *)
(* unless a refresh had read that token before, and goes on.                *)
LogoutEndsSession ==
    \A t \in Tokens : revoked[t] = "LOGOUT" /\ successor[t] = Nil /\ session[t] \notin raced =>
        ~\E s \in Tokens : Usable(s) /\ session[s] = session[t]

(* A client is left without a session only by a logout or a lost answer: a  *)
(* session has a token that was logged out, or a live one that the client   *)
(* holds or is being sent.                                                  *)
SessionSurvives ==
    \A t \in Tokens : owner[t] # Nil /\ session[t] \notin lost =>
        \E s \in Tokens :
            /\ session[s] = session[t]
            /\ \/ revoked[s] = "LOGOUT"
               \/ Usable(s)
               \/ revoked[s] = "no" /\ \E h \in Handlers : Offering(h) /\ fresh[h] = s

(* auth.controller.ts:223 "Validates the HTTP-only refresh token, rotates   *)
(* it": once only, since a token that has a successor is given another one  *)
(* only by a refresh that was overtaken.                                    *)
RotatedOnce ==
    [][\A t \in Tokens : successor[t] # Nil /\ session[t] \notin raced =>
            successor'[t] = successor[t]]_vars

(* A deactivated account is cut off: once an admin leaves it inactive, the  *)
(* calls that had read it active drain and no token is created for it.      *)
Issuing(h, u) ==
    \/ at[h] = "createToken" /\ who[h] = u
    \/ at[h] = "createSuccessor" /\ owner[presented[h]] = u

DeactivationDrains ==
    \A u \in Users :
        <>[](account[u] = "inactive") => <>[](\A h \in Handlers : ~Issuing(h, u))

=============================================================================
