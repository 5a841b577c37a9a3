------------------------- MODULE AuthSessionsProofs -------------------------
(***************************************************************************)
(* Theorems about AuthSessions, for any number of handlers, accounts and   *)
(* tokens: what survives any overlap of calls, and what a client may rely  *)
(* on in the sessions none of whose refreshes was overtaken.               *)
(***************************************************************************)
EXTENDS AuthSessions, TLAPS

-----------------------------------------------------------------------------
(* Typing *)

LEMMA CodeInit == Init => CodeOK
BY ConstantsAssumption
   DEF Init, CodeOK, RowTypes, CallTypes, CallFacts, Steps, EntrySteps

(* A row can only be drawn while it does not exist. *)
LEMMA DrawnRow ==
    ASSUME CodeOK, NEW h \in Handlers, NEW u \in Users, NEW s \in Tokens \cup {Nil},
           CreateRow(h, u, s)
    PROVE  \E t \in Tokens :
               /\ owner[t] = Nil /\ session[t] = Nil /\ t \notin held
               /\ revoked[t] = "no" /\ successor[t] = Nil
               /\ owner' = [owner EXCEPT ![t] = u]
               /\ session' = [session EXCEPT ![t] = IF s = Nil THEN t ELSE s]
               /\ fresh' = [fresh EXCEPT ![h] = t]
               /\ revoked' = revoked /\ successor' = successor
BY DEF CodeOK, RowTypes, CreateRow, FreeTokens

LEMMA TypeArrive ==
    ASSUME CodeOK, NEW h \in Handlers, Arrive(h)
    PROVE  CodeOK'
<1>1. \E u \in Users \cup {Nil}, t \in held \cup {Nil}, step \in Steps :
          /\ Begin(h, step, u, t)
          /\ step \in {"findContacts", "findUser", "findGoogleUser", "findToken", "revoke"}
          /\ step \in EntrySteps => u \in Users
    BY DEF Arrive, BeginEntry, BeginRefresh, BeginLogout, Steps, EntrySteps, RefreshSteps, LogoutSteps
<1> QED
    BY <1>1 DEF CodeOK, RowTypes, CallTypes, CallFacts, Begin, tokenRows

LEMMA TypeGotoEnd ==
    ASSUME CodeOK, NEW h \in Handlers,
           \/ End(h)
           \/ at[h] \in EntrySteps /\ \E step \in EntrySteps : Goto(h, step)
           \/ at[h] = "findToken" /\ presented[h] # Nil /\ Goto(h, "createSuccessor"),
           account' \in [Users -> {"none", "active", "inactive"}],
           expired' = expired, held' = held, UNCHANGED tokenRows
    PROVE  CodeOK'
<1>1. RowTypes'
    BY DEF CodeOK, RowTypes, tokenRows
<1>2. CASE End(h)
    <2>1. CallTypes'
        BY <1>2 DEF CodeOK, CallTypes, End
    <2>2. \A g \in Handlers : CallFacts(g)'
        BY <1>2 DEF CodeOK, CallTypes, CallFacts, End, tokenRows, EntrySteps
    <2> QED BY <1>1, <2>1, <2>2 DEF CodeOK
<1>3. CASE at[h] \in EntrySteps /\ \E step \in EntrySteps : Goto(h, step)
    BY <1>1, <1>3 DEF CodeOK, CallTypes, CallFacts, Goto, tokenRows, Steps, EntrySteps
<1>4. CASE at[h] = "findToken" /\ presented[h] # Nil /\ Goto(h, "createSuccessor")
    BY <1>1, <1>4 DEF CodeOK, CallTypes, CallFacts, Goto, tokenRows, Steps, EntrySteps, RefreshSteps
<1> QED BY <1>2, <1>3, <1>4

LEMMA TypeServe ==
    ASSUME CodeOK, NEW h \in Handlers, Serve(h) \/ Crash(h)
    PROVE  CodeOK'
<1>1. account \in [Users -> {"none", "active", "inactive"}]
    BY DEF CodeOK, RowTypes
<1>2. CASE FindContacts(h) \/ FindUser(h) \/ FindGoogleUser(h) \/ FindToken(h) \/ Crash(h)
    BY <1>1, <1>2, TypeGotoEnd
       DEF FindContacts, FindUser, FindGoogleUser, FindToken, Live, Crash, EntrySteps
<1>3. CASE InsertUser(h)
    <2>1. account' \in [Users -> {"none", "active", "inactive"}]
        BY <1>1, <1>3 DEF InsertUser
    <2> QED BY <1>3, <2>1, TypeGotoEnd DEF InsertUser, EntrySteps
<1>4. CASE CreateToken(h)
    <2>1. who[h] \in Users
        BY <1>4 DEF CreateToken, CodeOK, CallFacts, EntrySteps
    <2>2. PICK t \in Tokens :
               /\ owner[t] = Nil /\ session[t] = Nil /\ t \notin held
               /\ revoked[t] = "no" /\ successor[t] = Nil
               /\ owner' = [owner EXCEPT ![t] = who[h]]
               /\ session' = [session EXCEPT ![t] = t]
               /\ fresh' = [fresh EXCEPT ![h] = t]
               /\ revoked' = revoked /\ successor' = successor
        BY <1>4, <2>1, DrawnRow DEF CreateToken
    <2>3. RowTypes'
        BY <1>4, <2>1, <2>2, ConstantsAssumption DEF CreateToken, CodeOK, RowTypes
    <2>4. CallTypes' /\ \A g \in Handlers : CallFacts(g)'
        BY <1>4, <2>1, <2>2, ConstantsAssumption
           DEF CreateToken, CodeOK, RowTypes, CallTypes, CallFacts, Steps, EntrySteps
    <2> QED BY <2>3, <2>4 DEF CodeOK
<1>5. CASE CreateSuccessor(h)
    <2>1. /\ presented[h] \in held /\ presented[h] \in Tokens
          /\ owner[presented[h]] \in Users /\ session[presented[h]] \in Tokens
        BY <1>5 DEF CreateSuccessor, CodeOK, RowTypes, CallTypes, CallFacts
    <2>2. PICK t \in Tokens :
               /\ owner[t] = Nil /\ session[t] = Nil /\ t \notin held
               /\ revoked[t] = "no" /\ successor[t] = Nil
               /\ owner' = [owner EXCEPT ![t] = owner[presented[h]]]
               /\ session' = [session EXCEPT ![t] = session[presented[h]]]
               /\ fresh' = [fresh EXCEPT ![h] = t]
               /\ revoked' = revoked /\ successor' = successor
        BY <1>5, <2>1, DrawnRow, ConstantsAssumption DEF CreateSuccessor
    <2>3. RowTypes'
        BY <1>5, <2>1, <2>2, ConstantsAssumption DEF CreateSuccessor, CodeOK, RowTypes
    <2>4. CallTypes' /\ \A g \in Handlers : CallFacts(g)'
        BY <1>5, <2>1, <2>2, ConstantsAssumption
           DEF CreateSuccessor, CodeOK, RowTypes, CallTypes, CallFacts,
               Steps, EntrySteps, RefreshSteps
    <2> QED BY <2>3, <2>4 DEF CodeOK
<1>6. CASE RevokeOld(h)
    <2>1. presented[h] \in Tokens /\ owner[presented[h]] # Nil /\ fresh[h] \in Tokens
        BY <1>6 DEF RevokeOld, CodeOK, RowTypes, CallTypes, CallFacts
    <2> QED
        BY <1>6, <2>1 DEF RevokeOld, Goto, CodeOK, RowTypes, CallTypes, CallFacts,
                          Steps, EntrySteps
<1>7. CASE RevokeOnLogout(h)
    <2>1. presented[h] # Nil => presented[h] \in Tokens /\ owner[presented[h]] # Nil
        BY DEF CodeOK, RowTypes, CallTypes
    <2>2. RowTypes'
        BY <1>7, <2>1, ConstantsAssumption DEF RevokeOnLogout, CodeOK, RowTypes
    <2>3. CallTypes' /\ \A g \in Handlers : CallFacts(g)'
        BY <1>7 DEF RevokeOnLogout, Goto, CodeOK, RowTypes, CallTypes, CallFacts, Steps, EntrySteps
    <2> QED BY <2>2, <2>3 DEF CodeOK
<1>8. CASE Answer(h)
    <2>1. RowTypes'
        BY <1>8 DEF Answer, tokenRows, CodeOK, RowTypes, CallTypes, CallFacts
    <2>2. CallTypes'
        BY <1>8 DEF Answer, End, CodeOK, CallTypes
    <2>3. \A g \in Handlers : CallFacts(g)'
        BY <1>8 DEF Answer, End, tokenRows, CodeOK, CallTypes, CallFacts, EntrySteps
    <2> QED BY <2>1, <2>2, <2>3 DEF CodeOK
<1> QED
    BY <1>2, <1>3, <1>4, <1>5, <1>6, <1>7, <1>8 DEF Serve

LEMMA CodeStep == CodeOK /\ [Next]_vars => CodeOK'
<1>1. CodeOK /\ UNCHANGED vars => CodeOK'
    BY DEF vars, actual, CodeOK, RowTypes, CallTypes, CallFacts
<1>2. ASSUME CodeOK, NEW t \in Tokens, Expire(t) PROVE CodeOK'
    BY <1>2 DEF Expire, tokenRows, callState, CodeOK, RowTypes, CallTypes, CallFacts
<1>3. ASSUME CodeOK, NEW u \in Users, SetActive(u) PROVE CodeOK'
    BY <1>3 DEF SetActive, tokenRows, callState, CodeOK, RowTypes, CallTypes, CallFacts
<1> QED
    BY <1>1, <1>2, <1>3, TypeArrive, TypeServe DEF Next, Step

(* Every variable stays within its type; a handler that is about to revoke  *)
(* holds a successor of the same account that no client has yet.            *)
THEOREM Typing == Spec => []TypeOK
<1>1. Init => TypeOK
    BY CodeInit DEF Init, TypeOK
<1>2. TypeOK /\ [Next]_vars => TypeOK'
    <2> SUFFICES ASSUME TypeOK, [Next]_vars
                 PROVE  raced' \subseteq Tokens /\ lost' \subseteq Tokens
        BY CodeStep DEF TypeOK
    <2>1. CASE UNCHANGED vars
        BY <2>1 DEF vars, TypeOK
    <2>2. CASE Track
        <3>1. ASSUME NEW g \in Handlers, Rotating(g)' PROVE presented'[g] \in held'
            BY <3>1, CodeStep, ConstantsAssumption
               DEF Rotating, TypeOK, CodeOK, CallTypes, CallFacts
        <3>2. \A u \in held' : u \in Tokens /\ session'[u] \in Tokens
            BY CodeStep, ConstantsAssumption DEF TypeOK, CodeOK, RowTypes
        <3>3. \A g \in Handlers : Offering(g) => session[fresh[g]] \in Tokens
            BY ConstantsAssumption
               DEF Offering, TypeOK, CodeOK, RowTypes, CallTypes, CallFacts
        <3> QED BY <2>2, <3>1, <3>2, <3>3 DEF Track, TypeOK
    <2> QED BY <2>1, <2>2 DEF Next
<1> QED BY <1>1, <1>2, PTL DEF Spec

-----------------------------------------------------------------------------
(* What a step does to the token rows: nothing, a new row, a rotation, or a *)
(* logout.                                                                  *)

Untouched == UNCHANGED <<revoked, successor, owner, session>>

LEMMA RowSteps ==
    ASSUME CodeOK, [Next]_vars
    PROVE  \/ Untouched
           \/ \E h \in Handlers : CreateToken(h) \/ CreateSuccessor(h)
                                    \/ RevokeOld(h) \/ RevokeOnLogout(h)
BY DEF Untouched, Next, Step, vars, actual, Arrive, BeginEntry, BeginRefresh, BeginLogout, Begin, Serve, Crash,
       Expire, SetActive, FindContacts, InsertUser, FindUser, FindGoogleUser, FindToken, Answer,
       tokenRows, callState

(* A revoked token stays revoked. *)
THEOREM RevokedForGood == Spec => RevocationIsFinal
<1> DEFINE Final == \A t \in Tokens : revoked[t] # "no" => revoked'[t] # "no"
<1>1. CodeOK /\ [Next]_vars => [Final]_vars
    <2> SUFFICES ASSUME CodeOK, [Next]_vars PROVE Final
        OBVIOUS
    <2>1. CASE Untouched
        BY <2>1 DEF Untouched
    <2>2. ASSUME NEW h \in Handlers, CreateToken(h) \/ CreateSuccessor(h) PROVE Final
        BY <2>2 DEF CreateToken, CreateSuccessor, CreateRow
    <2>3. ASSUME NEW h \in Handlers, RevokeOld(h) \/ RevokeOnLogout(h) PROVE Final
        BY <2>3 DEF RevokeOld, RevokeOnLogout, CodeOK, RowTypes
    <2> QED BY <2>1, <2>2, <2>3, RowSteps
<1>2. TypeOK => CodeOK
    BY DEF TypeOK
<1> QED BY <1>1, <1>2, Typing, PTL DEF Spec, RevocationIsFinal

-----------------------------------------------------------------------------
(* Chains: no row names the successor that a handler is about to link. *)

Unlinked ==
    \A h \in Handlers : at[h] = "revokeOld" => \A s \in Tokens : successor[s] # fresh[h]

ChainInv == CodeOK /\ ChainsSound /\ Unlinked

LEMMA ChainInit == Init => ChainInv
BY CodeInit DEF Init, ChainInv, ChainsSound, Unlinked

LEMMA ChainCreate ==
    ASSUME ChainInv, NEW h \in Handlers, CreateToken(h) \/ CreateSuccessor(h)
    PROVE  ChainsSound' /\ Unlinked'
<1>1. \E u \in Users, s \in Tokens \cup {Nil} : CreateRow(h, u, s)
    BY DEF CreateToken, CreateSuccessor, ChainInv, CodeOK, RowTypes, CallTypes, CallFacts, EntrySteps
<1>2. PICK t \in Tokens, u \in Users, x \in Tokens :
          /\ owner[t] = Nil
          /\ owner' = [owner EXCEPT ![t] = u]
          /\ session' = [session EXCEPT ![t] = x]
          /\ fresh' = [fresh EXCEPT ![h] = t]
          /\ revoked' = revoked /\ successor' = successor
    BY <1>1, DrawnRow DEF ChainInv
<1>3. \A s \in Tokens : successor[s] # Nil => s # t /\ successor[s] # t
    BY <1>2, ConstantsAssumption DEF ChainInv, ChainsSound, CodeOK, RowTypes
<1>4. ChainsSound'
    BY <1>2, <1>3 DEF ChainInv, ChainsSound, CodeOK, RowTypes
<1>5. Unlinked'
    <2>1. at' = [at EXCEPT ![h] = "answer"] \/ at' = [at EXCEPT ![h] = "revokeOld"]
        BY DEF CreateToken, CreateSuccessor
    <2> QED
        BY <1>2, <1>3, <2>1, ConstantsAssumption
           DEF ChainInv, Unlinked, CodeOK, CallTypes, CallFacts
<1> QED BY <1>4, <1>5

LEMMA ChainRotate ==
    ASSUME ChainInv, NEW h \in Handlers, RevokeOld(h)
    PROVE  ChainsSound' /\ Unlinked'
<1> DEFINE p == presented[h]
           f == fresh[h]
<1>1. /\ p \in Tokens /\ f \in Tokens /\ f # p
      /\ owner[f] = owner[p] /\ session[f] = session[p]
      /\ \A s \in Tokens : successor[s] # f
    BY DEF RevokeOld, ChainInv, Unlinked, CodeOK, RowTypes, CallTypes, CallFacts
<1>2. /\ revoked' = [revoked EXCEPT ![p] = "ROTATED"]
      /\ successor' = [successor EXCEPT ![p] = f]
      /\ owner' = owner /\ session' = session
    BY DEF RevokeOld
<1>3. ChainsSound'
    BY <1>1, <1>2, ConstantsAssumption DEF ChainInv, ChainsSound, CodeOK, RowTypes
<1>4. Unlinked'
    <2>1. \A g \in Handlers : at'[g] = "revokeOld" => g # h /\ at[g] = "revokeOld" /\ fresh'[g] = fresh[g]
        BY DEF RevokeOld, Goto, ChainInv, CodeOK, CallTypes
    <2>2. \A g \in Handlers : g # h => fresh[g] # f
        BY DEF RevokeOld, ChainInv, CodeOK, CallFacts
    <2> QED BY <1>1, <1>2, <2>1, <2>2 DEF ChainInv, Unlinked, CodeOK, RowTypes
<1> QED BY <1>3, <1>4

LEMMA ChainStep == ChainInv /\ [Next]_vars => ChainInv'
<1> SUFFICES ASSUME ChainInv, [Next]_vars PROVE ChainInv'
    OBVIOUS
<1> USE DEF ChainInv
<1>1. CodeOK'
    BY CodeStep
<1>2. CASE \E h \in Handlers : CreateToken(h) \/ CreateSuccessor(h) \/ RevokeOld(h)
    BY <1>1, <1>2, ChainCreate, ChainRotate
<1>3. ASSUME NEW h \in Handlers, RevokeOnLogout(h) PROVE ChainsSound' /\ Unlinked'
    BY <1>3 DEF RevokeOnLogout, Goto, ChainsSound, Unlinked, CodeOK, RowTypes, CallTypes
<1>4. CASE Untouched
    <2>1. ChainsSound'
        BY <1>4 DEF Untouched, ChainsSound
    <2>2. ASSUME NEW g \in Handlers, at'[g] = "revokeOld"
          PROVE  \/ at[g] = "revokeOld" /\ fresh'[g] = fresh[g]
                 \/ \E h \in Handlers : CreateSuccessor(h)
        BY <2>2 DEF Next, Step, vars, actual, Arrive, BeginEntry, BeginRefresh, BeginLogout, Begin, Serve, Crash,
                    Expire, SetActive, FindContacts, InsertUser, FindUser, FindGoogleUser, FindToken,
                    Answer, CreateToken, CreateRow, RevokeOld, RevokeOnLogout, Goto, End, callState,
                    CodeOK, CallTypes
    <2> QED BY <1>1, <1>2, <1>4, <2>1, <2>2 DEF Untouched, Unlinked
<1> QED BY <1>1, <1>2, <1>3, <1>4, RowSteps

(* Rotation chains stay sound, whatever overlaps. *)
THEOREM Chains == Spec => []ChainsSound
BY ChainInit, ChainStep, PTL DEF Spec, ChainInv

-----------------------------------------------------------------------------
(***************************************************************************)
(* Sessions.  A refresh of a session without a race finds the token it     *)
(* revokes still live, so the token it offers takes the place of the only  *)
(* usable one; a logout of the usable token leaves none, nor a refresh     *)
(* that could offer one.                                                   *)
(***************************************************************************)

LoggedOut(t) == revoked[t] = "LOGOUT" /\ successor[t] = Nil

StillLive ==
    \A h \in Handlers : Rotating(h) /\ session[presented[h]] \notin raced =>
        revoked[presented[h]] = "no"

OfferedAlone ==
    \A h \in Handlers : Offering(h) /\ session[fresh[h]] \notin raced =>
        /\ \A t \in Tokens : Usable(t) => session[t] # session[fresh[h]]
        /\ \A t \in Tokens : LoggedOut(t) => session[t] # session[fresh[h]]
        /\ \A g \in Handlers : Offering(g) /\ session[fresh[g]] = session[fresh[h]] => g = h

RootsExist == \A t \in Tokens : session[t] # Nil => owner[session[t]] # Nil

SessionInv ==
    /\ ChainInv
    /\ StillLive /\ OfferedAlone /\ RootsExist
    /\ OneUsablePerSession /\ LogoutEndsSession

\* what the proofs use of Track: races are not forgotten, and a refresh that is
\* overtaken by this step makes one
Tracked ==
    /\ raced \subseteq raced'
    /\ \A g \in Handlers : 
           /\ Rotating(g)' /\ presented'[g] \in Tokens
           /\ revoked[presented'[g]] = "no" /\ revoked'[presented'[g]] # "no"
           => session'[presented'[g]] \in raced'

LEMMA SessionInit == Init => SessionInv
BY ChainInit DEF Init, SessionInv, StillLive, Rotating, OfferedAlone, RootsExist,
                 OneUsablePerSession, LogoutEndsSession, Offering, LoggedOut, Usable

(* A step that leaves rows and held tokens alone offers nothing new, and    *)
(* lets a refresh pass only with a live token.                              *)
LEMMA SessionQuiet ==
    ASSUME SessionInv, [Next]_vars, Untouched, held' = held, Tracked
    PROVE  StillLive' /\ OfferedAlone' /\ RootsExist' /\ OneUsablePerSession' /\ LogoutEndsSession'
<1>1. ASSUME NEW g \in Handlers
      PROVE  /\ Rotating(g)' /\ session[presented'[g]] \notin raced =>
                    revoked[presented'[g]] = "no"
             /\ Offering(g)' => Offering(g) /\ fresh'[g] = fresh[g]
    <2>1. CASE UNCHANGED vars
        BY <2>1 DEF vars, actual, SessionInv, StillLive, Rotating, Offering
    <2>2. CASE \/ \E t \in Tokens : Expire(t)
               \/ \E u \in Users : SetActive(u)
        BY <2>2 DEF Expire, SetActive, callState, SessionInv, StillLive, Rotating, Offering
    <2>3. ASSUME NEW h \in Handlers, Arrive(h)
          PROVE  \/ at'[g] = at[g] /\ presented'[g] = presented[g] /\ fresh'[g] = fresh[g]
                 \/ at'[g] \notin {"createSuccessor", "revokeOld", "answer"}
        BY <2>3 DEF Arrive, BeginEntry, BeginRefresh, BeginLogout, Begin,
                    SessionInv, ChainInv, CodeOK, CallTypes
    <2>4. ASSUME NEW h \in Handlers,
                 \/ End(h)
                 \/ \E step \in {"insertUser", "createToken", "insertGoogleUser"} : Goto(h, step)
          PROVE  \/ at'[g] = at[g] /\ presented'[g] = presented[g] /\ fresh'[g] = fresh[g]
                 \/ at'[g] \notin {"createSuccessor", "revokeOld", "answer"}
        BY <2>4 DEF End, Goto, SessionInv, ChainInv, CodeOK, CallTypes
    <2>5. ASSUME NEW h \in Handlers,
                 FindContacts(h) \/ InsertUser(h) \/ FindUser(h) \/ FindGoogleUser(h)
                 \/ Answer(h) \/ Crash(h)
          PROVE  \/ at'[g] = at[g] /\ presented'[g] = presented[g] /\ fresh'[g] = fresh[g]
                 \/ at'[g] \notin {"createSuccessor", "revokeOld", "answer"}
        BY <2>4, <2>5 DEF FindContacts, InsertUser, FindUser, FindGoogleUser, Answer, Crash
    <2>6. ASSUME NEW h \in Handlers, FindToken(h)
          PROVE  \/ at'[g] = at[g] /\ presented'[g] = presented[g] /\ fresh'[g] = fresh[g]
                 \/ at'[g] \notin {"createSuccessor", "revokeOld", "answer"}
                 \/ at'[g] = "createSuccessor" /\ revoked[presented'[g]] = "no"
        <3>1. CASE Live(presented[h])
            BY <2>6, <3>1 DEF FindToken, Live, Goto, SessionInv, ChainInv, CodeOK, CallTypes
        <3>2. CASE ~Live(presented[h])
            BY <2>4, <2>6, <3>2 DEF FindToken
        <3> QED BY <3>1, <3>2
    <2>7. ASSUME NEW h \in Handlers, CreateToken(h) \/ CreateSuccessor(h) \/ RevokeOld(h)
          PROVE  FALSE
        <3>1. ~RevokeOld(h)
            BY DEF Untouched, RevokeOld, SessionInv, ChainInv, Unlinked, CodeOK, RowTypes,
                   CallTypes, CallFacts
        <3>2. ASSUME NEW u \in Users, NEW s \in Tokens \cup {Nil}, CreateRow(h, u, s) PROVE FALSE
            BY <3>2, ConstantsAssumption
               DEF CreateRow, FreeTokens, Untouched, SessionInv, ChainInv, CodeOK, RowTypes
        <3>3. ASSUME CreateToken(h) PROVE FALSE
            BY <3>2, <3>3 DEF CreateToken, SessionInv, ChainInv, CodeOK, CallFacts, EntrySteps
        <3>4. ASSUME CreateSuccessor(h) PROVE FALSE
            <4>1. owner[presented[h]] \in Users /\ session[presented[h]] \in Tokens \cup {Nil}
                BY <3>4 DEF CreateSuccessor, SessionInv, ChainInv, CodeOK, RowTypes, CallTypes, CallFacts
            <4> QED BY <3>2, <3>4, <4>1 DEF CreateSuccessor
        <3> QED BY <2>7, <3>1, <3>3, <3>4
    <2>8. ASSUME NEW h \in Handlers, RevokeOnLogout(h)
          PROVE  \/ at'[g] = at[g] /\ presented'[g] = presented[g] /\ fresh'[g] = fresh[g]
                 \/ at'[g] = "answer" /\ fresh'[g] = Nil
        BY <2>8 DEF RevokeOnLogout, Goto, SessionInv, ChainInv, CodeOK, CallTypes, CallFacts
    <2>9. \/ at'[g] = at[g] /\ presented'[g] = presented[g] /\ fresh'[g] = fresh[g]
          \/ at'[g] \notin {"createSuccessor", "revokeOld", "answer"}
          \/ at'[g] = "createSuccessor" /\ revoked[presented'[g]] = "no"
          \/ at'[g] = "answer" /\ fresh'[g] = Nil
        BY <2>1, <2>2, <2>3, <2>5, <2>6, <2>7, <2>8 DEF Next, Step, Serve, vars, actual, Expire, SetActive, callState
    <2> QED BY <2>9 DEF Offering, SessionInv, StillLive, Rotating
<1> QED
    BY <1>1 DEF Untouched, Tracked, SessionInv, StillLive, OfferedAlone, RootsExist, OneUsablePerSession,
                LogoutEndsSession, LoggedOut, Usable, Offering

LEMMA SessionCreate ==
    ASSUME SessionInv, NEW h \in Handlers, CreateToken(h) \/ CreateSuccessor(h), Tracked
    PROVE  StillLive' /\ OfferedAlone' /\ RootsExist' /\ OneUsablePerSession' /\ LogoutEndsSession'
<1> USE DEF SessionInv, ChainInv
<1>0. raced \subseteq raced'
    BY DEF Tracked
<1>1. \E u \in Users, s \in Tokens \cup {Nil} :
          /\ CreateRow(h, u, s)
          /\ \/ CreateToken(h) /\ s = Nil
             \/ CreateSuccessor(h) /\ s # Nil /\ s = session[presented[h]] /\ presented[h] \in Tokens
    BY DEF CreateToken, CreateSuccessor, CodeOK, RowTypes, CallTypes, CallFacts, EntrySteps
<1>2. PICK t \in Tokens, u \in Users, x \in Tokens :
          /\ owner[t] = Nil /\ session[t] = Nil /\ t \notin held
          /\ revoked[t] = "no" /\ successor[t] = Nil
          /\ owner' = [owner EXCEPT ![t] = u]
          /\ session' = [session EXCEPT ![t] = x]
          /\ fresh' = [fresh EXCEPT ![h] = t]
          /\ revoked' = revoked /\ successor' = successor /\ held' = held
          /\ \/ CreateToken(h) /\ x = t
             \/ CreateSuccessor(h) /\ x = session[presented[h]] /\ presented[h] \in Tokens
    BY <1>1, DrawnRow DEF CreateToken, CreateSuccessor
<1>3. \A s \in Tokens : owner[s] # Nil => s # t /\ session[s] # t /\ session'[s] = session[s]
    BY <1>2 DEF CodeOK, RowTypes, RootsExist
<1>4. /\ \A s \in Tokens : Usable(s)' <=> Usable(s)
      /\ \A s \in Tokens : Usable(s) => owner[s] # Nil
    BY <1>2 DEF Usable, CodeOK, RowTypes
<1>5. /\ \A s \in Tokens : LoggedOut(s)' <=> LoggedOut(s)
      /\ \A s \in Tokens : LoggedOut(s) => owner[s] # Nil
    BY <1>2 DEF LoggedOut, CodeOK, RowTypes
<1>6. RootsExist'
    BY <1>2, ConstantsAssumption DEF CodeOK, RowTypes, RootsExist
<1>7. OneUsablePerSession' /\ LogoutEndsSession'
    BY <1>0, <1>2, <1>3, <1>4, <1>5 DEF OneUsablePerSession, LogoutEndsSession, LoggedOut
<1>8. StillLive'
    BY <1>0, <1>2, <1>3
       DEF StillLive, Rotating, CreateToken, CreateSuccessor, CodeOK, RowTypes, CallTypes, CallFacts
<1>9. \A g \in Handlers : g # h => /\ Offering(g)' <=> Offering(g)
                                   /\ fresh'[g] = fresh[g]
                                   /\ Offering(g) => owner[fresh[g]] # Nil /\ fresh[g] \in Tokens
    BY <1>2 DEF Offering, CreateToken, CreateSuccessor, CodeOK, CallTypes, CallFacts
<1>10. OfferedAlone'
    <2>1. CASE CreateToken(h) /\ x = t
        <3>1. fresh'[h] = t /\ session'[t] = t
            BY <1>2, <2>1 DEF CodeOK, RowTypes, CallTypes
        <3>2. ASSUME NEW g \in Handlers, g # h, Offering(g)
              PROVE  session'[fresh'[g]] = session[fresh[g]] /\ session[fresh[g]] # t
            BY <1>3, <1>9, <3>2
        <3> QED
            BY <1>0, <1>3, <1>4, <1>5, <1>9, <3>1, <3>2 DEF OfferedAlone
    <2>2. CASE CreateSuccessor(h)
        <3>1. ~Offering(h)'
            BY <2>2 DEF CreateSuccessor, Offering, CodeOK, CallTypes
        <3>2. ASSUME NEW g \in Handlers, g # h, Offering(g)
              PROVE  session'[fresh'[g]] = session[fresh[g]]
            BY <1>3, <1>9, <3>2
        <3> QED
            BY <1>0, <1>3, <1>4, <1>5, <1>9, <3>1, <3>2 DEF OfferedAlone
    <2> QED BY <1>2, <2>1, <2>2
<1> QED BY <1>6, <1>7, <1>8, <1>10

LEMMA SessionRotate ==
    ASSUME SessionInv, NEW h \in Handlers, RevokeOld(h), Tracked
    PROVE  StillLive' /\ OfferedAlone' /\ RootsExist' /\ OneUsablePerSession' /\ LogoutEndsSession'
<1> USE DEF SessionInv, ChainInv
<1>0. raced \subseteq raced'
    BY DEF Tracked
<1> DEFINE p == presented[h]
           f == fresh[h]
<1>1. /\ p \in Tokens /\ f \in Tokens /\ session[f] = session[p] /\ f # Nil
      /\ session[p] \notin raced => Usable(p)
    BY DEF RevokeOld, CodeOK, RowTypes, CallTypes, CallFacts, StillLive, Rotating, Usable
<1>2. /\ revoked' = [revoked EXCEPT ![p] = "ROTATED"]
      /\ successor' = [successor EXCEPT ![p] = f]
      /\ owner' = owner /\ session' = session /\ held' = held
      /\ at' = [at EXCEPT ![h] = "answer"]
      /\ presented' = presented /\ fresh' = fresh
    BY DEF RevokeOld, Goto
<1>3. \A s \in Tokens : Usable(s)' <=> Usable(s) /\ s # p
    BY <1>1, <1>2 DEF Usable, CodeOK, RowTypes
<1>4. \A s \in Tokens : LoggedOut(s)' => LoggedOut(s) /\ s # p
    BY <1>1, <1>2 DEF LoggedOut, CodeOK, RowTypes
<1>5. StillLive'
    BY <1>1, <1>2 DEF StillLive, Tracked, Rotating, CodeOK, RowTypes, CallTypes, CallFacts
<1>6. RootsExist'
    BY <1>2 DEF RootsExist
<1>7. OneUsablePerSession' /\ LogoutEndsSession'
    BY <1>0, <1>2, <1>3, <1>4 DEF OneUsablePerSession, LogoutEndsSession, LoggedOut
<1>8. OfferedAlone'
    <2>1. \A g \in Handlers : g # h => (Offering(g)' <=> Offering(g))
        BY <1>2 DEF Offering, CodeOK, CallTypes
    <2>2. session[f] \notin raced => \A t \in Tokens : Usable(t)' => session[t] # session[f]
        BY <1>1, <1>3 DEF OneUsablePerSession
    <2>3. session[f] \notin raced => \A t \in Tokens : LoggedOut(t)' => session[t] # session[f]
        BY <1>1, <1>4 DEF LogoutEndsSession, LoggedOut
    <2>4. session[f] \notin raced =>
              \A g \in Handlers : Offering(g) => session[fresh[g]] # session[f]
        BY <1>1 DEF OfferedAlone
    <2> QED BY <1>0, <1>2, <1>3, <1>4, <2>1, <2>2, <2>3, <2>4 DEF OfferedAlone
<1> QED BY <1>5, <1>6, <1>7, <1>8

LEMMA SessionLogout ==
    ASSUME SessionInv, NEW h \in Handlers, RevokeOnLogout(h), Tracked
    PROVE  StillLive' /\ OfferedAlone' /\ RootsExist' /\ OneUsablePerSession' /\ LogoutEndsSession'
<1> USE DEF SessionInv, ChainInv
<1>0. raced \subseteq raced'
    BY DEF Tracked
<1> DEFINE p == presented[h]
<1>1. /\ revoked' = [t \in Tokens |-> IF t = p THEN "LOGOUT" ELSE revoked[t]]
      /\ successor' = successor /\ owner' = owner /\ session' = session /\ held' = held
      /\ at' = [at EXCEPT ![h] = "answer"]
      /\ presented' = presented /\ fresh' = fresh
    BY DEF RevokeOnLogout, Goto
<1>2. p \in held \cup {Nil} /\ fresh[h] = Nil /\ at[h] = "revoke"
    BY DEF RevokeOnLogout, CodeOK, CallTypes, CallFacts
<1>3. \A s \in Tokens : Usable(s)' <=> Usable(s) /\ s # p
    BY <1>1 DEF Usable, CodeOK, RowTypes
<1>4. \A s \in Tokens : LoggedOut(s)' /\ ~LoggedOut(s) => s = p /\ Usable(p)
    BY <1>1, <1>2, ConstantsAssumption DEF LoggedOut, Usable, CodeOK, RowTypes, ChainsSound
<1>5. StillLive'
    BY <1>1, <1>2 DEF StillLive, Tracked, Rotating, CodeOK, RowTypes, CallTypes, CallFacts
<1>6. RootsExist'
    BY <1>1 DEF RootsExist
<1>7. OneUsablePerSession'
    BY <1>0, <1>1, <1>3 DEF OneUsablePerSession
<1>8. LogoutEndsSession'
    <2>1. \A s, t \in Tokens : LoggedOut(t)' /\ Usable(s)' /\ session[t] \notin raced =>
              session[s] # session[t]
        BY <1>3, <1>4 DEF OneUsablePerSession, LogoutEndsSession, LoggedOut
    <2> QED BY <1>0, <1>1, <2>1 DEF LogoutEndsSession, LoggedOut
<1>9. OfferedAlone'
    <2>1. \A g \in Handlers : Offering(g)' <=> Offering(g)
        BY <1>1, <1>2 DEF Offering, CodeOK, CallTypes
    <2> QED BY <1>0, <1>1, <1>3, <1>4, <2>1 DEF OfferedAlone
<1> QED BY <1>5, <1>6, <1>7, <1>8, <1>9

LEMMA SessionAnswer ==
    ASSUME SessionInv, NEW h \in Handlers, Answer(h), fresh[h] # Nil, Tracked
    PROVE  StillLive' /\ OfferedAlone' /\ RootsExist' /\ OneUsablePerSession' /\ LogoutEndsSession'
<1> USE DEF SessionInv, ChainInv
<1>0. raced \subseteq raced'
    BY DEF Tracked
<1> DEFINE f == fresh[h]
<1>1. /\ held' = held \cup {f} /\ f \in Tokens /\ Offering(h)
      /\ revoked' = revoked /\ successor' = successor /\ owner' = owner /\ session' = session
    BY DEF Answer, tokenRows, Offering, CodeOK, CallTypes
<1>2. \A s \in Tokens : Usable(s)' => Usable(s) \/ s = f
    BY <1>1 DEF Usable
<1>3. \A s \in Tokens : LoggedOut(s)' <=> LoggedOut(s)
    BY <1>1 DEF LoggedOut
<1>4. StillLive'
    BY <1>0, <1>1 DEF StillLive, Rotating, Answer, End, CodeOK, CallTypes
<1>5. RootsExist'
    BY <1>1 DEF RootsExist
<1>6. OneUsablePerSession' /\ LogoutEndsSession'
    BY <1>0, <1>1, <1>2, <1>3 DEF OneUsablePerSession, LogoutEndsSession, OfferedAlone, LoggedOut
<1>7. OfferedAlone'
    <2>1. \A g \in Handlers : Offering(g)' => g # h /\ Offering(g) /\ fresh'[g] = fresh[g]
        BY DEF Answer, End, Offering, CodeOK, CallTypes
    <2> QED BY <1>0, <1>1, <1>2, <1>3, <2>1 DEF OfferedAlone
<1> QED BY <1>4, <1>5, <1>6, <1>7

LEMMA SessionStep == SessionInv /\ [Next]_vars => SessionInv'
<1> SUFFICES ASSUME SessionInv, [Next]_vars PROVE SessionInv'
    OBVIOUS
<1>1. ChainInv'
    BY ChainStep DEF SessionInv
<1>2. Tracked
    BY DEF Next, Track, vars, actual, Tracked
<1>3. CASE \E h \in Handlers : CreateToken(h) \/ CreateSuccessor(h)
    BY <1>1, <1>2, <1>3, SessionCreate DEF SessionInv
<1>4. CASE \E h \in Handlers : RevokeOld(h)
    BY <1>1, <1>2, <1>4, SessionRotate DEF SessionInv
<1>5. CASE \E h \in Handlers : RevokeOnLogout(h)
    BY <1>1, <1>2, <1>5, SessionLogout DEF SessionInv
<1>6. CASE \E h \in Handlers : Answer(h) /\ fresh[h] # Nil
    BY <1>1, <1>2, <1>6, SessionAnswer DEF SessionInv
<1>7. CASE Untouched /\ held' = held
    BY <1>1, <1>2, <1>7, SessionQuiet DEF SessionInv
<1>8. \/ held' = held
      \/ \E h \in Handlers : Answer(h) /\ fresh[h] # Nil
    BY DEF Next, Step, vars, actual, Arrive, BeginEntry, BeginRefresh, BeginLogout, Begin, Serve, Crash, Expire,
           SetActive, FindContacts, InsertUser, FindUser, FindGoogleUser, FindToken, Answer,
           CreateToken, CreateSuccessor, RevokeOld, RevokeOnLogout
<1> QED BY <1>3, <1>4, <1>5, <1>6, <1>7, <1>8, RowSteps DEF SessionInv, ChainInv

LEMMA SessionAlways == Spec => []SessionInv
BY SessionInit, SessionStep, PTL DEF Spec

(* A session none of whose refreshes was overtaken has at most one token    *)
(* that a client can use.                                                   *)
THEOREM OneUsable == Spec => []OneUsablePerSession
BY SessionAlways, PTL DEF SessionInv

(* In such a session a logout of the token in use leaves none.              *)
THEOREM LogoutEnds == Spec => []LogoutEndsSession
BY SessionAlways, PTL DEF SessionInv

(* Refresh replaces a token once, unless it was overtaken.                  *)
THEOREM RotatesOnce == Spec => RotatedOnce
<1> DEFINE Once == \A t \in Tokens : successor[t] # Nil /\ session[t] \notin raced =>
                       successor'[t] = successor[t]
<1>1. SessionInv /\ [Next]_vars => [Once]_vars
    <2> SUFFICES ASSUME SessionInv, [Next]_vars PROVE Once
        OBVIOUS
    <2> USE DEF SessionInv, ChainInv
    <2>1. CASE Untouched
        BY <2>1 DEF Untouched
    <2>2. ASSUME NEW h \in Handlers, CreateToken(h) \/ CreateSuccessor(h) \/ RevokeOnLogout(h)
          PROVE  Once
        BY <2>2 DEF CreateToken, CreateSuccessor, CreateRow, RevokeOnLogout
    <2>3. ASSUME NEW h \in Handlers, RevokeOld(h) PROVE Once
        BY <2>3 DEF RevokeOld, StillLive, Rotating, ChainsSound, CodeOK, RowTypes
    <2> QED BY <2>1, <2>2, <2>3, RowSteps
<1> QED BY <1>1, SessionAlways, PTL DEF Spec, RotatedOnce

-----------------------------------------------------------------------------
(* A session ends by a logout or a lost answer: a token is only revoked by  *)
(* a refresh when the one that takes its place is on its way.               *)

RevokedWereHeld == \A t \in Tokens : revoked[t] # "no" => t \in held

SurvivalInv == CodeOK /\ RevokedWereHeld /\ SessionSurvives

Survivor(s) ==
    \/ revoked[s] = "LOGOUT"
    \/ Usable(s)
    \/ revoked[s] = "no" /\ \E h \in Handlers : Offering(h) /\ fresh[h] = s

LEMMA HeldStep ==
    ASSUME CodeOK, RevokedWereHeld, [Next]_vars
    PROVE  RevokedWereHeld' /\ held \subseteq held'
<1>1. held \subseteq held'
    BY DEF Next, Step, vars, actual, Arrive, BeginEntry, BeginRefresh, BeginLogout, Begin, Serve,
           Crash, Expire, SetActive, FindContacts, InsertUser, FindUser, FindGoogleUser, FindToken,
           Answer, CreateToken, CreateSuccessor, RevokeOld, RevokeOnLogout
<1>2. CASE Untouched
    BY <1>1, <1>2 DEF Untouched, RevokedWereHeld
<1>3. ASSUME NEW h \in Handlers, CreateToken(h) \/ CreateSuccessor(h) PROVE RevokedWereHeld'
    BY <1>1, <1>3 DEF CreateToken, CreateSuccessor, CreateRow, RevokedWereHeld
<1>4. ASSUME NEW h \in Handlers, RevokeOld(h) \/ RevokeOnLogout(h) PROVE RevokedWereHeld'
    BY <1>1, <1>4, ConstantsAssumption
       DEF RevokeOld, RevokeOnLogout, RevokedWereHeld, CodeOK, RowTypes, CallTypes, CallFacts
<1>5. RevokedWereHeld'
    BY <1>2, <1>3, <1>4, RowSteps
<1> QED BY <1>1, <1>5

(* What a session survives by is passed on by every step that does not lose *)
(* the answer it was on.                                                    *)
LEMMA Succession ==
    ASSUME SurvivalInv, [Next]_vars, NEW s \in Tokens, Survivor(s), session[s] \notin lost'
    PROVE  \E r \in Tokens : session'[r] = session[s] /\ Survivor(r)'
<1> USE DEF SurvivalInv
<1>1. RevokedWereHeld' /\ held \subseteq held' /\ CodeOK'
    BY HeldStep, CodeStep
<1>2. owner[s] # Nil
    BY DEF Survivor, Usable, Offering, CodeOK, RowTypes, CallTypes, CallFacts
<1>3. ASSUME NEW h \in Handlers, Offering(h), fresh[h] = s
      PROVE  s \in held' \/ (Offering(h)' /\ fresh'[h] = s)
    <2>1. s \in held' \/ Offering(h)'
        BY <1>3 DEF Next, Track, vars, actual, Offering
    <2>2. fresh'[h] = fresh[h] \/ fresh'[h] = Nil
        BY <1>3 DEF Next, Step, vars, actual, Offering, Arrive, BeginEntry, BeginRefresh,
           BeginLogout, Begin, Serve, Crash, Expire, SetActive, FindContacts, InsertUser, FindUser,
           FindGoogleUser, FindToken, Answer, CreateToken, CreateSuccessor, CreateRow, RevokeOld,
           RevokeOnLogout, Goto, End, callState, CodeOK, CallTypes
    <2> QED BY <1>3, <2>1, <2>2 DEF Offering
<1>4. CASE Untouched
    <2>1. session'[s] = session[s] /\ revoked'[s] = revoked[s]
        BY <1>4 DEF Untouched
    <2> QED BY <1>1, <1>3, <2>1 DEF Survivor, Usable
<1>5. ASSUME NEW h \in Handlers, CreateToken(h) \/ CreateSuccessor(h)
      PROVE  session'[s] = session[s] /\ Survivor(s)'
    <2>1. session'[s] = session[s] /\ revoked' = revoked
        BY <1>2, <1>5 DEF CreateToken, CreateSuccessor, CreateRow, FreeTokens, CodeOK, RowTypes
    <2> QED BY <1>1, <1>3, <2>1 DEF Survivor, Usable
<1>6. ASSUME NEW h \in Handlers, RevokeOnLogout(h)
      PROVE  session'[s] = session[s] /\ Survivor(s)'
    <2>1. session' = session /\ (revoked'[s] = revoked[s] \/ revoked'[s] = "LOGOUT")
        BY <1>6 DEF RevokeOnLogout
    <2> QED BY <1>1, <1>3, <2>1 DEF Survivor, Usable
<1>7. ASSUME NEW h \in Handlers, RevokeOld(h)
      PROVE  \E r \in Tokens : session'[r] = session[s] /\ Survivor(r)'
    <2>1. CASE s = presented[h]
        <3>1. PICK r \in Tokens :
                  /\ fresh[h] = r /\ r # presented[h] /\ r # Nil
                  /\ session[r] = session[s] /\ r \notin held
            BY <1>7, <2>1 DEF RevokeOld, CodeOK, RowTypes, CallTypes, CallFacts
        <3>2. revoked'[r] = "no" /\ session' = session
            BY <1>7, <3>1 DEF RevokeOld, RevokedWereHeld, CodeOK, RowTypes
        <3>3. Offering(h)' /\ fresh'[h] = r
            BY <1>7, <3>1 DEF RevokeOld, Goto, Offering, CodeOK, CallTypes
        <3>4. Survivor(r)'
            BY <3>2, <3>3 DEF Survivor
        <3> QED BY <3>1, <3>2, <3>4
    <2>2. CASE s # presented[h]
        <3>1. session' = session /\ revoked'[s] = revoked[s]
            BY <1>7, <2>2 DEF RevokeOld
        <3> QED BY <1>1, <1>3, <3>1 DEF Survivor, Usable
    <2> QED BY <2>1, <2>2
<1> QED BY <1>4, <1>5, <1>6, <1>7, RowSteps

(* A client is left without a session only by a logout or a lost answer.    *)
THEOREM SessionsSurvive == Spec => []SessionSurvives
<1>1. Init => SurvivalInv
    BY CodeInit DEF Init, SurvivalInv, RevokedWereHeld, SessionSurvives
<1>2. SurvivalInv /\ [Next]_vars => SurvivalInv'
    <2> SUFFICES ASSUME SurvivalInv, [Next]_vars PROVE SessionSurvives'
        BY HeldStep, CodeStep DEF SurvivalInv
    <2>1. SessionSurvives <=> \A t \in Tokens : owner[t] # Nil /\ session[t] \notin lost =>
              \E s \in Tokens : session[s] = session[t] /\ Survivor(s)
        BY DEF SessionSurvives, Survivor
    <2>2. SessionSurvives' <=> \A t \in Tokens : owner'[t] # Nil /\ session'[t] \notin lost' =>
              \E s \in Tokens : session'[s] = session'[t] /\ Survivor(s)'
        BY DEF SessionSurvives, Survivor
    <2>3. lost \subseteq lost'
        BY DEF Next, Track, vars
    <2>4. ASSUME NEW t \in Tokens, owner'[t] # Nil, session'[t] \notin lost'
          PROVE  \E s \in Tokens : session'[s] = session'[t] /\ Survivor(s)'
        <3>1. CASE owner[t] # Nil /\ session'[t] = session[t]
            <4>1. PICK s \in Tokens : session[s] = session[t] /\ Survivor(s)
                BY <2>1, <2>3, <2>4, <3>1 DEF SurvivalInv
            <4> QED BY <2>4, <3>1, <4>1, Succession
        <3>2. CASE \E h \in Handlers : RevokeOld(h) \/ RevokeOnLogout(h)
            BY <2>4, <3>1, <3>2 DEF RevokeOld, RevokeOnLogout
        <3>3. CASE Untouched
            BY <2>4, <3>1, <3>3 DEF Untouched
        <3>4. ASSUME NEW h \in Handlers, CreateToken(h)
              PROVE  \/ owner[t] # Nil /\ session'[t] = session[t]
                     \/ Survivor(t)'
            <4>1. /\ \/ owner[t] # Nil /\ session'[t] = session[t]
                     \/ owner[t] = Nil /\ fresh'[h] = t
                  /\ revoked' = revoked /\ at'[h] = "answer"
                BY <2>4, <3>4 DEF CreateToken, CreateRow, FreeTokens, SurvivalInv, CodeOK,
                                  RowTypes, CallTypes
            <4> QED BY <4>1, ConstantsAssumption
                    DEF Survivor, Offering, SurvivalInv, CodeOK, RowTypes
        <3>5. ASSUME NEW h \in Handlers, CreateSuccessor(h), owner[t] = Nil
              PROVE  \E u \in Tokens : /\ owner[u] # Nil
                                        /\ session'[u] = session[u] /\ session'[t] = session[u]
            <4>1. presented[h] \in Tokens /\ owner[presented[h]] # Nil
                BY <3>5 DEF CreateSuccessor, SurvivalInv, CodeOK, RowTypes, CallTypes, CallFacts
            <4> QED
                BY <2>4, <3>5, <4>1 DEF CreateSuccessor, CreateRow, FreeTokens, SurvivalInv, CodeOK,
                                        RowTypes
        <3>6. ASSUME NEW h \in Handlers, CreateSuccessor(h)
              PROVE  \E s \in Tokens : session'[s] = session'[t] /\ Survivor(s)'
            <4>1. CASE owner[t] = Nil
                <5>1. PICK u \in Tokens : /\ owner[u] # Nil
                                          /\ session'[u] = session[u] /\ session'[t] = session[u]
                    BY <3>5, <3>6, <4>1
                <5>2. PICK s \in Tokens : session[s] = session[u] /\ Survivor(s)
                    BY <2>1, <2>3, <2>4, <5>1 DEF SurvivalInv
                <5> QED BY <2>4, <5>1, <5>2, Succession
            <4>2. CASE owner[t] # Nil
                BY <3>1, <3>6, <4>2 DEF CreateSuccessor, CreateRow, FreeTokens, SurvivalInv, CodeOK,
                                        RowTypes
            <4> QED BY <4>1, <4>2
        <3> QED BY <3>1, <3>2, <3>3, <3>4, <3>6, RowSteps DEF SurvivalInv
    <2> QED BY <2>2, <2>4
<1>3. SurvivalInv => SessionSurvives
    BY DEF SurvivalInv
<1> QED BY <1>1, <1>2, <1>3, PTL DEF Spec
=============================================================================
