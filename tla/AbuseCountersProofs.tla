------------------------- MODULE AbuseCountersProofs -------------------------
(***************************************************************************)
(* Theorems about AbuseCounters for any number of calls, keys and limits:  *)
(* a count that no call has stored from a stale read is exact; hence calls *)
(* at once try a key no oftener than the limit and one for each of them,   *)
(* and no window lets in more requests than its limit.                     *)
(***************************************************************************)
EXTENDS AbuseCounters, FiniteSetTheorems, TLAPS

Moves(h) == Arrive(h) \/ Serve(h) \/ Crash(h)

-----------------------------------------------------------------------------
(* Typing *)

LEMMA TypeInit == Init => TypeOK
<1> SUFFICES ASSUME Init PROVE TypeOK
    OBVIOUS
<1> USE ConstantsAssumption DEF Init
<1>1. CounterTypes
    BY DEF CounterTypes
<1>2. CallTypes
    BY <1>1 DEF CallTypes, CounterTypes
<1>3. \A h \in Handlers : CallFacts(h)
    BY DEF CallFacts, LoginSteps
<1> QED BY <1>1, <1>2, <1>3 DEF TypeOK, CodeOK

LEMMA KeysApart ==
    /\ Emails \cap (Addresses \cup Visitors \cup Rates) = {}
    /\ Addresses \cap (Visitors \cup Rates) = {} /\ Visitors \cap Rates = {}
    /\ Nil \notin Emails \cup Addresses \cup Visitors \cup Rates
    /\ \A k \in Counted \cup Rates : Limit[k] \in Nat /\ Limit[k] >= 1
BY ConstantsAssumption DEF Counted

\* what a step leaves of the call that does not take it
Same(g) ==
    /\ at'[g] = at[g] /\ email'[g] = email[g] /\ address'[g] = address[g]
    /\ seen'[g] = seen[g] /\ copy'[g] = copy[g] /\ time'[g] = time[g] /\ edge'[g] = edge[g]

LEMMA SameFacts ==
    ASSUME CodeOK, NEW g \in Handlers, Same(g), redis' = redis PROVE CallFacts(g)'
BY DEF CodeOK, CallFacts, Same, Recent

LEMMA AfterEnd ==
    ASSUME CodeOK, NEW h \in Handlers, End(h), UNCHANGED <<redis, clock>>
    PROVE  CallTypes' /\ \A g \in Handlers : CallFacts(g)'
<1>1. CallTypes'
    BY DEF CodeOK, CallTypes, CounterTypes, End, clock
<1>2. ASSUME NEW g \in Handlers, g # h PROVE CallFacts(g)'
    BY <1>2, SameFacts DEF CodeOK, CallTypes, End, Same
<1>3. CallFacts(h)'
    BY DEF CodeOK, CallTypes, End, CallFacts, LoginSteps
<1> QED BY <1>1, <1>2, <1>3

\* where a call may go on to without anything new to know
Follows(h, step) ==
    \/ at[h] \in LoginSteps /\ step \in {"checkAddress", "test", "readEmail", "readAddress",
                                         "clearEmail", "clearAddress"}
    \/ at[h] = "lookup" /\ step = "storeAddress"

LEMMA AfterGoto ==
    ASSUME CodeOK, NEW h \in Handlers, NEW step, Goto(h, step), Follows(h, step),
           UNCHANGED <<redis, clock>>
    PROVE  CallTypes' /\ \A g \in Handlers : CallFacts(g)'
<1> USE DEF CodeOK
<1>1. CallTypes'
    BY DEF CallTypes, CounterTypes, Goto, Follows, Steps, LoginSteps, subject, clock
<1>2. ASSUME NEW g \in Handlers, g # h PROVE CallFacts(g)'
    BY <1>2, SameFacts DEF CallTypes, Goto, Same, subject
<1>3. CallFacts(h)'
    <2>1. at'[h] = step /\ email'[h] = email[h] /\ address'[h] = address[h]
        BY DEF CallTypes, Goto, subject
    <2> QED BY <2>1 DEF CallFacts, Follows, LoginSteps
<1> QED BY <1>1, <1>2, <1>3

LEMMA TypeArrive == ASSUME CodeOK, NEW h \in Handlers, Arrive(h) PROVE CodeOK'
<1> USE DEF CodeOK
<1>1. CASE BeginLimited(h)
    <2>1. PICK r \in Rates : Begin(h, IF redis THEN "count" ELSE "readLog", Nil, r)
        BY <1>1 DEF BeginLimited
    <2>2. arrivals' = arrivals + 1 /\ arrivals < MaxArrivals /\ horizon' = horizon
        BY <1>1 DEF BeginLimited
    <2>3. CounterTypes'
        BY <2>1, <2>2, ConstantsAssumption DEF CounterTypes, Begin, counters
    <2>4. CallTypes'
        BY <1>1, <2>1, <2>2, ConstantsAssumption
           DEF BeginLimited, Begin, CallTypes, CounterTypes, Steps
    <2>5. ASSUME NEW g \in Handlers, g # h PROVE CallFacts(g)'
        BY <1>1, <2>1, <2>5, SameFacts DEF BeginLimited, Begin, CallTypes, Same
    <2>6. CallFacts(h)'
        <3>1. /\ at'[h] = (IF redis THEN "count" ELSE "readLog") /\ address'[h] = r
              /\ time'[h] = arrivals + 1 /\ redis' = redis
            BY <1>1, <2>1 DEF BeginLimited, Begin, CallTypes
        <3>2. time'[h] \in Times
            BY <2>2, <3>1, ConstantsAssumption DEF Times, CounterTypes
        <3> QED BY <3>1, <3>2, ConstantsAssumption DEF CallFacts, LoginSteps, CounterTypes
    <2> QED BY <2>3, <2>4, <2>5, <2>6
<1>2. CASE BeginLogin(h) \/ BeginLookup(h)
    <2>1. PICK step \in {"checkEmail", "checkVisitor"}, e \in Emails \cup {Nil},
               a \in Addresses \cup Visitors :
              /\ Begin(h, step, e, a) /\ UNCHANGED <<clock, time, edge>>
              /\ step = "checkEmail" => e \in Emails /\ a \in Addresses
              /\ step = "checkVisitor" => a \in Visitors
        BY <1>2 DEF BeginLogin, BeginLookup
    <2>2. CounterTypes'
        BY <2>1 DEF CounterTypes, Begin, counters, clock
    <2>3. CallTypes'
        BY <2>1 DEF Begin, CallTypes, CounterTypes, Steps, LoginSteps, clock
    <2>4. ASSUME NEW g \in Handlers, g # h PROVE CallFacts(g)'
        BY <2>1, <2>4, SameFacts DEF Begin, CallTypes, Same
    <2>5. CallFacts(h)'
        <3>1. at'[h] = step /\ email'[h] = e /\ address'[h] = a
            BY <2>1 DEF Begin, CallTypes
        <3> QED BY <2>1, <3>1 DEF CallFacts, LoginSteps
    <2> QED BY <2>2, <2>3, <2>4, <2>5
<1> QED BY <1>1, <1>2 DEF Arrive

LEMMA KeyTyped ==
    ASSUME CodeOK, NEW h \in Handlers
    PROVE  /\ at[h] \in LoginSteps \cup {"storeAddress", "checkVisitor", "lookup"} =>
                  Key(h) \in Counted
           /\ at[h] \in {"count", "readLog", "storeLog"} => Key(h) \in Rates /\ Key(h) = address[h]
BY DEF CodeOK, CallFacts, Key, Counted, LoginSteps

LEMMA TypeServe == ASSUME CodeOK, NEW h \in Handlers, Serve(h) \/ Crash(h) PROVE CodeOK'
<1> USE DEF CodeOK
<1>1. CASE CheckLogin(h) \/ Test(h) \/ LookUp(h) \/ Crash(h)
    <2>1. CounterTypes' /\ UNCHANGED <<redis, clock>>
        BY <1>1 DEF CheckLogin, Test, LookUp, Crash, CounterTypes, counters, clock
    <2>2. End(h) \/ \E step \in Steps : Goto(h, step) /\ Follows(h, step)
        BY <1>1 DEF CheckLogin, Test, LookUp, Crash, Follows, Steps, LoginSteps
    <2> QED BY <2>1, <2>2, AfterEnd, AfterGoto
<1>2. CASE StoreCount(h) \/ ClearCount(h)
    <2>1. Key(h) \in Counted
        BY <1>2, KeyTyped DEF StoreCount, ClearCount, LoginSteps
    <2>2. CounterTypes' /\ UNCHANGED <<redis, clock>>
        <3>1. fails' \in [Counted -> Nat]
            BY <1>2, <2>1 DEF StoreCount, ClearCount, CounterTypes, CallTypes
        <3> QED BY <1>2, <3>1 DEF StoreCount, ClearCount, CounterTypes, clock
    <2>3. End(h) \/ \E step \in Steps : Goto(h, step) /\ Follows(h, step)
        BY <1>2 DEF StoreCount, ClearCount, Follows, Steps, LoginSteps
    <2> QED BY <2>2, <2>3, AfterEnd, AfterGoto
<1>3. CASE ReadCount(h)
    <2>1. Key(h) \in Counted
        BY <1>3, KeyTyped DEF ReadCount, LoginSteps
    <2>2. CounterTypes' /\ UNCHANGED <<redis, clock>>
        BY <1>3 DEF ReadCount, CounterTypes, counters, clock
    <2>3. CallTypes'
        BY <1>3, <2>1 DEF ReadCount, CallTypes, CounterTypes, Steps, LoginSteps, subject, clock
    <2>4. ASSUME NEW g \in Handlers, g # h PROVE CallFacts(g)'
        BY <1>3, <2>4, SameFacts DEF ReadCount, CallTypes, Same, subject
    <2>5. CallFacts(h)'
        <3>1. /\ at[h] \in LoginSteps /\ at'[h] \in {"storeEmail", "storeAddress"}
              /\ email'[h] = email[h] /\ address'[h] = address[h]
            BY <1>3 DEF ReadCount, CallTypes, LoginSteps, subject
        <3> QED BY <3>1 DEF CallFacts, LoginSteps
    <2> QED BY <2>2, <2>3, <2>4, <2>5
<1>4. CASE CheckVisitor(h)
    <2>1. CounterTypes' /\ UNCHANGED <<redis, clock>>
        BY <1>4 DEF CheckVisitor, CounterTypes, counters, clock
    <2>2. CASE End(h)
        BY <2>1, <2>2, AfterEnd
    <2>3. CASE ~End(h)
        <3>1. Key(h) \in Counted
            BY <1>4, KeyTyped DEF CheckVisitor
        <3>2. CallTypes'
            BY <1>4, <2>3, <3>1 DEF CheckVisitor, CallTypes, CounterTypes, Steps, subject, clock
        <3>3. ASSUME NEW g \in Handlers, g # h PROVE CallFacts(g)'
            BY <1>4, <2>3, <3>3, SameFacts DEF CheckVisitor, CallTypes, Same, subject
        <3>4. CallFacts(h)'
            <4>1. at[h] = "checkVisitor" /\ at'[h] = "lookup" /\ address'[h] = address[h]
                BY <1>4, <2>3 DEF CheckVisitor, CallTypes, subject
            <4> QED BY <4>1 DEF CallFacts, LoginSteps
        <3> QED BY <2>1, <3>2, <3>3, <3>4
    <2> QED BY <2>2, <2>3
<1>5. CASE CountInRedis(h) \/ StoreLog(h)
    <2>1. Key(h) \in Rates /\ time[h] \in Times
        BY <1>5, KeyTyped DEF CountInRedis, StoreLog, CallFacts
    <2>2. log' \in [Rates -> SUBSET Times]
        BY <1>5, <2>1 DEF CountInRedis, StoreLog, CounterTypes, CallTypes, Recent
    <2>3. CounterTypes' /\ UNCHANGED <<redis, clock>> /\ End(h)
        BY <1>5, <2>2 DEF CountInRedis, StoreLog, CounterTypes, clock
    <2> QED BY <2>3, AfterEnd
<1>6. CASE ReadLog(h)
    <2>1. CounterTypes' /\ UNCHANGED <<redis, clock>>
        BY <1>6 DEF ReadLog, CounterTypes, counters, clock
    <2>2. CASE End(h)
        BY <2>1, <2>2, AfterEnd
    <2>3. CASE ~End(h)
        <3>1. Key(h) \in Rates /\ Key(h) = address[h]
            BY <1>6, KeyTyped DEF ReadLog
        <3>2. CallTypes'
            BY <1>6, <2>3, <3>1 DEF ReadLog, CallTypes, CounterTypes, Steps, subject, clock
        <3>3. ASSUME NEW g \in Handlers, g # h PROVE CallFacts(g)'
            BY <1>6, <2>3, <3>3, SameFacts DEF ReadLog, CallTypes, Same, subject
        <3>4. CallFacts(h)'
            <4>1. /\ at[h] = "readLog" /\ at'[h] = "storeLog" /\ address'[h] = address[h]
                  /\ time'[h] = time[h] /\ edge' = edge /\ copy'[h] = log[Key(h)]
                BY <1>6, <2>3 DEF ReadLog, CallTypes, subject
            <4>2. Recent(h, copy[h])' = Recent(h, log[Key(h)])
                BY <4>1 DEF Recent
            <4>3. Cardinality(Recent(h, log[Key(h)])) < Limit[Key(h)]
                <5>1. Recent(h, log[Key(h)]) \subseteq Times /\ IsFiniteSet(Times)
                    BY <3>1, FS_Interval, ConstantsAssumption DEF CounterTypes, Recent, Times
                <5>2. Cardinality(Recent(h, log[Key(h)])) \in Nat
                    BY <5>1, FS_Subset, FS_CardinalityType
                <5>3. ~(Cardinality(Recent(h, log[Key(h)])) >= Limit[Key(h)])
                    BY <1>6, <2>3 DEF ReadLog
                <5> QED BY <3>1, <5>2, <5>3, KeysApart
            <4> QED BY <2>1, <3>1, <4>1, <4>2, <4>3 DEF CallFacts, LoginSteps
        <3> QED BY <2>1, <3>2, <3>3, <3>4
    <2> QED BY <2>2, <2>3
<1> QED BY <1>1, <1>2, <1>3, <1>4, <1>5, <1>6 DEF Serve

LEMMA TypeTime ==
    ASSUME CodeOK, Slide \/ \E k \in Counted : ExpireCount(k) PROVE CodeOK'
<1> USE DEF CodeOK
<1>1. CounterTypes'
    BY ConstantsAssumption DEF Slide, ExpireCount, CounterTypes, counters, clock
<1>2. CallTypes'
    BY <1>1 DEF Slide, ExpireCount, CallTypes, CounterTypes, subject, clock
<1>3. ASSUME NEW g \in Handlers PROVE CallFacts(g)'
    BY SameFacts DEF Slide, ExpireCount, Same, subject
<1> QED BY <1>1, <1>2, <1>3

LEMMA TypeStep == TypeOK /\ [Next]_vars => TypeOK'
<1> SUFFICES ASSUME TypeOK, [Next]_vars PROVE TypeOK'
    OBVIOUS
<1>1. CASE UNCHANGED vars
    BY <1>1 DEF vars, actual, TypeOK, CodeOK, CounterTypes, CallTypes, CallFacts, Recent
<1>2. CASE Next
    <2>1. CodeOK'
        BY <1>2, TypeArrive, TypeServe, TypeTime DEF Next, Step, TypeOK
    <2>2. blurred' \subseteq Counted \cup Rates
        BY <1>2 DEF Next, Track, TypeOK
    <2>3. made' \in [Counted -> Nat]
        BY <1>2 DEF Next, Track, TypeOK
    <2>4. ASSUME NEW r \in Rates, NEW h \in Handlers, Admits(h, r) PROVE time[h] \in Times
        BY <2>4 DEF Admits, TypeOK, CodeOK, CallFacts
    <2>5. admitted' \in [Rates -> SUBSET Times]
        BY <1>2, <2>4 DEF Next, Track, TypeOK
    <2> QED BY <2>1, <2>2, <2>3, <2>5 DEF TypeOK
<1> QED BY <1>1, <1>2

(* Every variable keeps its type; each call is about a key of its own kind, *)
(* and a request that is to be let in has found room.                       *)
THEOREM Typing == Spec => []TypeOK
BY TypeInit, TypeStep, PTL DEF Spec

-----------------------------------------------------------------------------
(* One call moves at a time *)

LEMMA OthersStep ==
    ASSUME TypeOK, NEW h \in Handlers, Moves(h), NEW g \in Handlers
    PROVE  (g = h => at'[g] # at[g]) /\ (g # h => Same(g))
<1> USE DEF TypeOK, CodeOK, CallTypes, Same
<1>1. CASE Arrive(h)
    BY <1>1 DEF Arrive, BeginLogin, BeginLookup, BeginLimited, Begin
<1>2. CASE End(h) /\ at[h] # "idle"
    BY <1>2 DEF End
<1>3. CASE \E step \in Steps : step # at[h] /\ Goto(h, step)
    BY <1>3 DEF Goto, subject
<1>4. CASE ReadCount(h) \/ ((CheckVisitor(h) \/ ReadLog(h)) /\ ~End(h))
    BY <1>4 DEF ReadCount, CheckVisitor, ReadLog, subject
<1>5. CASE Serve(h) \/ Crash(h)
    <2>1. at[h] # "idle"
        BY <1>5 DEF Serve, Crash, CheckLogin, Test, ReadCount, StoreCount, ClearCount, CheckVisitor,
                    LookUp, CountInRedis, ReadLog, StoreLog
    <2>2. ASSUME ~End(h), ~ReadCount(h), ~CheckVisitor(h), ~ReadLog(h)
          PROVE  \E step \in Steps : step # at[h] /\ Goto(h, step)
        BY <1>5, <2>2 DEF Serve, Crash, CheckLogin, Test, StoreCount, ClearCount, LookUp,
                          CountInRedis, StoreLog, Steps, LoginSteps
    <2> QED BY <1>2, <1>3, <1>4, <2>1, <2>2
<1> QED BY <1>1, <1>5 DEF Moves

Recording(h) == at[h] \in {"storeEmail", "storeAddress"} /\ StoreCount(h)

\* a step that stores or clears a count is one of the call that stands at it
LEMMA StepAt ==
    ASSUME TypeOK, NEW h \in Handlers, Moves(h)
    PROVE  /\ fails' # fails => StoreCount(h) \/ ClearCount(h)
           /\ log' # log => CountInRedis(h) \/ StoreLog(h)
           /\ horizon' = horizon
           /\ \A g \in Handlers :
                  (\E k \in Counted : Records(g, k) \/ Clears(g, k)) \/ (\E r \in Rates : Admits(g, r))
                  => g = h
<1>1. ASSUME NEW g \in Handlers, at'[g] = at[g]
      PROVE  ~StoreCount(g) /\ ~ClearCount(g) /\ ~CountInRedis(g) /\ ~StoreLog(g)
    BY <1>1 DEF StoreCount, ClearCount, CountInRedis, StoreLog, End, Goto, TypeOK, CodeOK, CallTypes
<1>2. \A g \in Handlers : g # h => at'[g] = at[g]
    BY OthersStep DEF Same
<1>3. /\ fails' # fails => StoreCount(h) \/ ClearCount(h)
      /\ log' # log => CountInRedis(h) \/ StoreLog(h)
      /\ horizon' = horizon
    BY DEF Moves, Arrive, BeginLogin, BeginLookup, BeginLimited, Begin, Serve, Crash, CheckLogin,
           Test, ReadCount, StoreCount, ClearCount, CheckVisitor, LookUp, CountInRedis, ReadLog,
           StoreLog, counters, clock
<1> QED BY <1>1, <1>2, <1>3 DEF Records, Clears, Admits

-----------------------------------------------------------------------------
(* Failures *)

CountInv == TypeOK /\ FailuresCounted /\ GuessesBounded

LEMMA InFlightFinite ==
    /\ IsFiniteSet(Handlers) /\ Cardinality(Handlers) \in Nat
    /\ \A k \in Counted : /\ IsFiniteSet(InFlight(k)) /\ Cardinality(InFlight(k)) \in Nat
                          /\ Cardinality(InFlight(k)) <= Cardinality(Handlers)
                          /\ InFlight(k) \subseteq Handlers
<1>1. IsFiniteSet(Handlers) /\ \A k \in Counted : InFlight(k) \subseteq Handlers
    BY ConstantsAssumption DEF InFlight
<1> QED BY <1>1, FS_Subset, FS_CardinalityType

\* a set of calls can at most be all of them
LEMMA AtMostAll ==
    ASSUME NEW S, S \subseteq Handlers
    PROVE  IsFiniteSet(S) /\ Cardinality(S) \in Nat /\ Cardinality(S) <= Cardinality(Handlers)
BY ConstantsAssumption, FS_Subset, FS_CardinalityType

\* the checks that a call passes on its way to touching the count of k
Passes(h, k) ==
    \/ at[h] = "checkEmail" /\ CheckLogin(h) /\ email[h] = k /\ ~Locked(k)
    \/ at[h] = "checkAddress" /\ CheckLogin(h) /\ address[h] = k /\ ~Locked(k)
    \/ at[h] = "checkVisitor" /\ CheckVisitor(h) /\ address[h] = k /\ ~Locked(k)

LEMMA FlightStep ==
    ASSUME TypeOK, NEW h \in Handlers, Moves(h), NEW k \in Counted, ~Passes(h, k)
    PROVE  InFlight(k)' \subseteq InFlight(k) /\ (Records(h, k) => h \in InFlight(k) \ InFlight(k)')
<1> USE DEF TypeOK, CodeOK, CallTypes
<1>1. ASSUME NEW g \in Handlers, g # h, g \in InFlight(k)' PROVE g \in InFlight(k)
    BY <1>1, OthersStep DEF Same, InFlight
<1>2. ASSUME h \in InFlight(k)' PROVE h \in InFlight(k) /\ ~Records(h, k)
    <2> USE <1>2 DEF InFlight
    <2>1. ~End(h) /\ ~Crash(h) /\ ~CountInRedis(h) /\ ~StoreLog(h)
        BY DEF End, Crash, CountInRedis, StoreLog
    <2>2. ~Arrive(h)
        BY DEF Arrive, BeginLogin, BeginLookup, BeginLimited, Begin
    <2>3. CASE CheckLogin(h)
        <3>1. ~Locked(Key(h))
            BY <2>1, <2>3 DEF CheckLogin
        <3>2. /\ at[h] = "checkEmail" => at'[h] = "checkAddress" /\ Key(h) = email[h]
              /\ at[h] = "checkAddress" => at'[h] = "test" /\ Key(h) = address[h]
            BY <2>1, <2>3 DEF CheckLogin, Goto, Key
        <3>3. email'[h] = email[h] /\ address'[h] = address[h] /\ at[h] \in {"checkEmail", "checkAddress"}
            BY <2>1, <2>3 DEF CheckLogin, Goto, subject
        <3>4. CASE at[h] = "checkEmail"
            BY <2>3, <3>1, <3>2, <3>3, <3>4 DEF Passes
        <3>5. CASE at[h] = "checkAddress"
            BY <2>3, <3>1, <3>2, <3>3, <3>5 DEF Passes, Records
        <3> QED BY <3>3, <3>4, <3>5
    <2>4. CASE CheckVisitor(h)
        <3>1. ~Locked(Key(h)) /\ Key(h) = address[h] /\ at[h] = "checkVisitor" /\ at'[h] = "lookup"
              /\ address'[h] = address[h]
            BY <2>1, <2>4 DEF CheckVisitor, Key, subject
        <3> QED BY <2>4, <3>1 DEF Passes
    <2>5. CASE ReadLog(h)
        BY <2>1, <2>5 DEF ReadLog
    <2>6. CASE Test(h) \/ LookUp(h)
        <3>1. email'[h] = email[h] /\ address'[h] = address[h]
            BY <2>1, <2>6 DEF Test, LookUp, Goto, subject
        <3>2. \/ at[h] = "test" /\ at'[h] \in {"readEmail", "clearEmail"}
              \/ at[h] = "lookup" /\ at'[h] = "storeAddress"
            BY <2>1, <2>6 DEF Test, LookUp, Goto
        <3> QED BY <3>1, <3>2 DEF Records
    <2>7. CASE ReadCount(h)
        <3>1. email'[h] = email[h] /\ address'[h] = address[h]
            BY <2>7 DEF ReadCount, subject
        <3>2. \/ at[h] = "readEmail" /\ at'[h] = "storeEmail"
              \/ at[h] = "readAddress" /\ at'[h] = "storeAddress"
            BY <2>7 DEF ReadCount
        <3> QED BY <3>1, <3>2 DEF Records
    <2>8. CASE StoreCount(h) \/ ClearCount(h)
        <3>1. email'[h] = email[h] /\ address'[h] = address[h]
            BY <2>1, <2>8 DEF StoreCount, ClearCount, Goto, subject
        <3>2. \/ at[h] = "storeEmail" /\ at'[h] = "readAddress"
              \/ at[h] = "clearEmail" /\ at'[h] = "clearAddress"
            BY <2>1, <2>8 DEF StoreCount, ClearCount, Goto
        <3>3. email[h] \in Emails /\ address[h] \in Addresses
            BY <3>2 DEF CallFacts, LoginSteps
        <3>4. h \in InFlight(k)
            BY <3>1, <3>2
        <3>5. Records(h, k) => email[h] = k /\ address[h] = k
            BY <3>1, <3>2 DEF Records, Key
        <3> QED BY <3>3, <3>4, <3>5, KeysApart
    <2> QED BY <2>1, <2>2, <2>3, <2>4, <2>5, <2>6, <2>7, <2>8 DEF Moves, Serve
<1>3. Records(h, k) => h \in InFlight(k)
    BY DEF Records, InFlight, Key
<1>4. InFlight(k)' \subseteq Handlers
    BY DEF InFlight
<1> QED BY <1>1, <1>2, <1>3, <1>4

LEMMA CountStep ==
    ASSUME CountInv, Next, NEW k \in Counted, k \notin blurred'
    PROVE  /\ fails'[k] = made'[k]
           /\ made'[k] + Cardinality(InFlight(k)') < Limit[k] + Cardinality(Handlers)
<1> USE DEF CountInv, TypeOK, CodeOK, CounterTypes
<1>0. Limit[k] \in Nat /\ Limit[k] >= 1 /\ made[k] \in Nat /\ fails[k] \in Nat
    BY KeysApart
<1>1. InFlight(k)' \subseteq Handlers
    BY DEF InFlight
<1>2. Cardinality(InFlight(k)') \in Nat /\ Cardinality(InFlight(k)') <= Cardinality(Handlers)
      /\ Cardinality(Handlers) \in Nat
    BY <1>1, AtMostAll, InFlightFinite
<1>3. CASE k \in Cleared
    <2>1. fails'[k] = 0
        BY <1>3, ConstantsAssumption DEF Cleared, ExpireCount, Clears, ClearCount
    <2>2. made'[k] = 0
        BY <1>3 DEF Next, Track
    <2> QED BY <1>0, <1>2, <2>1, <2>2
<1>4. CASE k \notin Cleared
    <2>1. k \notin blurred /\ \A h \in Handlers : ~Blurs(h, k)
        BY <1>4 DEF Next, Track
    <2>2. fails[k] = made[k] /\ made[k] + Cardinality(InFlight(k)) < Limit[k] + Cardinality(Handlers)
        BY <2>1 DEF FailuresCounted, GuessesBounded
    <2>3. made'[k] = IF \E h \in Handlers : Records(h, k) THEN made[k] + 1 ELSE made[k]
        BY <1>4 DEF Next, Track
    <2>4. CASE Slide \/ \E j \in Counted : ExpireCount(j)
        <3>1. fails'[k] = fails[k] /\ InFlight(k)' = InFlight(k)
            BY <1>4, <2>4 DEF Slide, ExpireCount, Cleared, counters, subject, InFlight
        <3>2. \A h \in Handlers : ~Records(h, k)
            BY <2>4 DEF Records, StoreCount, Slide, ExpireCount, End, Goto, CallTypes
        <3> QED BY <2>2, <2>3, <3>1, <3>2
    <2>5. ASSUME NEW h \in Handlers, Moves(h)
          PROVE  /\ fails'[k] = made'[k]
                 /\ made'[k] + Cardinality(InFlight(k)') < Limit[k] + Cardinality(Handlers)
        <3>1. CASE Records(h, k)
            <4>1. made'[k] = made[k] + 1
                BY <2>3, <3>1
            <4>2. seen[h] = fails[k]
                BY <2>1, <3>1 DEF Blurs, Records
            <4>3. fails'[k] = fails[k] + 1
                BY <3>1, <4>2 DEF Records, StoreCount
            <4>4. ~Passes(h, k)
                BY <3>1 DEF Records, Passes
            <4>5. InFlight(k)' \subseteq InFlight(k) /\ h \in InFlight(k) \ InFlight(k)'
                BY <2>5, <3>1, <4>4, FlightStep
            <4>6. Cardinality(InFlight(k)') + 1 <= Cardinality(InFlight(k))
                <5>1. InFlight(k)' \subseteq InFlight(k) \ {h}
                    BY <4>5
                <5>2. Cardinality(InFlight(k) \ {h}) = Cardinality(InFlight(k)) - 1
                    BY <4>5, InFlightFinite, FS_RemoveElement
                <5>3. Cardinality(InFlight(k)') <= Cardinality(InFlight(k) \ {h})
                    BY <5>1, InFlightFinite, FS_Subset
                <5> QED BY <1>2, <5>2, <5>3, InFlightFinite
            <4> QED BY <1>0, <1>2, <2>2, <4>1, <4>3, <4>6, InFlightFinite
        <3>2. CASE ~Records(h, k)
            <4>1. made'[k] = made[k]
                <5>1. \A g \in Handlers : ~Records(g, k)
                    BY <2>5, <3>2, StepAt
                <5> QED BY <2>3, <5>1
            <4>2. fails'[k] = fails[k]
                <5>1. CASE StoreCount(h)
                    BY <3>2, <5>1 DEF StoreCount, Records
                <5>2. CASE ClearCount(h)
                    BY <1>4, <5>2 DEF ClearCount, Clears, Cleared
                <5> QED BY <2>5, <5>1, <5>2, StepAt
            <4>3. CASE Passes(h, k)
                <5>1. fails[k] < Limit[k]
                    BY <1>0, <4>3 DEF Passes, Locked
                <5> QED BY <1>0, <1>2, <2>2, <4>1, <4>2, <5>1
            <4>4. CASE ~Passes(h, k)
                <5>1. Cardinality(InFlight(k)') <= Cardinality(InFlight(k))
                    BY <2>5, <4>4, FlightStep, InFlightFinite, FS_Subset
                <5> QED BY <1>0, <1>2, <2>2, <4>1, <4>2, <5>1, InFlightFinite
            <4> QED BY <4>3, <4>4
        <3> QED BY <3>1, <3>2
    <2> QED BY <2>4, <2>5 DEF Next, Step, Moves
<1> QED BY <1>3, <1>4

LEMMA CountInit == Init => CountInv
<1> SUFFICES ASSUME Init PROVE CountInv
    OBVIOUS
<1>1. ASSUME NEW k \in Counted PROVE InFlight(k) = {}
    BY DEF Init, InFlight
<1>2. Cardinality({}) = 0
    BY FS_EmptySet
<1>3. ASSUME NEW k \in Counted
      PROVE  made[k] + Cardinality(InFlight(k)) < Limit[k] + Cardinality(Handlers)
    BY <1>1, <1>2, KeysApart, InFlightFinite DEF Init
<1> QED BY <1>3, TypeInit DEF Init, CountInv, FailuresCounted, GuessesBounded

LEMMA CountInvStep == CountInv /\ [Next]_vars => CountInv'
<1> SUFFICES ASSUME CountInv, [Next]_vars PROVE CountInv'
    OBVIOUS
<1>1. TypeOK'
    BY TypeStep DEF CountInv
<1>2. CASE UNCHANGED vars
    BY <1>1, <1>2 DEF vars, actual, CountInv, FailuresCounted, GuessesBounded, InFlight
<1>3. CASE Next
    BY <1>1, <1>3, CountStep DEF CountInv, FailuresCounted, GuessesBounded
<1> QED BY <1>2, <1>3

LEMMA Counting == Spec => []CountInv
BY CountInit, CountInvStep, PTL DEF Spec

(* A count that no call has stored from a stale read is the number of       *)
(* failures recorded since it was last cleared.                             *)
THEOREM Exact == Spec => []FailuresCounted
<1>1. CountInv => FailuresCounted
    BY DEF CountInv
<1> QED BY Counting, <1>1, PTL

(* However many calls there are at once, such a key is tried no oftener     *)
(* than its limit and one for each other call.                              *)
THEOREM Guesses == Spec => []GuessesBounded
<1>1. CountInv => GuessesBounded
    BY DEF CountInv
<1> QED BY Counting, <1>1, PTL

-----------------------------------------------------------------------------
(* Rates *)

Held(r) == admitted[r] \subseteq log[r] /\ Cardinality(admitted[r]) <= Limit[r]

RateInv ==
    /\ TypeOK
    /\ \A r \in Rates :
           /\ \A n \in admitted[r] : n \in horizon + 1..arrivals
           /\ r \notin blurred \/ redis => Held(r)

LEMMA TimesFinite ==
    ASSUME NEW S, S \subseteq Times PROVE IsFiniteSet(S) /\ Cardinality(S) \in Nat
<1>1. IsFiniteSet(Times)
    BY ConstantsAssumption, FS_Interval DEF Times
<1> QED BY <1>1, FS_Subset, FS_CardinalityType

\* what is let in lies in the window that the call that lets it in has seen
LEMMA AdmittedStep ==
    ASSUME RateInv, Next, NEW r \in Rates
    PROVE  \A n \in admitted'[r] : n \in horizon' + 1..arrivals'
<1> USE DEF RateInv, TypeOK, CodeOK, CounterTypes, CallTypes
<1>1. arrivals' >= arrivals /\ arrivals' \in Nat /\ horizon' \in Nat
    <2>1. TypeOK'
        BY TypeStep
    <2>2. arrivals' = arrivals \/ arrivals' = arrivals + 1
        BY DEF Next, Step, Arrive, BeginLogin, BeginLookup, BeginLimited, Serve, Crash, CheckLogin,
               Test, ReadCount, StoreCount, ClearCount, CheckVisitor, LookUp, CountInRedis, ReadLog,
               StoreLog, clock, ExpireCount, Slide
    <2> QED BY <2>1, <2>2, ConstantsAssumption
<1>2. ASSUME NEW n \in admitted'[r] PROVE n \in Nat /\ n > horizon' /\ n <= arrivals
    <2>1. n > horizon'
        BY DEF Next, Track
    <2>2. n \in admitted[r] \/ \E h \in Handlers : n = time[h]
        BY DEF Next, Track
    <2> QED BY <2>1, <2>2, ConstantsAssumption
<1> QED BY <1>1, <1>2

LEMMA HeldStep ==
    ASSUME RateInv, Next, NEW r \in Rates, r \notin blurred' \/ redis'
    PROVE  Held(r)'
<1> USE DEF RateInv, TypeOK, CodeOK, CounterTypes, CallTypes
<1>0. TypeOK'
    BY TypeStep
<1>1. redis' = redis /\ Limit[r] \in Nat
    BY KeysApart
       DEF Next, Step, Arrive, BeginLogin, BeginLookup, BeginLimited, Begin, Serve, Crash,
           CheckLogin, Test, ReadCount, StoreCount, ClearCount, CheckVisitor, LookUp, CountInRedis,
           ReadLog, StoreLog, ExpireCount, Slide
<1>2. /\ admitted[r] \subseteq Times /\ admitted'[r] \subseteq Times
      /\ log[r] \subseteq Times /\ log'[r] \subseteq Times
    BY <1>0
<1>3. CASE horizon' = arrivals'
    <2>1. admitted'[r] = {}
        BY <1>0, <1>3, AdmittedStep
    <2> QED BY <1>1, <2>1, FS_EmptySet DEF Held
<1>4. CASE horizon' # arrivals'
    <2>1. r \notin Cleared
        BY <1>4, ConstantsAssumption DEF Cleared
    <2>2. Held(r) /\ (~redis => \A h \in Handlers : ~Blurs(h, r))
        BY <1>1, <2>1 DEF Next, Track
    <2>3. \A n \in admitted'[r] :
              n > horizon' /\ (n \in admitted[r] \/ \E h \in Handlers : Admits(h, r) /\ n = time[h])
        BY DEF Next, Track
    <2>4. CASE \A h \in Handlers : ~Admits(h, r)
        <3>1. admitted'[r] \subseteq admitted[r]
            BY <2>3, <2>4
        <3>2. Cardinality(admitted'[r]) <= Limit[r]
            BY <1>1, <1>2, <2>2, <3>1, TimesFinite, FS_Subset DEF Held
        <3>3. admitted'[r] \subseteq log'[r]
            <4>1. CASE log'[r] = log[r]
                BY <2>2, <3>1, <4>1 DEF Held
            <4>2. CASE log'[r] # log[r]
                <5>1. PICK h \in Handlers : CountInRedis(h) \/ StoreLog(h)
                    BY <4>2, StepAt DEF Next, Step, Moves, Slide, ExpireCount, counters
                <5>2. Key(h) = r
                    BY <4>2, <5>1 DEF CountInRedis, StoreLog
                <5>3. CountInRedis(h)
                    BY <2>4, <5>1, <5>2 DEF Admits, StoreLog
                <5>4. log'[r] = Recent(h, log[r] \cup {time[h]}) /\ edge[h] <= horizon /\ horizon' = horizon
                    BY <5>2, <5>3 DEF CountInRedis, clock
                <5> QED BY <2>2, <2>3, <3>1, <5>4, <1>2, ConstantsAssumption DEF Held, Recent, Times
            <4> QED BY <4>1, <4>2
        <3> QED BY <3>2, <3>3 DEF Held
    <2>5. ASSUME NEW h \in Handlers, Admits(h, r) PROVE Held(r)'
        <3>1. Moves(h) /\ Key(h) = r /\ time[h] \in Times /\ edge[h] <= horizon /\ horizon' = horizon
            BY <2>5 DEF Admits, Moves, Serve, CallFacts, CountInRedis, StoreLog, clock
        <3>2. admitted'[r] \subseteq admitted[r] \cup {time[h]}
            <4>1. \A g \in Handlers : Admits(g, r) => g = h
                BY <3>1, StepAt
            <4> QED BY <2>3, <4>1
        <3>3. \A n \in admitted'[r] : n > edge[h]
            BY <1>2, <2>3, <3>1, ConstantsAssumption DEF Times
        <3>4. CASE at[h] = "count"
            <4>1. log'[r] = Recent(h, log[r] \cup {time[h]}) /\ Cardinality(log'[r]) <= Limit[r]
                BY <2>5, <3>1, <3>4 DEF Admits, CountInRedis
            <4>2. admitted'[r] \subseteq log'[r]
                BY <2>2, <3>2, <3>3, <4>1 DEF Held, Recent
            <4>3. Cardinality(admitted'[r]) <= Cardinality(log'[r])
                BY <1>2, <4>2, TimesFinite, FS_Subset
            <4>4. Cardinality(admitted'[r]) \in Nat /\ Cardinality(log'[r]) \in Nat
                BY <1>2, TimesFinite
            <4>5. Cardinality(admitted'[r]) <= Limit[r]
                BY <1>1, <4>1, <4>3, <4>4
            <4> QED BY <4>2, <4>5 DEF Held
        <3>5. CASE at[h] = "storeLog"
            <4>1. StoreLog(h) /\ ~redis /\ copy[h] = log[r]
                BY <2>2, <2>5, <3>1, <3>5 DEF Admits, Blurs, CallFacts
            <4>2. log'[r] = Recent(h, log[r]) \cup {time[h]}
                BY <3>1, <4>1 DEF StoreLog
            <4>3. admitted'[r] \subseteq log'[r]
                BY <2>2, <3>2, <3>3, <4>2 DEF Held, Recent
            <4>4. Cardinality(Recent(h, log[r])) < Limit[r]
                BY <3>1, <3>5, <4>1, KeyTyped DEF CallFacts
            <4>5. IsFiniteSet(Recent(h, log[r])) /\ Cardinality(Recent(h, log[r])) \in Nat
                BY <1>2, TimesFinite DEF Recent
            <4>6. Cardinality(log'[r]) <= Limit[r]
                <5>1. \/ log'[r] = Recent(h, log[r])
                      \/ Cardinality(log'[r]) = Cardinality(Recent(h, log[r])) + 1
                    <6>1. CASE time[h] \in Recent(h, log[r])
                        BY <4>2, <6>1
                    <6>2. CASE time[h] \notin Recent(h, log[r])
                        BY <4>2, <4>5, <6>2, FS_AddElement
                    <6> QED BY <6>1, <6>2
                <5> QED BY <1>1, <4>4, <4>5, <5>1
            <4>7. Cardinality(admitted'[r]) <= Cardinality(log'[r])
                BY <1>2, <4>3, TimesFinite, FS_Subset
            <4> QED BY <1>1, <1>2, <4>3, <4>6, <4>7, TimesFinite DEF Held
        <3> QED BY <2>5, <3>4, <3>5 DEF Admits
    <2> QED BY <2>4, <2>5
<1> QED BY <1>3, <1>4

LEMMA RateInit == Init => RateInv
BY TypeInit, FS_EmptySet, KeysApart DEF Init, RateInv, Held

LEMMA RateInvStep == RateInv /\ [Next]_vars => RateInv'
<1> SUFFICES ASSUME RateInv, [Next]_vars PROVE RateInv'
    OBVIOUS
<1>1. TypeOK'
    BY TypeStep DEF RateInv
<1>2. CASE UNCHANGED vars
    BY <1>1, <1>2 DEF vars, actual, RateInv, Held
<1>3. CASE Next
    BY <1>1, <1>3, AdmittedStep, HeldStep DEF RateInv
<1> QED BY <1>2, <1>3

(* No window lets in more requests than its limit: always with Redis, and   *)
(* without it unless times were stored from a read that was overtaken.      *)
THEOREM RatesHold == Spec => []RateHeld
<1>1. RateInv => RateHeld
    BY DEF RateInv, RateHeld, Held
<1> QED BY RateInit, RateInvStep, <1>1, PTL DEF Spec
=============================================================================
