--------------------------- MODULE ShowcaseProofs ---------------------------
(***************************************************************************)
(* Theorems about Showcase for any number of calls, templates, purchases   *)
(* and titles: what a reader holds is what the tables say unless a write   *)
(* has overtaken it, and a client's call that is about to write a review   *)
(* has found it not removed unless it has been since; hence a key is left  *)
(* stale, and a removed review written to, by such an overlap or a crash.  *)
(***************************************************************************)
EXTENDS Showcase, TLAPS

Step(h) == Arrive(h) \/ Serve(h) \/ Crash(h)

-----------------------------------------------------------------------------
(* Typing *)

LEMMA TypeInit == Init => TypeOK
BY ConstantsAssumption
   DEF Init, TypeOK, CodeOK, RowTypes, CallTypes, CallFacts, Steps, ReadSteps, TemplateSteps,
       ReviewSteps, DropSteps, StaleKeys, Keys

LEMMA KeysApart ==
    /\ \A t \in Templates : t \notin Lists /\ t # Nil /\ t \in Keys
    /\ Lists \subseteq Keys /\ Nil \notin Keys /\ Nil \notin Templates
    /\ Nil \notin TemplateRows /\ Nil \notin ReviewRows /\ Nil \notin Posts /\ Nil \notin Values
BY ConstantsAssumption DEF Keys

LEMMA PostedTyped == ASSUME CodeOK PROVE Posted \in [Purchases -> Posts \cup {Nil}]
<1> USE DEF CodeOK, RowTypes
<1>1. ASSUME NEW p \in Purchases, Shown(p)
      PROVE  /\ review[p].comment \in Comments \cup {Notice}
             /\ template[Bought[p]].title \in Titles
    <2>1. review[p] \in ReviewRows
        BY <1>1 DEF Shown
    <2>2. Bought[p] \in Templates /\ template[Bought[p]] \in TemplateRows
        BY <1>1, ConstantsAssumption DEF Shown
    <2> QED BY <2>1, <2>2 DEF ReviewRows, TemplateRows
<1> QED BY <1>1 DEF Posted, Posts

\* what the tables answer is of a type that can be cached
LEMMA ViewTyped == ASSUME CodeOK, NEW k \in Keys, View(k) # Nil PROVE View(k) \in Values
<1> USE DEF CodeOK, RowTypes
<1>1. template \in [Templates -> TemplateRows \cup {Nil}]
    OBVIOUS
<1>2. ActiveTemplates \in [Templates -> TemplateRows \cup {Nil}]
    BY <1>1 DEF ActiveTemplates
<1>3. Posted \in [Purchases -> Posts \cup {Nil}]
    BY PostedTyped
<1>4. k \in Templates => View(k) = template[k]
    BY KeysApart DEF View, Lists
<1>5. k \notin Templates => k \in Lists
    BY DEF Keys
<1> QED BY <1>1, <1>2, <1>3, <1>4, <1>5 DEF View, Values, Lists

Grown ==
    /\ \A t \in Templates : template[t] # Nil => template'[t] # Nil
    /\ \A p \in Purchases : review[p] # Nil => review'[p] # Nil

LEMMA AfterEnd ==
    ASSUME CodeOK, NEW h \in Handlers, End(h), Grown
    PROVE  CallTypes' /\ \A g \in Handlers : CallFacts(g)'
<1> USE DEF CodeOK
<1>1. CallTypes'
    BY DEF CallTypes, End
<1>2. ASSUME NEW g \in Handlers PROVE CallFacts(g)'
    <2>1. CASE g = h
        BY <2>1 DEF CallTypes, CallFacts, End, ReadSteps, TemplateSteps, ReviewSteps
    <2>2. CASE g # h
        <3>1. at'[g] = at[g] /\ key'[g] = key[g] /\ target'[g] = target[g] /\ seen'[g] = seen[g]
            BY <2>2 DEF CallTypes, End
        <3> QED BY <3>1, ConstantsAssumption DEF CallFacts, Grown, TemplateSteps, ReviewSteps
    <2> QED BY <2>1, <2>2
<1> QED BY <1>1, <1>2

\* where a call may go on to, and what must then be known
Follows(h, step) ==
    \/ at[h] = "lookup" /\ step = "query"
    \/ at[h] \in {"insert", "write"} /\ step = "dropAll"
    \/ at[h] = "dropAll" /\ step = "dropActive"
    \/ at[h] = "dropActive" /\ key[h] # Nil /\ step = "dropOne"
    \/ at[h] \in {"upsert", "remove"} /\ step = "dropReviews"
    \/ at[h] = "findReview" /\ step = "upsert"
    \/ at[h] = "readTemplate" /\ template[target[h]] # Nil /\ step = "write"
    \/ at[h] = "readReview" /\ review[target[h]] # Nil /\ step = "remove"

LEMMA AfterGoto ==
    ASSUME CodeOK, NEW h \in Handlers, NEW step \in Steps, Goto(h, step), Grown, Follows(h, step)
    PROVE  CallTypes' /\ \A g \in Handlers : CallFacts(g)'
<1> USE DEF CodeOK
<1>1. CallTypes'
    BY DEF CallTypes, Goto
<1>2. ASSUME NEW g \in Handlers PROVE CallFacts(g)'
    <2>1. CASE g = h
        <3>1. at'[h] = step /\ key'[h] = key[h] /\ target'[h] = target[h]
            BY DEF CallTypes, Goto
        <3>2. CallFacts(h)
            OBVIOUS
        <3> QED
            BY <2>1, <3>1, <3>2, ConstantsAssumption
               DEF CallFacts, Follows, Grown, ReadSteps, TemplateSteps, ReviewSteps, Steps, DropSteps,
                   CallTypes
    <2>2. CASE g # h
        <3>1. at'[g] = at[g] /\ key'[g] = key[g] /\ target'[g] = target[g] /\ seen'[g] = seen[g]
            BY <2>2 DEF CallTypes, Goto
        <3> QED BY <3>1, ConstantsAssumption DEF CallFacts, Grown, TemplateSteps, ReviewSteps
    <2> QED BY <2>1, <2>2
<1> QED BY <1>1, <1>2

\* a call that leaves the tables alone
LEMMA RowsKept ==
    ASSUME CodeOK, UNCHANGED tables,
           UNCHANGED entry \/ \E k \in Keys : entry' = [entry EXCEPT ![k] = Nil]
    PROVE  RowTypes' /\ Grown
<1>1. entry' \in [Keys -> Values \cup {Nil}] /\ \A k \in Keys : entry'[k] \in {entry[k], Nil}
    BY DEF CodeOK, RowTypes
<1>2. \A t \in Templates : entry'[t] # Nil => template[t] # Nil
    BY <1>1, KeysApart DEF CodeOK, RowTypes
<1> QED BY <1>1, <1>2 DEF CodeOK, RowTypes, tables, Grown

LEMMA TypeArrive == ASSUME CodeOK, NEW h \in Handlers, Arrive(h) PROVE CodeOK'
<1>1. PICK step \in {"lookup", "insert", "readTemplate", "findReview", "readReview"},
           k \in Keys \cup {Nil}, x \in Templates \cup Purchases \cup {Nil} :
          /\ Begin(h, step, k, x)
          /\ step = "lookup" => k \in Keys
          /\ step = "insert" => k = Nil /\ x \in Templates
          /\ step = "readTemplate" => k = x /\ x \in Templates
          /\ step \in {"findReview", "readReview"} => x \in Purchases
          /\ step = "findReview" => template[Bought[x]] # Nil
    BY KeysApart, ConstantsAssumption
       DEF Arrive, BeginRead, BeginCreate, BeginUpdate, BeginReview, BeginRemove
<1>2. RowTypes' /\ Grown /\ UNCHANGED tables
    BY <1>1, RowsKept DEF Begin
<1>3. CallTypes'
    BY <1>1 DEF Begin, CodeOK, CallTypes, Steps, ReadSteps, TemplateSteps, ReviewSteps
<1>4. ASSUME NEW g \in Handlers PROVE CallFacts(g)'
    <2>1. CASE g = h
        <3>1. at'[h] = step /\ key'[h] = k /\ target'[h] = x
            BY <1>1 DEF Begin, CodeOK, CallTypes
        <3> QED BY <1>1, <1>2, <2>1, <3>1 DEF CallFacts, tables, ReadSteps, TemplateSteps, ReviewSteps
    <2>2. CASE g # h
        <3>1. at'[g] = at[g] /\ key'[g] = key[g] /\ target'[g] = target[g] /\ seen'[g] = seen[g]
            BY <1>1, <2>2 DEF Begin, CodeOK, CallTypes
        <3> QED BY <1>2, <3>1 DEF CodeOK, CallFacts, tables
    <2> QED BY <2>1, <2>2
<1> QED BY <1>2, <1>3, <1>4 DEF CodeOK

LEMMA TypeServe == ASSUME CodeOK, NEW h \in Handlers, Serve(h) \/ Crash(h) PROVE CodeOK'
<1> USE DEF Steps, ReadSteps, TemplateSteps, ReviewSteps, DropSteps
<1>1. CASE Lookup(h) \/ ReadTemplate(h) \/ FindReview(h) \/ ReadReview(h) \/ Crash(h)
    <2>1. RowTypes' /\ Grown
        BY <1>1, RowsKept DEF Lookup, ReadTemplate, FindReview, ReadReview, Crash
    <2>2. End(h) \/ \E step \in {"query", "write", "upsert", "remove"} : Goto(h, step) /\ Follows(h, step)
        BY <1>1 DEF Lookup, ReadTemplate, FindReview, ReadReview, Crash, Follows
    <2> QED BY <2>1, <2>2, AfterEnd, AfterGoto DEF CodeOK
<1>2. CASE Query(h)
    <2>1. RowTypes' /\ Grown /\ UNCHANGED tables
        BY <1>2, RowsKept DEF Query
    <2>2. CASE End(h)
        BY <2>1, <2>2, AfterEnd DEF CodeOK
    <2>3. CASE ~End(h)
        <3>1. key[h] \in Keys
            BY <1>2 DEF Query, CodeOK, CallFacts
        <3>2. View(key[h]) # Nil
            BY <1>2, <2>3 DEF Query
        <3>3. View(key[h]) \in Values
            BY <3>1, <3>2, ViewTyped
        <3>4. key[h] \in Templates => template[key[h]] # Nil
            BY <3>2, KeysApart DEF View, Lists
        <3>5. CallTypes'
            BY <1>2, <2>3, <3>3 DEF Query, CodeOK, CallTypes
        <3>6. ASSUME NEW g \in Handlers PROVE CallFacts(g)'
            <4>1. CASE g = h
                <5>1. at'[h] = "fill" /\ key'[h] = key[h] /\ seen'[h] = View(key[h])
                    BY <1>2, <2>3 DEF Query, CodeOK, CallTypes
                <5> QED BY <2>1, <3>1, <3>3, <3>4, <4>1, <5>1 DEF CallFacts, tables
            <4>2. CASE g # h
                <5>1. at'[g] = at[g] /\ key'[g] = key[g] /\ target'[g] = target[g] /\ seen'[g] = seen[g]
                    BY <1>2, <2>3, <4>2 DEF Query, CodeOK, CallTypes
                <5> QED BY <2>1, <5>1 DEF CodeOK, CallFacts, tables
            <4> QED BY <4>1, <4>2
        <3> QED BY <2>1, <3>5, <3>6 DEF CodeOK
    <2> QED BY <2>2, <2>3
<1>3. CASE Fill(h)
    <2>1. key[h] \in Keys /\ seen[h] \in Values
        BY <1>3 DEF Fill, CodeOK, CallFacts
    <2>2. RowTypes' /\ Grown
        BY <1>3, <2>1 DEF Fill, tables, CodeOK, RowTypes, CallFacts, Grown
    <2> QED BY <1>3, <2>2, AfterEnd DEF Fill, CodeOK
<1>4. CASE Insert(h) \/ Write(h)
    <2>1. PICK r \in TemplateRows : template' = [template EXCEPT ![target[h]] = r]
        BY <1>4 DEF Insert, Write, TemplateRows
    <2>2. RowTypes' /\ Grown
        BY <1>4, <2>1, KeysApart, ConstantsAssumption DEF Insert, Write, CodeOK, RowTypes, Grown
    <2>3. Goto(h, "dropAll") /\ Follows(h, "dropAll")
        BY <1>4 DEF Insert, Write, Follows
    <2> QED BY <2>2, <2>3, AfterGoto DEF CodeOK
<1>5. CASE Upsert(h) \/ Remove(h)
    <2>1. target[h] \in Purchases /\ template[Bought[target[h]]] # Nil
        BY <1>5 DEF Upsert, Remove, CodeOK, CallFacts, RowTypes
    <2>2. PICK r \in ReviewRows : review' = [review EXCEPT ![target[h]] = r]
        <3>1. CASE Remove(h)
            BY <3>1 DEF Remove, ReviewRows
        <3>2. CASE Upsert(h)
            <4>1. (IF review[target[h]] = Nil THEN FALSE ELSE review[target[h]].removed) \in BOOLEAN
                BY <2>1 DEF CodeOK, RowTypes, ReviewRows
            <4> QED BY <2>1, <3>2, <4>1 DEF Upsert, ReviewRows, CodeOK, RowTypes
        <3> QED BY <1>5, <3>1, <3>2
    <2>3. RowTypes' /\ Grown
        BY <1>5, <2>1, <2>2, KeysApart DEF Upsert, Remove, CodeOK, RowTypes, Grown
    <2>4. Goto(h, "dropReviews") /\ Follows(h, "dropReviews")
        BY <1>5 DEF Upsert, Remove, Follows
    <2> QED BY <2>3, <2>4, AfterGoto DEF CodeOK
<1>6. CASE Drop(h)
    <2>1. Dropped(h) \in Keys
        BY <1>6 DEF Drop, Dropped, CodeOK, CallFacts, Keys, Lists
    <2>2. RowTypes' /\ Grown
        BY <1>6, <2>1, RowsKept DEF Drop
    <2>3. End(h) \/ \E step \in {"dropActive", "dropOne"} : Goto(h, step) /\ Follows(h, step)
        BY <1>6 DEF Drop, GoOn, Follows
    <2> QED BY <2>2, <2>3, AfterEnd, AfterGoto DEF CodeOK
<1> QED BY <1>1, <1>2, <1>3, <1>4, <1>5, <1>6 DEF Serve

LEMMA TypeExpire == ASSUME CodeOK, NEW k \in Keys, Expire(k) PROVE CodeOK'
<1>1. RowTypes' /\ UNCHANGED tables
    BY RowsKept DEF Expire
<1>2. CallTypes' /\ \A g \in Handlers : CallFacts(g)'
    BY <1>1 DEF Expire, callState, tables, CodeOK, CallTypes, CallFacts
<1> QED BY <1>1, <1>2 DEF CodeOK

LEMMA TypeStep == TypeOK /\ [Next]_vars => TypeOK'
<1> SUFFICES ASSUME TypeOK, [Next]_vars PROVE TypeOK'
    OBVIOUS
<1>1. CASE UNCHANGED vars
    BY <1>1 DEF vars, actual, TypeOK, CodeOK, RowTypes, CallTypes, CallFacts, StaleKeys, Matches,
                View, ActiveTemplates, Posted, Shown, SamePost
<1>2. CASE Next
    <2>1. CodeOK'
        BY <1>2, TypeArrive, TypeServe, TypeExpire DEF Next, TypeOK
    <2>2. overtaken' \in [Handlers -> BOOLEAN]
        BY <1>2 DEF Next, Track
    <2>3. excused' \subseteq StaleKeys'
        BY <1>2 DEF Next, Track
    <2> QED BY <2>1, <2>2, <2>3 DEF TypeOK
<1> QED BY <1>1, <1>2

(* Every variable keeps its type; only what exists is cached, shown,        *)
(* updated or removed.                                                      *)
THEOREM Typing == Spec => []TypeOK
BY TypeInit, TypeStep, PTL DEF Spec

-----------------------------------------------------------------------------
(* What a call trusts *)

\* an id that is about to be inserted is no other row's, nor another call's
Fresh(h) ==
    at[h] = "insert" =>
        /\ template[target[h]] = Nil
        /\ \A g \in Handlers : g # h /\ at[g] = "insert" => target[g] # target[h]

Trusted(h) ==
    /\ at[h] = "fill" => Matches(key[h], seen[h])
    /\ at[h] = "upsert" => review[target[h]] = Nil \/ ~review[target[h]].removed

TrustInv == TypeOK /\ \A h \in Handlers : Fresh(h) /\ (overtaken[h] \/ Trusted(h))

\* a call stays where it is only if another one takes the step
LEMMA OthersStep ==
    ASSUME TypeOK, NEW h \in Handlers, Step(h), NEW g \in Handlers
    PROVE  /\ g = h => at'[g] # at[g]
           /\ g # h => /\ at'[g] = at[g] /\ key'[g] = key[g]
                       /\ target'[g] = target[g] /\ seen'[g] = seen[g]
<1> USE DEF TypeOK, CodeOK, CallTypes
<1>1. CASE Arrive(h)
    BY <1>1 DEF Arrive, BeginRead, BeginCreate, BeginUpdate, BeginReview, BeginRemove, Begin
<1>2. CASE End(h) /\ at[h] # "idle"
    BY <1>2 DEF End
<1>3. CASE \E step \in Steps : step # at[h] /\ Goto(h, step)
    BY <1>3 DEF Goto
<1>4. CASE Query(h) /\ ~End(h)
    BY <1>4 DEF Query
<1>5. CASE Serve(h) \/ Crash(h)
    <2>1. at[h] # "idle"
        BY <1>5 DEF Serve, Crash, Lookup, Query, Fill, Insert, ReadTemplate, Write, FindReview,
                    Upsert, ReadReview, Remove, Drop, DropSteps
    <2>2. ASSUME ~End(h), ~Query(h) PROVE \E step \in Steps : step # at[h] /\ Goto(h, step)
        BY <1>5, <2>2
           DEF Serve, Crash, Lookup, Fill, Insert, ReadTemplate, Write, FindReview, Upsert,
               ReadReview, Remove, Drop, GoOn, Steps, ReadSteps, TemplateSteps, ReviewSteps,
               DropSteps
    <2> QED BY <1>2, <1>3, <1>4, <2>1, <2>2
<1> QED BY <1>1, <1>5 DEF Step

\* which step a call takes is read off where it stands
LEMMA StepAt ==
    ASSUME NEW h \in Handlers, Step(h)
    PROVE  /\ ~(UNCHANGED tables) => Insert(h) \/ Write(h) \/ Upsert(h) \/ Remove(h)
           /\ entry' # entry => Fill(h) \/ Drop(h)
           /\ at[h] \in DropSteps => Drop(h) \/ Crash(h)
BY DEF Step, Arrive, BeginRead, BeginCreate, BeginUpdate, BeginReview, BeginRemove, Begin, Serve,
       Crash, Lookup, Query, Fill, Insert, ReadTemplate, Write, FindReview, Upsert, ReadReview,
       Remove, Drop, DropSteps

LEMMA MatchesKept ==
    ASSUME UNCHANGED tables, NEW k \in Keys, NEW v PROVE (Matches(k, v) <=> Matches(k, v)')
BY DEF tables, Matches, View, ActiveTemplates, Posted, Shown, SamePost

LEMMA TemplateMatches ==
    ASSUME NEW t \in Templates, NEW v
    PROVE  (Matches(t, v) <=> v = template[t]) /\ (Matches(t, v)' <=> v = template'[t])
BY KeysApart DEF Matches, View, Lists

\* what a review borrows from a template does not count
LEMMA ReviewsKept ==
    ASSUME CodeOK, CodeOK', review' = review, NEW v, Matches("reviews", v)
    PROVE  Matches("reviews", v)'
<1> SUFFICES ASSUME NEW p \in Purchases
             PROVE  SamePost(v[p], Posted[p]) => SamePost(v[p], Posted'[p])
    BY DEF Matches, SamePost
<1>1. CASE Shown(p)
    <2>1. Shown(p)'
        BY <1>1 DEF Shown
    <2>2. Posted[p] = [comment |-> review[p].comment, title |-> template[Bought[p]].title]
        BY <1>1 DEF Posted
    <2>3. Posted'[p] = [comment |-> review[p].comment, title |-> template'[Bought[p]].title]
        BY <2>1 DEF Posted
    <2>4. Posted[p] # Nil /\ Posted'[p] # Nil
        <3>1. review[p] \in ReviewRows /\ review[p] # Nil /\ Bought[p] \in Templates
            BY <1>1, ConstantsAssumption DEF Shown, CodeOK, RowTypes
        <3>2. template[Bought[p]] \in TemplateRows /\ template'[Bought[p]] \in TemplateRows
            BY <3>1 DEF CodeOK, RowTypes
        <3> QED BY <2>2, <2>3, <3>1, <3>2, KeysApart DEF Posts, ReviewRows, TemplateRows
    <2> QED BY <2>2, <2>3, <2>4 DEF SamePost
<1>2. CASE ~Shown(p)
    <2>1. Posted[p] = Nil /\ Posted'[p] = Nil
        BY <1>2 DEF Shown, Posted
    <2> QED BY <2>1
<1> QED BY <1>1, <1>2

\* a read that has just been made is up to date
LEMMA JustRead ==
    ASSUME TypeOK, NEW h \in Handlers, Step(h), at'[h] \in {"fill", "upsert"}
    PROVE  Trusted(h)'
<1> USE DEF TypeOK, CodeOK, CallTypes
<1>1. Query(h) \/ FindReview(h)
    <2>1. ~Arrive(h)
        BY DEF Arrive, BeginRead, BeginCreate, BeginUpdate, BeginReview, BeginRemove, Begin
    <2>2. ~End(h)
        BY DEF End
    <2> QED
        BY <2>1, <2>2
           DEF Step, Serve, Crash, Lookup, Fill, Insert, ReadTemplate, Write, Upsert, ReadReview,
               Remove, Drop, GoOn, Goto
<1>2. CASE Query(h)
    <2>1. at'[h] = "fill" /\ key'[h] = key[h] /\ seen'[h] = View(key[h]) /\ UNCHANGED tables
        BY <1>2 DEF Query, End
    <2>2. key[h] \in Keys
        BY <1>2 DEF Query, CallFacts, ReadSteps
    <2>3. Matches(key[h], View(key[h]))
        BY DEF Matches, View, SamePost
    <2>4. PICK k \in Keys, v \in {View(key[h])} : k = key[h]
        BY <2>2
    <2>5. Matches(k, v)'
        BY <2>1, <2>3, <2>4, MatchesKept
    <2> QED BY <2>1, <2>4, <2>5 DEF Trusted
<1>3. CASE FindReview(h)
    <2>1. at'[h] = "upsert" /\ target'[h] = target[h] /\ UNCHANGED tables
        BY <1>3 DEF FindReview, End, Goto
    <2>2. review[target[h]] = Nil \/ ~review[target[h]].removed
        BY <1>3 DEF FindReview, End
    <2> QED BY <2>1, <2>2 DEF Trusted, tables
<1> QED BY <1>1, <1>2, <1>3

LEMMA TrustInit == Init => TrustInv
BY TypeInit DEF Init, TrustInv, Trusted, Fresh

LEMMA InsertBegun ==
    ASSUME TypeOK, NEW h \in Handlers, Step(h), at'[h] = "insert" PROVE BeginCreate(h)
<1> USE DEF TypeOK, CodeOK, CallTypes
<1>1. ~End(h)
    BY DEF End
<1>2. ~Serve(h) /\ ~Crash(h)
    BY <1>1 DEF Serve, Crash, Lookup, Query, Fill, Insert, ReadTemplate, Write, FindReview, Upsert,
                ReadReview, Remove, Drop, GoOn, Goto
<1> QED
    BY <1>2 DEF Step, Arrive, BeginRead, BeginCreate, BeginUpdate, BeginReview, BeginRemove, Begin

LEMMA FreshStep ==
    ASSUME TypeOK, \A h \in Handlers : Fresh(h), NEW h \in Handlers, Step(h), NEW g \in Handlers
    PROVE  Fresh(g)'
<1> USE DEF TypeOK, CodeOK, CallTypes, RowTypes
<1> SUFFICES ASSUME at'[g] = "insert"
             PROVE  /\ template'[target'[g]] = Nil
                    /\ \A f \in Handlers : f # g /\ at'[f] = "insert" => target'[f] # target'[g]
    BY DEF Fresh
<1>1. CASE g # h
    <2>1. at[g] = "insert" /\ target'[g] = target[g] /\ target[g] \in Templates
        BY <1>1, OthersStep DEF CallFacts, TemplateSteps
    <2>2. template'[target[g]] = Nil
        <3>1. CASE Insert(h)
            <4>1. target[h] # target[g]
                BY <1>1, <2>1, <3>1 DEF Insert, Fresh
            <4> QED BY <2>1, <3>1, <4>1 DEF Insert, Fresh
        <3>2. CASE Write(h)
            <4>1. template[target[h]] # Nil
                BY <3>2 DEF Write, CallFacts
            <4> QED BY <2>1, <3>2, <4>1 DEF Write, Fresh
        <3>3. template' = template \/ Insert(h) \/ Write(h)
            BY StepAt DEF tables, Upsert, Remove
        <3> QED BY <2>1, <3>1, <3>2, <3>3 DEF Fresh
    <2>3. ASSUME NEW f \in Handlers, f # g, at'[f] = "insert" PROVE target'[f] # target[g]
        <3>1. CASE f = h
            <4>1. BeginCreate(h)
                BY <2>3, <3>1, InsertBegun
            <4>2. target'[h] # target[g]
                BY <2>1, <4>1 DEF BeginCreate, Begin
            <4> QED BY <3>1, <4>2
        <3>2. CASE f # h
            BY <2>1, <2>3, <3>2, OthersStep DEF Fresh
        <3> QED BY <3>1, <3>2
    <2> QED BY <2>1, <2>2, <2>3
<1>2. CASE g = h
    <2>1. BeginCreate(h)
        BY <1>2, InsertBegun
    <2>2. template'[target'[h]] = Nil /\ \A f \in Handlers : at[f] = "insert" => target[f] # target'[h]
        BY <2>1 DEF BeginCreate, Begin, tables
    <2> QED BY <1>2, <2>2, OthersStep
<1> QED BY <1>1, <1>2

LEMMA TrustStep == TrustInv /\ [Next]_vars => TrustInv'
<1> SUFFICES ASSUME TrustInv, [Next]_vars PROVE TrustInv'
    OBVIOUS
<1>1. TypeOK'
    BY TypeStep DEF TrustInv
<1>2. CASE UNCHANGED vars
    BY <1>1, <1>2 DEF vars, actual, TrustInv, Trusted, Fresh, Matches, View, ActiveTemplates,
                      Posted, Shown, SamePost
<1>3. ASSUME Next, NEW g \in Handlers PROVE overtaken'[g] \/ Trusted(g)'
    <2>1. overtaken'[g] <=> at'[g] \in {"fill", "upsert"} /\ (overtaken[g] \/ Overtakes(g))
        BY <1>3 DEF Next, Track
    <2>2. CASE at'[g] \notin {"fill", "upsert"}
        BY <2>2 DEF Trusted
    <2>3. CASE /\ at'[g] \in {"fill", "upsert"} /\ at'[g] = at[g] /\ key'[g] = key[g]
               /\ target'[g] = target[g] /\ seen'[g] = seen[g] /\ ~overtaken'[g]
        <3>1. ~Overtakes(g) /\ ~overtaken[g]
            BY <2>1, <2>3
        <3>2. at'[g] = "fill" => Matches(key[g], seen[g])'
            BY <2>3, <3>1 DEF Overtakes
        <3>3. at'[g] = "upsert" => review'[target[g]] = review[target[g]]
            BY <2>3, <3>1 DEF Overtakes
        <3> QED BY <2>3, <3>1, <3>2, <3>3 DEF Trusted, TrustInv
    <2>4. CASE Step(g)
        BY <2>2, <2>4, JustRead DEF TrustInv
    <2>5. CASE \E k \in Keys : Expire(k)
        BY <2>2, <2>3, <2>5 DEF Expire, callState
    <2>6. CASE \E h \in Handlers : h # g /\ Step(h)
        BY <2>2, <2>3, <2>6, OthersStep DEF TrustInv
    <2> QED BY <1>3, <2>4, <2>5, <2>6 DEF Next, Step
<1>4. ASSUME Next, NEW g \in Handlers PROVE Fresh(g)'
    <2>1. CASE \E k \in Keys : Expire(k)
        BY <2>1 DEF Expire, callState, tables, TrustInv, Fresh
    <2>2. CASE \E h \in Handlers : Step(h)
        BY <2>2, FreshStep DEF TrustInv
    <2> QED BY <1>4, <2>1, <2>2 DEF Next, Step
<1> QED BY <1>1, <1>2, <1>3, <1>4 DEF TrustInv

LEMMA Trust == Spec => []TrustInv
BY TrustInit, TrustStep, PTL DEF Spec

(* A review that an administrator has removed stays removed, and only a     *)
(* client's call that had found it not yet removed writes its text again.   *)
THEOREM RemovedForGood == Spec => RemovalIsFinal
<1>1. ASSUME TrustInv, [Next]_vars, NEW p \in Purchases, review[p] # Nil, review[p].removed
      PROVE  /\ review'[p].removed
             /\ review'[p].comment \notin {review[p].comment, Notice} =>
                    \E h \in Handlers : at[h] = "upsert" /\ target[h] = p /\ overtaken[h]
    <2> USE DEF TrustInv, TypeOK, CodeOK, RowTypes
    <2>1. CASE review' = review
        BY <1>1, <2>1
    <2>2. CASE review' # review
        <3>1. PICK h \in Handlers : Step(h)
            BY <1>1, <2>2 DEF Next, Step, vars, actual, Expire, tables
        <3>2. CASE Remove(h)
            BY <1>1, <3>2 DEF Remove
        <3>3. CASE Upsert(h)
            <4>1. CASE target[h] # p
                BY <1>1, <3>3, <4>1 DEF Upsert
            <4>2. CASE target[h] = p
                <5>1. review'[p].removed
                    <6>1. \E c \in Comments :
                              review'[p] = [comment |-> c, removed |-> review[p].removed]
                        BY <1>1, <3>3, <4>2 DEF Upsert
                    <6> QED BY <1>1, <6>1
                <5>2. at[h] = "upsert"
                    BY <3>3 DEF Upsert
                <5>3. ~Trusted(h)
                    BY <1>1, <4>2, <5>2 DEF Trusted
                <5> QED BY <1>1, <4>2, <5>1, <5>2, <5>3
            <4> QED BY <4>1, <4>2
        <3> QED BY <2>2, <3>1, <3>2, <3>3, StepAt DEF tables, Insert, Write
    <2> QED BY <2>1, <2>2
<1>2. TrustInv /\ [Next]_vars =>
          [\A p \in Purchases : review[p] # Nil /\ review[p].removed =>
               /\ review'[p].removed
               /\ review'[p].comment \notin {review[p].comment, Notice} =>
                      \E h \in Handlers : at[h] = "upsert" /\ target[h] = p /\ overtaken[h]]_vars
    BY <1>1
<1> QED BY Trust, <1>2, PTL DEF Spec, RemovalIsFinal

-----------------------------------------------------------------------------
(* The cache *)

ShownInv == TrustInv /\ StaleOnlyIfRaced

\* a key that is to be deleted is deleted, or given up
LEMMA PendingStep ==
    ASSUME TypeOK, NEW h \in Handlers, Step(h), NEW g \in Handlers, NEW k \in Pending(g), k \in Keys
    PROVE  entry'[k] = Nil \/ k \in Pending(g)' \/ k \in ExcusedBy(g)
<1> USE DEF TypeOK, CodeOK, CallTypes, RowTypes
<1>1. CASE g # h
    <2>1. at'[g] = at[g] /\ key'[g] = key[g]
        BY <1>1, OthersStep
    <2> QED BY <2>1 DEF Pending
<1>2. CASE g = h /\ Crash(h)
    BY <1>2 DEF ExcusedBy
<1>3. CASE g = h /\ Drop(h)
    <2>1. CASE at[h] = "dropAll"
        <3>1. at'[h] = "dropActive" /\ key'[h] = key[h] /\ entry' = [entry EXCEPT !["all"] = Nil]
            BY <1>3, <2>1 DEF Drop, Dropped, GoOn, Goto
        <3> QED BY <1>3, <2>1, <3>1 DEF Pending
    <2>2. CASE at[h] = "dropActive"
        <3>1. entry' = [entry EXCEPT !["active"] = Nil]
            BY <1>3, <2>2 DEF Drop, Dropped
        <3>2. key[h] # Nil => at'[h] = "dropOne" /\ key'[h] = key[h]
            BY <1>3, <2>2 DEF Drop, GoOn, Goto
        <3> QED BY <1>3, <2>2, <3>1, <3>2 DEF Pending
    <2>3. CASE at[h] = "dropOne" \/ at[h] = "dropReviews"
        BY <1>3, <2>3 DEF Drop, Dropped, Pending
    <2> QED BY <1>3, <2>1, <2>2, <2>3 DEF Drop, DropSteps
<1>4. at[g] \in DropSteps
    BY DEF Pending, DropSteps
<1> QED BY <1>1, <1>2, <1>3, <1>4, StepAt

\* a step that changes what is to be shown under a key is to delete the key
LEMMA WriteStep ==
    ASSUME TrustInv, NEW h \in Handlers, Step(h), NEW k \in Keys, NEW v,
           Matches(k, v), ~Matches(k, v)', v # Nil, k \in Templates => template[k] # Nil
    PROVE  k \in Pending(h)'
<1> USE DEF TrustInv, TypeOK, CodeOK, CallTypes, RowTypes
<1>0. CodeOK'
    BY TypeArrive, TypeServe DEF Step
<1>1. Insert(h) \/ Write(h) \/ Upsert(h) \/ Remove(h)
    BY MatchesKept, StepAt
<1>2. CASE Insert(h) \/ Write(h)
    <2>1. at'[h] = "dropAll" /\ key'[h] = key[h] /\ target[h] \in Templates /\ review' = review
        BY <1>2 DEF Insert, Write, Goto, CallFacts, TemplateSteps
    <2>2. k # "reviews"
        BY <1>0, <2>1, ReviewsKept
    <2>3. k \in Templates => k = target[h]
        <3>1. ASSUME NEW t \in Templates, t # target[h] PROVE template'[t] = template[t]
            BY <1>2, <3>1 DEF Insert, Write
        <3> QED BY <3>1, TemplateMatches
    <2>4. k \in Templates => Write(h)
        BY <1>2, <2>3 DEF Insert, Fresh
    <2>5. Write(h) => key[h] = target[h]
        BY DEF Write, CallFacts
    <2> QED BY <2>1, <2>2, <2>3, <2>4, <2>5, KeysApart DEF Pending, Keys, Lists
<1>3. CASE Upsert(h) \/ Remove(h)
    <2>1. at'[h] = "dropReviews" /\ template' = template
        BY <1>3 DEF Upsert, Remove, Goto
    <2>2. k = "reviews"
        BY <2>1 DEF Matches, View, ActiveTemplates
    <2> QED BY <2>1, <2>2 DEF Pending
<1> QED BY <1>1, <1>2, <1>3

LEMMA ShownStep ==
    ASSUME ShownInv, Next, NEW k \in StaleKeys'
    PROVE  k \in excused' \/ \E h \in Handlers : k \in Pending(h)'
<1> USE DEF ShownInv, TrustInv, TypeOK, CodeOK, CallTypes, RowTypes
<1>1. k \in excused \/ (\E h \in Handlers : k \in ExcusedBy(h)) => k \in excused'
    BY DEF Next, Track
<1>2. PICK v : k \in Keys /\ v = entry'[k] /\ v # Nil /\ ~Matches(k, v)'
    BY DEF StaleKeys, Matches
<1>3. k \in StaleKeys <=> entry[k] # Nil /\ ~Matches(k, entry[k])
    BY <1>2 DEF StaleKeys
<1>4. entry[k] = v /\ ~Matches(k, v) => k \in StaleKeys
    BY <1>2, <1>3
<1>5. CASE \E j \in Keys : Expire(j)
    <2>1. entry'[k] = entry[k] /\ UNCHANGED tables /\ UNCHANGED callState
        BY <1>2, <1>5 DEF Expire
    <2>2. k \in StaleKeys
        BY <1>2, <1>4, <2>1, MatchesKept
    <2>3. \A h \in Handlers : Pending(h)' = Pending(h)
        BY <2>1 DEF callState, Pending
    <2> QED BY <1>1, <2>2, <2>3 DEF StaleOnlyIfRaced
<1>6. CASE \E h \in Handlers : Step(h)
    <2>1. PICK h \in Handlers : Step(h)
        BY <1>6
    <2>2. CASE entry'[k] # entry[k]
        <3>1. Fill(h) /\ key[h] = k /\ v = seen[h]
            BY <1>2, <2>1, <2>2, StepAt DEF Fill, Drop
        <3>2. ~Matches(k, v)
            BY <1>2, <3>1, MatchesKept DEF Fill
        <3>3. ~Trusted(h)
            BY <3>1, <3>2 DEF Fill, Trusted
        <3> QED BY <1>1, <3>1, <3>3 DEF ExcusedBy
    <2>3. CASE entry'[k] = entry[k] /\ k \in StaleKeys
        BY <1>1, <1>2, <2>1, <2>3, PendingStep DEF StaleOnlyIfRaced
    <2>4. CASE entry'[k] = entry[k] /\ k \notin StaleKeys
        <3>1. Matches(k, v) /\ entry[k] # Nil
            BY <1>2, <1>4, <2>4
        <3>2. k \in Templates => template[k] # Nil
            BY <3>1
        <3> QED BY <1>2, <2>1, <3>1, <3>2, WriteStep
    <2> QED BY <2>2, <2>3, <2>4
<1> QED BY <1>5, <1>6 DEF Next, Step

LEMMA ShownInit == Init => ShownInv
BY TrustInit DEF Init, ShownInv, StaleOnlyIfRaced, StaleKeys

LEMMA ShownInvStep == ShownInv /\ [Next]_vars => ShownInv'
<1> SUFFICES ASSUME ShownInv, [Next]_vars PROVE ShownInv'
    OBVIOUS
<1>1. TrustInv'
    BY TrustStep DEF ShownInv
<1>2. CASE UNCHANGED vars
    BY <1>1, <1>2 DEF vars, actual, ShownInv, StaleOnlyIfRaced, StaleKeys, Pending, Matches, View,
                      ActiveTemplates, Posted, Shown, SamePost
<1>3. CASE Next
    <2>1. StaleOnlyIfRaced'
        BY <1>3, ShownStep DEF StaleOnlyIfRaced
    <2> QED BY <1>1, <2>1 DEF ShownInv
<1> QED BY <1>2, <1>3

(* A key is stale only while a writer is still to delete it, or was cut off *)
(* before, or because a reader stored what a writer had overtaken.          *)
THEOREM OnShow == Spec => []StaleOnlyIfRaced
<1>1. ShownInv => StaleOnlyIfRaced
    BY DEF ShownInv
<1> QED BY ShownInit, ShownInvStep, <1>1, PTL DEF Spec

-----------------------------------------------------------------------------
(* Refinement of ReadThroughCache *)

\* what the tables and the calls are to the cache
Source == [k \in Keys |-> Own(k, View(k))]
Cached == [k \in Keys |-> Own(k, entry[k])]
AskedFor == [h \in Handlers |-> IF at[h] = "fill" THEN key[h] ELSE Nil]
Held == [h \in Handlers |-> IF at[h] = "fill" THEN Own(key[h], seen[h]) ELSE Nil]
Owed == [h \in Handlers |-> Pending(h)]

LEMMA OwnNil == \A k : Own(k, Nil) = Nil
BY DEF Own

\* what the tables answer stays of a type that can be cached
LEMMA OwnTyped ==
    ASSUME CodeOK, NEW k \in Keys, View(k) # Nil PROVE Own(k, View(k)) \in OwnPosts \cup Values
<1>1. CASE k # "reviews"
    BY <1>1, ViewTyped DEF Own
<1>2. CASE k = "reviews"
    <2>1. View(k) = Posted
        BY <1>2 DEF View
    <2>2. ASSUME NEW p \in Purchases, Posted[p] # Nil PROVE Posted[p].comment \in Comments \cup {Notice}
        <3>1. Shown(p) /\ Posted[p].comment = review[p].comment
            BY <2>2 DEF Posted
        <3> QED BY <3>1 DEF Shown, CodeOK, RowTypes, ReviewRows
    <2> QED BY <1>2, <2>1, <2>2 DEF Own, OwnPosts
<1> QED BY <1>1, <1>2

SourceOK == Source \in [Keys -> OwnPosts \cup Values \cup {Nil}] /\ Posted # Nil

LEMMA SourceTyped == TypeOK => SourceOK
<1>1. CodeOK => Posted # Nil
    BY PostedTyped, ConstantsAssumption DEF Values
<1> QED BY <1>1, OwnTyped, OwnNil DEF TypeOK, Source, SourceOK

LEMMA SourceStaysTyped == TypeOK' => SourceOK'
BY SourceTyped, PTL

\* a key has an answer in the tables' own if it has one
LEMMA SourceNil ==
    ASSUME CodeOK, NEW k \in Keys PROVE View(k) = Nil <=> Source[k] = Nil
<1>1. Own(k, View(k)) \in OwnPosts \cup Values => Own(k, View(k)) # Nil
    BY ConstantsAssumption
<1> QED BY <1>1, OwnTyped, OwnNil DEF Source

LEMMA SelfMatch == \A k \in Keys : Matches(k, View(k))
BY DEF Matches, View, SamePost

\* what still matches is the same but for what it borrows
LEMMA MatchOwn ==
    ASSUME SourceOK, SourceOK', NEW k \in Keys, NEW v, v = View(k), Matches(k, v)'
    PROVE  Own(k, View(k))' = Own(k, View(k))
<1>1. CASE k # "reviews"
    BY <1>1 DEF Matches, Own
<1>2. CASE k = "reviews"
    <2>1. View(k) = Posted /\ View(k)' = Posted'
        BY <1>2 DEF View
    <2>2. \A p \in Purchases : SamePost(Posted[p], Posted'[p])
        BY <1>2, <2>1 DEF Matches, SamePost
    <2>3. \A p \in Purchases : (IF Posted'[p] = Nil THEN Nil ELSE Posted'[p].comment)
                                = (IF Posted[p] = Nil THEN Nil ELSE Posted[p].comment)
        BY <2>2 DEF SamePost
    <2>4. Posted # Nil /\ Posted' # Nil
        BY DEF SourceOK
    <2> HIDE DEF Posted
    <2> QED BY <1>2, <2>1, <2>3, <2>4 DEF Own
<1> QED BY <1>1, <1>2

\* a step of one call shows in its own place only
LEMMA PlacesStep ==
    ASSUME TypeOK, NEW h \in Handlers, Step(h)
    PROVE  /\ AskedFor' = [AskedFor EXCEPT ![h] = IF at'[h] = "fill" THEN key'[h] ELSE Nil]
           /\ Held' = [Held EXCEPT ![h] = IF at'[h] = "fill" THEN Own(key'[h], seen'[h]) ELSE Nil]
           /\ Owed' = [Owed EXCEPT ![h] = Pending(h)']
           /\ at[h] # "fill" /\ at'[h] # "fill" => AskedFor' = AskedFor /\ Held' = Held
           /\ Pending(h)' = Pending(h) => Owed' = Owed
<1>1. \A g \in Handlers : g # h => at'[g] = at[g] /\ key'[g] = key[g] /\ seen'[g] = seen[g]
    BY OthersStep
<1>2. \A g \in Handlers : g # h => Pending(g)' = Pending(g)
    BY <1>1 DEF Pending
<1>3. at[h] # "fill" /\ at'[h] # "fill" => AskedFor' = AskedFor /\ Held' = Held
    BY <1>1 DEF AskedFor, Held
<1>4. Pending(h)' = Pending(h) => Owed' = Owed
    BY <1>2 DEF Owed
<1>5. AskedFor' = [AskedFor EXCEPT ![h] = IF at'[h] = "fill" THEN key'[h] ELSE Nil]
    BY <1>1 DEF AskedFor
<1>6. Held' = [Held EXCEPT ![h] = IF at'[h] = "fill" THEN Own(key'[h], seen'[h]) ELSE Nil]
    <2>1. \A g \in Handlers : g # h => Held'[g] = Held[g]
        BY <1>1 DEF Held
    <2>2. Held'[h] = IF at'[h] = "fill" THEN Own(key'[h], seen'[h]) ELSE Nil
        BY DEF Held
    <2>3. Held' = [g \in Handlers |-> Held'[g]]
        BY DEF Held
    <2>4. Held = [g \in Handlers |-> Held[g]]
        BY DEF Held
    <2> QED BY <2>1, <2>2, <2>3, <2>4
<1>7. Owed' = [Owed EXCEPT ![h] = Pending(h)']
    BY <1>2 DEF Owed
<1> QED BY <1>3, <1>4, <1>5, <1>6, <1>7

LEMMA SourceKept ==
    ASSUME UNCHANGED tables PROVE Source' = Source
BY DEF tables, Source, Own, View, ActiveTemplates, Posted, Shown

LEMMA EntryDropped ==
    ASSUME CodeOK, NEW k \in Keys, entry' = [entry EXCEPT ![k] = Nil]
    PROVE  Cached' = [Cached EXCEPT ![k] = Nil]
BY DEF CodeOK, RowTypes, Cached, Own

LEMMA CacheInit == Init => Cache!Init
<1> SUFFICES ASSUME Init PROVE Cache!Init
    OBVIOUS
<1>1. Source \in [Keys -> OwnPosts \cup Values \cup {Nil}]
    BY TypeInit, SourceTyped DEF SourceOK
<1>2. Cached = [k \in Keys |-> Nil]
    BY OwnNil DEF Init, Cached
<1>3. AskedFor = [h \in Handlers |-> Nil] /\ Held = [h \in Handlers |-> Nil]
    BY DEF Init, AskedFor, Held
<1>4. Owed = [h \in Handlers |-> {}]
    BY DEF Init, Owed, Pending
<1> QED BY <1>1, <1>2, <1>3, <1>4 DEF Source, Cached, AskedFor, Held, Owed, Cache!Init

\* a call that is, and stays, away from the cache and leaves the tables alone
LEMMA AwayStep ==
    ASSUME TypeOK, NEW h \in Handlers, Step(h), UNCHANGED tables, entry' = entry,
           at[h] \notin {"fill"} \cup DropSteps, at'[h] \notin {"fill"} \cup DropSteps
    PROVE  UNCHANGED Cache!cacheVars
<1>1. Pending(h) = {} /\ Pending(h)' = {}
    BY DEF Pending, DropSteps
<1>2. AskedFor' = AskedFor /\ Held' = Held /\ Owed' = Owed
    BY <1>1, PlacesStep
<1>3. Source' = Source /\ Cached' = Cached
    BY SourceKept DEF Cached, Own
<1> QED BY <1>2, <1>3 DEF Source, Cached, AskedFor, Held, Owed, Cache!cacheVars

\* a call that writes the tables owes the keys of what it changes
LEMMA ChangeStep ==
    ASSUME TrustInv, TrustInv', NEW h \in Handlers, Step(h),
           Insert(h) \/ Write(h) \/ Upsert(h) \/ Remove(h)
    PROVE  Cache!Change(h)
<1> USE DEF TrustInv
<1>1. SourceOK /\ SourceOK'
    BY SourceTyped, SourceStaysTyped
<1>2. /\ entry' = entry /\ at[h] \notin {"fill"} \cup DropSteps
      /\ at'[h] \in {"dropAll", "dropReviews"} /\ key'[h] = key[h]
    BY DEF Insert, Write, Upsert, Remove, Goto, TypeOK, CodeOK, CallTypes, DropSteps
<1>3. Pending(h) = {} /\ AskedFor[h] = Nil
    BY <1>2 DEF Pending, DropSteps, AskedFor
<1>4. AskedFor' = AskedFor /\ Held' = Held /\ Owed' = [Owed EXCEPT ![h] = Pending(h)']
    BY <1>2, PlacesStep
<1>5. Pending(h)' \in SUBSET Keys
    BY <1>2, KeysApart DEF Pending, TypeOK, CodeOK, CallTypes, Lists
<1>6. ASSUME NEW k \in Keys \ Pending(h)', Source[k] # Nil
      PROVE  Source'[k] = Source[k]
    <2>1. PICK v : v = View(k)
        OBVIOUS
    <2>2. v # Nil
        BY <1>6, <2>1, SourceNil DEF TypeOK
    <2>3. Matches(k, v)
        BY <2>1, SelfMatch
    <2>4. k \in Templates => template[k] # Nil
        BY <2>1, <2>2, KeysApart DEF View, Lists
    <2>5. Matches(k, v)'
        BY <1>6, <2>2, <2>3, <2>4, WriteStep
    <2>6. Own(k, View(k))' = Own(k, View(k))
        BY <1>1, <2>1, <2>5, MatchOwn
    <2> QED BY <2>6 DEF Source
<1>7. Cached' = Cached
    BY <1>2 DEF Cached, Own
<1> QED
    BY <1>1, <1>3, <1>4, <1>5, <1>6, <1>7
       DEF SourceOK, Source, Cached, AskedFor, Held, Owed, Cache!Change, Cache!Free

LEMMA DropStep ==
    ASSUME TypeOK, NEW h \in Handlers, Drop(h)
    PROVE  Cache!Delete(h)
<1> USE DEF TypeOK, CodeOK, CallTypes
<1>1. Step(h)
    BY DEF Step, Serve
<1>2. Dropped(h) \in Keys /\ Dropped(h) \in Pending(h)
    BY KeysApart DEF Drop, Dropped, DropSteps, Pending, CallFacts, Keys, Lists
<1>3. Pending(h)' = Pending(h) \ {Dropped(h)}
    <2>1. CASE at[h] = "dropAll"
        <3>1. at'[h] = "dropActive" /\ key'[h] = key[h] /\ key[h] # "all"
            BY <2>1, KeysApart, ConstantsAssumption DEF Drop, GoOn, Goto, CallFacts, Lists
        <3> QED BY <2>1, <3>1, KeysApart DEF Pending, Dropped, Lists
    <2>2. CASE at[h] = "dropActive" /\ key[h] # Nil
        <3>1. at'[h] = "dropOne" /\ key'[h] = key[h] /\ key[h] # "active"
            BY <2>2, KeysApart DEF Drop, GoOn, Goto, CallFacts, Lists
        <3> QED BY <2>2, <3>1 DEF Pending, Dropped
    <2>3. CASE at[h] = "dropActive" /\ key[h] = Nil
        <3>1. at'[h] = "idle"
            BY <2>3 DEF Drop, GoOn, End
        <3> QED BY <2>3, <3>1 DEF Pending, Dropped
    <2>4. CASE at[h] \in {"dropOne", "dropReviews"}
        <3>1. at'[h] = "idle"
            BY <2>4 DEF Drop, GoOn, End
        <3> QED BY <2>4, <3>1 DEF Pending, Dropped
    <2> QED BY <2>1, <2>2, <2>3, <2>4 DEF Drop, DropSteps
<1>4. at[h] # "fill" /\ at'[h] # "fill"
    BY DEF Drop, DropSteps, GoOn, Goto, End
<1>5. AskedFor' = AskedFor /\ Held' = Held /\ Owed' = [Owed EXCEPT ![h] = Pending(h) \ {Dropped(h)}]
    BY <1>1, <1>3, <1>4, PlacesStep
<1>6. Source' = Source /\ Cached' = [Cached EXCEPT ![Dropped(h)] = Nil]
    BY <1>2, SourceKept, EntryDropped DEF Drop
<1> QED BY <1>2, <1>5, <1>6 DEF Source, Cached, AskedFor, Held, Owed, Cache!Delete

LEMMA CacheServe ==
    ASSUME TrustInv, TrustInv', NEW h \in Handlers, Step(h)
    PROVE  Cache!Next \/ UNCHANGED Cache!cacheVars
<1> USE DEF TrustInv, TypeOK, CodeOK, CallTypes
<1>1. CASE Query(h) /\ ~End(h)
    <2>1. /\ key[h] \in Keys /\ at[h] = "query" /\ at'[h] = "fill" /\ key'[h] = key[h]
          /\ seen'[h] = View(key[h]) /\ View(key[h]) # Nil /\ UNCHANGED tables /\ entry' = entry
        BY <1>1 DEF Query, CallFacts, ReadSteps
    <2>2. Pending(h) = {} /\ Pending(h)' = {} /\ AskedFor[h] = Nil
        BY <2>1 DEF Pending, AskedFor
    <2>3. Source[key[h]] # Nil /\ Source[key[h]] = Own(key[h], View(key[h]))
        BY <2>1, SourceNil DEF Source
    <2>4. /\ AskedFor' = [AskedFor EXCEPT ![h] = key[h]]
          /\ Owed' = Owed
        BY <2>1, <2>2, PlacesStep
    <2>5. Held' = [Held EXCEPT ![h] = Source[key[h]]]
        <3>1. Held' = [Held EXCEPT ![h] = Own(key'[h], seen'[h])]
            BY <2>1, PlacesStep
        <3> QED BY <2>1, <2>3, <3>1
    <2>6. Source' = Source /\ Cached' = Cached
        BY <2>1, SourceKept DEF Cached, Own
    <2>7. Cache!Read(h)
        BY <2>1, <2>2, <2>3, <2>4, <2>5, <2>6
           DEF Source, Cached, AskedFor, Held, Owed, Cache!Read, Cache!Free
    <2> QED BY <2>7 DEF Cache!Next
<1>2. CASE Fill(h)
    <2>1. /\ key[h] \in Keys /\ at[h] = "fill" /\ at'[h] = "idle" /\ UNCHANGED tables
          /\ entry' = [entry EXCEPT ![key[h]] = seen[h]]
        BY <1>2 DEF Fill, End, CallFacts, ReadSteps
    <2>2. AskedFor[h] = key[h] /\ AskedFor[h] # Nil /\ Held[h] = Own(key[h], seen[h])
        BY <2>1, KeysApart DEF AskedFor, Held
    <2>3. Pending(h) = {} /\ Pending(h)' = {}
        BY <2>1 DEF Pending
    <2>4. /\ AskedFor' = [AskedFor EXCEPT ![h] = Nil] /\ Held' = [Held EXCEPT ![h] = Nil]
          /\ Owed' = Owed
        BY <2>1, <2>3, PlacesStep
    <2>5. Source' = Source
        BY <2>1, SourceKept
    <2>6. Cached' = [Cached EXCEPT ![AskedFor[h]] = Held[h]]
        BY <2>1, <2>2 DEF Cached, Own, RowTypes
    <2>7. Cache!Store(h)
        BY <2>2, <2>4, <2>5, <2>6 DEF Source, Cached, AskedFor, Held, Owed, Cache!Store
    <2> QED BY <2>7 DEF Cache!Next
<1>3. CASE Insert(h) \/ Write(h) \/ Upsert(h) \/ Remove(h)
    BY <1>3, ChangeStep DEF Cache!Next
<1>4. CASE Drop(h)
    BY <1>4, DropStep DEF Cache!Next
<1>5. CASE Crash(h)
    <2>1. at'[h] = "idle" /\ UNCHANGED tables /\ entry' = entry
        BY <1>5 DEF Crash, End
    <2>2. Pending(h)' = {}
        BY <2>1 DEF Pending
    <2>3. /\ AskedFor' = [AskedFor EXCEPT ![h] = Nil] /\ Held' = [Held EXCEPT ![h] = Nil]
          /\ Owed' = [Owed EXCEPT ![h] = {}]
        BY <2>1, <2>2, PlacesStep
    <2>4. Source' = Source /\ Cached' = Cached
        BY <2>1, SourceKept DEF Cached, Own
    <2>5. Cache!GiveUp(h)
        BY <2>3, <2>4 DEF Source, Cached, AskedFor, Held, Owed, Cache!GiveUp
    <2> QED BY <2>5 DEF Cache!Next
<1>6. CASE Arrive(h) \/ Lookup(h) \/ (Query(h) /\ End(h))
              \/ ReadTemplate(h) \/ FindReview(h) \/ ReadReview(h)
    <2>1. UNCHANGED tables /\ entry' = entry
        BY <1>6 DEF Arrive, BeginRead, BeginCreate, BeginUpdate, BeginReview, BeginRemove, Begin,
                    Lookup, Query, ReadTemplate, FindReview, ReadReview
    <2>2. at[h] \notin {"fill"} \cup DropSteps /\ at'[h] \notin {"fill"} \cup DropSteps
        BY <1>6 DEF Arrive, BeginRead, BeginCreate, BeginUpdate, BeginReview, BeginRemove, Begin,
                    Lookup, Query, ReadTemplate, FindReview, ReadReview, Goto, End, DropSteps
    <2> QED BY <2>1, <2>2, AwayStep
<1> QED BY <1>1, <1>2, <1>3, <1>4, <1>5, <1>6 DEF Step, Serve

LEMMA CacheStep ==
    TrustInv /\ TrustInv' /\ [Next]_vars => [Cache!Next]_(Cache!cacheVars)
<1> SUFFICES ASSUME TrustInv, TrustInv', [Next]_vars
             PROVE  Cache!Next \/ UNCHANGED Cache!cacheVars
    BY DEF Cache!cacheVars
<1>1. CASE UNCHANGED vars
    <2>1. Source' = Source /\ Cached' = Cached
        BY <1>1, SourceKept DEF vars, actual, tables, Cached, Own
    <2>2. AskedFor' = AskedFor /\ Held' = Held /\ Owed' = Owed
        BY <1>1 DEF vars, actual, AskedFor, Held, Owed, Pending, Own
    <2> QED BY <2>1, <2>2 DEF Source, Cached, AskedFor, Held, Owed, Cache!cacheVars
<1>2. ASSUME NEW k \in Keys, Expire(k) PROVE Cache!Next
    <2>1. Source' = Source /\ Cached' = [Cached EXCEPT ![k] = Nil]
        BY <1>2, SourceKept, EntryDropped DEF Expire, TrustInv, TypeOK
    <2>2. AskedFor' = AskedFor /\ Held' = Held /\ Owed' = Owed
        BY <1>2 DEF Expire, callState, AskedFor, Held, Owed, Pending, Own
    <2>3. Cache!Expire(k)
        BY <2>1, <2>2 DEF Source, Cached, AskedFor, Held, Owed, Cache!Expire
    <2> QED BY <2>3 DEF Cache!Next
<1> QED BY <1>1, <1>2, CacheServe DEF Next, Step

(* The services implement the abstract cache: nothing but a reader that has *)
(* queried it since stores a value, and whoever changes what the tables     *)
(* themselves show under a key owes the deletion of that key.               *)
THEOREM CacheKept == Spec => CacheSpec
BY Trust, CacheInit, CacheStep, PTL DEF Spec, CacheSpec, Cache!Spec
=============================================================================
