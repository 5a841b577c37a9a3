----------------------- MODULE InvitationPagesProofs -----------------------
(***************************************************************************)
(* Theorems about InvitationPages for any number of handlers, pages and    *)
(* slugs: types and unique slugs, and that a stale cache entry, or a       *)
(* purchase left with another slug than its page, has a cut-off or an      *)
(* overtaken call, or a write of the template, behind it.  The theorems about the answers to the pages, *)
(* which Rsvps models, follow at the end.                                  *)
(***************************************************************************)
EXTENDS InvitationPages, GuestAnswers, TLAPS

AllSteps == Steps \cup {"idle"}

-----------------------------------------------------------------------------
(* Typing *)

LEMMA TypeInit == Init => Types
BY ConstantsAssumption
   DEF Init, Types, RowTypes, CallTypes, CallFacts, Existing, Steps, FindSteps, CreateSteps,
       UpdateSteps, OtherWriteSteps, DropSteps, RowSteps

(* A page once made stays: then a call that is not the one taking the step  *)
(* knows what it knew.                                                      *)
PagesStay == \A p \in Pages : row[p] # Nil => row'[p] # Nil

LEMMA OthersKnow ==
    ASSUME Types, PagesStay, NEW g \in Handlers,
           at'[g] = at[g], page'[g] = page[g], asked'[g] = asked[g], seen'[g] = seen[g]
    PROVE  CallFacts(g)'
BY DEF Types, CallTypes, CallFacts, PagesStay, RowSteps, DropSteps, FindSteps, CreateSteps

LEMMA AfterEnd ==
    ASSUME Types, PagesStay, NEW h \in Handlers, End(h)
    PROVE  CallTypes' /\ \A g \in Handlers : CallFacts(g)'
<1>1. CallTypes'
    BY DEF Types, CallTypes, End
<1>2. CallFacts(h)'
    BY DEF Types, CallTypes, CallFacts, End, RowSteps, DropSteps, FindSteps, CreateSteps
<1>3. ASSUME NEW g \in Handlers, g # h PROVE CallFacts(g)'
    BY <1>3, OthersKnow DEF Types, CallTypes, End
<1> QED BY <1>1, <1>2, <1>3

LEMMA AfterGoto ==
    ASSUME Types, PagesStay, NEW h \in Handlers, NEW step \in Steps, Goto(h, step),
           CallFacts(h)'
    PROVE  CallTypes' /\ \A g \in Handlers : CallFacts(g)'
<1>1. CallTypes'
    BY DEF Types, CallTypes, Goto
<1>2. ASSUME NEW g \in Handlers, g # h PROVE CallFacts(g)'
    BY <1>2, OthersKnow DEF Types, CallTypes, Goto
<1> QED BY <1>1, <1>2

LEMMA AfterRead ==
    ASSUME Types, row' = row, NEW h \in Handlers, NEW step \in RowSteps \ DropSteps,
           at[h] \notin FindSteps \cup {"idle"},
           step \in {"checkUpdate", "writePurchase"} => asked[h] \in Slugs,
           ReadThen(h, step)
    PROVE  CallTypes' /\ \A g \in Handlers : CallFacts(g)'
<1> PagesStay
    BY DEF PagesStay
<1>1. CASE End(h)
    BY <1>1, AfterEnd
<1>2. CASE /\ row[page[h]] # Nil
           /\ at' = [at EXCEPT ![h] = step]
           /\ seen' = [seen EXCEPT ![h] = row[page[h]]]
           /\ UNCHANGED <<page, asked>>
    <2>1. page[h] \in Pages /\ row[page[h]] \in Rows /\ row[page[h]].page = page[h]
        BY <1>2 DEF Types, RowTypes, CallTypes, CallFacts, FindSteps, Existing
    <2>2. CallTypes'
        BY <1>2, <2>1 DEF Types, CallTypes, Steps, RowSteps, DropSteps, UpdateSteps,
                          OtherWriteSteps
    <2>3. CallFacts(h)'
        BY <1>2, <2>1 DEF Types, CallTypes, CallFacts, RowSteps, DropSteps, FindSteps, CreateSteps
    <2>4. ASSUME NEW g \in Handlers, g # h PROVE CallFacts(g)'
        BY <1>2, <2>4, OthersKnow DEF Types, CallTypes
    <2> QED BY <2>2, <2>3, <2>4
<1> QED BY <1>1, <1>2 DEF ReadThen

LEMMA TypeArrive ==
    ASSUME Types, NEW h \in Handlers, Arrive(h)
    PROVE  Types'
<1>1. PICK step \in Steps, p \in Pages \cup {Nil}, s \in Slugs \cup {Nil} :
          /\ Begin(h, step, p, s)
          /\ step \in FindSteps \cup CreateSteps => s \in Slugs
          /\ step \in {"lookup", "findPurchase", "readUpdate", "readToggle", "readAppend"}
          /\ step = "lookup" <=> p = Nil
    BY ConstantsAssumption
       DEF Arrive, BeginFind, BeginCreate, BeginUpdate, BeginToggle, BeginAppend, Steps, FindSteps,
           CreateSteps, UpdateSteps, OtherWriteSteps
<1>2. RowTypes' /\ PagesStay
    BY <1>1 DEF Types, RowTypes, Begin, Existing, PagesStay
<1>3. CallTypes'
    BY <1>1 DEF Types, CallTypes, Begin
<1>4. CallFacts(h)'
    BY <1>1, ConstantsAssumption
       DEF Types, CallTypes, CallFacts, Begin, RowSteps, DropSteps, FindSteps, CreateSteps
<1>5. ASSUME NEW g \in Handlers, g # h PROVE CallFacts(g)'
    BY <1>1, <1>2, <1>5, OthersKnow DEF Types, CallTypes, Begin
<1> QED BY <1>2, <1>3, <1>4, <1>5 DEF Types

(* Store puts a row of the call's own page there. *)
LEMMA Stored ==
    ASSUME Types, NEW h \in Handlers, row[page[h]] # Nil, page[h] \in Pages,
           NEW s \in Slugs, NEW c \in Contents, Store(h, s, c),
           UNCHANGED <<purchaseSlug, entry>>
    PROVE  RowTypes' /\ PagesStay /\ row'[page[h]] # Nil
<1>1. [page |-> page[h], slug |-> s, content |-> c] \in Rows
    BY DEF Rows
<1>2. [page |-> page[h], slug |-> s, content |-> c] # Nil
    BY <1>1, ConstantsAssumption
<1> QED
    BY <1>1, <1>2 DEF Types, RowTypes, Store, Existing, PagesStay

LEMMA OwnRow ==
    ASSUME Types, NEW h \in Handlers, at[h] \in RowSteps
    PROVE  page[h] \in Pages /\ row[page[h]] \in Rows /\ row[page[h]].slug \in Slugs
           /\ row[page[h]].content \in Contents
<1>1. page[h] \in Pages /\ row[page[h]] \in Rows
    BY DEF Types, RowTypes, CallTypes, CallFacts, RowSteps, DropSteps, FindSteps
<1> QED BY <1>1 DEF Rows

LEMMA TypeServe ==
    ASSUME Types, NEW h \in Handlers, Serve(h) \/ Crash(h)
    PROVE  Types'
<1> DEFINE sameRows == UNCHANGED <<row, purchaseSlug, entry>>
<1>1. ASSUME sameRows PROVE RowTypes' /\ PagesStay
    BY <1>1 DEF Types, RowTypes, Existing, PagesStay
<1>2. CASE End(h) /\ sameRows
    BY <1>1, <1>2, AfterEnd DEF Types
<1>3. CASE Lookup(h)
    <2>1. CASE Goto(h, "readPage") /\ sameRows
        <3>1. CallFacts(h)'
            BY <1>3, <2>1 DEF Lookup, Goto, Types, CallTypes, CallFacts, RowSteps, DropSteps,
                              FindSteps, CreateSteps
        <3> QED BY <1>1, <2>1, <3>1, AfterGoto DEF Types, Steps, FindSteps
    <2> QED BY <1>2, <1>3, <2>1 DEF Lookup
<1>4. CASE ReadPage(h)
    <2>1. CASE Goto(h, "fillMissing") /\ sameRows
        <3>1. CallFacts(h)'
            BY <1>4, <2>1 DEF ReadPage, Goto, Types, CallTypes, CallFacts, RowSteps, DropSteps,
                              FindSteps, CreateSteps
        <3> QED BY <1>1, <2>1, <3>1, AfterGoto DEF Types, Steps, FindSteps
    <2>2. ASSUME NEW p \in PagesAt(asked[h]),
                 at' = [at EXCEPT ![h] = "fill"], page' = [page EXCEPT ![h] = p],
                 seen' = [seen EXCEPT ![h] = row[p]], UNCHANGED asked, sameRows
          PROVE  Types'
        <3>1. p \in Pages /\ row[p] \in Rows /\ row[p].page = p /\ row[p].slug = asked[h]
            BY DEF Types, RowTypes, PagesAt, Existing
        <3>2. CallTypes'
            BY <2>2, <3>1 DEF Types, CallTypes, Steps, FindSteps
        <3>3. CallFacts(h)'
            BY <1>4, <2>2, <3>1, ConstantsAssumption
               DEF ReadPage, Types, CallTypes, CallFacts, RowSteps, DropSteps,
                   FindSteps, CreateSteps
        <3>4. ASSUME NEW g \in Handlers, g # h PROVE CallFacts(g)'
            BY <1>1, <2>2, <3>4, OthersKnow DEF Types, CallTypes
        <3> QED BY <1>1, <2>2, <3>2, <3>3, <3>4 DEF Types
    <2> QED BY <1>4, <2>1, <2>2 DEF ReadPage
<1>5. CASE Fill(h)
    <2>1. asked[h] \in Slugs /\ (at[h] = "fill" => seen[h] \in Rows)
        BY <1>5 DEF Fill, Types, CallFacts, FindSteps
    <2>2. RowTypes' /\ PagesStay
        BY <1>5, <2>1 DEF Fill, Types, RowTypes, Existing, PagesStay
    <2> QED BY <1>5, <2>2, AfterEnd DEF Fill, Types
<1>6. CASE FindPurchase(h)
    <2>1. CASE Goto(h, "checkCreate") /\ sameRows
        <3>1. CallFacts(h)'
            BY <1>6, <2>1 DEF FindPurchase, Goto, Types, CallTypes, CallFacts, RowSteps,
                              DropSteps, FindSteps, CreateSteps
        <3> QED BY <1>1, <2>1, <3>1, AfterGoto DEF Types, Steps, CreateSteps
    <2> QED BY <1>2, <1>6, <2>1 DEF FindPurchase
<1>7. CASE CheckCreate(h)
    <2>1. CASE Goto(h, "insert") /\ sameRows
        <3>1. CallFacts(h)'
            BY <1>7, <2>1 DEF CheckCreate, Goto, Types, CallTypes, CallFacts, RowSteps,
                              DropSteps, FindSteps, CreateSteps
        <3> QED BY <1>1, <2>1, <3>1, AfterGoto DEF Types, Steps, CreateSteps
    <2> QED BY <1>2, <1>7, <2>1 DEF CheckCreate
<1>8. CASE Insert(h)
    <2>1. page[h] \in Pages /\ asked[h] \in Slugs
        BY <1>8 DEF Insert, Types, CallTypes, CallFacts, FindSteps, CreateSteps
    <2>2. CASE \E c \in Contents :
                  row' = [row EXCEPT ![page[h]] =
                     [page |-> page[h], slug |-> asked[h], content |-> c]]
        <3>1. PICK c \in Contents :
                  row' = [row EXCEPT ![page[h]] =
                     [page |-> page[h], slug |-> asked[h], content |-> c]]
            BY <2>2
        <3>2. [page |-> page[h], slug |-> asked[h], content |-> c] \in Rows
            BY <2>1 DEF Rows
        <3>3. [page |-> page[h], slug |-> asked[h], content |-> c] # Nil
            BY <3>2, ConstantsAssumption
        <3>4. RowTypes' /\ PagesStay
            BY <1>8, <2>1, <3>1, <3>2, <3>3 DEF Insert, Types, RowTypes, Existing, PagesStay
        <3> QED BY <1>8, <3>4, AfterEnd DEF Insert, Types
    <2> QED BY <1>2, <1>8, <2>2 DEF Insert
<1>9. CASE ReadUpdate(h)
    <2>1. asked[h] \in Slugs \cup {Nil} /\ at[h] \notin FindSteps \cup {"idle"}
        BY <1>9 DEF ReadUpdate, Types, CallTypes, FindSteps
    <2>2. CASE row[page[h]] # Nil /\ Renames(h)
        BY <1>1, <1>9, <2>1, <2>2, AfterRead
           DEF ReadUpdate, Renames, Types, RowSteps, DropSteps
    <2>3. CASE ~(row[page[h]] # Nil /\ Renames(h))
        BY <1>1, <1>9, <2>1, <2>3, AfterRead DEF ReadUpdate, Types, RowSteps, DropSteps
    <2> QED BY <2>2, <2>3
<1>10. CASE CheckUpdate(h)
    <2>1. CASE Goto(h, "writePurchase") /\ sameRows
        <3>1. CallFacts(h)'
            BY <1>10, <2>1 DEF CheckUpdate, Goto, Types, CallTypes, CallFacts, RowSteps,
                               DropSteps, FindSteps, CreateSteps
        <3> QED BY <1>1, <2>1, <3>1, AfterGoto DEF Types, Steps, UpdateSteps
    <2> QED BY <1>2, <1>10, <2>1 DEF CheckUpdate
<1>11. CASE WritePurchase(h)
    <2>1. CASE Goto(h, "write") /\ purchaseSlug' = [purchaseSlug EXCEPT ![page[h]] = asked[h]]
        <3>1. asked[h] \in Slugs
            BY <1>11 DEF WritePurchase, Types, CallFacts
        <3>2. RowTypes' /\ PagesStay
            BY <1>11, <2>1, <3>1 DEF WritePurchase, Types, RowTypes, Existing, PagesStay
        <3>3. CallFacts(h)'
            BY <1>11, <2>1 DEF WritePurchase, Goto, Types, CallTypes, CallFacts, RowSteps,
                               DropSteps, FindSteps, CreateSteps
        <3> QED BY <2>1, <3>2, <3>3, AfterGoto DEF Types, Steps, UpdateSteps
    <2> QED BY <1>2, <1>11, <2>1 DEF WritePurchase
<1>12. CASE Write(h)
    <2> DEFINE slug == IF asked[h] = Nil THEN row[page[h]].slug ELSE asked[h]
    <2>1. page[h] \in Pages /\ row[page[h]] # Nil /\ slug \in Slugs
        BY <1>12, OwnRow DEF Write, Types, CallTypes, CallFacts, RowSteps
    <2>2. CASE \E c \in Contents : Store(h, slug, c)
        <3> slug \in Slugs
            BY <2>1
        <3>1. RowTypes' /\ PagesStay /\ row'[page[h]] # Nil
            <4> HIDE DEF slug
            <4> QED BY <1>12, <2>1, <2>2, Stored DEF Write
        <3>2. CASE at' = [at EXCEPT ![h] = "dropSeen"] /\ asked' = [asked EXCEPT ![h] = slug]
                   /\ UNCHANGED <<page, seen>>
            <4> HIDE DEF slug
            <4>1. CallTypes'
                BY <2>1, <3>2 DEF Types, CallTypes, Steps, DropSteps
            <4>2. CallFacts(h)'
                BY <1>12, <2>1, <3>1, <3>2
                   DEF Write, Types, CallTypes, CallFacts, RowSteps, DropSteps, FindSteps,
                       CreateSteps
            <4>3. ASSUME NEW g \in Handlers, g # h PROVE CallFacts(g)'
                BY <3>1, <3>2, <4>3, OthersKnow DEF Types, CallTypes
            <4> QED BY <3>1, <4>1, <4>2, <4>3 DEF Types
        <3> QED BY <1>2, <1>12, <3>2 DEF Write
    <2> QED BY <1>2, <1>12, <2>2 DEF Write
<1>13. CASE ReadToggle(h) \/ ReadAppend(h)
    BY <1>1, <1>13, AfterRead
       DEF ReadToggle, ReadAppend, Types, RowSteps, DropSteps, FindSteps
<1>14. CASE Toggle(h) \/ Append(h)
    <2>1. page[h] \in Pages /\ row[page[h]] # Nil
        BY <1>14, OwnRow DEF Toggle, Append, Types, CallTypes, CallFacts, RowSteps
    <2>2. RowTypes' /\ PagesStay /\ row'[page[h]] # Nil
        BY <1>14, <2>1, OwnRow, Stored DEF Toggle, Append, RowSteps
    <2>3. CallFacts(h)'
        BY <1>14, <2>1, <2>2
           DEF Toggle, Append, Goto, Types, CallTypes, CallFacts, RowSteps, DropSteps,
               FindSteps, CreateSteps
    <2> QED BY <1>14, <2>2, <2>3, AfterGoto DEF Toggle, Append, Types, Steps, DropSteps
<1>15. CASE DropSeen(h) \/ DropNew(h)
    <2>1. RowTypes' /\ PagesStay
        BY <1>15 DEF DropSeen, DropNew, Types, RowTypes, Existing, PagesStay
    <2>2. CASE End(h)
        BY <2>1, <2>2, AfterEnd DEF Types
    <2>3. CASE DropSeen(h) /\ asked[h] \in Slugs /\ Goto(h, "dropNew")
        <3>1. CallFacts(h)'
            BY <2>1, <2>3 DEF DropSeen, Goto, Types, CallTypes, CallFacts, RowSteps, DropSteps,
                              FindSteps, CreateSteps, PagesStay
        <3> QED BY <2>1, <2>3, <3>1, AfterGoto DEF Types, Steps, DropSteps
    <2> QED BY <1>15, <2>2, <2>3 DEF DropSeen, DropNew
<1>16. CASE Crash(h)
    BY <1>1, <1>2, <1>16 DEF Crash
<1> QED
    BY <1>3, <1>4, <1>5, <1>6, <1>7, <1>8, <1>9, <1>10, <1>11, <1>12, <1>13, <1>14, <1>15, <1>16
       DEF Serve

\* a template writes pages that are there, and leaves their slugs
LEMMA TemplateWrites ==
    ASSUME Types, WriteTemplate
    PROVE  /\ RowTypes' /\ PagesStay /\ Existing' = Existing
           /\ \A p \in Existing : row'[p].slug = row[p].slug
           /\ UNCHANGED <<purchaseSlug, entry, at, page, asked, seen>>
<1>1. PICK shown \in [Existing -> Contents] :
          row' = [p \in Pages |-> IF p \in Existing THEN [row[p] EXCEPT !.content = shown[p]]
                                 ELSE row[p]]
    BY DEF WriteTemplate
<1>2. UNCHANGED <<purchaseSlug, entry, at, page, asked, seen>>
    BY DEF WriteTemplate, callState
<1>3. ASSUME NEW p \in Existing
      PROVE  /\ p \in Pages /\ row'[p] \in Rows /\ row'[p] # Nil
             /\ row'[p].slug = row[p].slug /\ row'[p].page = p
    <2>1. p \in Pages /\ row[p] \in Rows /\ row[p].page = p
        BY DEF Types, RowTypes, Existing
    <2>2. row'[p] = [row[p] EXCEPT !.content = shown[p]] /\ shown[p] \in Contents
        BY <1>1, <2>1
    <2> QED BY <2>1, <2>2, ConstantsAssumption DEF Rows
<1>4. ASSUME NEW p \in Pages \ Existing PROVE row'[p] = Nil
    BY <1>1 DEF Existing
<1>5. Existing' = Existing
    BY <1>3, <1>4 DEF Existing
<1>6. row' \in [Pages -> Rows \cup {Nil}]
    BY <1>1, <1>3, <1>4
<1>7. RowTypes' /\ PagesStay
    BY <1>2, <1>3, <1>5, <1>6 DEF Types, RowTypes, PagesStay, Existing
<1> QED BY <1>2, <1>3, <1>5, <1>7

LEMMA TypeStep == Types /\ [Next]_vars => Types'
<1> SUFFICES ASSUME Types, [Next]_vars PROVE Types'
    OBVIOUS
<1>1. CASE \E h \in Handlers : Arrive(h)
    BY <1>1, TypeArrive
<1>2. CASE \E h \in Handlers : Serve(h) \/ Crash(h)
    BY <1>2, TypeServe
<1>3. CASE WriteTemplate \/ (\E s \in Slugs : Expire(s)) \/ UNCHANGED vars
    <2>1. RowTypes' /\ PagesStay /\ UNCHANGED callState
        BY <1>3, TemplateWrites DEF Types, RowTypes, Existing, PagesStay, Expire, vars, callState
    <2> QED BY <2>1, OthersKnow DEF Types, CallTypes, callState
<1> QED BY <1>1, <1>2, <1>3 DEF Next

(* Every variable stays within its type, and a call about to write has read *)
(* the page it writes, whatever overlaps or crashes.                        *)
THEOREM Typing == Spec => []TypeOK
<1>1. Init => TypeOK
    BY TypeInit, ConstantsAssumption DEF Init, TypeOK
<1>2. TypeOK /\ [Next]_vars => TypeOK'
    <2>1. TypeOK /\ Next => TypeOK'
        BY TypeStep DEF TypeOK, Next, Track
    <2>2. TypeOK /\ UNCHANGED vars => TypeOK'
        BY TypeStep DEF TypeOK, vars, StalePages, Current
    <2> QED BY <2>1, <2>2
<1> QED BY <1>1, <1>2, PTL DEF Spec

LEMMA Typed == Spec => []Types
BY Typing, PTL DEF TypeOK

-----------------------------------------------------------------------------
(* Unique slugs *)

(* What one step does to the rows: nothing, or it makes or rewrites the row *)
(* of its call's page, under a slug that no other page has.                 *)
RowStep(h) ==
    \/ UNCHANGED row
    \/ /\ page[h] \in Pages
       /\ at[h] \in {"insert", "write", "toggle", "append"}
       /\ at[h] = "insert" => row[page[h]] = Nil
       /\ \E r \in Rows :
              /\ row' = [row EXCEPT ![page[h]] = r]
              /\ PagesAt(r.slug) \subseteq {page[h]}
              /\ at[h] = "write" =>
                     r.slug = IF asked[h] = Nil THEN row[page[h]].slug ELSE asked[h]
              /\ at[h] \in {"toggle", "append"} => r.slug = row[page[h]].slug

LEMMA StoreFields ==
    ASSUME NEW p \in Pages, NEW s \in Slugs, NEW c \in Contents
    PROVE  /\ [page |-> p, slug |-> s, content |-> c] \in Rows
           /\ [page |-> p, slug |-> s, content |-> c].slug = s
BY DEF Rows

LEMMA WritesRow ==
    ASSUME Types, SlugNamesOnePage, NEW h \in Handlers, Serve(h) \/ Crash(h)
    PROVE  RowStep(h)
<1>1. CASE Insert(h)
    <2>1. page[h] \in Pages /\ asked[h] \in Slugs
        BY <1>1 DEF Insert, Types, CallTypes, CallFacts, FindSteps, CreateSteps
    <2>2. CASE /\ row[page[h]] = Nil /\ PagesAt(asked[h]) = {}
               /\ \E c \in Contents : row' = [row EXCEPT ![page[h]] =
                     [page |-> page[h], slug |-> asked[h], content |-> c]]
        <3>1. PICK c \in Contents : row' = [row EXCEPT ![page[h]] =
                     [page |-> page[h], slug |-> asked[h], content |-> c]]
            BY <2>2
        <3> DEFINE r == [page |-> page[h], slug |-> asked[h], content |-> c]
        <3>2. r \in Rows /\ r.slug = asked[h]
            BY <2>1, StoreFields
        <3>3. row' = [row EXCEPT ![page[h]] = r]
            BY <3>1
        <3> HIDE DEF r
        <3> QED BY <1>1, <2>1, <2>2, <3>2, <3>3 DEF RowStep, Insert
    <2> QED BY <1>1, <2>2 DEF Insert, RowStep
<1>2. CASE Write(h)
    <2> DEFINE slug == IF asked[h] = Nil THEN row[page[h]].slug ELSE asked[h]
    <2>1. page[h] \in Pages /\ slug \in Slugs
        BY <1>2, OwnRow DEF Write, Types, CallTypes, RowSteps
    <2>2. CASE SlugFree(h, slug) /\ \E c \in Contents : Store(h, slug, c)
        <3>1. PICK c \in Contents : Store(h, slug, c)
            BY <2>2
        <3> DEFINE r == [page |-> page[h], slug |-> slug, content |-> c]
        <3>2. row' = [row EXCEPT ![page[h]] = r]
            BY <3>1 DEF Store
        <3> HIDE DEF slug
        <3>3. r \in Rows /\ r.slug = slug
            BY <2>1, StoreFields
        <3>4. PagesAt(r.slug) \subseteq {page[h]}
            BY <2>2, <3>3 DEF SlugFree
        <3>5. at[h] = "write"
            BY <1>2 DEF Write
        <3> HIDE DEF r
        <3>6. r.slug = IF asked[h] = Nil THEN row[page[h]].slug ELSE asked[h]
            BY <3>3 DEF slug
        <3> QED BY <2>1, <3>2, <3>3, <3>4, <3>5, <3>6 DEF RowStep
    <2> QED BY <1>2, <2>2 DEF Write, RowStep
<1>3. CASE Toggle(h) \/ Append(h)
    <2>1. /\ page[h] \in Pages /\ row[page[h]].slug \in Slugs
          /\ row[page[h]].content \in Contents
        BY <1>3, OwnRow DEF Toggle, Append, RowSteps
    <2>2. PICK c \in Contents : Store(h, row[page[h]].slug, c)
        BY <1>3, <2>1 DEF Toggle, Append
    <2> DEFINE r == [page |-> page[h], slug |-> row[page[h]].slug, content |-> c]
    <2>3. row' = [row EXCEPT ![page[h]] = r]
        BY <2>2 DEF Store
    <2>4. r \in Rows /\ r.slug = row[page[h]].slug
        BY <2>1, StoreFields
    <2> HIDE DEF r
    <2>5. PagesAt(r.slug) \subseteq {page[h]}
        <3>1. row[page[h]] # Nil
            BY <1>3 DEF Toggle, Append, Types, CallFacts, RowSteps
        <3> QED BY <2>1, <2>4, <3>1 DEF SlugNamesOnePage, PagesAt, Existing
    <2>6. at[h] \in {"toggle", "append"}
        BY <1>3 DEF Toggle, Append
    <2> QED BY <2>1, <2>3, <2>4, <2>5, <2>6 DEF RowStep
<1> QED
    BY <1>1, <1>2, <1>3
       DEF Serve, Crash, RowStep, Lookup, ReadPage, Fill, FindPurchase, CheckCreate, ReadUpdate,
           CheckUpdate, WritePurchase, ReadToggle, ReadAppend, DropSeen, DropNew

LEMMA SlugsStep ==
    Types /\ SlugNamesOnePage /\ [Next]_vars => SlugNamesOnePage'
<1> SUFFICES ASSUME Types, SlugNamesOnePage, [Next]_vars PROVE SlugNamesOnePage'
    OBVIOUS
<1> USE DEF SlugNamesOnePage, Existing
<1>1. ASSUME NEW h \in Handlers, Serve(h) \/ Crash(h) PROVE SlugNamesOnePage'
    <2>1. (\A p, q \in Existing : row[p].slug = row[q].slug => p = q)'
        <3>1. RowStep(h)
            BY <1>1, WritesRow
        <3>2. CASE UNCHANGED row
            BY <3>2
        <3>3. ASSUME NEW r \in Rows, row' = [row EXCEPT ![page[h]] = r],
                     PagesAt(r.slug) \subseteq {page[h]}
              PROVE  (\A p, q \in Existing : row[p].slug = row[q].slug => p = q)'
            BY <3>3 DEF Types, RowTypes, PagesAt
        <3> QED BY <3>1, <3>2, <3>3 DEF RowStep
    <2>2. (\A p, q \in Pages : purchaseSlug[p] = purchaseSlug[q] /\ purchaseSlug[p] # Nil => p = q)'
        <3>1. CASE WritePurchase(h)
            BY <3>1 DEF WritePurchase, Types, RowTypes
        <3> QED
            BY <1>1, <3>1
               DEF Serve, Crash, Lookup, ReadPage, Fill, FindPurchase, CheckCreate, Insert,
                   ReadUpdate, CheckUpdate, Write, ReadToggle, Toggle, ReadAppend, Append,
                   DropSeen, DropNew
    <2>3. (\A s \in Slugs : entry[s] \in Rows => entry[s].slug = s)'
        <3>1. CASE Fill(h)
            BY <3>1, ConstantsAssumption DEF Fill, Types, RowTypes, CallFacts
        <3>2. CASE DropSeen(h) \/ DropNew(h)
            BY <3>2, ConstantsAssumption DEF DropSeen, DropNew, Types, RowTypes
        <3> QED
            BY <1>1, <3>1, <3>2
               DEF Serve, Crash, Lookup, ReadPage, FindPurchase, CheckCreate, Insert,
                   ReadUpdate, CheckUpdate, WritePurchase, Write, ReadToggle, Toggle,
                   ReadAppend, Append
    <2> QED BY <2>1, <2>2, <2>3
<1>2. ASSUME NEW s \in Slugs, Expire(s) PROVE SlugNamesOnePage'
    BY <1>2, ConstantsAssumption DEF Expire, Types, RowTypes
<1>3. CASE (\E h \in Handlers : Arrive(h)) \/ UNCHANGED vars
    BY <1>3 DEF Arrive, BeginFind, BeginCreate, BeginUpdate, BeginToggle, BeginAppend, Begin, vars
<1>4. CASE WriteTemplate
    <2>1. Existing' = Existing /\ \A p \in Existing : row'[p].slug = row[p].slug
        BY <1>4, TemplateWrites
    <2>2. purchaseSlug' = purchaseSlug /\ entry' = entry
        BY <1>4, TemplateWrites
    <2> HIDE DEF Existing
    <2> QED BY <2>1, <2>2
<1> QED BY <1>1, <1>2, <1>3, <1>4 DEF Next

LEMMA SlugsInit == Init => SlugNamesOnePage
BY ConstantsAssumption DEF Init, SlugNamesOnePage, Existing

(* No two invitations share a slug, no two purchases do, and a cache key    *)
(* holds a page of that slug, whatever overlaps or crashes.                 *)
THEOREM UniqueSlugs == Spec => []SlugNamesOnePage
<1>1. Types /\ SlugNamesOnePage /\ [Next]_vars => (Types /\ SlugNamesOnePage)'
    BY TypeStep, SlugsStep
<1> QED BY TypeInit, SlugsInit, <1>1, PTL DEF Spec


-----------------------------------------------------------------------------
(* What a call trusts *)

\* a fill is about to store the row as it is, and the row a writer stands on has the slug
\* that it has read
ReadHolds(h) ==
    /\ at[h] = "fill" => seen[h] = row[page[h]]
    /\ Trusting(h) => seen[h].slug = row[page[h]].slug

\* an update about to store a new slug has given it to the purchase
PurchaseTold(h) ==
    at[h] = "write" /\ asked[h] \in Slugs =>
        asked[h] = row[page[h]].slug \/ purchaseSlug[page[h]] = asked[h]

\* a stale page lies under the key that its writer is about to delete
StaleAtOldKey(s) ==
    entry[s] \in Rows /\ ~Current(s) =>
        \/ entry[s].page \in explained
        \/ \E h \in Handlers : at[h] = "dropSeen" /\ page[h] = entry[s].page /\ seen[h].slug = s

RaceInv ==
    /\ Types /\ SlugNamesOnePage
    /\ \A h \in Handlers : overtaken[h] \/ (ReadHolds(h) /\ PurchaseTold(h))
    /\ \A s \in Slugs : StaleAtOldKey(s)

LEMMA RaceInit == Init => RaceInv
<1> SUFFICES ASSUME Init PROVE RaceInv
    OBVIOUS
<1>1. Types /\ SlugNamesOnePage
    BY TypeInit, SlugsInit
<1>2. \A h \in Handlers : ReadHolds(h) /\ PurchaseTold(h)
    BY DEF Init, ReadHolds, PurchaseTold, Trusting
<1>3. \A s \in Slugs : StaleAtOldKey(s)
    BY ConstantsAssumption DEF Init, StaleAtOldKey
<1> QED BY <1>1, <1>2, <1>3 DEF RaceInv

\* a step of h leaves the other calls' own variables alone
LEMMA OthersStand ==
    ASSUME Types, NEW h \in Handlers, Arrive(h) \/ Serve(h) \/ Crash(h),
           NEW g \in Handlers, g # h
    PROVE  at'[g] = at[g] /\ page'[g] = page[g] /\ asked'[g] = asked[g] /\ seen'[g] = seen[g]
BY DEF Types, CallTypes, Arrive, BeginFind, BeginCreate, BeginUpdate, BeginToggle, BeginAppend,
       Begin, Serve, Crash, Lookup, ReadPage, Fill, FindPurchase, CheckCreate, Insert, ReadUpdate,
       ReadThen, CheckUpdate, WritePurchase, Write, ReadToggle, Toggle, ReadAppend, Append,
       DropSeen, DropNew, Goto, End

\* and h moves on
LEMMA CallMoves ==
    ASSUME Types, NEW h \in Handlers, Arrive(h) \/ Serve(h) \/ Crash(h)
    PROVE  at'[h] # at[h] /\ at' # at
<1>1. at'[h] # at[h]
    BY DEF Types, CallTypes, Arrive, BeginFind, BeginCreate, BeginUpdate, BeginToggle, BeginAppend,
       Begin, Serve, Crash, Lookup, ReadPage, Fill, FindPurchase, CheckCreate, Insert, ReadUpdate,
       ReadThen, CheckUpdate, WritePurchase, Write, ReadToggle, Toggle, ReadAppend, Append,
       DropSeen, DropNew, Goto, End
<1> QED BY <1>1

SlugsSame == purchaseSlug' = purchaseSlug /\ \A p \in Existing : row'[p].slug = row[p].slug

\* a call that stands still and is not overtaken by the step has what it had
LEMMA StandingCall ==
    ASSUME RaceInv, NEW pages, Track(pages), at' # at \/ SlugsSame, NEW g \in Handlers,
           at'[g] = at[g], page'[g] = page[g], asked'[g] = asked[g], seen'[g] = seen[g]
    PROVE  overtaken'[g] \/ (ReadHolds(g)' /\ PurchaseTold(g)')
<1>1. CASE Trusting(g)
    <2>1. overtaken'[g] <=> overtaken[g] \/ Overtakes(g)
        BY <1>1 DEF Track, Trusting
    <2>2. at[g] # "fill" => page[g] \in Existing
        BY <1>1 DEF Trusting, RaceInv, Types, CallTypes, CallFacts, RowSteps, FindSteps, Existing,
            RowTypes
    <2>3. CASE row'[page[g]] = row[page[g]] /\ purchaseSlug'[page[g]] = purchaseSlug[page[g]]
        BY <1>1, <2>1, <2>3 DEF RaceInv, ReadHolds, PurchaseTold, Trusting
    <2>4. CASE at' = at /\ at[g] # "fill"
        BY <1>1, <2>1, <2>2, <2>4 DEF RaceInv, ReadHolds, PurchaseTold, Trusting, SlugsSame
    <2> QED BY <2>1, <2>3, <2>4 DEF Overtakes
<1>2. CASE ~Trusting(g)
    BY <1>2 DEF ReadHolds, PurchaseTold, Trusting
<1> QED BY <1>1, <1>2

\* the step of a call either reads the row or goes on with what it has read
LEMMA OwnStep ==
    ASSUME RaceInv, NEW h \in Handlers, Serve(h) \/ Crash(h),
           Trusting(h)', ~(overtaken[h] /\ Trusting(h))
    PROVE  ReadHolds(h)' /\ PurchaseTold(h)'
<1> USE DEF RaceInv, Types, CallTypes, ReadHolds, PurchaseTold, Trusting
<1>1. CASE Lookup(h) \/ Fill(h) \/ FindPurchase(h) \/ CheckCreate(h) \/ Insert(h)
           \/ DropSeen(h) \/ DropNew(h) \/ Crash(h)
    BY <1>1 DEF Lookup, Fill, FindPurchase, CheckCreate, Insert, DropSeen, DropNew, Crash,
                Goto, End
<1>2. CASE ReadPage(h)
    BY <1>2 DEF ReadPage, Goto
<1>3. CASE ReadUpdate(h) \/ ReadToggle(h) \/ ReadAppend(h)
    BY <1>3, ConstantsAssumption DEF ReadUpdate, ReadToggle, ReadAppend, ReadThen, Renames, End
<1>4. CASE CheckUpdate(h)
    BY <1>4 DEF CheckUpdate, Goto, End
<1>5. CASE WritePurchase(h)
    BY <1>5 DEF WritePurchase, Goto, End, CallFacts, RowSteps, FindSteps, RowTypes
<1>6. CASE Write(h) \/ Toggle(h) \/ Append(h)
    BY <1>6 DEF Write, Toggle, Append, Goto, End
<1> QED BY <1>1, <1>2, <1>3, <1>4, <1>5, <1>6 DEF Serve

LEMMA TrustStep ==
    ASSUME RaceInv, NEW h \in Handlers, Arrive(h) \/ Serve(h) \/ Crash(h), NEW pages,
           Track(pages), NEW g \in Handlers
    PROVE  overtaken'[g] \/ (ReadHolds(g)' /\ PurchaseTold(g)')
<1>1. CASE g # h
    BY <1>1, OthersStand, CallMoves, StandingCall DEF RaceInv
<1>2. CASE g = h /\ ~Trusting(h)'
    BY <1>2 DEF ReadHolds, PurchaseTold, Trusting
<1>3. CASE g = h /\ Trusting(h)'
    <2>1. Serve(h) \/ Crash(h)
        BY <1>3 DEF Trusting, Arrive, BeginFind, BeginCreate, BeginUpdate, BeginToggle, BeginAppend,
                    Begin, RaceInv, Types, CallTypes
    <2>2. overtaken[h] => overtaken'[h] \/ ~Trusting(h)
        BY <1>3 DEF Track
    <2> QED BY <1>3, <2>1, <2>2, OwnStep
<1> QED BY <1>1, <1>2, <1>3

LEMMA StaleStep ==
    ASSUME RaceInv, Types', NEW h \in Handlers, Serve(h) \/ Crash(h), NEW pages, Track(pages),
           ~Serve(h) => Undropped(h) \subseteq pages, NEW s \in Slugs
    PROVE  StaleAtOldKey(s)'
<1> SUFFICES ASSUME entry'[s] \in Rows, entry'[s] # row'[entry'[s].page],
                    entry'[s].page \notin explained'
             PROVE  \E g \in Handlers :
                        at'[g] = "dropSeen" /\ page'[g] = entry'[s].page /\ seen'[g].slug = s
    BY DEF StaleAtOldKey, Current
<1> DEFINE p == entry'[s].page
<1>1. RowStep(h)
    BY WritesRow DEF RaceInv
<1>2. p \in Pages
    BY DEF Rows
<1>4. p \notin explained \cup pages /\ (page[h] = p /\ ActsOnRead(h) => ~overtaken[h])
    <2>1. p \in StalePages'
        BY <1>2 DEF StalePages, Current
    <2> QED BY <2>1 DEF Track
<1>5. entry'[s] = entry[s]
    <2>1. CASE Fill(h)
        <3>1. entry'[s] # entry[s] => at[h] = "fill" /\ entry'[s] = seen[h]
            BY <2>1, ConstantsAssumption DEF Fill, RaceInv, Types, RowTypes
        <3>2. ASSUME entry'[s] # entry[s] PROVE FALSE
            <4>1. seen[h].page = page[h] /\ row' = row
                BY <2>1, <3>1, <3>2 DEF Fill, RaceInv, Types, CallFacts
            <4>2. ~overtaken[h]
                BY <1>4, <2>1, <3>1, <3>2, <4>1 DEF ActsOnRead
            <4> QED BY <3>1, <3>2, <4>1, <4>2 DEF RaceInv, ReadHolds, Trusting
        <3> QED BY <3>2
    <2>2. CASE DropSeen(h) \/ DropNew(h)
        BY <2>2, ConstantsAssumption DEF DropSeen, DropNew, RaceInv, Types, RowTypes
    <2> QED
        BY <2>1, <2>2 DEF Serve, Crash, Lookup, ReadPage, FindPurchase, CheckCreate, Insert,
                  ReadUpdate, CheckUpdate, WritePurchase, Write, ReadToggle, Toggle, ReadAppend,
                  Append
<1>6. ASSUME NEW g \in Handlers, at[g] = "dropSeen", page[g] = p, seen[g].slug = s, g # h
      PROVE  at'[g] = "dropSeen" /\ page'[g] = p /\ seen'[g].slug = s
    BY <1>6, OthersStand DEF RaceInv
<1>7. CASE row'[p] = row[p]
    <2>1. PICK g \in Handlers : at[g] = "dropSeen" /\ page[g] = p /\ seen[g].slug = s
        BY <1>4, <1>5, <1>7 DEF RaceInv, StaleAtOldKey, Current
    <2>2. g # h
        <3>1. DropSeen(h) => s # seen[h].slug
            BY <1>5, ConstantsAssumption DEF DropSeen, RaceInv, Types, RowTypes
        <3>2. ~Serve(h) /\ at[h] = "dropSeen" => page[h] \in pages
            BY DEF Undropped, DropSteps
        <3> QED
            BY <1>4, <2>1, <3>1, <3>2
               DEF Serve, Lookup, ReadPage, Fill, FindPurchase, CheckCreate, Insert, ReadUpdate,
                   CheckUpdate, WritePurchase, Write, ReadToggle, Toggle, ReadAppend, Append,
                   DropNew
    <2> QED BY <1>6, <2>1, <2>2
<1>8. CASE row'[p] # row[p]
    <2>1. page[h] = p /\ at[h] \in {"insert", "write", "toggle", "append"}
        BY <1>1, <1>2, <1>8 DEF RowStep, RaceInv, Types, RowTypes
    <2>2. CASE entry[s] # row[p]
        <3>1. PICK g \in Handlers : at[g] = "dropSeen" /\ page[g] = p /\ seen[g].slug = s
            BY <1>4, <1>5, <2>2 DEF RaceInv, StaleAtOldKey, Current
        <3>2. g # h
            BY <2>1, <3>1
        <3> QED BY <1>6, <3>1, <3>2
    <2>3. CASE entry[s] = row[p]
        <3>1. at[h] # "insert"
            BY <1>1, <1>5, <1>8, <2>1, <2>3, ConstantsAssumption DEF RowStep
        <3>2. at'[h] = "dropSeen" /\ page'[h] = page[h] /\ seen'[h] = seen[h]
            BY <1>8, <2>1, <3>1
               DEF RaceInv, Types, CallTypes, Serve, Crash, Lookup, ReadPage, Fill, FindPurchase,
                   CheckCreate, Insert, ReadUpdate, CheckUpdate, WritePurchase, Write,
                   ReadToggle, Toggle, ReadAppend, Append, DropSeen, DropNew, Goto, End
        <3>3. ~overtaken[h]
            BY <1>4, <2>1, <3>1, <3>2 DEF ActsOnRead
        <3>4. seen[h].slug = row[p].slug
            BY <2>1, <3>1, <3>3 DEF RaceInv, ReadHolds, Trusting
        <3>5. seen[h].slug = s
            BY <1>5, <2>3, <3>4 DEF RaceInv, SlugNamesOnePage
        <3> QED BY <2>1, <3>2, <3>5
    <2> QED BY <2>2, <2>3
<1> QED BY <1>7, <1>8

\* a step that deletes no entry's writer keeps what is known of the entries
LEMMA EntriesStand ==
    ASSUME RaceInv, NEW pages, Track(pages),
           \A s \in Slugs : entry'[s] \in Rows => entry'[s] = entry[s],
           \A p \in Pages : row'[p] # row[p] => p \in pages,
           \A g \in Handlers :
               at[g] = "dropSeen" => at'[g] = at[g] /\ page'[g] = page[g] /\ seen'[g] = seen[g],
           NEW s \in Slugs
    PROVE  StaleAtOldKey(s)'
<1> SUFFICES ASSUME entry'[s] \in Rows, entry'[s] # row'[entry'[s].page]
             PROVE  \/ entry'[s].page \in explained'
                    \/ \E g \in Handlers :
                          at'[g] = "dropSeen" /\ page'[g] = entry'[s].page /\ seen'[g].slug = s
    BY DEF StaleAtOldKey, Current
<1> DEFINE p == entry'[s].page
<1>1. p \in Pages /\ entry'[s] = entry[s]
    BY DEF Rows
<1>2. p \in StalePages'
    BY <1>1 DEF StalePages, Current
<1>3. CASE p \in explained \cup pages
    BY <1>2, <1>3 DEF Track
<1>4. CASE p \notin explained \cup pages
    <2>1. row'[p] = row[p]
        BY <1>1, <1>4
    <2> QED BY <1>1, <1>4, <2>1 DEF RaceInv, StaleAtOldKey, Current
<1> QED BY <1>3, <1>4

LEMMA RaceStep == RaceInv /\ [Next]_vars => RaceInv'
<1> SUFFICES ASSUME RaceInv, [Next]_vars PROVE RaceInv'
    OBVIOUS
<1>1. Types' /\ SlugNamesOnePage'
    BY TypeStep, SlugsStep DEF RaceInv
<1>2. ASSUME NEW h \in Handlers, Serve(h), Track({}) PROVE RaceInv'
    BY <1>1, <1>2, TrustStep, StaleStep DEF RaceInv
<1>3. ASSUME NEW h \in Handlers, Crash(h), Track(Undropped(h)) PROVE RaceInv'
    BY <1>1, <1>3, TrustStep, StaleStep DEF RaceInv
<1>4. ASSUME NEW h \in Handlers, Arrive(h), Track({}) PROVE RaceInv'
    <2>1. UNCHANGED <<row, entry, seen>>
        BY <1>4 DEF Arrive, BeginFind, BeginCreate, BeginUpdate, BeginToggle, BeginAppend, Begin
    <2>2. ASSUME NEW g \in Handlers, at[g] = "dropSeen" PROVE at'[g] = at[g] /\ page'[g] = page[g]
        BY <1>4, <2>2 DEF Arrive, BeginFind, BeginCreate, BeginUpdate, BeginToggle, BeginAppend,
                          Begin, RaceInv, Types, CallTypes
    <2>3. ASSUME NEW s \in Slugs PROVE StaleAtOldKey(s)'
        BY <1>4, <2>1, <2>2, EntriesStand
    <2> QED BY <1>1, <1>4, <2>3, TrustStep DEF RaceInv
<1>5. ASSUME NEW k \in Slugs, Expire(k), Track({}) PROVE RaceInv'
    <2>1. UNCHANGED <<row, purchaseSlug, at, page, asked, seen>>
        BY <1>5 DEF Expire, callState
    <2>2. \A g \in Handlers : overtaken'[g] \/ (ReadHolds(g)' /\ PurchaseTold(g)')
        BY <1>5, <2>1, StandingCall DEF SlugsSame
    <2>3. \A s \in Slugs : entry'[s] \in Rows => entry'[s] = entry[s]
        BY <1>5, ConstantsAssumption DEF Expire, RaceInv, Types, RowTypes
    <2>4. \A s \in Slugs : StaleAtOldKey(s)'
        BY <1>5, <2>1, <2>3, EntriesStand
    <2> QED BY <1>1, <2>2, <2>4 DEF RaceInv
<1>6. ASSUME WriteTemplate, Track({p \in Existing : row'[p] # row[p]}) PROVE RaceInv'
    <2>1. /\ SlugsSame /\ UNCHANGED <<entry, at, page, asked, seen>>
          /\ Existing' = Existing
        BY <1>6, TemplateWrites DEF SlugsSame, RaceInv
    <2>2. \A g \in Handlers : overtaken'[g] \/ (ReadHolds(g)' /\ PurchaseTold(g)')
        BY <1>6, <2>1, StandingCall
    <2>3. \A p \in Pages : row'[p] # row[p] => p \in {q \in Existing : row'[q] # row[q]}
        BY <2>1 DEF Existing
    <2>4. \A s \in Slugs : StaleAtOldKey(s)'
        BY <1>6, <2>1, <2>3, EntriesStand
    <2> QED BY <1>1, <2>2, <2>4 DEF RaceInv
<1>7. CASE UNCHANGED vars
    BY <1>1, <1>7 DEF RaceInv, ReadHolds, PurchaseTold, Trusting, StaleAtOldKey, Current, vars
<1>8. CASE \E h \in Handlers : (Arrive(h) \/ Serve(h)) /\ Track({})
    BY <1>2, <1>4, <1>8
<1>9. CASE \E h \in Handlers : Crash(h) /\ Track(Undropped(h))
    BY <1>3, <1>9
<1>10. CASE \E s \in Slugs : Expire(s) /\ Track({})
    BY <1>5, <1>10
<1>11. CASE WriteTemplate /\ Track({p \in Existing : row'[p] # row[p]})
    BY <1>6, <1>11
<1> QED BY <1>7, <1>8, <1>9, <1>10, <1>11 DEF Next

LEMMA Races == Spec => []RaceInv
BY RaceInit, RaceStep, PTL DEF Spec

(* The cache shows the page as it is, or its writer is still to delete it,  *)
(* or was cut off before, or a call that had been overtaken wrote or filled *)
(* it, or its template was written: for any number of calls and pages.      *)
THEOREM StalePagesExplained == Spec => []StaleOnlyIfRaced
<1>1. RaceInv => StaleOnlyIfRaced
    BY DEF RaceInv, StaleAtOldKey, StaleOnlyIfRaced, Invalidating, DropSteps
<1> QED BY Races, <1>1, PTL

(* A rename reaches the purchase before the invitation, and nothing else    *)
(* renames, unless an overtaken update does.                                *)
THEOREM Renaming == Spec => PurchaseSlugFollows
<1>1. ASSUME RaceInv, [Next]_vars, NEW p \in Pages,
             row[p] # Nil, row'[p] # row[p], row'[p].slug # row[p].slug
      PROVE  \/ purchaseSlug'[p] = row'[p].slug
             \/ \E h \in Handlers : at[h] = "write" /\ page[h] = p /\ overtaken[h]
    <2>0. ~WriteTemplate
        BY <1>1, TemplateWrites DEF RaceInv, Existing
    <2>1. PICK h \in Handlers : Serve(h) \/ Crash(h)
        BY <1>1, <2>0 DEF Next, Arrive, BeginFind, BeginCreate, BeginUpdate, BeginToggle, BeginAppend,
                    Begin, Expire, vars
    <2>2. page[h] = p /\ at[h] = "write" /\ asked[h] # Nil /\ row'[p].slug = asked[h]
        BY <1>1, <2>1, WritesRow DEF RowStep, RaceInv, Types, RowTypes
    <2>3. asked[h] \in Slugs
        BY <1>1, <2>2 DEF RaceInv, Types, CallTypes
    <2>4. overtaken[h] \/ purchaseSlug[p] = asked[h]
        BY <1>1, <2>2, <2>3 DEF RaceInv, PurchaseTold
    <2>5. purchaseSlug' = purchaseSlug
        BY <2>1, <2>2 DEF Serve, Crash, Lookup, ReadPage, Fill, FindPurchase, CheckCreate, Insert,
               ReadUpdate, CheckUpdate, WritePurchase, Write, ReadToggle, Toggle, ReadAppend,
               Append, DropSeen, DropNew
    <2> QED BY <2>2, <2>4, <2>5
<1>2. RaceInv /\ [Next]_vars =>
          [\A p \in Pages : row[p] # Nil /\ row'[p] # row[p] /\ row'[p].slug # row[p].slug =>
               \/ purchaseSlug'[p] = row'[p].slug
               \/ \E h \in Handlers : at[h] = "write" /\ page[h] = p /\ overtaken[h]]_vars
    BY <1>1
<1> QED BY Races, <1>2, PTL DEF Spec, PurchaseSlugFollows

\* the step of a call that is not the rename of page p keeps p in step
LEMMA OtherCalls ==
    ASSUME RaceInv, NEW p \in Pages, InStep(p), NEW h \in Handlers, Serve(h) \/ Crash(h),
           ~(at[h] = "write" /\ page[h] = p)
    PROVE  InStep(p)'
<1>1. row'[p] # Nil /\ row'[p].slug = row[p].slug
    <2>1. RowStep(h)
        BY WritesRow DEF RaceInv
    <2>2. CASE row'[p] = row[p]
        BY <2>2 DEF InStep
    <2>3. CASE row'[p] # row[p]
        <3>1. page[h] = p /\ at[h] \in {"toggle", "append"}
            BY <2>1, <2>3 DEF RowStep, RaceInv, Types, RowTypes, InStep
        <3> QED BY <2>1, <2>3, <3>1, ConstantsAssumption DEF RowStep, RaceInv, Types, RowTypes
    <2> QED BY <2>2, <2>3
<1>2. ASSUME NEW g \in Handlers, at[g] = "write", page[g] = p
      PROVE  at'[g] = "write" /\ page'[g] = p /\ asked'[g] = asked[g]
    <2>1. g # h
        BY <1>2
    <2> QED BY <1>2, <2>1, OthersStand DEF RaceInv
<1>3. CASE purchaseSlug'[p] = purchaseSlug[p]
    BY <1>1, <1>2, <1>3 DEF InStep
<1>4. CASE purchaseSlug'[p] # purchaseSlug[p]
    <2>1. WritePurchase(h)
        BY <1>4 DEF Serve, Crash, Lookup, ReadPage, Fill, FindPurchase, CheckCreate, Insert,
               ReadUpdate, CheckUpdate, Write, ReadToggle, Toggle, ReadAppend, Append, DropSeen,
               DropNew
    <2>2. page[h] = p /\ purchaseSlug'[p] = asked[h] /\ Goto(h, "write")
        BY <1>4, <2>1 DEF WritePurchase, RaceInv, Types, RowTypes
    <2>3. asked[h] \in Slugs
        BY <2>1 DEF WritePurchase, RaceInv, Types, CallFacts
    <2>4. at'[h] = "write" /\ page'[h] = p /\ asked'[h] = asked[h]
        BY <2>2 DEF Goto, RaceInv, Types, CallTypes
    <2> QED BY <1>1, <2>2, <2>3, <2>4, ConstantsAssumption DEF InStep
<1> QED BY <1>3, <1>4

\* and so does that rename, if it goes through and nobody came between
LEMMA OwnRename ==
    ASSUME RaceInv, NEW p \in Pages, InStep(p), NEW h \in Handlers, Serve(h) \/ Crash(h),
           at[h] = "write", page[h] = p, at'[h] # "idle", ~overtaken[h]
    PROVE  InStep(p)'
<1>1. Write(h)
    BY DEF Serve, Crash, End, Lookup, ReadPage, Fill, FindPurchase, CheckCreate, Insert, ReadUpdate,
           CheckUpdate, WritePurchase, ReadToggle, Toggle, ReadAppend, Append, DropSeen, DropNew,
           RaceInv, Types, CallTypes
<1> DEFINE slug == IF asked[h] = Nil THEN row[p].slug ELSE asked[h]
<1>2. PICK c \in Contents : Store(h, slug, c)
    BY <1>1 DEF Write, End, RaceInv, Types, CallTypes
<1>3. row'[p] = [page |-> p, slug |-> slug, content |-> c] /\ purchaseSlug' = purchaseSlug
    BY <1>1, <1>2 DEF Store, Write, RaceInv, Types, RowTypes
<1>4. row'[p].slug = slug /\ row'[p] # Nil
    <2>1. slug \in Slugs
        BY OwnRow DEF RowSteps, RaceInv, Types, CallTypes
    <2> HIDE DEF slug
    <2> QED BY <1>3, <2>1, StoreFields, ConstantsAssumption
<1>5. asked[h] \in Slugs => asked[h] = row[p].slug \/ purchaseSlug[p] = asked[h]
    BY DEF RaceInv, PurchaseTold
<1>6. asked[h] \in Slugs \cup {Nil}
    BY DEF RaceInv, Types, CallTypes
<1>7. CASE purchaseSlug[p] = slug
    BY <1>3, <1>4, <1>7 DEF InStep
<1>8. CASE purchaseSlug[p] # slug
    <2>1. slug = row[p].slug
        BY <1>5, <1>6, <1>8
    <2>2. PICK g \in Handlers : at[g] = "write" /\ page[g] = p /\ asked[g] = purchaseSlug[p]
        BY <1>8, <2>1 DEF InStep
    <2>3. g # h
        BY <1>5, <1>6, <1>8, <2>2 DEF InStep
    <2>4. at'[g] = "write" /\ page'[g] = p /\ asked'[g] = asked[g]
        BY <2>2, <2>3, OthersStand DEF RaceInv
    <2> QED BY <1>3, <1>4, <2>2, <2>4 DEF InStep
<1> QED BY <1>7, <1>8

(* A page and its purchase that have one slug keep one, whatever overlaps   *)
(* or crashes, until a rename fails after it has told the purchase or goes  *)
(* through although another call has written one of them since its read.    *)
THEOREM SlugsInStep == Spec => StaysInStep
<1>1. ASSUME RaceInv, [Next]_vars, NEW p \in Pages, InStep(p), ~InStep(p)'
      PROVE  \E h \in Handlers :
                 /\ at[h] = "write" /\ page[h] = p
                 /\ at'[h] = "idle" \/ (overtaken[h] /\ at'[h] # "write")
    <2>1. ~UNCHANGED vars
        BY <1>1 DEF InStep, vars
    <2>2. ~WriteTemplate
        BY <1>1, TemplateWrites DEF RaceInv, InStep, Existing
    <2>3. ASSUME NEW s \in Slugs PROVE ~Expire(s)
        BY <1>1, <2>3 DEF Expire, callState, InStep
    <2>4. ASSUME NEW h \in Handlers, Arrive(h) PROVE FALSE
        <3>1. row' = row /\ purchaseSlug' = purchaseSlug /\ at[h] = "idle"
            BY <2>4 DEF Arrive, BeginFind, BeginCreate, BeginUpdate, BeginToggle, BeginAppend,
                        Begin
        <3>2. ASSUME NEW g \in Handlers, at[g] = "write"
              PROVE  at'[g] = at[g] /\ page'[g] = page[g] /\ asked'[g] = asked[g]
            BY <1>1, <2>4, <3>1, <3>2, OthersStand DEF RaceInv
        <3> QED BY <1>1, <3>1, <3>2 DEF InStep
    <2>5. PICK h \in Handlers : Serve(h) \/ Crash(h)
        BY <1>1, <2>1, <2>2, <2>3, <2>4 DEF Next
    <2>6. at[h] = "write" /\ page[h] = p
        BY <1>1, <2>5, OtherCalls
    <2>7. at'[h] # "write"
        BY <1>1, <2>5, <2>6, CallMoves DEF RaceInv
    <2> QED BY <1>1, <2>5, <2>6, <2>7, OwnRename
<1>2. RaceInv /\ [Next]_vars =>
          [\A p \in Pages : InStep(p) /\ ~InStep(p)' =>
               \E h \in Handlers :
                   /\ at[h] = "write" /\ page[h] = p
                   /\ at'[h] = "idle" \/ (overtaken[h] /\ at'[h] # "write")]_vars
    BY <1>1
<1> QED BY Races, <1>2, PTL DEF Spec, StaysInStep

-----------------------------------------------------------------------------
(* The answers to a page *)

(* The theorems about Rsvps, for any number of handlers, rows, names and    *)
(* keys: what a call trusts is so unless it has been overtaken, and hence a *)
(* name stored twice, a lock taken twice and a toggle without effect each   *)
(* have an overlap of two calls behind them.                                *)

\* Next without its bookkeeping
RsvpStep ==
    \/ R!Expire \/ R!LockElsewhere
    \/ \E h \in RsvpHandlers :
           R!BeginCreate(h) \/ R!BeginToggle(h) \/ R!BeginDelete(h) \/ R!Serve(h) \/ R!Crash(h)

LEMMA RsvpTypeInit == R!Init => R!TypeOK
BY DEF R!Init, R!TypeOK, R!Types, R!RowTypes, R!CallTypes, R!CallFacts, R!Submitting, R!Recorded

LEMMA RsvpAfterEnd ==
    ASSUME R!Types, NEW h \in RsvpHandlers, R!End(h), R!Recorded \subseteq R!Recorded'
    PROVE  R!CallTypes' /\ \A g \in RsvpHandlers : R!CallFacts(g)'
<1>1. R!CallTypes'
    BY DEF R!Types, R!CallTypes, R!End
<1>2. ASSUME NEW g \in RsvpHandlers PROVE R!CallFacts(g)'
    BY <1>2 DEF R!Types, R!CallTypes, R!CallFacts, R!Submitting, R!End
<1> QED BY <1>1, <1>2

LEMMA RsvpAfterGoto ==
    ASSUME R!Types, NEW h \in RsvpHandlers, NEW step \in R!Steps, R!Goto(h, step),
           R!Recorded' = R!Recorded,
           \/ R!Submitting(h) /\ step \notin {"flip", "delete"}
           \/ step = "delete" /\ rsvpRow[h] \in R!Recorded
    PROVE  R!CallTypes' /\ \A g \in RsvpHandlers : R!CallFacts(g)'
<1>1. R!CallTypes'
    BY DEF R!Types, R!CallTypes, R!Goto
<1>2. ASSUME NEW g \in RsvpHandlers PROVE R!CallFacts(g)'
    BY <1>2 DEF R!Types, R!CallTypes, R!CallFacts, R!Submitting, R!Goto
<1> QED BY <1>1, <1>2

LEMMA RsvpTypeArrive ==
    ASSUME R!Types, NEW h \in RsvpHandlers,
           R!BeginCreate(h) \/ R!BeginToggle(h) \/ R!BeginDelete(h)
    PROVE  R!Types'
<1>1. R!RowTypes' /\ R!Recorded' = R!Recorded
    BY DEF R!BeginCreate, R!BeginToggle, R!BeginDelete, R!BeginOn, R!table, R!Types, R!RowTypes,
        R!Recorded
<1>2. CASE R!BeginCreate(h)
    <2>1. PICK t \in TypedNames, answer \in R!Answers, header \in Headers \cup {Nothing} :
              /\ name' = [name EXCEPT ![h] = Trimmed(t)]
              /\ key' = [key EXCEPT ![h] = IF header # Nothing THEN header ELSE <<Trimmed(t), answer>>]
        BY <1>2 DEF R!BeginCreate
    <2>2. Trimmed(t) \in R!Names
        BY DEF R!Names
    <2>3. (IF header # Nothing THEN header ELSE <<Trimmed(t), answer>>) \in R!Keys
        BY <2>2 DEF R!Keys
    <2>4. R!CallTypes'
        BY <1>2, <2>1, <2>2, <2>3 DEF R!BeginCreate, R!Types, R!CallTypes, R!Steps
    <2>5. ASSUME NEW g \in RsvpHandlers PROVE R!CallFacts(g)'
        BY <1>1, <1>2, <2>1, <2>2, <2>3 DEF R!BeginCreate, R!Types, R!CallTypes, R!CallFacts,
            R!Submitting
    <2> QED BY <1>1, <2>4, <2>5 DEF R!Types
<1>3. CASE R!BeginToggle(h) \/ R!BeginDelete(h)
    <2>1. PICK step \in {"readToggle", "readDelete"}, r \in RsvpRows : R!BeginOn(h, step, r)
        BY <1>3 DEF R!BeginToggle, R!BeginDelete
    <2>2. R!CallTypes'
        BY <2>1 DEF R!BeginOn, R!Types, R!CallTypes, R!Steps
    <2>3. ASSUME NEW g \in RsvpHandlers PROVE R!CallFacts(g)'
        BY <1>1, <2>1 DEF R!BeginOn, R!Types, R!CallTypes, R!CallFacts, R!Submitting
    <2> QED BY <1>1, <2>2, <2>3 DEF R!Types
<1> QED BY <1>2, <1>3

LEMMA RsvpTypeServe ==
    ASSUME R!Types, NEW h \in RsvpHandlers, R!Serve(h) \/ R!Crash(h)
    PROVE  R!Types'
<1>1. CASE R!ReadLock(h) \/ R!SetLock(h) \/ R!FindInvitation(h) \/ R!FindDuplicate(h)
    <2>1. R!Submitting(h) /\ key[h] \in R!Keys
        BY <1>1 DEF R!ReadLock, R!SetLock, R!FindInvitation, R!FindDuplicate, R!Submitting,
            R!Types, R!CallFacts
    <2>2. R!RowTypes' /\ R!Recorded' = R!Recorded
        BY <1>1, <2>1 DEF R!ReadLock, R!SetLock, R!FindInvitation, R!FindDuplicate, R!table,
            R!Types, R!RowTypes, R!Recorded
    <2>3. R!End(h) \/ \E step \in {"setLock", "findInvitation", "findDuplicate", "insert"} :
              R!Goto(h, step)
        BY <1>1 DEF R!ReadLock, R!SetLock, R!FindInvitation, R!FindDuplicate
    <2> QED BY <2>1, <2>2, <2>3, RsvpAfterEnd, RsvpAfterGoto DEF R!Types, R!Steps
<1>2. CASE R!Insert(h)
    <2>1. name[h] \in R!Names
        BY <1>2 DEF R!Insert, R!Types, R!CallFacts, R!Submitting
    <2>2. PICK r \in RsvpRows \ R!Recorded : guest' = [guest EXCEPT ![r] = name[h]]
        BY <1>2 DEF R!Insert
    <2>3. R!Recorded \subseteq R!Recorded'
        BY <2>1, <2>2, RsvpAssumption DEF R!NilAssumption, R!Recorded, R!Types, R!RowTypes
    <2>4. R!RowTypes'
        BY <1>2, <2>1, <2>2, <2>3 DEF R!Insert, R!Types, R!RowTypes
    <2> QED BY <1>2, <2>3, <2>4, RsvpAfterEnd DEF R!Insert, R!Types
<1>3. CASE R!ReadToggle(h)
    <2>1. R!RowTypes' /\ R!Recorded' = R!Recorded
        BY <1>3 DEF R!ReadToggle, R!table, R!Types, R!RowTypes, R!Recorded
    <2>2. CASE R!End(h)
        BY <2>1, <2>2, RsvpAfterEnd DEF R!Types
    <2>3. CASE ~R!End(h)
        <3>1. rsvpSeen' \in [RsvpHandlers -> BOOLEAN]
            <4> DEFINE read == rsvpRow[h] \in hidden
            <4>1. read \in BOOLEAN /\ rsvpSeen' = [rsvpSeen EXCEPT ![h] = read]
                BY <1>3, <2>3 DEF R!ReadToggle
            <4> HIDE DEF read
            <4> QED BY <4>1 DEF R!Types, R!CallTypes
        <3>2. R!CallTypes'
            BY <1>3, <2>3, <3>1 DEF R!ReadToggle, R!Types, R!CallTypes, R!Steps
        <3>3. ASSUME NEW g \in RsvpHandlers PROVE R!CallFacts(g)'
            BY <1>3, <2>1, <2>3 DEF R!ReadToggle, R!Types, R!CallTypes, R!CallFacts, R!Submitting
        <3> QED BY <2>1, <3>2, <3>3 DEF R!Types
    <2> QED BY <2>2, <2>3
<1>4. CASE R!Flip(h) \/ R!SoftDelete(h)
    <2>1. rsvpRow[h] \in R!Recorded
        BY <1>4 DEF R!Flip, R!SoftDelete, R!Types, R!CallFacts
    <2>2. R!RowTypes' /\ R!Recorded' = R!Recorded
        BY <1>4, <2>1 DEF R!Flip, R!SoftDelete, R!Types, R!RowTypes, R!Recorded
    <2> QED BY <1>4, <2>2, RsvpAfterEnd DEF R!Flip, R!SoftDelete, R!Types
<1>5. CASE R!ReadDelete(h)
    <2>1. R!RowTypes' /\ R!Recorded' = R!Recorded
        BY <1>5 DEF R!ReadDelete, R!table, R!Types, R!RowTypes, R!Recorded
    <2> QED BY <1>5, <2>1, RsvpAfterEnd, RsvpAfterGoto DEF R!ReadDelete, R!Types, R!Steps
<1>6. CASE R!Crash(h)
    <2>1. R!RowTypes' /\ R!Recorded' = R!Recorded
        BY <1>6 DEF R!Crash, R!table, R!Types, R!RowTypes, R!Recorded
    <2> QED BY <1>6, <2>1, RsvpAfterEnd DEF R!Crash, R!Types
<1> QED BY <1>1, <1>2, <1>3, <1>4, <1>5, <1>6 DEF R!Serve

LEMMA RsvpTypeStep == R!TypeOK /\ [R!Next]_(R!vars) => R!TypeOK'
<1> SUFFICES ASSUME R!TypeOK, [R!Next]_(R!vars) PROVE R!TypeOK'
    OBVIOUS
<1>1. CASE UNCHANGED R!vars
    BY <1>1 DEF R!vars, R!TypeOK, R!Types, R!RowTypes, R!CallTypes, R!CallFacts, R!Submitting,
        R!Recorded
<1>2. CASE R!Next
    <2>1. rsvpOvertaken' \in [RsvpHandlers -> BOOLEAN]
        BY <1>2 DEF R!Next, R!Track
    <2>2. CASE R!Expire \/ R!LockElsewhere
        BY <2>1, <2>2 DEF R!Expire, R!LockElsewhere, R!table, R!callState, R!TypeOK, R!Types,
            R!RowTypes, R!CallTypes, R!CallFacts, R!Submitting, R!Recorded, R!Keys
    <2>3. CASE \E h \in RsvpHandlers :
                   \/ R!BeginCreate(h) \/ R!BeginToggle(h) \/ R!BeginDelete(h)
                   \/ R!Serve(h) \/ R!Crash(h)
        BY <2>1, <2>3, RsvpTypeArrive, RsvpTypeServe DEF R!TypeOK
    <2> QED BY <1>2, <2>2, <2>3 DEF R!Next
<1> QED BY <1>1, <1>2

(* Every variable keeps its type, and what is hidden, deleted or about to   *)
(* be is an answer that exists.                                             *)
THEOREM RsvpTyping == RsvpSpec => []R!TypeOK
BY RsvpTypeInit, RsvpTypeStep, PTL DEF RsvpSpec, R!Spec

-----------------------------------------------------------------------------
(* What a call trusts *)

RsvpTrusted(h) ==
    /\ rsvpAt[h] = "setLock" => key[h] \notin locks
    /\ rsvpAt[h] = "insert" => name[h] \notin R!NamesIn(guest)
    /\ rsvpAt[h] = "flip" => (rsvpSeen[h] <=> rsvpRow[h] \in hidden)

RsvpTrustInv == R!TypeOK /\ \A h \in RsvpHandlers : rsvpOvertaken[h] \/ RsvpTrusted(h)

\* a call keeps what it has read for as long as it stands where it is
LEMMA RsvpKept ==
    ASSUME R!TypeOK, RsvpStep, NEW g \in RsvpHandlers, rsvpAt'[g] = rsvpAt[g], rsvpAt[g] # "idle"
    PROVE  /\ key'[g] = key[g] /\ name'[g] = name[g]
           /\ rsvpRow'[g] = rsvpRow[g] /\ rsvpSeen'[g] = rsvpSeen[g]
<1> USE DEF R!TypeOK, R!Types, R!CallTypes
<1>1. CASE R!Expire \/ R!LockElsewhere
    BY <1>1 DEF R!Expire, R!LockElsewhere, R!callState
<1>2. ASSUME NEW h \in RsvpHandlers, g = h,
             R!BeginCreate(h) \/ R!BeginToggle(h) \/ R!BeginDelete(h)
      PROVE  FALSE
    BY <1>2 DEF R!BeginCreate, R!BeginToggle, R!BeginDelete, R!BeginOn
<1>3. ASSUME NEW h \in RsvpHandlers, R!Serve(h) \/ R!Crash(h), g = h
      PROVE  FALSE
    <2>1. ~R!End(h)
        BY <1>3 DEF R!End
    <2> QED
        BY <1>3, <2>1 DEF R!Serve, R!Crash, R!ReadLock, R!SetLock, R!FindInvitation,
            R!FindDuplicate, R!Insert, R!ReadToggle, R!Flip, R!ReadDelete, R!SoftDelete, R!Goto
<1>4. ASSUME NEW h \in RsvpHandlers, g # h,
             R!BeginCreate(h) \/ R!BeginToggle(h) \/ R!BeginDelete(h) \/ R!Serve(h) \/ R!Crash(h)
      PROVE  /\ key'[g] = key[g] /\ name'[g] = name[g]
             /\ rsvpRow'[g] = rsvpRow[g] /\ rsvpSeen'[g] = rsvpSeen[g]
    BY <1>4 DEF R!BeginCreate, R!BeginToggle, R!BeginDelete, R!BeginOn, R!Serve, R!Crash,
        R!ReadLock, R!SetLock, R!FindInvitation, R!FindDuplicate, R!Insert, R!ReadToggle, R!Flip,
        R!ReadDelete, R!SoftDelete, R!Goto, R!End
<1> QED BY <1>1, <1>2, <1>3, <1>4 DEF RsvpStep

\* a step that brings a call to a write it will trust is the read that it trusts
LEMMA RsvpJustRead ==
    ASSUME R!TypeOK, RsvpStep, NEW g \in RsvpHandlers, rsvpAt'[g] # rsvpAt[g]
    PROVE  RsvpTrusted(g)'
<1> USE DEF R!TypeOK, R!Types, R!CallTypes, RsvpTrusted
<1>1. ~R!Expire /\ ~R!LockElsewhere
    BY DEF R!Expire, R!LockElsewhere, R!callState
<1>2. PICK h \in RsvpHandlers :
          R!BeginCreate(h) \/ R!BeginToggle(h) \/ R!BeginDelete(h) \/ R!Serve(h) \/ R!Crash(h)
    BY <1>1 DEF RsvpStep
<1>3. CASE R!BeginCreate(h) \/ R!BeginToggle(h) \/ R!BeginDelete(h)
    BY <1>3 DEF R!BeginCreate, R!BeginToggle, R!BeginDelete, R!BeginOn
<1>4. CASE R!End(h)
    BY <1>4 DEF R!End
<1>5. CASE ~R!End(h) /\ (R!Serve(h) \/ R!Crash(h))
    <2>1. CASE R!ReadLock(h)
        BY <1>5, <2>1 DEF R!ReadLock, R!Goto
    <2>2. CASE R!FindDuplicate(h)
        BY <1>5, <2>2 DEF R!FindDuplicate, R!Goto, R!table, R!NamesIn
    <2>3. CASE R!ReadToggle(h)
        BY <1>5, <2>3 DEF R!ReadToggle, R!table
    <2> QED
        BY <1>5, <2>1, <2>2, <2>3 DEF R!Serve, R!Crash, R!SetLock, R!FindInvitation, R!Insert,
            R!Flip, R!ReadDelete, R!SoftDelete, R!Goto
<1> QED BY <1>2, <1>3, <1>4, <1>5 DEF R!Serve, R!Crash

LEMMA RsvpTrustInit == R!Init => RsvpTrustInv
BY RsvpTypeInit DEF R!Init, RsvpTrustInv, RsvpTrusted

LEMMA RsvpTrustStep == RsvpTrustInv /\ [R!Next]_(R!vars) => RsvpTrustInv'
<1> SUFFICES ASSUME RsvpTrustInv, [R!Next]_(R!vars) PROVE RsvpTrustInv'
    OBVIOUS
<1>1. R!TypeOK'
    BY RsvpTypeStep DEF RsvpTrustInv
<1>2. CASE UNCHANGED R!vars
    BY <1>1, <1>2 DEF R!vars, RsvpTrustInv, RsvpTrusted, R!NamesIn
<1>3. ASSUME R!Next, NEW g \in RsvpHandlers PROVE rsvpOvertaken'[g] \/ RsvpTrusted(g)'
    <2>1. RsvpStep /\ R!Track
        BY <1>3 DEF R!Next, RsvpStep
    <2>2. CASE rsvpAt'[g] # rsvpAt[g]
        BY <2>1, <2>2, RsvpJustRead DEF RsvpTrustInv
    <2>3. CASE rsvpAt'[g] = "idle"
        BY <2>3 DEF RsvpTrusted
    <2>4. CASE rsvpAt'[g] = rsvpAt[g] /\ rsvpAt[g] # "idle"
        <3>1. rsvpOvertaken'[g] <=> rsvpOvertaken[g] \/ R!Overtakes(g)
            BY <2>1, <2>4 DEF R!Track
        <3>2. /\ key'[g] = key[g] /\ name'[g] = name[g]
              /\ rsvpRow'[g] = rsvpRow[g] /\ rsvpSeen'[g] = rsvpSeen[g]
            BY <2>1, <2>4, RsvpKept DEF RsvpTrustInv
        <3> QED BY <2>4, <3>1, <3>2 DEF RsvpTrustInv, RsvpTrusted, R!Overtakes
    <2> QED BY <2>2, <2>3, <2>4
<1> QED BY <1>1, <1>2, <1>3 DEF RsvpTrustInv

LEMMA RsvpTrust == RsvpSpec => []RsvpTrustInv
BY RsvpTrustInit, RsvpTrustStep, PTL DEF RsvpSpec, R!Spec

(* A name is stored a second time only by a call that looked for it before  *)
(* it was stored the first time.                                            *)
THEOREM Namesakes == RsvpSpec => NamesakesRaced
<1>1. ASSUME RsvpTrustInv, [R!Next]_(R!vars),
             NEW r \in RsvpRows, guest[r] = Nothing, guest'[r] \in R!NamesIn(guest)
      PROVE  \E h \in RsvpHandlers :
                 rsvpAt[h] = "insert" /\ name[h] = guest'[r] /\ rsvpOvertaken[h]
    <2>1. guest'[r] # guest[r]
        BY <1>1 DEF R!NamesIn
    <2>2. PICK h \in RsvpHandlers : R!Insert(h)
        BY <1>1, <2>1 DEF R!Next, R!vars, R!table, R!Expire, R!LockElsewhere, R!BeginCreate,
            R!BeginToggle, R!BeginDelete, R!BeginOn, R!Serve, R!Crash, R!ReadLock, R!SetLock,
            R!FindInvitation, R!FindDuplicate, R!ReadToggle, R!Flip, R!ReadDelete, R!SoftDelete
    <2>3. guest'[r] = name[h]
        BY <2>1, <2>2, <1>1 DEF R!Insert, RsvpTrustInv, R!TypeOK, R!Types, R!RowTypes
    <2> QED BY <1>1, <2>2, <2>3 DEF RsvpTrustInv, RsvpTrusted, R!Insert
<1>2. RsvpTrustInv /\ [R!Next]_(R!vars) =>
          [\A r \in RsvpRows :
               guest[r] = Nothing /\ guest'[r] \in R!NamesIn(guest)
               => \E h \in RsvpHandlers :
                      rsvpAt[h] = "insert" /\ name[h] = guest'[r] /\ rsvpOvertaken[h]]_(R!vars)
    BY <1>1
<1> QED BY RsvpTrust, <1>2, PTL DEF RsvpSpec, R!Spec, NamesakesRaced, R!NamesakesRaced

(* A call goes on under a key that is locked only if it looked at the lock  *)
(* before the other call had set it.                                        *)
THEOREM Repeats == RsvpSpec => RepeatsRaced
<1>1. RsvpTrustInv /\ [R!Next]_(R!vars) =>
          [\A h \in RsvpHandlers :
               rsvpAt[h] = "setLock" /\ rsvpAt'[h] = "findInvitation" /\ key[h] \in locks
               => rsvpOvertaken[h]]_(R!vars)
    BY DEF RsvpTrustInv, RsvpTrusted
<1> QED BY RsvpTrust, <1>1, PTL DEF RsvpSpec, R!Spec, RepeatsRaced, R!RepeatsRaced

(* A toggle that is carried out changes what the guests see, unless another *)
(* one of the same answer came between its read and its write.              *)
THEOREM LostToggles == RsvpSpec => LostTogglesRaced
<1>1. RsvpTrustInv /\ [R!Next]_(R!vars) =>
          [\A h \in RsvpHandlers :
               rsvpAt[h] = "flip" /\ R!Flip(h) /\ hidden' = hidden => rsvpOvertaken[h]]_(R!vars)
    BY DEF RsvpTrustInv, RsvpTrusted, R!Flip
<1> QED BY RsvpTrust, <1>1, PTL DEF RsvpSpec, R!Spec, LostTogglesRaced, R!LostTogglesRaced
=============================================================================
