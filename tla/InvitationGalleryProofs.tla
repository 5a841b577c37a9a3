---------------------- MODULE InvitationGalleryProofs ----------------------
(***************************************************************************)
(* Theorems about InvitationGallery for any number of handlers and files   *)
(* and any limits: the bucket and the media table agree but for what was   *)
(* cut off, the overshoot of the limit is bounded by the calls under way,  *)
(* and a photo leaves the gallery by a clean-up or by one race only.       *)
(***************************************************************************)
EXTENDS InvitationGallery, FiniteSetTheorems, TLAPS

-----------------------------------------------------------------------------
(* Typing *)

LEMMA TypeInit == Init => Types
<1> SUFFICES ASSUME Init PROVE Types
    OBVIOUS
<1>1. << >> \in Seq(Files) /\ Len(<< >>) = 0
    OBVIOUS
<1> QED
    BY <1>1, LimitsAssumption
       DEF Init, Types, StoreTypes, CallTypes, CallFacts, FileSteps, Steps, Uploading

LEMMA TypeArrive ==
    ASSUME Types, NEW h \in Handlers, Arrive(h)
    PROVE  Types'
<1>1. CASE BeginUpload(h) \/ BeginGuestUpload(h)
    <2>1. PICK step \in {"put", "readGuest"}, f \in Files \ drawn :
              Begin(h, step, f) /\ drawn' = drawn \cup {f}
        BY <1>1 DEF BeginUpload, BeginGuestUpload, BeginWithNewKey
    <2>2. StoreTypes' /\ CallTypes'
        BY <2>1 DEF Types, StoreTypes, CallTypes, Begin, Steps
    <2>3. ASSUME NEW g \in Handlers PROVE CallFacts(g)'
        BY <2>1, LimitsAssumption
           DEF Types, StoreTypes, CallTypes, CallFacts, FileSteps, Uploading, Begin
    <2> QED BY <2>2, <2>3 DEF Types
<1>2. CASE BeginAddMoment(h) \/ BeginUpdate(h) \/ BeginDelete(h)
    <2>1. PICK step \in {"readOwner", "readUpdate", "findRow"}, f \in drawn \cup {Nil} :
              Begin(h, step, f) /\ drawn' = drawn /\ (f = Nil => step = "readUpdate")
        BY <1>2, LimitsAssumption DEF BeginAddMoment, BeginUpdate, BeginDelete, Types, StoreTypes
    <2>2. StoreTypes' /\ CallTypes'
        BY <2>1 DEF Types, StoreTypes, CallTypes, Begin, Steps
    <2>3. ASSUME NEW g \in Handlers PROVE CallFacts(g)'
        BY <2>1 DEF Types, StoreTypes, CallTypes, CallFacts, FileSteps, Uploading, Begin
    <2> QED BY <2>2, <2>3 DEF Types
<1> QED BY <1>1, <1>2 DEF Arrive

LEMMA AfterEnd ==
    ASSUME Types, NEW h \in Handlers, End(h), drawn' = drawn,
           recorded' \subseteq recorded \cup (IF Uploading(h) THEN {file[h]} ELSE {})
    PROVE  CallTypes' /\ \A g \in Handlers : CallFacts(g)'
<1>1. << >> \in Seq(Files) /\ Len(<< >>) = 0
    OBVIOUS
<1>2. CallTypes'
    BY <1>1 DEF Types, CallTypes, End
<1>3. ASSUME NEW g \in Handlers PROVE CallFacts(g)'
    BY <1>1, <1>3, LimitsAssumption
       DEF Types, CallTypes, CallFacts, FileSteps, Uploading, Steps, End
<1> QED BY <1>2, <1>3

\* a step of the call that keeps its file and its list, or is no longer an upload
LEMMA AfterGoto ==
    ASSUME Types, NEW h \in Handlers, NEW step \in Steps, drawn' = drawn,
           Goto(h, step), at[h] \in FileSteps,
           step \in {"putGuest", "record", "recordGuest"} => Uploading(h) /\ recorded' = recorded,
           step \notin {"readGuest", "put"},
           recorded' \subseteq recorded \cup (IF Uploading(h) THEN {file[h]} ELSE {})
    PROVE  CallTypes' /\ \A g \in Handlers : CallFacts(g)'
<1>1. CallTypes'
    BY DEF Types, CallTypes, Goto
<1>2. ASSUME NEW g \in Handlers PROVE CallFacts(g)'
    BY <1>2 DEF Types, CallTypes, CallFacts, FileSteps, Uploading, Steps, Goto
<1> QED BY <1>1, <1>2

LEMMA ListsAreShort ==
    ASSUME NEW list \in Lists
    PROVE  list \in Seq(Files) /\ Len(list) <= OwnerLimit
<1>1. PICK n \in 0..OwnerLimit : list \in [1..n -> Files]
    BY DEF Lists
<1>2. n \in Nat /\ n <= OwnerLimit
    BY LimitsAssumption
<1> QED BY <1>1, <1>2

LEMMA TypeServe ==
    ASSUME Types, NEW h \in Handlers, Serve(h) \/ Crash(h)
    PROVE  Types'
<1> USE DEF FileSteps, Steps
<1>1. CASE ReadGuest(h) \/ ReadOwner(h) \/ FindRow(h) \/ DeleteObject(h)
    <2>1. StoreTypes' /\ drawn' = drawn /\ recorded' = recorded
        BY <1>1 DEF ReadGuest, ReadOwner, FindRow, DeleteObject, Types, StoreTypes
    <2>2. End(h) \/ \E step \in {"putGuest", "push", "deleteObject", "deleteRecord"} :
              Goto(h, step) /\ at[h] \in FileSteps /\ (step = "putGuest" => Uploading(h))
        BY <1>1 DEF ReadGuest, ReadOwner, FindRow, DeleteObject, Uploading
    <2> QED BY <2>1, <2>2, AfterEnd, AfterGoto DEF Types
<1>2. CASE Put(h)
    <2>1. file[h] \in drawn
        BY <1>2 DEF Put, Types, CallTypes, CallFacts
    <2>2. StoreTypes'
        BY <1>2, <2>1 DEF Put, Types, StoreTypes
    <2>3. PICK step \in {"record", "recordGuest"} : Goto(h, step)
        BY <1>2 DEF Put
    <2> QED BY <1>2, <2>2, <2>3, AfterGoto DEF Put, Uploading, Types
<1>3. CASE Record(h)
    <2>1. file[h] \in drawn
        BY <1>3 DEF Record, Types, CallTypes, CallFacts
    <2>2. StoreTypes'
        BY <1>3, <2>1 DEF Record, Types, StoreTypes
    <2> QED BY <1>3, <2>2, AfterEnd, AfterGoto DEF Record, Uploading, Types
<1>4. CASE Push(h)
    <2>1. file[h] \in Files
        BY <1>4 DEF Push, Types, StoreTypes, CallTypes, CallFacts
    <2>2. StoreTypes'
        BY <1>4, <2>1 DEF Push, Types, StoreTypes
    <2> QED BY <1>4, <2>2, AfterEnd DEF Push, Types
<1>5. CASE ReadUpdate(h)
    <2>1. StoreTypes'
        BY <1>5 DEF ReadUpdate, Types, StoreTypes
    <2>2. CASE End(h)
        BY <1>5, <2>1, <2>2, AfterEnd DEF ReadUpdate, Types
    <2>3. CASE ~End(h)
        <3>1. PICK list \in Lists :
                  /\ dto' = [dto EXCEPT ![h] = list]
                  /\ removed' = [removed EXCEPT ![h] = Shown(moments) \ Shown(list)]
                  /\ at' = [at EXCEPT ![h] = IF Shown(moments) \ Shown(list) = {} THEN "overwrite"
                                                                                  ELSE "findMedia"]
                  /\ UNCHANGED <<file, todo>>
            BY <1>5, <2>3 DEF ReadUpdate
        <3>2. list \in Seq(Files) /\ Len(list) <= OwnerLimit
            BY ListsAreShort
        <3>3. Shown(moments) \ Shown(list) \subseteq Files
            BY DEF Types, StoreTypes, Shown
        <3>4. PICK step \in {"overwrite", "findMedia"} : at' = [at EXCEPT ![h] = step]
            BY <3>1
        <3>5. CallTypes'
            BY <1>5, <3>1, <3>2, <3>3, <3>4 DEF ReadUpdate, Types, CallTypes
        <3>6. ASSUME NEW g \in Handlers PROVE CallFacts(g)'
            BY <1>5, <3>1, <3>2, <3>4, <3>6 DEF ReadUpdate, Types, CallTypes, CallFacts, Uploading
        <3> QED BY <2>1, <3>5, <3>6 DEF Types
    <2> QED BY <2>2, <2>3
<1>6. CASE FindMedia(h)
    <2>1. StoreTypes' /\ CallTypes'
        BY <1>6 DEF FindMedia, Types, StoreTypes, CallTypes
    <2>2. ASSUME NEW g \in Handlers PROVE CallFacts(g)'
        BY <1>6, <2>2 DEF FindMedia, Types, CallTypes, CallFacts, Uploading
    <2> QED BY <2>1, <2>2 DEF Types
<1>7. CASE CleanObject(h)
    <2> USE DEF Types, CallTypes
    <2>1. StoreTypes' /\ drawn' = drawn /\ recorded' = recorded /\ dto' = dto /\ removed' = removed
        BY <1>7 DEF CleanObject, Goto, StoreTypes
    <2>2. CASE todo[h] = {} /\ Goto(h, "overwrite")
        <3>1. CallTypes'
            BY <2>1, <2>2 DEF Goto
        <3>2. ASSUME NEW g \in Handlers PROVE CallFacts(g)'
            BY <1>7, <2>1, <2>2, <3>2 DEF CleanObject, Goto, CallFacts, Uploading
        <3> QED BY <2>1, <3>1, <3>2
    <2>3. ASSUME NEW f \in todo[h], todo' = [todo EXCEPT ![h] = @ \ {f}],
                 file' = [file EXCEPT ![h] = f], at' = [at EXCEPT ![h] = "cleanRecord"]
          PROVE  Types'
        <3>1. f \in drawn /\ f # Nil
            BY LimitsAssumption DEF StoreTypes
        <3>2. CallTypes'
            BY <2>1, <2>3, <3>1
        <3>3. ASSUME NEW g \in Handlers PROVE CallFacts(g)'
            BY <2>1, <2>3, <3>1, <3>3 DEF CallFacts, Uploading
        <3> QED BY <2>1, <3>2, <3>3
    <2>4. ASSUME NEW f \in todo[h], todo' = [todo EXCEPT ![h] = @ \ {f}], UNCHANGED <<file, at>>
          PROVE  Types'
        <3>1. CallTypes'
            BY <2>1, <2>4
        <3>2. ASSUME NEW g \in Handlers PROVE CallFacts(g)'
            BY <2>1, <2>4, <3>2 DEF CallFacts, Uploading
        <3> QED BY <2>1, <3>1, <3>2
    <2> QED BY <1>7, <2>2, <2>3, <2>4 DEF CleanObject
<1>8. CASE CleanRecord(h)
    <2>1. StoreTypes'
        BY <1>8 DEF CleanRecord, Types, StoreTypes, CallTypes, CallFacts
    <2> QED BY <1>8, <2>1, AfterGoto DEF CleanRecord, Types
<1>9. CASE Overwrite(h) \/ DeleteRecord(h)
    <2>1. StoreTypes'
        BY <1>9 DEF Overwrite, DeleteRecord, Types, StoreTypes, CallTypes
    <2> QED BY <1>9, <2>1, AfterEnd DEF Overwrite, DeleteRecord, Types
<1>10. CASE Crash(h)
    <2>1. StoreTypes'
        BY <1>10 DEF Crash, BetweenStores, Types, StoreTypes, CallTypes, CallFacts
    <2> QED BY <1>10, <2>1, AfterEnd DEF Crash, Types
<1> QED BY <1>1, <1>2, <1>3, <1>4, <1>5, <1>6, <1>7, <1>8, <1>9, <1>10 DEF Serve

LEMMA TypeStep == Types /\ [Next]_vars => Types'
<1> SUFFICES ASSUME Types, [Next]_vars PROVE Types'
    OBVIOUS
<1>1. CASE UNCHANGED vars
    BY <1>1 DEF Types, StoreTypes, CallTypes, CallFacts, Uploading, vars
<1> QED BY <1>1, TypeArrive, TypeServe DEF Next

(* Every variable stays within its type; uploads under way have keys of     *)
(* their own.                                                               *)
THEOREM Typing == Spec => []TypeOK
<1>1. Init => TypeOK
    BY TypeInit DEF Init, TypeOK
<1>2. TypeOK /\ [Next]_vars => TypeOK'
    <2> SUFFICES ASSUME TypeOK, [Next]_vars PROVE TypeOK'
        OBVIOUS
    <2>1. Types /\ Types'
        BY TypeStep DEF TypeOK
    <2>2. CASE UNCHANGED vars
        BY <2>1, <2>2 DEF TypeOK, vars
    <2>3. CASE Track
        <3>1. Shown(moments') \subseteq Files
            BY <2>1 DEF Types, StoreTypes, Shown
        <3> QED BY <2>1, <2>3, <3>1 DEF TypeOK, Track
    <2> QED BY <2>2, <2>3 DEF Next
<1> QED BY <1>1, <1>2, PTL DEF Spec

LEMMA Typed == Spec => []Types
BY TypeInit, TypeStep, PTL DEF Spec

-----------------------------------------------------------------------------
(* Bucket and table *)

Deleting(h) == at[h] \in {"deleteObject", "deleteRecord", "cleanRecord"}

\* between the two stores a call knows how they differ, and deletes no upload under way
StoreFacts(h) ==
    /\ at[h] \in {"record", "recordGuest"} => file[h] \in stored
    /\ at[h] \in {"cleanRecord", "deleteRecord"} => file[h] \notin stored
    /\ Uploading(h) =>
           \A g \in Handlers : file[h] \notin todo[g] /\ (Deleting(g) => file[g] # file[h])

StoreInv == Types /\ StoresAgree /\ \A h \in Handlers : StoreFacts(h)

LEMMA StoreInit == Init => StoreInv
BY TypeInit DEF Init, StoreInv, StoresAgree, StoreFacts, Uploading, Deleting

LEMMA StoreServe ==
    ASSUME StoreInv, Types', NEW h \in Handlers, Arrive(h) \/ Serve(h) \/ Crash(h)
    PROVE  StoresAgree' /\ \A g \in Handlers : StoreFacts(g)'
<1> USE DEF StoreInv, Types, StoreTypes, CallTypes, CallFacts, StoresAgree, StoreFacts, Uploading,
            Deleting, BetweenStores
<1>1. CASE BeginUpload(h) \/ BeginGuestUpload(h)
    <2>1. PICK step \in {"put", "readGuest"}, f \in Files \ drawn : Begin(h, step, f)
        BY <1>1 DEF BeginUpload, BeginGuestUpload, BeginWithNewKey
    <2>2. StoresAgree'
        BY <2>1 DEF Begin
    <2>3. \A g \in Handlers : StoreFacts(g)'
        BY <2>1, LimitsAssumption DEF Begin, FileSteps, Steps
    <2> QED BY <2>2, <2>3
<1>2. CASE BeginAddMoment(h) \/ BeginUpdate(h) \/ BeginDelete(h)
    <2>1. PICK step \in {"readOwner", "readUpdate", "findRow"}, f \in drawn \cup {Nil} :
              Begin(h, step, f)
        BY <1>2 DEF BeginAddMoment, BeginUpdate, BeginDelete
    <2>2. StoresAgree'
        BY <2>1 DEF Begin
    <2>3. \A g \in Handlers : StoreFacts(g)'
        BY <2>1 DEF Begin
    <2> QED BY <2>2, <2>3
<1>3. CASE /\ End(h) /\ UNCHANGED <<recorded, stored>>
           /\ cut' = cut \/ cut' = cut \cup {file[h]}
           /\ at[h] \in BetweenStores => file[h] \in cut'
    <2>1. StoresAgree'
        BY <1>3 DEF End
    <2>2. \A g \in Handlers : StoreFacts(g)'
        BY <1>3 DEF End
    <2> QED BY <2>1, <2>2
<1>4. CASE ReadGuest(h) \/ ReadOwner(h) \/ ReadUpdate(h) \/ Push(h) \/ Overwrite(h) \/ Crash(h)
    <2>1. CASE End(h)
        BY <1>3, <1>4, <2>1
           DEF ReadGuest, ReadOwner, ReadUpdate, Push, Overwrite, Crash
    <2>2. CASE \E step \in {"putGuest", "push", "findMedia", "overwrite"} :
                  /\ at' = [at EXCEPT ![h] = step]
                  /\ step = "putGuest" => at[h] = "readGuest"
                  /\ at[h] \in {"readGuest", "readOwner", "readUpdate"}
                  /\ UNCHANGED <<file, todo, recorded, stored, cut>>
        <3>1. StoresAgree'
            <4>1. at[h] \notin BetweenStores
                BY <2>2
            <4>2. \A k \in Handlers : at[k] \in BetweenStores => at'[k] = at[k] /\ file'[k] = file[k]
                BY <2>2, <4>1
            <4> QED BY <2>2, <4>2
        <3>2. \A g \in Handlers : StoreFacts(g)'
            BY <2>2
        <3> QED BY <3>1, <3>2
    <2> QED
        BY <1>4, <2>1, <2>2
           DEF ReadGuest, ReadOwner, ReadUpdate, Push, Overwrite, Crash, Goto
<1>5. CASE Put(h)
    <2>1. PICK step \in {"record", "recordGuest"} : Goto(h, step)
        BY <1>5 DEF Put
    <2>2. StoresAgree'
        BY <1>5, <2>1 DEF Put, Goto
    <2>3. \A g \in Handlers : StoreFacts(g)'
        BY <1>5, <2>1 DEF Put, Goto
    <2> QED BY <2>2, <2>3
<1>6. CASE Record(h)
    <2>1. CASE End(h)
        <3>1. StoresAgree'
            BY <1>6, <2>1 DEF Record, End
        <3>2. \A g \in Handlers : StoreFacts(g)'
            BY <1>6, <2>1 DEF Record, End
        <3> QED BY <3>1, <3>2
    <2>2. CASE Goto(h, "push")
        <3>1. StoresAgree'
            BY <1>6, <2>2 DEF Record, Goto
        <3>2. \A g \in Handlers : StoreFacts(g)'
            BY <1>6, <2>2 DEF Record, Goto
        <3> QED BY <3>1, <3>2
    <2> QED BY <1>6, <2>1, <2>2 DEF Record
<1>7. CASE FindMedia(h)
    <2>1. StoresAgree'
        BY <1>7 DEF FindMedia
    <2>2. \A g \in Handlers : StoreFacts(g)'
        BY <1>7 DEF FindMedia
    <2> QED BY <2>1, <2>2
<1>8. CASE CleanObject(h)
    <2>1. UNCHANGED <<recorded, cut>> /\ at[h] = "cleanObject"
        BY <1>8 DEF CleanObject
    <2>2. CASE Goto(h, "overwrite") /\ UNCHANGED stored
        <3>1. StoresAgree'
            BY <2>1, <2>2 DEF Goto
        <3>2. ASSUME NEW g \in Handlers PROVE StoreFacts(g)'
            BY <2>1, <2>2 DEF Goto
        <3> QED BY <3>1, <3>2
    <2>3. ASSUME NEW f \in todo[h], todo' = [todo EXCEPT ![h] = @ \ {f}],
                 stored' = stored \ {f}, file' = [file EXCEPT ![h] = f],
                 at' = [at EXCEPT ![h] = "cleanRecord"]
          PROVE  StoresAgree' /\ \A g \in Handlers : StoreFacts(g)'
        <3>1. StoresAgree'
            <4>1. at'[h] = "cleanRecord" /\ file'[h] = f
                BY <2>3
            <4>2. \A k \in Handlers : at[k] \in BetweenStores => at'[k] = at[k] /\ file'[k] = file[k]
                BY <2>1, <2>3
            <4>3. \A e \in Files : e # f => (e \in stored' <=> e \in stored)
                BY <2>3
            <4> QED BY <2>1, <4>1, <4>2, <4>3
        <3>2. \A g \in Handlers : StoreFacts(g)'
            BY <2>1, <2>3
        <3> QED BY <3>1, <3>2
    <2>4. ASSUME NEW f \in todo[h], todo' = [todo EXCEPT ![h] = @ \ {f}],
                 UNCHANGED <<stored, file, at>>
          PROVE  StoresAgree' /\ \A g \in Handlers : StoreFacts(g)'
        BY <2>1, <2>4
    <2> QED BY <1>8, <2>2, <2>3, <2>4 DEF CleanObject
<1>9. CASE CleanRecord(h)
    <2>1. StoresAgree'
        BY <1>9 DEF CleanRecord, Goto
    <2>2. \A g \in Handlers : StoreFacts(g)'
        BY <1>9 DEF CleanRecord, Goto
    <2> QED BY <2>1, <2>2
<1>10. CASE FindRow(h)
    <2>1. CASE Goto(h, "deleteObject") /\ file[h] \in recorded
        <3>1. StoresAgree'
            BY <1>10, <2>1 DEF FindRow, Goto
        <3>2. ASSUME NEW g \in Handlers PROVE StoreFacts(g)'
            <4>1. g # h => at'[g] = at[g]
                BY <2>1 DEF Goto
            <4> QED BY <1>10, <2>1, <4>1 DEF FindRow, Goto
        <3> QED BY <3>1, <3>2
    <2> QED BY <1>3, <1>10, <2>1 DEF FindRow
<1>11. CASE DeleteObject(h)
    <2>1. CASE stored' = stored \ {file[h]} /\ Goto(h, "deleteRecord")
        <3>1. StoresAgree'
            BY <1>11, <2>1 DEF DeleteObject, Goto
        <3>2. \A g \in Handlers : StoreFacts(g)'
            BY <1>11, <2>1 DEF DeleteObject, Goto
        <3> QED BY <3>1, <3>2
    <2> QED BY <1>3, <1>11, <2>1 DEF DeleteObject
<1>12. CASE DeleteRecord(h)
    <2>1. StoresAgree'
        BY <1>12 DEF DeleteRecord, End
    <2>2. \A g \in Handlers : StoreFacts(g)'
        BY <1>12 DEF DeleteRecord, End
    <2> QED BY <2>1, <2>2
<1> QED
    BY <1>1, <1>2, <1>4, <1>5, <1>6, <1>7, <1>8, <1>9, <1>10, <1>11, <1>12 DEF Arrive, Serve

(* A file is in the bucket and in the table, or in neither, unless a call   *)
(* is between the two or was cut off there: deletions go bucket first, and  *)
(* nobody deletes what is still being uploaded.                             *)
THEOREM BucketAndTable == Spec => []StoresAgree
<1>1. StoreInv /\ [Next]_vars => StoreInv'
    <2> SUFFICES ASSUME StoreInv, [Next]_vars PROVE StoreInv'
        OBVIOUS
    <2>1. Types'
        BY TypeStep DEF StoreInv
    <2>2. CASE UNCHANGED vars
        BY <2>1, <2>2 DEF StoreInv, StoresAgree, StoreFacts, Uploading, Deleting, BetweenStores, vars
    <2> QED BY <2>1, <2>2, StoreServe DEF StoreInv, Next
<1>2. StoreInv => StoresAgree
    BY DEF StoreInv
<1> QED BY StoreInit, <1>1, <1>2, PTL DEF Spec

-----------------------------------------------------------------------------
(* The limit *)

Pushers == {h \in Handlers : Pushing(h)}

LEMMA PushersFinite ==
    /\ Cardinality(Handlers) \in Nat
    /\ \A S \in SUBSET Handlers : /\ IsFiniteSet(S) /\ Cardinality(S) \in Nat
                                  /\ Cardinality(S) <= Cardinality(Handlers)
                                  /\ \A h \in S : Cardinality(S \ {h}) = Cardinality(S) - 1
    /\ \A h \in Handlers : \A S \in SUBSET (Handlers \ {h}) :
           Cardinality(S) <= Cardinality(Handlers) - 1
<1>1. IsFiniteSet(Handlers)
    BY LimitsAssumption
<1>2. \A S \in SUBSET Handlers : /\ IsFiniteSet(S) /\ Cardinality(S) \in Nat
                                /\ Cardinality(S) <= Cardinality(Handlers)
    BY <1>1, FS_Subset, FS_CardinalityType
<1>3. \A S \in SUBSET Handlers : \A h \in S : Cardinality(S \ {h}) = Cardinality(S) - 1
    BY <1>2, FS_RemoveElement
<1>4. ASSUME NEW h \in Handlers, NEW S \in SUBSET (Handlers \ {h})
      PROVE  Cardinality(S) <= Cardinality(Handlers) - 1
    <2>1. Cardinality(Handlers \ {h}) = Cardinality(Handlers) - 1
        BY <1>3
    <2>2. IsFiniteSet(Handlers \ {h})
        BY <1>2
    <2> QED BY <2>1, <2>2, FS_Subset
<1> QED BY <1>1, <1>2, <1>3, <1>4, FS_CardinalityType

(* What one step does to the list and to the calls that will lengthen it.   *)
ListStep ==
    \/ moments' = moments /\ Pushers' \subseteq Pushers
    \/ moments' = moments /\ Len(moments) < OwnerLimit
    \/ \E h \in Pushers : Len(moments') = Len(moments) + 1 /\ Pushers' \subseteq Pushers \ {h}
    \/ \E h \in Handlers : Len(moments') <= OwnerLimit /\ Pushers' \subseteq Handlers \ {h}

LEMMA ListSteps ==
    ASSUME Types, [Next]_vars
    PROVE  ListStep
<1>1. CASE UNCHANGED vars
    BY <1>1 DEF ListStep, Pushers, Pushing, vars
<1>2. ASSUME NEW h \in Handlers, Arrive(h) \/ Serve(h) \/ Crash(h) PROVE ListStep
    <2> USE DEF Types, CallTypes, Pushers, Pushing
    <2>1. CASE Push(h)
        <3>1. h \in Pushers /\ Pushers' \subseteq Pushers \ {h}
            BY <2>1 DEF Push, End
        <3>2. Len(moments') = Len(moments) + 1
            BY <2>1 DEF Push, StoreTypes
        <3> QED BY <3>1, <3>2 DEF ListStep
    <2>2. CASE Overwrite(h)
        <3>1. Pushers' \subseteq Handlers \ {h}
            BY <2>2 DEF Overwrite, End
        <3>2. Len(moments') <= OwnerLimit
            BY <2>2 DEF Overwrite, CallFacts
        <3> QED BY <3>1, <3>2 DEF ListStep
    <2>3. CASE (ReadGuest(h) \/ ReadOwner(h)) /\ ~End(h)
        <3>1. moments' = moments /\ Len(moments) < OwnerLimit
            BY <2>3, LimitsAssumption DEF ReadGuest, ReadOwner, StoreTypes
        <3> QED BY <3>1 DEF ListStep
    <2>4. CASE End(h) /\ moments' = moments
        BY <2>4 DEF ListStep, End
    <2>5. CASE Arrive(h)
        <3>1. PICK step \in {"put", "readGuest", "readOwner", "readUpdate", "findRow"} :
                  at' = [at EXCEPT ![h] = step] /\ moments' = moments
            BY <2>5 DEF Arrive, BeginUpload, BeginGuestUpload, BeginWithNewKey, BeginAddMoment,
                        BeginUpdate, BeginDelete, Begin
        <3> QED BY <3>1 DEF ListStep
    <2>6. CASE Put(h) \/ Record(h)
        BY <2>4, <2>6 DEF Put, Record, Goto, ListStep
    <2>7. CASE FindMedia(h) \/ CleanObject(h) \/ CleanRecord(h)
        BY <2>7 DEF FindMedia, CleanObject, CleanRecord, Goto, ListStep
    <2>8. CASE FindRow(h) \/ DeleteObject(h)
        BY <2>4, <2>8 DEF FindRow, DeleteObject, Goto, ListStep
    <2>9. CASE ReadUpdate(h)
        BY <2>4, <2>9 DEF ReadUpdate, ListStep
    <2>10. CASE (ReadGuest(h) \/ ReadOwner(h) \/ DeleteRecord(h) \/ Crash(h)) /\ End(h)
        BY <2>4, <2>10 DEF ReadGuest, ReadOwner, DeleteRecord, Crash
    <2> QED
        BY <1>2, <2>1, <2>2, <2>3, <2>5, <2>6, <2>7, <2>8, <2>9, <2>10 DEF Serve, DeleteRecord, Crash
<1> QED BY <1>1, <1>2 DEF Next

(* The list outgrows the limit by fewer moments than there are handlers:    *)
(* the excess comes from calls that had read it before it was full.         *)
THEOREM Overshoot == Spec => []OvershootBounded
<1>1. Init => OvershootBounded
    <2> SUFFICES ASSUME Init PROVE OvershootBounded
        OBVIOUS
    <2>1. {h \in Handlers : Pushing(h)} = {}
        BY DEF Init, Pushing
    <2>2. Cardinality({}) = 0 /\ Len(moments) = 0
        BY FS_EmptySet DEF Init
    <2> QED BY <2>1, <2>2, LimitsAssumption, PushersFinite DEF OvershootBounded
<1>2. Types /\ OvershootBounded /\ [Next]_vars => OvershootBounded'
    <2> SUFFICES ASSUME Types, Types', OvershootBounded, [Next]_vars PROVE OvershootBounded'
        BY TypeStep
    <2> DEFINE c == Cardinality(Handlers)
    <2>1. Len(moments) \in Nat /\ Len(moments') \in Nat /\ c \in Nat /\ OwnerLimit \in Nat
        BY PushersFinite, LimitsAssumption DEF Types, StoreTypes
    <2>2. /\ Cardinality(Pushers) \in Nat /\ Cardinality(Pushers') \in Nat
          /\ Cardinality(Pushers') <= c
        BY PushersFinite DEF Pushers
    <2>3. Len(moments) + Cardinality(Pushers) <= OwnerLimit + c - 1
        BY DEF OvershootBounded, Pushers
    <2>4. SUFFICES Len(moments') + Cardinality(Pushers') <= OwnerLimit + c - 1
        BY DEF OvershootBounded, Pushers
    <2>5. CASE moments' = moments /\ Pushers' \subseteq Pushers
        <3>1. Cardinality(Pushers') <= Cardinality(Pushers)
            BY <2>5, PushersFinite, FS_Subset DEF Pushers
        <3> QED BY <2>1, <2>2, <2>3, <2>5, <3>1
    <2>6. CASE moments' = moments /\ Len(moments) < OwnerLimit
        BY <2>1, <2>2, <2>6
    <2>7. ASSUME NEW h \in Pushers, Len(moments') = Len(moments) + 1,
                 Pushers' \subseteq Pushers \ {h}
          PROVE  Len(moments') + Cardinality(Pushers') <= OwnerLimit + c - 1
        <3>1. Cardinality(Pushers \ {h}) = Cardinality(Pushers) - 1
            BY PushersFinite DEF Pushers
        <3>2. IsFiniteSet(Pushers \ {h})
            BY PushersFinite DEF Pushers
        <3>3. Cardinality(Pushers') <= Cardinality(Pushers) - 1
            BY <2>7, <3>1, <3>2, FS_Subset
        <3> QED BY <2>1, <2>2, <2>3, <2>7, <3>3
    <2>8. ASSUME NEW h \in Handlers, Len(moments') <= OwnerLimit, Pushers' \subseteq Handlers \ {h}
          PROVE  Len(moments') + Cardinality(Pushers') <= OwnerLimit + c - 1
        <3>1. Cardinality(Pushers') <= c - 1
            BY <2>8, PushersFinite
        <3> QED BY <2>1, <2>2, <2>8, <3>1
    <2> QED BY <2>5, <2>6, <2>7, <2>8, ListSteps DEF ListStep
<1> QED BY <1>1, <1>2, Typed, PTL DEF Spec

-----------------------------------------------------------------------------
(* How a photo leaves the gallery *)

\* what the list has, the update will write, has put up for clean-up, or came too late to see
CleanUpFacts(h) ==
    at[h] \in CleanUpSteps => Shown(moments) \subseteq Shown(dto[h]) \cup removed[h] \cup late[h]

CleanUpInv == Types /\ \A h \in Handlers : CleanUpFacts(h)

\* what a step does to a call that is cleaning up after it
LEMMA CleanUpKept ==
    ASSUME Types, NEW h \in Handlers, Arrive(h) \/ Serve(h) \/ Crash(h),
           NEW g \in Handlers, at'[g] \in CleanUpSteps
    PROVE  \/ ReadUpdate(h) /\ g = h /\ ~End(h)
           \/ at[g] \in CleanUpSteps /\ dto'[g] = dto[g] /\ removed'[g] = removed[g]
<1> USE DEF Types, CallTypes, CleanUpSteps
<1>1. CASE g # h
    BY <1>1 DEF Arrive, BeginUpload, BeginGuestUpload, BeginWithNewKey, BeginAddMoment,
                BeginUpdate, BeginDelete, Begin, Serve, Crash, ReadGuest, Put, Record, ReadOwner,
                Push, ReadUpdate, FindMedia, CleanObject, CleanRecord, Overwrite, FindRow,
                DeleteObject, DeleteRecord, Goto, End
<1>2. CASE g = h
    <2>1. ~End(h)
        BY <1>2 DEF End
    <2>2. CASE FindMedia(h) \/ CleanObject(h) \/ CleanRecord(h)
        BY <1>2, <2>2 DEF FindMedia, CleanObject, CleanRecord, Goto
    <2>3. CASE ReadUpdate(h)
        BY <1>2, <2>1, <2>3
    <2> QED
        BY <1>2, <2>1, <2>2, <2>3
           DEF Arrive, BeginUpload, BeginGuestUpload, BeginWithNewKey, BeginAddMoment,
               BeginUpdate, BeginDelete, Begin, Serve, Crash, ReadGuest, Put, Record, ReadOwner,
               Push, Overwrite, FindRow, DeleteObject, DeleteRecord, Goto
<1> QED BY <1>1, <1>2

LEMMA CleanUpInit == Init => CleanUpInv
BY TypeInit DEF Init, CleanUpInv, CleanUpFacts, CleanUpSteps

LEMMA CleanUpStep == CleanUpInv /\ [Next]_vars => CleanUpInv'
<1> SUFFICES ASSUME CleanUpInv, [Next]_vars PROVE CleanUpInv'
    OBVIOUS
<1>1. Types'
    BY TypeStep DEF CleanUpInv
<1>2. CASE UNCHANGED vars
    BY <1>1, <1>2 DEF CleanUpInv, CleanUpFacts, vars
<1>3. ASSUME NEW h \in Handlers, Arrive(h) \/ Serve(h) \/ Crash(h), Track,
             NEW g \in Handlers, at'[g] \in CleanUpSteps
      PROVE  Shown(moments') \subseteq Shown(dto'[g]) \cup removed'[g] \cup late'[g]
    <2>1. late'[g] = late[g] \cup (Shown(moments') \ Shown(moments))
        BY <1>3 DEF Track
    <2>2. CASE ReadUpdate(h) /\ g = h /\ ~End(h)
        <3>1. moments' = moments /\ \E list \in Lists :
                  /\ dto' = [dto EXCEPT ![h] = list]
                  /\ removed' = [removed EXCEPT ![h] = Shown(moments) \ Shown(list)]
            BY <2>2 DEF ReadUpdate
        <3>2. removed'[g] = Shown(moments) \ Shown(dto'[g])
            BY <2>2, <3>1 DEF CleanUpInv, Types, CallTypes
        <3> QED BY <3>1, <3>2
    <2>3. CASE at[g] \in CleanUpSteps /\ dto'[g] = dto[g] /\ removed'[g] = removed[g]
        BY <2>1, <2>3 DEF CleanUpInv, CleanUpFacts
    <2> QED BY <1>3, <2>2, <2>3, CleanUpKept DEF CleanUpInv
<1> QED BY <1>1, <1>2, <1>3 DEF CleanUpInv, CleanUpFacts, Next

(* A photo leaves the list only by an update that has put its file through  *)
(* the clean-up or that had read the list before the photo was pushed.      *)
THEOREM LeavingTheGallery == Spec => LeavesByCleanUpOrRace
<1>1. ASSUME CleanUpInv, [Next]_vars, NEW f \in Shown(moments) \ Shown(moments')
      PROVE  \E h \in Handlers : at[h] = "overwrite" /\ f \in removed[h] \cup late[h]
    <2>1. PICK h \in Handlers : Arrive(h) \/ Serve(h) \/ Crash(h)
        BY <1>1 DEF Next, vars
    <2>2. CASE Overwrite(h)
        BY <1>1, <2>2 DEF Overwrite, CleanUpInv, CleanUpFacts, CleanUpSteps
    <2>3. CASE Push(h)
        <3>1. moments \in Seq(Files) /\ file[h] \in Files
            BY <1>1, <2>3 DEF Push, CleanUpInv, Types, StoreTypes, CallTypes, CallFacts, FileSteps,
                              Steps
        <3>2. \A i \in DOMAIN moments : i \in DOMAIN moments' /\ moments'[i] = moments[i]
            BY <2>3, <3>1 DEF Push
        <3> QED BY <1>1, <3>2 DEF Shown
    <2>4. CASE ~(Push(h) \/ Overwrite(h))
        <3>1. moments' = moments
            BY <2>1, <2>4 DEF Arrive, BeginUpload, BeginGuestUpload, BeginWithNewKey, BeginAddMoment,
                   BeginUpdate, BeginDelete, Begin, Serve, Crash, ReadGuest, Put, Record, ReadOwner,
                   ReadUpdate, FindMedia, CleanObject, CleanRecord, FindRow, DeleteObject,
                   DeleteRecord
        <3> QED BY <1>1, <3>1
    <2> QED BY <2>2, <2>3, <2>4
<1>2. CleanUpInv /\ [Next]_vars =>
          [\A f \in Shown(moments) \ Shown(moments') :
               \E h \in Handlers : at[h] = "overwrite" /\ f \in removed[h] \cup late[h]]_vars
    BY <1>1
<1> QED BY CleanUpInit, CleanUpStep, <1>2, PTL DEF Spec, LeavesByCleanUpOrRace
=============================================================================
