------------------------------ MODULE Showcase ------------------------------
(***************************************************************************)
(* What visitors of the site are shown: TemplateService (src/src/template) *)
(* and TestimonialService (src/src/testimonial), two tables read through   *)
(* one cache.  A reader looks a key up, queries the tables on a miss, and  *)
(* stores what it found.  A writer looks a row up, writes it by id, and    *)
(* deletes the keys of its table one after the other.  The list of reviews *)
(* also shows the template's title, whose writer does not delete its key;  *)
(* the title stands for the client's name and the title of the event as    *)
(* well, which other services write without deleting it either.            *)
(***************************************************************************)
EXTENDS Naturals

CONSTANTS Handlers,   \* calls that can be served at the same time
          Templates,  \* templates that can be created
          Titles,     \* what a template shows: title, images, price, fields
          Purchases,  \* each with at most one review
          Comments,   \* what a client can write: rating and comment
          Bought,     \* Bought[p]: the template that purchase p is of
          Notice,     \* "Your review has been deleted by an admin."
          Asked,      \* the keys that are read: all of them, or a few
          Nil

Lists == {"all", "active", "reviews"}
Keys == Lists \cup Templates

TemplateRows == [title : Titles, active : BOOLEAN]
ReviewRows == [comment : Comments \cup {Notice}, removed : BOOLEAN]
Posts == [comment : Comments \cup {Notice}, title : Titles]

\* what can be cached: a list of templates, of reviews, or one template
Values == [Templates -> TemplateRows \cup {Nil}] \cup [Purchases -> Posts \cup {Nil}]
              \cup TemplateRows

\* a list of reviews without what it shows of other tables
OwnPosts == [Purchases -> Comments \cup {Notice, Nil}]

ASSUME ConstantsAssumption ==
    /\ Templates \cap Lists = {}
    /\ Bought \in [Purchases -> Templates]
    /\ Notice \notin Comments
    /\ Asked \subseteq Keys
    /\ Nil \notin OwnPosts
    /\ Nil \notin Values \cup TemplateRows \cup ReviewRows \cup Posts \cup Templates \cup Keys

VARIABLES template,  \* template[t]: the row, Nil while there is none
          review,    \* review[p]: the row of purchase p, Nil while there is none
          entry,     \* entry[k]: what is cached under key k, Nil if nothing
          at,        \* at[h]: the await handler h is about to issue
          key,       \* key[h]: the key a reader asks for, or a writer deletes last
          target,    \* target[h]: the template or purchase a writer is about
          seen,      \* seen[h]: what a reader has queried
          overtaken, \* history, overtaken[h]: what h has read is no longer so
          excused    \* history: keys left stale by a crash or an overtaken reader

actual == <<template, review, entry, at, key, target, seen>>
vars == <<actual, overtaken, excused>>
tables == <<template, review>>
callState == <<at, key, target, seen>>

ReadSteps == {"lookup", "query", "fill"}
TemplateSteps == {"insert", "readTemplate", "write"}
ReviewSteps == {"findReview", "upsert", "readReview", "remove"}
DropSteps == {"dropAll", "dropActive", "dropOne", "dropReviews"}
Steps == ReadSteps \cup TemplateSteps \cup ReviewSteps \cup DropSteps

-----------------------------------------------------------------------------
Goto(h, step) == at' = [at EXCEPT ![h] = step] /\ UNCHANGED <<key, target, seen>>

End(h) ==
    /\ at' = [at EXCEPT ![h] = "idle"]
    /\ key' = [key EXCEPT ![h] = Nil]
    /\ target' = [target EXCEPT ![h] = Nil]
    /\ seen' = [seen EXCEPT ![h] = Nil]

Begin(h, step, k, x) ==
    /\ at[h] = "idle"
    /\ at' = [at EXCEPT ![h] = step]
    /\ key' = [key EXCEPT ![h] = k]
    /\ target' = [target EXCEPT ![h] = x]
    /\ UNCHANGED <<tables, entry, seen>>

-----------------------------------------------------------------------------
(* findAll and findOne of both services *)

\* the lists of templates: with the inactive ones, and without
ActiveTemplates ==
    [t \in Templates |->
        IF template[t] # Nil /\ template[t].active THEN template[t] ELSE Nil]

Shown(p) == review[p] # Nil /\ ~review[p].removed

Posted ==
    [p \in Purchases |->
        IF Shown(p) THEN [comment |-> review[p].comment, title |-> template[Bought[p]].title]
                    ELSE Nil]

\* what the tables answer for a key now
View(k) ==
    CASE k = "all"     -> template
      [] k = "active"  -> ActiveTemplates
      [] k = "reviews" -> Posted
      [] OTHER         -> template[k]

BeginRead(h) == \E k \in Asked : Begin(h, "lookup", k, Nil)

Lookup(h) ==
    /\ at[h] = "lookup"
    /\ IF entry[key[h]] = Nil THEN Goto(h, "query") ELSE End(h)
    /\ UNCHANGED <<tables, entry>>

\* a list may be empty; a template that is not there is answered 404
Query(h) ==
    /\ at[h] = "query"
    /\ IF View(key[h]) = Nil
       THEN End(h)
       ELSE /\ seen' = [seen EXCEPT ![h] = View(key[h])]
            /\ at' = [at EXCEPT ![h] = "fill"]
            /\ UNCHANGED <<key, target>>
    /\ UNCHANGED <<tables, entry>>

Fill(h) ==
    /\ at[h] = "fill"
    /\ entry' = [entry EXCEPT ![key[h]] = seen[h]]
    /\ End(h)
    /\ UNCHANGED tables

-----------------------------------------------------------------------------
(* TemplateService.create and update *)

BeginCreate(h) ==
    \E t \in Templates :
        /\ template[t] = Nil
        /\ \A g \in Handlers : at[g] = "insert" => target[g] # t   \* a fresh id
        /\ Begin(h, "insert", Nil, t)

Insert(h) ==
    /\ at[h] = "insert"
    /\ \E c \in Titles :
           template' = [template EXCEPT ![target[h]] = [title |-> c, active |-> TRUE]]
    /\ Goto(h, "dropAll")
    /\ UNCHANGED <<review, entry>>

\* any id may be asked for; its own key is deleted last
BeginUpdate(h) == \E t \in Templates : Begin(h, "readTemplate", t, t)

ReadTemplate(h) ==
    /\ at[h] = "readTemplate"
    /\ IF template[target[h]] = Nil THEN End(h) ELSE Goto(h, "write")
    /\ UNCHANGED <<tables, entry>>

\* a field that the dto leaves out keeps its present value
Write(h) ==
    /\ at[h] = "write"
    /\ \E r \in TemplateRows : template' = [template EXCEPT ![target[h]] = r]
    /\ Goto(h, "dropAll")
    /\ UNCHANGED <<review, entry>>

-----------------------------------------------------------------------------
(* TestimonialService.createOrUpdate and remove *)

\* the client's own purchase; there is one only of a template that exists
BeginReview(h) ==
    \E p \in Purchases : template[Bought[p]] # Nil /\ Begin(h, "findReview", Nil, p)

\* mutant: whether the review was removed is not looked at
FindReview_Blind(h) ==
    /\ at[h] = "findReview"
    /\ Goto(h, "upsert")
    /\ UNCHANGED <<tables, entry>>

\* a removed review is refused
FindReview(h) ==
    /\ at[h] = "findReview"
    /\ IF review[target[h]] # Nil /\ review[target[h]].removed
       THEN End(h)
       ELSE Goto(h, "upsert")
    /\ UNCHANGED <<tables, entry>>

\* the update part names rating and comment only, so is_deleted stays as it is by now
Upsert(h) ==
    /\ at[h] = "upsert"
    /\ \E c \in Comments :
           review' = [review EXCEPT ![target[h]] =
               [comment |-> c, removed |-> IF @ = Nil THEN FALSE ELSE @.removed]]
    /\ Goto(h, "dropReviews")
    /\ UNCHANGED <<template, entry>>

BeginRemove(h) == \E p \in Purchases : Begin(h, "readReview", Nil, p)

ReadReview(h) ==
    /\ at[h] = "readReview"
    /\ IF review[target[h]] = Nil THEN End(h) ELSE Goto(h, "remove")
    /\ UNCHANGED <<tables, entry>>

Remove(h) ==
    /\ at[h] = "remove"
    /\ review' = [review EXCEPT ![target[h]] = [comment |-> Notice, removed |-> TRUE]]
    /\ Goto(h, "dropReviews")
    /\ UNCHANGED <<template, entry>>

-----------------------------------------------------------------------------
(* The deletions: both lists, then the key of an updated template; or the reviews. *)

Dropped(h) ==
    CASE at[h] = "dropAll"     -> "all"
      [] at[h] = "dropActive"  -> "active"
      [] at[h] = "dropReviews" -> "reviews"
      [] OTHER                 -> key[h]

\* mutant: update deletes the keys that create deletes
GoOn_AsCreate(h) ==
    IF at[h] = "dropAll" THEN Goto(h, "dropActive") ELSE End(h)

GoOn(h) ==
    CASE at[h] = "dropAll"                      -> Goto(h, "dropActive")
      [] at[h] = "dropActive" /\ key[h] # Nil   -> Goto(h, "dropOne")
      [] OTHER                                  -> End(h)

Drop(h) ==
    /\ at[h] \in DropSteps
    /\ entry' = [entry EXCEPT ![Dropped(h)] = Nil]
    /\ GoOn(h)
    /\ UNCHANGED tables

\* a statement throws, or the process dies, at any await
Crash(h) ==
    /\ at[h] # "idle"
    /\ End(h)
    /\ UNCHANGED <<tables, entry>>

\* mutant: the reviews are cached for good
Expire_NotReviews(k) ==
    /\ entry[k] # Nil /\ k # "reviews"
    /\ entry' = [entry EXCEPT ![k] = Nil]
    /\ UNCHANGED <<tables, callState>>

\* the entry's time to live, an hour or half of one, runs out
Expire(k) ==
    /\ entry[k] # Nil
    /\ entry' = [entry EXCEPT ![k] = Nil]
    /\ UNCHANGED <<tables, callState>>

Init ==
    /\ template = [t \in Templates |-> Nil]
    /\ review = [p \in Purchases |-> Nil]
    /\ entry = [k \in Keys |-> Nil]
    /\ at = [h \in Handlers |-> "idle"]
    /\ key = [h \in Handlers |-> Nil]
    /\ target = [h \in Handlers |-> Nil]
    /\ seen = [h \in Handlers |-> Nil]
    /\ overtaken = [h \in Handlers |-> FALSE]
    /\ excused = {}

Arrive(h) ==
    BeginRead(h) \/ BeginCreate(h) \/ BeginUpdate(h) \/ BeginReview(h) \/ BeginRemove(h)

Serve(h) ==
    \/ Lookup(h) \/ Query(h) \/ Fill(h)
    \/ Insert(h) \/ ReadTemplate(h) \/ Write(h)
    \/ FindReview(h) \/ Upsert(h) \/ ReadReview(h) \/ Remove(h)
    \/ Drop(h)

-----------------------------------------------------------------------------
(* The histories *)

\* v shows for key k what the tables do, but for what reviews borrow from elsewhere
SamePost(v, w) == (v = Nil <=> w = Nil) /\ (v # Nil => v.comment = w.comment)

Matches(k, v) ==
    IF k = "reviews" THEN \A p \in Purchases : SamePost(v[p], Posted[p]) ELSE v = View(k)

StaleKeys == {k \in Keys : entry[k] # Nil /\ ~Matches(k, entry[k])}

\* the keys a writer has still to delete
Pending(h) ==
    CASE at[h] = "dropAll"     -> {"all", "active", key[h]} \ {Nil}
      [] at[h] = "dropActive"  -> {"active", key[h]} \ {Nil}
      [] at[h] = "dropOne"     -> {key[h]}
      [] at[h] = "dropReviews" -> {"reviews"}
      [] OTHER                 -> {}

Overtakes(h) ==
    /\ at'[h] = at[h]
    /\ \/ at[h] = "fill" /\ ~Matches(key[h], seen[h])'
       \/ at[h] = "upsert" /\ review'[target[h]] # review[target[h]]

\* what an interrupted writer leaves, or a reader that stores what was overtaken
ExcusedBy(h) ==
    {k \in Pending(h) : Crash(h)} \cup {k \in {key[h]} : overtaken[h] /\ Fill(h)}

Track ==
    /\ overtaken' = [h \in Handlers |->
           at'[h] \in {"fill", "upsert"} /\ (overtaken[h] \/ Overtakes(h))]
    /\ excused' = (excused \cup UNION {ExcusedBy(h) : h \in Handlers}) \cap StaleKeys'

Next ==
    /\ \/ \E h \in Handlers : Arrive(h) \/ Serve(h) \/ Crash(h)
       \/ \E k \in Keys : Expire(k)
    /\ Track

Spec == Init /\ [][Next]_vars

\* the event loop resumes every pending await, and the cache drops what has expired
FairSpec ==
    /\ Spec
    /\ \A h \in Handlers : WF_actual(Serve(h))
    /\ \A k \in Keys : WF_actual(Expire(k))

-----------------------------------------------------------------------------
RowTypes ==
    /\ template \in [Templates -> TemplateRows \cup {Nil}]
    /\ review \in [Purchases -> ReviewRows \cup {Nil}]
    /\ entry \in [Keys -> Values \cup {Nil}]
    /\ \A p \in Purchases : review[p] # Nil => template[Bought[p]] # Nil
    /\ \A t \in Templates : entry[t] # Nil => template[t] # Nil

CallTypes ==
    /\ at \in [Handlers -> Steps \cup {"idle"}]
    /\ key \in [Handlers -> Keys \cup {Nil}]
    /\ target \in [Handlers -> Templates \cup Purchases \cup {Nil}]
    /\ seen \in [Handlers -> Values \cup {Nil}]

\* what a handler has learnt by the time it stands at a step
CallFacts(h) ==
    /\ at[h] \in ReadSteps => key[h] \in Keys
    /\ at[h] = "fill" => seen[h] \in Values
    /\ at[h] = "fill" /\ key[h] \in Templates => template[key[h]] # Nil
    /\ at[h] \in TemplateSteps => target[h] \in Templates
    /\ at[h] = "insert" => key[h] = Nil
    /\ at[h] \in {"readTemplate", "write"} => key[h] = target[h]
    /\ at[h] = "write" => template[target[h]] # Nil
    /\ at[h] \in ReviewSteps => target[h] \in Purchases
    /\ at[h] \in {"findReview", "upsert"} => template[Bought[target[h]]] # Nil
    /\ at[h] = "remove" => review[target[h]] # Nil
    /\ at[h] \in {"dropAll", "dropActive"} => key[h] \in Templates \cup {Nil}
    /\ at[h] = "dropOne" => key[h] \in Templates

CodeOK == RowTypes /\ CallTypes /\ \A h \in Handlers : CallFacts(h)

(* Every variable stays within its type; only what exists is cached, shown, *)
(* updated or removed.                                                      *)
TypeOK == CodeOK /\ overtaken \in [Handlers -> BOOLEAN] /\ excused \subseteq StaleKeys

(* What visitors are shown is what the tables hold, but for what a review   *)
(* borrows, unless a writer is still to delete the key, was cut off before, *)
(* or a reader stored what a writer had overtaken.  A removed review, or a  *)
(* template taken off the list, stays on show for no other reason.          *)
StaleOnlyIfRaced ==
    \A k \in StaleKeys : k \in excused \/ \E h \in Handlers : k \in Pending(h)

(* testimonial.service.ts:44 "This review was deleted by an admin and       *)
(* cannot be recreated": a removed review stays removed, and its text is    *)
(* written again only by a client's call that had found it not yet removed. *)
RemovalIsFinal ==
    [][\A p \in Purchases : review[p] # Nil /\ review[p].removed =>
           /\ review'[p].removed
           /\ review'[p].comment \notin {review[p].comment, Notice} =>
                  \E h \in Handlers : at[h] = "upsert" /\ target[h] = p /\ overtaken[h]]_vars

(* Once templates and reviews stop changing, visitors come to see them as   *)
(* they are, what the reviews borrow included, and keep doing so.           *)
VisitorsCatchUp ==
    <>[][UNCHANGED tables]_tables =>
        <>[](\A k \in Keys : entry[k] # Nil => entry[k] = View(k))

-----------------------------------------------------------------------------
(* Where the two tables and their cache stand in ReadThroughCache: of the   *)
(* list of reviews, without what it borrows from elsewhere.                 *)
Own(k, v) ==
    IF k = "reviews" /\ v # Nil
    THEN [p \in Purchases |-> IF v[p] = Nil THEN Nil ELSE v[p].comment]
    ELSE v

Cache == INSTANCE ReadThroughCache WITH
    Clients <- Handlers,
    Values <- OwnPosts \cup Values,
    source <- [k \in Keys |-> Own(k, View(k))],
    entry <- [k \in Keys |-> Own(k, entry[k])],
    asked <- [h \in Handlers |-> IF at[h] = "fill" THEN key[h] ELSE Nil],
    held <- [h \in Handlers |-> IF at[h] = "fill" THEN Own(key[h], seen[h]) ELSE Nil],
    owed <- [h \in Handlers |-> Pending(h)]

(* The services implement ReadThroughCache: only readers fill the cache,    *)
(* each with what it queried since it began, and whoever changes what a key *)
(* shows of the tables' own goes on to delete it or is cut off: an update   *)
(* of a template three keys, a creation two, a review or its removal one.   *)
CacheSpec == Cache!Spec
=============================================================================
