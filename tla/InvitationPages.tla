-------------------------- MODULE InvitationPages --------------------------
(***************************************************************************)
(* InvitationService (src/src/invitation) over the invitations table, the  *)
(* slugs of purchases and the page cache `invitations:slug:<slug>`.        *)
(*                                                                         *)
(* The page is read through the cache: a miss reads the row, then stores   *)
(* what it read.  Every writer reads the row, writes it by id and then     *)
(* deletes the cache key of the slug it had read.  Those are separate      *)
(* awaits.  A page is known by its purchase (invitations.purchase_id is    *)
(* unique), and `content` stands for all else that a read of the page      *)
(* brings: its texts, photos, flags, the visible RSVPs, which RsvpService  *)
(* writes, and the titles and the preview of the purchase's template,      *)
(* which TemplateService.update writes.                                    *)
(***************************************************************************)
EXTENDS FiniteSets

CONSTANTS Handlers,   \* calls that can be served at the same time
          Pages,      \* purchases, each with at most one invitation
          Slugs,      \* slugs that clients ask for
          Reserved,   \* slugs that a template's demo link ends with
          Contents,   \* what a page may show
          Nil, NotFound

Rows == [page : Pages, slug : Slugs, content : Contents]

ASSUME ConstantsAssumption ==
    /\ Nil # NotFound
    /\ {Nil, NotFound} \cap (Rows \cup Pages \cup Slugs) = {}

VARIABLES row,           \* row[p]: the invitation of purchase p with what it is shown with,
                         \* Nil while there is none
          purchaseSlug,  \* purchaseSlug[p]: purchases.slug, Nil for the one generated at approval
          entry,         \* entry[s]: the cache under slug s: a row, NotFound, or Nil
          at,            \* at[h]: the await handler h is about to issue
          page,          \* page[h]: the page the call is about, once it is known
          asked,         \* asked[h]: the slug looked up, asked for, or written
          seen,          \* seen[h]: the row h has read
          overtaken,     \* history, overtaken[h]: another call has written the page since h read it
          explained      \* history: pages stale in the cache for one of Track's reasons

vars == <<row, purchaseSlug, entry, at, page, asked, seen, overtaken, explained>>
actual == <<row, purchaseSlug, entry, at, page, asked, seen>>
callState == <<at, page, asked, seen>>

FindSteps == {"lookup", "readPage", "fill", "fillMissing"}
CreateSteps == {"findPurchase", "checkCreate", "insert"}
UpdateSteps == {"readUpdate", "checkUpdate", "writePurchase", "write"}
OtherWriteSteps == {"readToggle", "toggle", "readAppend", "append"}
DropSteps == {"dropSeen", "dropNew"}
Steps == FindSteps \cup CreateSteps \cup UpdateSteps \cup OtherWriteSteps \cup DropSteps

-----------------------------------------------------------------------------
Begin(h, step, p, s) ==
    /\ at[h] = "idle"
    /\ at' = [at EXCEPT ![h] = step]
    /\ page' = [page EXCEPT ![h] = p]
    /\ asked' = [asked EXCEPT ![h] = s]
    /\ UNCHANGED <<row, purchaseSlug, entry, seen>>

Goto(h, step) ==
    /\ at' = [at EXCEPT ![h] = step]
    /\ UNCHANGED <<page, asked, seen>>

End(h) ==
    /\ at' = [at EXCEPT ![h] = "idle"]
    /\ page' = [page EXCEPT ![h] = Nil]
    /\ asked' = [asked EXCEPT ![h] = Nil]
    /\ seen' = [seen EXCEPT ![h] = Nil]

Existing == {p \in Pages : row[p] # Nil}
PagesAt(s) == {p \in Existing : row[p].slug = s}

-----------------------------------------------------------------------------
(* findBySlug *)

BeginFind(h) == \E s \in Slugs : Begin(h, "lookup", Nil, s)

\* an address with too many failed look-ups is refused before the cache is read
Lookup(h) ==
    /\ at[h] = "lookup"
    /\ \/ End(h)
       \/ entry[asked[h]] = Nil /\ Goto(h, "readPage")
    /\ UNCHANGED <<row, purchaseSlug, entry>>

ReadPage(h) ==
    /\ at[h] = "readPage"
    /\ \/ \E p \in PagesAt(asked[h]) :
              /\ at' = [at EXCEPT ![h] = "fill"]
              /\ page' = [page EXCEPT ![h] = p]
              /\ seen' = [seen EXCEPT ![h] = row[p]]
              /\ UNCHANGED asked
       \/ PagesAt(asked[h]) = {} /\ Goto(h, "fillMissing")
    /\ UNCHANGED <<row, purchaseSlug, entry>>

Fill(h) ==
    /\ at[h] \in {"fill", "fillMissing"}
    /\ entry' = [entry EXCEPT ![asked[h]] = IF at[h] = "fill" THEN seen[h] ELSE NotFound]
    /\ End(h)
    /\ UNCHANGED <<row, purchaseSlug>>

-----------------------------------------------------------------------------
(* ensureSlugAvailable, create *)

SlugAvailable(s) == PagesAt(s) = {} /\ s \notin Reserved

BeginCreate(h) == \E p \in Pages, s \in Slugs : Begin(h, "findPurchase", p, s)

\* another client's purchase is refused too
FindPurchase(h) ==
    /\ at[h] = "findPurchase"
    /\ \/ End(h)
       \/ row[page[h]] = Nil /\ Goto(h, "checkCreate")
    /\ UNCHANGED <<row, purchaseSlug, entry>>

CheckCreate(h) ==
    /\ at[h] = "checkCreate"
    /\ IF SlugAvailable(asked[h]) THEN Goto(h, "insert") ELSE End(h)
    /\ UNCHANGED <<row, purchaseSlug, entry>>

\* invitations.slug and invitations.purchase_id are unique; no cache key is deleted
Insert(h) ==
    /\ at[h] = "insert"
    /\ \/ /\ row[page[h]] = Nil /\ PagesAt(asked[h]) = {}
          /\ \E c \in Contents :
                 row' = [row EXCEPT ![page[h]] =
                     [page |-> page[h], slug |-> asked[h], content |-> c]]
       \/ /\ row[page[h]] # Nil \/ PagesAt(asked[h]) # {}
          /\ UNCHANGED row
    /\ End(h)
    /\ UNCHANGED <<purchaseSlug, entry>>

-----------------------------------------------------------------------------
(* update *)

\* the dto names a slug, or not
BeginUpdate(h) ==
    \E p \in Pages, s \in Slugs \cup {Nil} : Begin(h, "readUpdate", p, s)

\* read the row and go on to step, or refuse (404, 403, a gallery limit)
ReadThen(h, step) ==
    \/ End(h)
    \/ /\ row[page[h]] # Nil
       /\ at' = [at EXCEPT ![h] = step]
       /\ seen' = [seen EXCEPT ![h] = row[page[h]]]
       /\ UNCHANGED <<page, asked>>

Renames(h) == asked[h] # Nil /\ asked[h] # row[page[h]].slug

ReadUpdate(h) ==
    /\ at[h] = "readUpdate"
    /\ ReadThen(h, IF row[page[h]] # Nil /\ Renames(h) THEN "checkUpdate" ELSE "write")
    /\ UNCHANGED <<row, purchaseSlug, entry>>

\* mutant: the purchase is not told of the new slug
CheckUpdate_KeepPurchase(h) ==
    /\ at[h] = "checkUpdate"
    /\ IF SlugAvailable(asked[h]) THEN Goto(h, "write") ELSE End(h)
    /\ UNCHANGED <<row, purchaseSlug, entry>>

\* mutant: the purchase is told before the slug is known to be free
CheckUpdate_Early(h) ==
    /\ at[h] = "checkUpdate"
    /\ purchaseSlug' = [purchaseSlug EXCEPT ![page[h]] = asked[h]]
    /\ IF SlugAvailable(asked[h]) THEN Goto(h, "write") ELSE End(h)
    /\ UNCHANGED <<row, entry>>

CheckUpdate(h) ==
    /\ at[h] = "checkUpdate"
    /\ IF SlugAvailable(asked[h]) THEN Goto(h, "writePurchase") ELSE End(h)
    /\ UNCHANGED <<row, purchaseSlug, entry>>

\* purchases.slug is unique: the update may be refused
WritePurchase(h) ==
    /\ at[h] = "writePurchase"
    /\ \/ /\ \A p \in Pages : purchaseSlug[p] = asked[h] => p = page[h]
          /\ purchaseSlug' = [purchaseSlug EXCEPT ![page[h]] = asked[h]]
          /\ Goto(h, "write")
       \/ /\ \E p \in Pages : purchaseSlug[p] = asked[h] /\ p # page[h]
          /\ End(h)
          /\ UNCHANGED purchaseSlug
    /\ UNCHANGED <<row, entry>>

\* write the row by id
Store(h, slug, content) ==
    row' = [row EXCEPT ![page[h]] = [page |-> page[h], slug |-> slug, content |-> content]]

\* mutant: the unique index is forgotten
SlugFree_NoIndex(h, s) == TRUE

SlugFree(h, s) == PagesAt(s) \subseteq {page[h]}

\* only the fields of the dto are written: the others keep their present value;
\* asked[h] becomes the slug of the row that the statement returns
Write(h) ==
    /\ at[h] = "write"
    /\ LET old == row[page[h]]
           slug == IF asked[h] = Nil THEN old.slug ELSE asked[h]
       IN \/ /\ SlugFree(h, slug)
             /\ \E c \in Contents : Store(h, slug, c)
             /\ at' = [at EXCEPT ![h] = "dropSeen"]
             /\ asked' = [asked EXCEPT ![h] = slug]
             /\ UNCHANGED <<page, seen>>
          \/ ~SlugFree(h, slug) /\ End(h) /\ UNCHANGED row
    /\ UNCHANGED <<purchaseSlug, entry>>

-----------------------------------------------------------------------------
(* toggleStatus; addMoment, guestUpload and RsvpService's writers *)

BeginToggle(h) == \E p \in Pages : Begin(h, "readToggle", p, Nil)

ReadToggle(h) ==
    /\ at[h] = "readToggle"
    /\ ReadThen(h, "toggle")
    /\ UNCHANGED <<row, purchaseSlug, entry>>

Toggle(h) ==
    /\ at[h] = "toggle"
    /\ \E c \in Contents : Store(h, row[page[h]].slug, c)
    /\ Goto(h, "dropSeen")
    /\ UNCHANGED <<purchaseSlug, entry>>

BeginAppend(h) == \E p \in Pages : Begin(h, "readAppend", p, Nil)

ReadAppend(h) ==
    /\ at[h] = "readAppend"
    /\ ReadThen(h, "append")
    /\ UNCHANGED <<row, purchaseSlug, entry>>

Append(h) ==
    /\ at[h] = "append"
    /\ \E c \in Contents : Store(h, row[page[h]].slug, c)
    /\ Goto(h, "dropSeen")
    /\ UNCHANGED <<purchaseSlug, entry>>

-----------------------------------------------------------------------------
\* TemplateService.update: the pages of the template show something else from now on,
\* and of the keys it deletes none is a page's
WriteTemplate ==
    /\ \E shown \in [Existing -> Contents] :
           row' = [p \in Pages |-> IF p \in Existing THEN [row[p] EXCEPT !.content = shown[p]]
                                  ELSE row[p]]
    /\ UNCHANGED <<purchaseSlug, entry, callState>>

-----------------------------------------------------------------------------
(* The cache key of a page that was written *)

\* mutant: a renamed page loses the key of its new slug only
DropSeen_New(h) ==
    /\ at[h] = "dropSeen"
    /\ IF asked[h] \in Slugs \ {seen[h].slug}
       THEN Goto(h, "dropNew") /\ UNCHANGED entry
       ELSE entry' = [entry EXCEPT ![seen[h].slug] = Nil] /\ End(h)
    /\ UNCHANGED <<row, purchaseSlug>>

\* update goes on to a second key if the slug it has written is not the one it had read
DropSeen(h) ==
    /\ at[h] = "dropSeen"
    /\ entry' = [entry EXCEPT ![seen[h].slug] = Nil]
    /\ IF asked[h] \in Slugs \ {seen[h].slug} THEN Goto(h, "dropNew") ELSE End(h)
    /\ UNCHANGED <<row, purchaseSlug>>

DropNew(h) ==
    /\ at[h] = "dropNew"
    /\ entry' = [entry EXCEPT ![asked[h]] = Nil]
    /\ End(h)
    /\ UNCHANGED <<row, purchaseSlug>>

\* a statement throws, or the process dies, at any await
Crash(h) ==
    /\ at[h] # "idle"
    /\ End(h)
    /\ UNCHANGED <<row, purchaseSlug, entry>>

\* mutant: that a page is missing is remembered for good
Expire_PagesOnly(s) ==
    /\ entry[s] \in Rows
    /\ entry' = [entry EXCEPT ![s] = Nil]
    /\ UNCHANGED <<row, purchaseSlug, callState>>

\* the entry's time to live (one or ten minutes) runs out
Expire(s) ==
    /\ entry[s] # Nil
    /\ entry' = [entry EXCEPT ![s] = Nil]
    /\ UNCHANGED <<row, purchaseSlug, callState>>

\* approval has given each purchase a random slug, which no client asks for
Init ==
    /\ row = [p \in Pages |-> Nil]
    /\ purchaseSlug = [p \in Pages |-> Nil]
    /\ entry = [s \in Slugs |-> Nil]
    /\ at = [h \in Handlers |-> "idle"]
    /\ page = [h \in Handlers |-> Nil]
    /\ asked = [h \in Handlers |-> Nil]
    /\ seen = [h \in Handlers |-> Nil]
    /\ explained = {}
    /\ overtaken = [h \in Handlers |-> FALSE]

Arrive(h) == BeginFind(h) \/ BeginCreate(h) \/ BeginUpdate(h) \/ BeginToggle(h) \/ BeginAppend(h)

Serve(h) ==
    \/ Lookup(h) \/ ReadPage(h) \/ Fill(h)
    \/ FindPurchase(h) \/ CheckCreate(h) \/ Insert(h)
    \/ ReadUpdate(h) \/ CheckUpdate(h) \/ WritePurchase(h) \/ Write(h)
    \/ ReadToggle(h) \/ Toggle(h) \/ ReadAppend(h) \/ Append(h)
    \/ DropSeen(h) \/ DropNew(h)

\* the cached page is the page as it now is
Current(s) == entry[s] = row[entry[s].page]

Trusting(h) == at[h] \in {"fill", "checkUpdate", "writePurchase", "write", "toggle", "append"}

\* the step writes the page while h stands still; a template matters to a fill alone
Overtakes(h) ==
    /\ at'[h] = at[h]
    /\ at' # at \/ at[h] = "fill"
    /\ row'[page[h]] # row[page[h]] \/ purchaseSlug'[page[h]] # purchaseSlug[page[h]]

\* the call stores in the cache, or in the table, something about the page it has read
ActsOnRead(h) ==
    \/ at[h] = "fill" /\ Fill(h)
    \/ at[h] \in {"write", "toggle", "append"} /\ at'[h] = "dropSeen"

StalePages ==
    {p \in Pages : \E s \in Slugs : entry[s] \in Rows /\ entry[s].page = p /\ ~Current(s)}

\* bookkeeping of the history variables, which no action reads: a page may be stale because
\* of a call that acts on what it has read and was overtaken, and for what the step brings
Track(pages) ==
    /\ overtaken' = [h \in Handlers |->
                         Trusting(h)' /\ (overtaken[h] \/ (Trusting(h) /\ Overtakes(h)))]
    /\ explained' = (explained \cup pages
                       \cup {page[h] : h \in {g \in Handlers : overtaken[g] /\ ActsOnRead(g)}})
                        \cap StalePages'

\* pages whose invalidation is lost if h is cut off
Undropped(h) == IF at[h] \in DropSteps THEN {page[h]} ELSE {}

Next ==
    \/ \E h \in Handlers : (Arrive(h) \/ Serve(h)) /\ Track({})
    \/ \E h \in Handlers : Crash(h) /\ Track(Undropped(h))
    \/ WriteTemplate /\ Track({p \in Existing : row'[p] # row[p]})
    \/ \E s \in Slugs : Expire(s) /\ Track({})

Spec == Init /\ [][Next]_vars

\* the event loop resumes every pending await, and the cache drops what has expired
FairSpec ==
    /\ Spec
    /\ \A h \in Handlers : WF_actual(Serve(h))
    /\ \A s \in Slugs : WF_actual(Expire(s))

-----------------------------------------------------------------------------
RowTypes ==
    /\ row \in [Pages -> Rows \cup {Nil}]
    /\ purchaseSlug \in [Pages -> Slugs \cup {Nil}]
    /\ entry \in [Slugs -> Rows \cup {Nil, NotFound}]
    /\ \A p \in Existing : row[p].page = p

CallTypes ==
    /\ at \in [Handlers -> Steps \cup {"idle"}]
    /\ page \in [Handlers -> Pages \cup {Nil}]
    /\ asked \in [Handlers -> Slugs \cup {Nil}]
    /\ seen \in [Handlers -> Rows \cup {Nil}]

RowSteps == {"checkUpdate", "writePurchase", "write", "toggle", "append"} \cup DropSteps

\* what a handler has learnt by the time it stands at a step
CallFacts(h) ==
    /\ at[h] = "idle" => page[h] = Nil
    /\ at[h] \in FindSteps \cup CreateSteps \cup {"checkUpdate", "writePurchase", "dropNew"} =>
           asked[h] \in Slugs
    /\ at[h] \in FindSteps \ {"fill"} <=> at[h] # "idle" /\ page[h] = Nil
    /\ at[h] \in RowSteps => row[page[h]] # Nil
    /\ at[h] \in RowSteps \cup {"fill"} => seen[h] \in Rows /\ seen[h].page = page[h]
    /\ at[h] = "fill" => seen[h].slug = asked[h]

Types == RowTypes /\ CallTypes /\ \A h \in Handlers : CallFacts(h)

(* Every variable stays within its type; a call that is about to write, or  *)
(* to delete a key, is about a page that exists and that it has read.       *)
TypeOK == Types /\ overtaken \in [Handlers -> BOOLEAN] /\ explained \subseteq StalePages

(* A slug names one page, and what is cached under a slug had that slug,    *)
(* although the slug is checked, written and invalidated in separate awaits.*)
SlugNamesOnePage ==
    /\ \A p, q \in Existing : row[p].slug = row[q].slug => p = q
    /\ \A p, q \in Pages : purchaseSlug[p] = purchaseSlug[q] /\ purchaseSlug[p] # Nil => p = q
    /\ \A s \in Slugs : entry[s] \in Rows => entry[s].slug = s

Invalidating(h, p) == at[h] \in DropSteps /\ page[h] = p

(* rsvp.service.ts:106 "Invalidate the invitation slug cache so guestbook   *)
(* updates instantly", and each writer of the page: what the cache shows is *)
(* the page as it is, unless a writer is still to delete it, was cut off    *)
(* before, or the page was filled or written by a call that another writer  *)
(* had overtaken since it read it, or its template was written, which       *)
(* deletes templates' keys only (template.service.ts:120).                  *)
StaleOnlyIfRaced ==
    \A s \in Slugs : entry[s] \in Rows =>
        \/ Current(s)
        \/ entry[s].page \in explained
        \/ \E h \in Handlers : Invalidating(h, entry[s].page)

(* invitation.service.ts:178: a renamed invitation takes its purchase       *)
(* along, unless the page or its purchase was written by another call       *)
(* between the update's read and its write.                                 *)
PurchaseSlugFollows ==
    [][\A p \in Pages :
           row[p] # Nil /\ row'[p] # row[p] /\ row'[p].slug # row[p].slug =>
               \/ purchaseSlug'[p] = row'[p].slug
               \/ \E h \in Handlers : at[h] = "write" /\ page[h] = p /\ overtaken[h]]_vars

\* page and purchase have one slug, or a rename that has told the purchase is to bring it
InStep(p) ==
    /\ row[p] # Nil /\ purchaseSlug[p] # Nil
    /\ \/ purchaseSlug[p] = row[p].slug
       \/ \E h \in Handlers : at[h] = "write" /\ page[h] = p /\ asked[h] = purchaseSlug[p]

(* invitation.service.ts:178 "Also update slug in purchase record": a page  *)
(* and its purchase that have come into step stay so, renamed or not, until *)
(* a rename is refused or cut off after it has told the purchase, or writes *)
(* the page although another call has written one of them since its read.   *)
StaysInStep ==
    [][\A p \in Pages :
           InStep(p) /\ ~InStep(p)' =>
               \E h \in Handlers :
                   /\ at[h] = "write" /\ page[h] = p
                   /\ at'[h] = "idle" \/ (overtaken[h] /\ at'[h] # "write")]_vars

\* no page is shown that is not there, and none hidden that is
Fresh(s) ==
    /\ entry[s] = NotFound => PagesAt(s) = {}
    /\ entry[s] \in Rows => Current(s)

(* Once the pages and their templates stop changing, guests come to see     *)
(* them as they are and keep doing so: a late fill, a missed invalidation   *)
(* or one that nobody makes is not for ever.                                *)
GuestsCatchUp == <>[][UNCHANGED row]_row => <>[](\A s \in Slugs : Fresh(s))
=============================================================================
