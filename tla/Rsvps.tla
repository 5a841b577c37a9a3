------------------------------- MODULE Rsvps -------------------------------
(***************************************************************************)
(* The answers of the guests of one invitation: RsvpService.create,        *)
(* toggleHide and softDelete (src/src/rsvp) over the rows of rsvps and the *)
(* idempotency locks in the cache.  Each of the three reads, decides and   *)
(* writes in statements of their own, and no index makes a guest's name    *)
(* unique.  A lock is taken before the work and released by its lifetime   *)
(* only, whatever becomes of the call.  What a handler looks at that is    *)
(* not kept here (the rate limit, the text of the message, the caller's    *)
(* rights) can make it give up wherever it is looked at; the deletion of   *)
(* the page from the cache is in InvitationPages.                          *)
(***************************************************************************)
EXTENDS Naturals

CONSTANTS Handlers,  \* calls that can be served at the same time
          Rows,      \* ids of the rows that can come to exist
          Typed,     \* names as a guest types them
          Trim(_),   \* String.prototype.trim
          Headers,   \* values of x-idempotency-key
          Nil

Names == {Trim(t) : t \in Typed}
Answers == {"YES", "NO"}

\* idempotency:payload:<hash of name and answer>, or idempotency:header:<key>
Keys == (Names \X Answers) \cup Headers

\* what GuestAnswers, which instantiates this module, assumes of Nil
NilAssumption == Nil \notin Rows /\ Nil \notin Names /\ Nil \notin Keys

VARIABLES guest,      \* guest[r]: the name in row r, Nil while there is no such row
          hidden,     \* rows with isHidden
          deleted,    \* rows with isDeleted
          locks,      \* idempotency keys in the cache
          at,         \* at[h]: the await handler h is about to issue
          name,       \* name[h]: the trimmed name a submission is about
          key,        \* key[h]: its idempotency key
          row,        \* row[h]: the row a toggle or a deletion is about
          seen,       \* seen[h]: the isHidden that a toggle has read
          overtaken   \* history, overtaken[h]: what h has read is no longer so

table == <<guest, hidden, deleted>>
callState == <<at, name, key, row, seen>>
vars == <<guest, hidden, deleted, locks, at, name, key, row, seen, overtaken>>

Steps == {"readLock", "setLock", "findInvitation", "findDuplicate", "insert",
          "readToggle", "flip", "readDelete", "delete"}

Recorded == {r \in Rows : guest[r] # Nil}
NamesIn(rows) == {rows[r] : r \in Rows} \ {Nil}

-----------------------------------------------------------------------------
Goto(h, step) == at' = [at EXCEPT ![h] = step] /\ UNCHANGED <<name, key, row, seen>>

End(h) ==
    /\ at' = [at EXCEPT ![h] = "idle"]
    /\ name' = [name EXCEPT ![h] = Nil]
    /\ key' = [key EXCEPT ![h] = Nil]
    /\ row' = [row EXCEPT ![h] = Nil]
    /\ seen' = [seen EXCEPT ![h] = FALSE]

BeginOn(h, step, r) ==
    /\ at[h] = "idle"
    /\ at' = [at EXCEPT ![h] = step]
    /\ row' = [row EXCEPT ![h] = r]
    /\ UNCHANGED <<table, locks, name, key, seen>>

-----------------------------------------------------------------------------
(* create *)

BeginCreate(h) ==
    /\ at[h] = "idle"
    /\ \E t \in Typed, answer \in Answers, header \in Headers \cup {Nil} :
           /\ name' = [name EXCEPT ![h] = Trim(t)]
           /\ key' = [key EXCEPT ![h] = IF header # Nil THEN header ELSE <<Trim(t), answer>>]
    /\ at' = [at EXCEPT ![h] = "readLock"]
    /\ UNCHANGED <<table, locks, row, seen>>

\* mutant: the lock is set and never looked at
ReadLock_Blind(h) ==
    /\ at[h] = "readLock"
    /\ End(h) \/ Goto(h, "setLock")
    /\ UNCHANGED <<table, locks>>

\* the rate limit may refuse the call before the lock is looked at
ReadLock(h) ==
    /\ at[h] = "readLock"
    /\ End(h) \/ (key[h] \notin locks /\ Goto(h, "setLock"))
    /\ UNCHANGED <<table, locks>>

\* the message is looked at once the lock is set, and may be refused as spam
SetLock(h) ==
    /\ at[h] = "setLock"
    /\ locks' = locks \cup {key[h]}
    /\ End(h) \/ Goto(h, "findInvitation")
    /\ UNCHANGED table

FindInvitation(h) ==
    /\ at[h] = "findInvitation"
    /\ End(h) \/ Goto(h, "findDuplicate")
    /\ UNCHANGED <<table, locks>>

\* mutant: an answer that the owner has deleted does not count
FindDuplicate_SkipDeleted(h) ==
    /\ at[h] = "findDuplicate"
    /\ IF \E r \in Recorded \ deleted : guest[r] = name[h] THEN End(h) ELSE Goto(h, "insert")
    /\ UNCHANGED <<table, locks>>

\* findFirst looks at hidden and deleted answers too
FindDuplicate(h) ==
    /\ at[h] = "findDuplicate"
    /\ IF name[h] \in NamesIn(guest) THEN End(h) ELSE Goto(h, "insert")
    /\ UNCHANGED <<table, locks>>

Insert(h) ==
    /\ at[h] = "insert"
    /\ \E r \in Rows \ Recorded : guest' = [guest EXCEPT ![r] = name[h]]
    /\ End(h)
    /\ UNCHANGED <<hidden, deleted, locks>>

-----------------------------------------------------------------------------
(* toggleHide, softDelete *)

BeginToggle(h) == \E r \in Rows : BeginOn(h, "readToggle", r)
BeginDelete(h) == \E r \in Rows : BeginOn(h, "readDelete", r)

ReadToggle(h) ==
    /\ at[h] = "readToggle"
    /\ \/ End(h)
       \/ /\ row[h] \in Recorded
          /\ seen' = [seen EXCEPT ![h] = row[h] \in hidden]
          /\ at' = [at EXCEPT ![h] = "flip"]
          /\ UNCHANGED <<name, key, row>>
    /\ UNCHANGED <<table, locks>>

\* mutant: isHidden is set, not inverted
Flip_Hide(h) ==
    /\ at[h] = "flip"
    /\ hidden' = hidden \cup {row[h]}
    /\ End(h)
    /\ UNCHANGED <<guest, deleted, locks>>

Flip(h) ==
    /\ at[h] = "flip"
    /\ hidden' = IF seen[h] THEN hidden \ {row[h]} ELSE hidden \cup {row[h]}
    /\ End(h)
    /\ UNCHANGED <<guest, deleted, locks>>

ReadDelete(h) ==
    /\ at[h] = "readDelete"
    /\ End(h) \/ (row[h] \in Recorded /\ Goto(h, "delete"))
    /\ UNCHANGED <<table, locks>>

SoftDelete(h) ==
    /\ at[h] = "delete"
    /\ deleted' = deleted \cup {row[h]}
    /\ End(h)
    /\ UNCHANGED <<guest, hidden, locks>>

-----------------------------------------------------------------------------
\* a lock lives for ten seconds, or an hour if the client named it
Expire == \E k \in locks : locks' = locks \ {k} /\ UNCHANGED <<table, callState>>

\* a key that a client names is not tied to the invitation: calls for others lock it too
LockElsewhere == \E k \in Headers : locks' = locks \cup {k} /\ UNCHANGED <<table, callState>>

\* a statement throws, or the process dies, at any await
Crash(h) == at[h] # "idle" /\ End(h) /\ UNCHANGED <<table, locks>>

Init ==
    /\ guest = [r \in Rows |-> Nil]
    /\ hidden = {} /\ deleted = {} /\ locks = {}
    /\ at = [h \in Handlers |-> "idle"]
    /\ name = [h \in Handlers |-> Nil]
    /\ key = [h \in Handlers |-> Nil]
    /\ row = [h \in Handlers |-> Nil]
    /\ seen = [h \in Handlers |-> FALSE]
    /\ overtaken = [h \in Handlers |-> FALSE]

Serve(h) ==
    \/ ReadLock(h) \/ SetLock(h) \/ FindInvitation(h) \/ FindDuplicate(h) \/ Insert(h)
    \/ ReadToggle(h) \/ Flip(h) \/ ReadDelete(h) \/ SoftDelete(h)

\* this step changes what h has read and is about to act on
Overtakes(h) ==
    \/ at[h] = "setLock" /\ key[h] \in locks' \ locks
    \/ at[h] = "insert" /\ name[h] \in NamesIn(guest') \ NamesIn(guest)
    \/ at[h] = "flip" /\ (row[h] \in hidden) # (row[h] \in hidden')

\* bookkeeping of the history variable, which no action reads
Track ==
    overtaken' = [h \in Handlers |->
                     at[h] # "idle" /\ at'[h] = at[h] /\ (overtaken[h] \/ Overtakes(h))]

Next ==
    /\ \/ Expire \/ LockElsewhere
       \/ \E h \in Handlers :
              BeginCreate(h) \/ BeginToggle(h) \/ BeginDelete(h) \/ Serve(h) \/ Crash(h)
    /\ Track

Spec == Init /\ [][Next]_vars

-----------------------------------------------------------------------------
RowTypes ==
    /\ guest \in [Rows -> Names \cup {Nil}]
    /\ hidden \subseteq Recorded /\ deleted \subseteq Recorded
    /\ locks \subseteq Keys

CallTypes ==
    /\ at \in [Handlers -> Steps \cup {"idle"}]
    /\ name \in [Handlers -> Names \cup {Nil}]
    /\ key \in [Handlers -> Keys \cup {Nil}]
    /\ row \in [Handlers -> Rows \cup {Nil}]
    /\ seen \in [Handlers -> BOOLEAN]

Submitting(h) == at[h] \in {"readLock", "setLock", "findInvitation", "findDuplicate", "insert"}

\* what a handler has by the time it stands at a step
CallFacts(h) ==
    /\ Submitting(h) => name[h] \in Names /\ key[h] \in Keys
    /\ at[h] \in {"flip", "delete"} => row[h] \in Recorded

Types == RowTypes /\ CallTypes /\ \A h \in Handlers : CallFacts(h)

(* Every variable stays within its type, and what is hidden, deleted or     *)
(* about to be is an answer that exists.                                    *)
TypeOK == Types /\ overtaken \in [Handlers -> BOOLEAN]

(* rsvp.service.ts:81 "Block duplicate RSVP submissions (same name +        *)
(* invitationId)": a name is stored a second time only by a call that       *)
(* looked for it before it was stored the first time; an answer that was    *)
(* hidden or deleted keeps its name taken.                                  *)
NamesakesRaced ==
    [][\A r \in Rows :
           guest[r] = Nil /\ guest'[r] \in NamesIn(guest)
           => \E h \in Handlers : at[h] = "insert" /\ name[h] = guest'[r] /\ overtaken[h]]_vars

(* rsvp.service.ts:34 "Idempotency protection to prevent duplicate          *)
(* submissions": a call goes on under a key that is locked only if it       *)
(* looked at the lock before the other call had set it.                     *)
RepeatsRaced ==
    [][\A h \in Handlers :
           at[h] = "setLock" /\ at'[h] = "findInvitation" /\ key[h] \in locks
           => overtaken[h]]_vars

(* rsvp.controller.ts:75 "Toggles isHidden property": a toggle that is      *)
(* carried out changes what the guests see, unless another one of the same  *)
(* answer came between its read and its write.                              *)
LostTogglesRaced ==
    [][\A h \in Handlers :
           at[h] = "flip" /\ Flip(h) /\ hidden' = hidden => overtaken[h]]_vars
=============================================================================
