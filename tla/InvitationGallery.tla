------------------------- MODULE InvitationGallery -------------------------
(***************************************************************************)
(* The photos of one invitation: the list invitations.moments, the rows of *)
(* media and the objects in the S3 bucket (src/src/invitation, src/src/    *)
(* media).  InvitationService.guestUpload, addMoment and update and        *)
(* MediaService.uploadMedia and deleteMedia touch two or three of the      *)
(* stores in statements of their own, any of which may be the last that    *)
(* runs.  A file is known by its key, a random UUID, and so is its URL.    *)
(* invitations.images is cleaned by update in the same way and is left     *)
(* out, and so are the guards that look at nothing kept here: the page's   *)
(* flags, the caller's rights, the type and size of the file.              *)
(***************************************************************************)
EXTENDS Naturals, Sequences, FiniteSets

CONSTANTS Handlers,    \* calls that can be served at the same time
          Files,       \* keys that can be drawn
          GuestLimit,  \* 50
          OwnerLimit,  \* 100, also the longest list a dto may carry
          Nil

ASSUME LimitsAssumption ==
    /\ GuestLimit \in Nat /\ OwnerLimit \in Nat \ {0} /\ GuestLimit <= OwnerLimit
    /\ IsFiniteSet(Handlers)
    /\ Nil \notin Files

VARIABLES moments,   \* invitations.moments
          recorded,  \* keys with a row in media
          stored,    \* keys with an object in the bucket
          drawn,     \* keys in use: given to an upload
          at,        \* at[h]: the await handler h is about to issue
          file,      \* file[h]: the file an upload, a push or a deletion is about
          dto,       \* dto[h]: the moments an update is to write
          removed,   \* removed[h]: moments that the row it read has and the dto has not
          todo,      \* todo[h]: those of them whose media row is still to be cleaned up
          cut,       \* history: files of which a put or a deletion was not completed
          late       \* history, late[h]: moments that joined the list since an update read it

vars == <<moments, recorded, stored, drawn, at, file, dto, removed, todo, cut, late>>
callState == <<at, file, dto, removed, todo>>

Steps == {"readGuest", "put", "record", "putGuest", "recordGuest", "readOwner", "push",
          "readUpdate", "findMedia", "cleanObject", "cleanRecord", "overwrite",
          "findRow", "deleteObject", "deleteRecord"}

Shown(list) == {list[i] : i \in DOMAIN list}
Lists == UNION {[1..n -> Files] : n \in 0..OwnerLimit}

-----------------------------------------------------------------------------
Begin(h, step, f) ==
    /\ at[h] = "idle"
    /\ at' = [at EXCEPT ![h] = step]
    /\ file' = [file EXCEPT ![h] = f]
    /\ UNCHANGED <<moments, recorded, stored, dto, removed, todo, cut>>

Goto(h, step) ==
    /\ at' = [at EXCEPT ![h] = step]
    /\ UNCHANGED <<file, dto, removed, todo>>

End(h) ==
    /\ at' = [at EXCEPT ![h] = "idle"]
    /\ file' = [file EXCEPT ![h] = Nil]
    /\ dto' = [dto EXCEPT ![h] = << >>]
    /\ removed' = [removed EXCEPT ![h] = {}]
    /\ todo' = [todo EXCEPT ![h] = {}]

\* randomUUID: a key that nothing has used
BeginWithNewKey(h, step) ==
    \E f \in Files \ drawn : Begin(h, step, f) /\ drawn' = drawn \cup {f}

-----------------------------------------------------------------------------
(* uploadMedia; guestUpload *)

BeginUpload(h) == BeginWithNewKey(h, "put")
BeginGuestUpload(h) == BeginWithNewKey(h, "readGuest")

\* mutant: the gallery's length is not looked at
ReadGuest_NoLimit(h) ==
    /\ at[h] = "readGuest"
    /\ End(h) \/ Goto(h, "putGuest")
    /\ UNCHANGED <<moments, recorded, stored, drawn, cut>>

ReadGuest(h) ==
    /\ at[h] = "readGuest"
    /\ End(h) \/ (Len(moments) < GuestLimit /\ Goto(h, "putGuest"))
    /\ UNCHANGED <<moments, recorded, stored, drawn, cut>>

Put(h) ==
    /\ at[h] \in {"put", "putGuest"}
    /\ stored' = stored \cup {file[h]}
    /\ Goto(h, IF at[h] = "put" THEN "record" ELSE "recordGuest")
    /\ UNCHANGED <<moments, recorded, drawn, cut>>

Record(h) ==
    /\ at[h] \in {"record", "recordGuest"}
    /\ recorded' = recorded \cup {file[h]}
    /\ IF at[h] = "record" THEN End(h) ELSE Goto(h, "push")
    /\ UNCHANGED <<moments, stored, drawn, cut>>

\* guestUpload's and addMoment's last write, whatever the list has become
Push(h) ==
    /\ at[h] = "push"
    /\ moments' = Append(moments, file[h])
    /\ End(h)
    /\ UNCHANGED <<recorded, stored, drawn, cut>>

-----------------------------------------------------------------------------
(* addMoment: the owner links a URL, of an upload of the past *)

BeginAddMoment(h) == \E f \in drawn : Begin(h, "readOwner", f) /\ UNCHANGED drawn

ReadOwner(h) ==
    /\ at[h] = "readOwner"
    /\ End(h) \/ (Len(moments) < OwnerLimit /\ Goto(h, "push"))
    /\ UNCHANGED <<moments, recorded, stored, drawn, cut>>

-----------------------------------------------------------------------------
(* update with dto.moments *)

BeginUpdate(h) == Begin(h, "readUpdate", Nil) /\ UNCHANGED drawn

\* mutant: the list is written and the files left where they are
ReadUpdate_NoCleanUp(h) ==
    /\ at[h] = "readUpdate"
    /\ \/ End(h)
       \/ \E list \in {l \in Lists : Shown(l) \subseteq drawn} :
              /\ dto' = [dto EXCEPT ![h] = list]
              /\ at' = [at EXCEPT ![h] = "overwrite"]
              /\ UNCHANGED <<file, removed, todo>>
    /\ UNCHANGED <<moments, recorded, stored, drawn, cut>>

\* the dto's list is any that the client can have put together
ReadUpdate(h) ==
    /\ at[h] = "readUpdate"
    /\ \/ End(h)
       \/ \E list \in {l \in Lists : Shown(l) \subseteq drawn} :
              LET gone == Shown(moments) \ Shown(list) IN
              /\ dto' = [dto EXCEPT ![h] = list]
              /\ removed' = [removed EXCEPT ![h] = gone]
              /\ at' = [at EXCEPT ![h] = IF gone = {} THEN "overwrite" ELSE "findMedia"]
              /\ UNCHANGED <<file, todo>>
    /\ UNCHANGED <<moments, recorded, stored, drawn, cut>>

FindMedia(h) ==
    /\ at[h] = "findMedia"
    /\ todo' = [todo EXCEPT ![h] = removed[h] \cap recorded]
    /\ at' = [at EXCEPT ![h] = "cleanObject"]
    /\ UNCHANGED <<moments, recorded, stored, drawn, file, dto, removed, cut>>

\* mutant: a file whose object could not be deleted loses its row all the same
CleanObject_RowAnyway(h) ==
    /\ at[h] = "cleanObject"
    /\ \/ todo[h] = {} /\ Goto(h, "overwrite") /\ UNCHANGED stored
       \/ \E f \in todo[h] :
              /\ file' = [file EXCEPT ![h] = f]
              /\ todo' = [todo EXCEPT ![h] = @ \ {f}]
              /\ at' = [at EXCEPT ![h] = "cleanRecord"]
              /\ stored' \in {stored, stored \ {f}}
              /\ UNCHANGED <<dto, removed>>
    /\ UNCHANGED <<moments, recorded, drawn, cut>>

\* the next file of the loop; if S3 fails the error is logged and the file skipped
CleanObject(h) ==
    /\ at[h] = "cleanObject"
    /\ \/ todo[h] = {} /\ Goto(h, "overwrite") /\ UNCHANGED stored
       \/ \E f \in todo[h] :
              /\ todo' = [todo EXCEPT ![h] = @ \ {f}]
              /\ \/ /\ stored' = stored \ {f}
                    /\ file' = [file EXCEPT ![h] = f]
                    /\ at' = [at EXCEPT ![h] = "cleanRecord"]
                 \/ UNCHANGED <<stored, file, at>>
              /\ UNCHANGED <<dto, removed>>
    /\ UNCHANGED <<moments, recorded, drawn, cut>>

\* a statement that fails is caught and the loop goes on: the row is another call's to delete,
\* or stays without its object
CleanRecord(h) ==
    /\ at[h] = "cleanRecord"
    /\ \/ recorded' = recorded \ {file[h]} /\ UNCHANGED cut
       \/ cut' = cut \cup {file[h]} /\ UNCHANGED recorded
    /\ Goto(h, "cleanObject")
    /\ UNCHANGED <<moments, stored, drawn>>

Overwrite(h) ==
    /\ at[h] = "overwrite"
    /\ moments' = dto[h]
    /\ End(h)
    /\ UNCHANGED <<recorded, stored, drawn, cut>>

-----------------------------------------------------------------------------
(* deleteMedia *)

BeginDelete(h) == \E f \in drawn : Begin(h, "findRow", f) /\ UNCHANGED drawn

FindRow(h) ==
    /\ at[h] = "findRow"
    /\ IF file[h] \in recorded THEN Goto(h, "deleteObject") ELSE End(h)
    /\ UNCHANGED <<moments, recorded, stored, drawn, cut>>

\* S3 may fail, and then the call does, before it has changed anything
DeleteObject(h) ==
    /\ at[h] = "deleteObject"
    /\ \/ stored' = stored \ {file[h]} /\ Goto(h, "deleteRecord")
       \/ End(h) /\ UNCHANGED stored
    /\ UNCHANGED <<moments, recorded, drawn, cut>>

DeleteRecord(h) ==
    /\ at[h] = "deleteRecord"
    /\ recorded' = recorded \ {file[h]}
    /\ End(h)
    /\ UNCHANGED <<moments, stored, drawn, cut>>

-----------------------------------------------------------------------------
BetweenStores == {"record", "recordGuest", "cleanRecord", "deleteRecord"}

\* a statement throws, or the process dies, at any await
Crash(h) ==
    /\ at[h] # "idle"
    /\ End(h)
    /\ cut' = IF at[h] \in BetweenStores THEN cut \cup {file[h]} ELSE cut
    /\ UNCHANGED <<moments, recorded, stored, drawn>>

Init ==
    /\ moments = << >>
    /\ recorded = {} /\ stored = {} /\ drawn = {} /\ cut = {}
    /\ late = [h \in Handlers |-> {}]
    /\ at = [h \in Handlers |-> "idle"]
    /\ file = [h \in Handlers |-> Nil]
    /\ dto = [h \in Handlers |-> << >>]
    /\ removed = [h \in Handlers |-> {}]
    /\ todo = [h \in Handlers |-> {}]

Arrive(h) ==
    \/ BeginUpload(h) \/ BeginGuestUpload(h) \/ BeginAddMoment(h)
    \/ BeginUpdate(h) \/ BeginDelete(h)

Serve(h) ==
    \/ ReadGuest(h) \/ Put(h) \/ Record(h) \/ ReadOwner(h) \/ Push(h)
    \/ ReadUpdate(h) \/ FindMedia(h) \/ CleanObject(h) \/ CleanRecord(h) \/ Overwrite(h)
    \/ FindRow(h) \/ DeleteObject(h) \/ DeleteRecord(h)

CleanUpSteps == {"findMedia", "cleanObject", "cleanRecord", "overwrite"}

\* bookkeeping of the history variable, which no action reads
Track ==
    late' = [h \in Handlers |->
                IF at'[h] \in CleanUpSteps
                THEN late[h] \cup (Shown(moments') \ Shown(moments)) ELSE {}]

Next == (\E h \in Handlers : Arrive(h) \/ Serve(h) \/ Crash(h)) /\ Track

Spec == Init /\ [][Next]_vars

-----------------------------------------------------------------------------
StoreTypes ==
    /\ moments \in Seq(Files)
    /\ drawn \subseteq Files
    /\ recorded \subseteq drawn /\ stored \subseteq drawn /\ cut \subseteq drawn

CallTypes ==
    /\ at \in [Handlers -> Steps \cup {"idle"}]
    /\ file \in [Handlers -> drawn \cup {Nil}]
    /\ dto \in [Handlers -> Seq(Files)]
    /\ removed \in [Handlers -> SUBSET Files]
    /\ todo \in [Handlers -> SUBSET drawn]

Uploading(h) == at[h] \in {"readGuest", "put", "putGuest", "record", "recordGuest"}
FileSteps == Steps \ {"readUpdate", "findMedia", "cleanObject", "overwrite"}

\* what a handler has by the time it stands at a step
CallFacts(h) ==
    /\ at[h] \in FileSteps => file[h] # Nil
    /\ Len(dto[h]) <= OwnerLimit
    /\ Uploading(h) =>
           /\ file[h] \notin recorded
           /\ \A g \in Handlers : Uploading(g) /\ file[g] = file[h] => g = h

Types == StoreTypes /\ CallTypes /\ \A h \in Handlers : CallFacts(h)

(* Every variable stays within its type; two uploads never share a key, and *)
(* an upload's key is not recorded before the upload records it.            *)
TypeOK == Types /\ late \in [Handlers -> SUBSET Files]

(* media.controller.ts:70 "Removes the object from AWS S3 first, and then   *)
(* deletes the record": bucket and table name the same files, but for those *)
(* that a call is between the two of, or was cut off between, and those of  *)
(* which the clean-up of update has deleted the object and not the row,     *)
(* which it logs (invitation.service.ts:230) before it goes on.             *)
StoresAgree ==
    \A f \in Files :
        \/ f \in recorded <=> f \in stored
        \/ f \in cut
        \/ \E h \in Handlers : at[h] \in BetweenStores /\ file[h] = f

Pushing(h) == at[h] \in {"putGuest", "recordGuest", "push"}

(* invitation.service.ts:466 "Limit moments list": the limit is checked on  *)
(* a list read before the push, so it can be passed, but only by the other  *)
(* calls that were under way when it was reached.                           *)
OvershootBounded ==
    Len(moments) + Cardinality({h \in Handlers : Pushing(h)})
        <= OwnerLimit + Cardinality(Handlers) - 1

(* invitation.service.ts:200 "Perform automatic S3 storage and DB cleanup   *)
(* for removed images": a moment leaves the list only by an update that has *)
(* put its file through the clean-up, or that read the list before the      *)
(* moment joined it, which is how a guest's photo is lost without a trace.  *)
LeavesByCleanUpOrRace ==
    [][\A f \in Shown(moments) \ Shown(moments') :
           \E h \in Handlers : at[h] = "overwrite" /\ f \in removed[h] \cup late[h]]_vars
=============================================================================
