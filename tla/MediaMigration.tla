--------------------------- MODULE MediaMigration ---------------------------
(***************************************************************************)
(* The scripts of src/scripts, run by hand beside a server that goes on    *)
(* working: migrate-local-images-to-s3 copies the files of public/uploads  *)
(* into the bucket and replaces the links to them, migrate-videos-to-s3    *)
(* copies only, migrate-s3-urls-to-cloudfront rewrites the URLs in media,  *)
(* templates and invitations.  Each reads a list, works for a while and    *)
(* writes the whole list back, and each may die at any await and be run    *)
(* again.  There is one template, one invitation, one script at a time     *)
(* and, of the server's calls, the guest's upload, the owner's update and  *)
(* the admin's new preview image; that they are faithful to the server is  *)
(* InvitationGallery's and Showcase's concern.                             *)
(***************************************************************************)
EXTENDS Naturals, FiniteSets

CONSTANTS Files,      \* file names in public/uploads
          Pictures,   \* file names in the frontend's images
          Videos,     \* file names in the frontend's videos1
          Keys,       \* object keys that can be drawn
          MaxUploads, \* uploads by guests that are looked at
          MaxOld,     \* links that the gallery has from an older server
          Nil

\* "host" is a path behind a host name, "bare" what a row gets without CLOUDFRONT_URL
Paths == [kind : {"path", "host"}, of : Files]
Originals == [kind : {"path"}, of : Pictures]
Urls == [kind : {"s3", "cdn"}, of : Keys]
Links == Paths \cup Urls

ASSUME ConstantsAssumption ==
    /\ MaxUploads \in Nat /\ MaxOld \in Nat
    /\ Nil \notin Files \cup Pictures \cup Videos \cup Keys
    /\ Nil \notin {"path", "host", "s3", "cdn", "bare"} /\ Nil \notin Links

VARIABLES moments,    \* the links in invitations.moments: their order is nothing to the scripts
          preview,    \* templates.previewImage
          media,      \* media[k]: kind of the URL in the row of key k, Nil without a row
          stored,     \* keys with an object in the bucket
          content,    \* content[k]: the photo put under k, a guest's own is called k
          drawn,      \* keys in use
          job,        \* the script, or its part, that is running
          at,         \* the await it is about to issue
          file, key,  \* the file it is at and the key drawn for it
          todo,       \* files or rows still to come
          mapped,     \* files found in the gallery at the start of part 2
          disk,       \* files found in public/uploads then
          list,       \* the gallery it is to write
          base,       \* what CLOUDFRONT_URL makes of a key in this run
          failed,     \* report.errors is not empty
          save,       \* the owner's page and update: step, list shown or to write, links
                      \* removed, keys to clean up and the one that is being cleaned up
          guest,      \* the guest's upload: step and link
          joined, late, old, dead, mixed   \* history, see Track

data == <<moments, preview, media, stored, content, drawn>>
script == <<job, at, file, key, todo, mapped, disk, list, base, failed>>
server == <<save, guest>>
vars == <<data, script, server, joined, late, old, dead, mixed>>

KeysIn(links) == {l.of : l \in links \cap Urls}
Photo(l) == IF l.kind \in {"path", "host"} THEN l.of ELSE content[l.of]
Photos(links) == {Photo(l) : l \in links}

-----------------------------------------------------------------------------
(* What the scripts share *)

Goto(step) == at' = step /\ UNCHANGED <<job, disk, base, failed>>

Stop ==
    /\ job' = "none" /\ at' = "idle" /\ file' = Nil /\ key' = Nil /\ todo' = {}
    /\ mapped' = {} /\ disk' = {} /\ list' = {} /\ base' = "s3" /\ failed' = FALSE

Start(name, step) ==
    /\ job = "none"
    /\ job' = name /\ at' = step
    /\ UNCHANGED <<data, file, key, mapped, disk, list, server>>

\* PutObject under a new randomUUID
Put(f) ==
    \E k \in Keys \ drawn :
        /\ stored' = stored \cup {k} /\ drawn' = drawn \cup {k}
        /\ content' = [content EXCEPT ![k] = f]
        /\ file' = f /\ key' = k
        /\ Goto("verify")
        /\ UNCHANGED <<moments, preview, media, mapped, list, server>>

\* the loop over the files; what is left when it ends differs
NextFile(name, end) ==
    /\ job = name /\ at = "next"
    /\ \/ \E f \in todo : todo' = todo \ {f} /\ Put(f)
       \/ todo = {} /\ end

Rest == UNCHANGED <<todo, mapped, server>>

\* file, key and list live as long as one round of the loop
Keep == Rest /\ UNCHANGED <<file, key, list>>
Drop == Rest /\ file' = Nil /\ key' = Nil /\ list' = {}

\* mutant: a failed verification is not put on the report
Verify_Silent(name, otherwise) ==
    /\ job = name /\ at = "verify"
    /\ at' \in {"record", otherwise}
    /\ UNCHANGED <<data, job, disk, base, failed>>
    /\ IF at' = "record" THEN Keep ELSE Drop

\* a HeadObject that fails leaves the object where it is and the file unmigrated
Verify(name, otherwise) ==
    /\ job = name /\ at = "verify"
    /\ \/ Goto("record")
       \/ at' = otherwise /\ failed' = TRUE /\ UNCHANGED <<job, disk, base>>
    /\ UNCHANGED data
    /\ IF at' = "record" THEN Keep ELSE Drop

\* mutant: the row gets the URL that the server would make
Record_Cdn(name, next) ==
    /\ job = name /\ at = "record"
    /\ media' = [media EXCEPT ![key] = "cdn"]
    /\ Goto(next)
    /\ IF next = "next" THEN Drop ELSE Keep
    /\ UNCHANGED <<moments, preview, stored, content, drawn>>

Record(name, next) ==
    /\ job = name /\ at = "record"
    /\ media' = [media EXCEPT ![key] = "s3"]
    /\ Goto(next)
    /\ IF next = "next" THEN Drop ELSE Keep
    /\ UNCHANGED <<moments, preview, stored, content, drawn>>

-----------------------------------------------------------------------------
(* migrate-local-images-to-s3: the templates, then the uploads *)

\* a URL is left alone; a path without a file is reported
ReadTemplates ==
    /\ \/ /\ preview.kind = "path"
          /\ Start("previews", "putPreview") /\ todo' = {preview.of} /\ UNCHANGED failed
       \/ /\ Start("previews", "readInvitations") /\ failed' = (preview.kind = "path")
          /\ UNCHANGED todo
    /\ UNCHANGED base

\* mutant: whatever picture the directory has
PutPreview_Any == at = "putPreview" /\ (\E f \in Pictures : Put(f)) /\ todo' = {}

PutPreview == at = "putPreview" /\ (\E f \in todo : Put(f)) /\ todo' = {}
VerifyPreview == Verify("previews", "readInvitations")
RecordPreview == Record("previews", "writePreview")

WritePreview ==
    /\ at = "writePreview"
    /\ preview' = [kind |-> "s3", of |-> key]
    /\ Goto("readInvitations")
    /\ UNCHANGED <<moments, media, stored, content, drawn>> /\ Drop

\* the path may stand anywhere in the link; the files listed are those of the directory, if
\* there is one, linked or not: a link to another one is passed over without an error
ReadInvitations ==
    /\ at = "readInvitations"
    /\ job' = "uploads" /\ at' = "next"
    /\ mapped' = {l.of : l \in moments \cap Paths}
    /\ disk' \in SUBSET Files /\ todo' = disk'
    /\ UNCHANGED <<data, file, key, list, base, failed, server>>

NextUpload == NextFile("uploads", Stop /\ UNCHANGED <<data, server>>)
VerifyUpload == Verify("uploads", "next")
RecordUpload == Record("uploads", IF file \in mapped THEN "readInvitation" ELSE "next")

\* mutant: the old link is dropped and the new one forgotten
Replaced_Dropped(links) == links \ {[kind |-> "path", of |-> file]}

\* only a link that is the path and nothing more is replaced
Replaced(links) ==
    {IF l = [kind |-> "path", of |-> file] THEN [kind |-> "s3", of |-> key] ELSE l : l \in links}

ReadInvitation ==
    /\ at = "readInvitation"
    /\ list' = Replaced(moments)
    /\ Goto("writeMoments")
    /\ UNCHANGED <<data, file, key, todo, mapped, server>>

WriteMoments ==
    /\ at = "writeMoments"
    /\ moments' = list
    /\ Goto("next")
    /\ UNCHANGED <<preview, media, stored, content, drawn>> /\ Drop

-----------------------------------------------------------------------------
(* migrate-videos-to-s3: nothing is linked, the URLs are printed *)

BeginVideos == Start("videos", "next") /\ todo' = Videos /\ UNCHANGED <<base, failed>>
NextVideo == NextFile("videos", Stop /\ UNCHANGED <<data, server>>)
VerifyVideo == Verify("videos", "next")
RecordVideo == Record("videos", "next")

-----------------------------------------------------------------------------
(* migrate-s3-urls-to-cloudfront *)

\* CLOUDFRONT_URL is set or it is not, and the media step does not look
ReadMedia ==
    /\ Start("cdn", "updateMedia")
    /\ base' \in {"cdn", "bare"}
    /\ todo' = {k \in Keys : media[k] \notin {Nil, base'}}
    /\ UNCHANGED failed

\* mutant: a row that is gone is written again
UpdateMedia_Upsert ==
    /\ at = "updateMedia"
    /\ \E k \in todo :
           /\ media' = [media EXCEPT ![k] = base]
           /\ todo' = todo \ {k}
    /\ UNCHANGED <<at, job, disk, base, failed, file, key, mapped, list>>
    /\ UNCHANGED <<moments, preview, stored, content, drawn, server>>

\* a row deleted since makes the statement throw, which ends the script
UpdateMedia ==
    /\ at = "updateMedia"
    /\ \E k \in todo :
           IF media[k] = Nil THEN Stop /\ UNCHANGED media
           ELSE /\ media' = [media EXCEPT ![k] = base]
                /\ todo' = todo \ {k}
                /\ UNCHANGED <<at, job, disk, base, failed, file, key, mapped, list>>
    /\ UNCHANGED <<moments, preview, stored, content, drawn, server>>

Convert(l) == IF base = "cdn" /\ l.kind = "s3" THEN [l EXCEPT !.kind = "cdn"] ELSE l

ReadPreviews ==
    /\ at = "updateMedia" /\ todo = {}
    /\ IF Convert(preview) = preview THEN Goto("readAll") /\ UNCHANGED list
       ELSE Goto("writePreviews") /\ list' = {Convert(preview)}
    /\ UNCHANGED <<data, file, key, todo, mapped, server>>

WritePreviews ==
    /\ at = "writePreviews"
    /\ preview' \in list
    /\ Goto("readAll")
    /\ UNCHANGED <<moments, media, stored, content, drawn>> /\ Drop

ReadAll ==
    /\ at = "readAll"
    /\ LET new == {Convert(l) : l \in moments} IN
       IF new = moments THEN Stop
       ELSE list' = new /\ Goto("writeAll") /\ UNCHANGED <<file, key, todo, mapped>>
    /\ UNCHANGED <<data, server>>

WriteAll ==
    /\ at = "writeAll"
    /\ moments' = list
    /\ Stop
    /\ UNCHANGED <<preview, media, stored, content, drawn, server>>

CrashScript == job # "none" /\ Stop /\ UNCHANGED <<data, server>>

-----------------------------------------------------------------------------
(* The server meanwhile *)

Idle == [at |-> "idle", list |-> {}, removed |-> {}, todo |-> {}, key |-> Nil]
Quiet == UNCHANGED script

\* mapInvitationResponse spells the URLs of the bucket with CLOUDFRONT_URL, if that is set
Served(l) == IF l.kind = "s3" THEN [l EXCEPT !.kind = "cdn"] ELSE l

\* the owner's browser loads the page, and changes it some time later
LoadPage ==
    /\ save.at = "idle"
    /\ \E shown \in {moments, {Served(l) : l \in moments}} :
           save' = [Idle EXCEPT !.at = "open", !.list = shown]
    /\ UNCHANGED <<data, guest>> /\ Quiet

\* the list sent is the list shown with some photos taken out; links are compared as strings
ReadUpdate ==
    /\ save.at = "open"
    /\ \E kept \in SUBSET save.list :
           LET gone == moments \ kept IN
           save' = [save EXCEPT !.list = kept, !.removed = gone,
                                !.at = IF gone = {} THEN "overwrite" ELSE "findMedia"]
    /\ UNCHANGED <<data, guest>> /\ Quiet

\* mutant: the rows of all that the new list has not
FindMedia_NotListed ==
    /\ save.at = "findMedia"
    /\ save' = [save EXCEPT
           !.at = "cleanObject",
           !.todo = {k \in Keys : media[k] # Nil /\ k \notin KeysIn(save.list)}]
    /\ UNCHANGED <<data, guest>> /\ Quiet

\* rows are found by their URL, which must be the link
FindMedia ==
    /\ save.at = "findMedia"
    /\ save' = [save EXCEPT !.at = "cleanObject",
                            !.todo = {k \in Keys : [kind |-> media[k], of |-> k] \in save.removed}]
    /\ UNCHANGED <<data, guest>> /\ Quiet

CleanObject ==
    /\ save.at = "cleanObject"
    /\ \E k \in save.todo :
           \/ /\ stored' = stored \ {k}
              /\ save' = [save EXCEPT !.todo = @ \ {k}, !.key = k, !.at = "cleanRecord"]
           \/ save' = [save EXCEPT !.todo = @ \ {k}] /\ UNCHANGED stored
    /\ UNCHANGED <<moments, preview, media, content, drawn, guest>> /\ Quiet

\* a statement that fails is caught, and the row stays without its object
CleanRecord ==
    /\ save.at = "cleanRecord"
    /\ media' \in {media, [media EXCEPT ![save.key] = Nil]}
    /\ save' = [save EXCEPT !.at = "cleanObject", !.key = Nil]
    /\ UNCHANGED <<moments, preview, stored, content, drawn, guest>> /\ Quiet

Overwrite ==
    /\ \/ save.at = "overwrite"
       \/ save.at = "cleanObject" /\ save.todo = {}
    /\ moments' = save.list
    /\ save' = Idle
    /\ UNCHANGED <<preview, media, stored, content, drawn, guest>> /\ Quiet

\* the URL is made with the server's own setting, which may differ from the script's
PutGuest ==
    /\ guest.at = "idle" /\ Cardinality({k \in drawn : content[k] = k}) < MaxUploads
    /\ \E k \in Keys \ drawn, form \in {"s3", "cdn"} :
           /\ stored' = stored \cup {k} /\ drawn' = drawn \cup {k}
           /\ guest' = [at |-> "record", link |-> [kind |-> form, of |-> k]]
    /\ UNCHANGED <<moments, preview, media, content, save>> /\ Quiet

RecordGuest ==
    /\ guest.at = "record"
    /\ media' = [media EXCEPT ![guest.link.of] = guest.link.kind]
    /\ guest' = [guest EXCEPT !.at = "push"]
    /\ UNCHANGED <<moments, preview, stored, content, drawn, save>> /\ Quiet

PushGuest ==
    /\ guest.at = "push"
    /\ moments' = moments \cup {guest.link}
    /\ guest' = [at |-> "idle", link |-> Nil]
    /\ UNCHANGED <<preview, media, stored, content, drawn, save>> /\ Quiet

\* an admin's update of the template
SetPreview ==
    /\ preview' \in Originals
    /\ UNCHANGED <<moments, media, stored, content, drawn, server>> /\ Quiet

CrashServer ==
    /\ save' = Idle /\ guest' = [at |-> "idle", link |-> Nil]
    /\ UNCHANGED data /\ Quiet

-----------------------------------------------------------------------------
\* what an older server has left: links to files of its own
Init ==
    /\ moments \in SUBSET Paths /\ Cardinality(moments) <= MaxOld
    /\ preview \in Originals
    /\ media = [k \in Keys |-> Nil] /\ stored = {} /\ drawn = {}
    /\ content = [k \in Keys |-> k]
    /\ job = "none" /\ at = "idle" /\ file = Nil /\ key = Nil /\ todo = {}
    /\ mapped = {} /\ disk = {} /\ list = {} /\ base = "s3" /\ failed = FALSE
    /\ save = Idle /\ guest = [at |-> "idle", link |-> Nil]
    /\ joined = {} /\ late = [script |-> {}, owner |-> {}]
    /\ old = [script |-> FALSE, owner |-> FALSE, preview |-> FALSE]
    /\ dead = {} /\ mixed = {}

MigrateLocal ==
    \/ ReadTemplates \/ PutPreview \/ VerifyPreview \/ RecordPreview
    \/ WritePreview \/ ReadInvitations \/ NextUpload \/ VerifyUpload \/ RecordUpload
    \/ ReadInvitation \/ WriteMoments
MigrateVideos == BeginVideos \/ NextVideo \/ VerifyVideo \/ RecordVideo
MigrateCdn ==
    \/ ReadMedia \/ UpdateMedia \/ ReadPreviews \/ WritePreviews
    \/ ReadAll \/ WriteAll
Server ==
    \/ LoadPage \/ ReadUpdate \/ FindMedia \/ CleanObject \/ CleanRecord \/ Overwrite
    \/ PutGuest \/ RecordGuest \/ PushGuest \/ SetPreview

Writing == {"writeMoments", "writeAll"}
PreviewSteps == {"putPreview", "verify", "record", "writePreview", "writePreviews"}
ScriptWrites == at \in Writing /\ at' # at /\ moments' = list
OwnerWrites == save.at \in {"cleanObject", "overwrite"} /\ save.todo = {} /\ save'.at = "idle" /\ moments' = save.list
UpdateCutOff == save.at \notin {"idle", "open"} /\ save'.at = "idle" /\ ~ OwnerWrites

\* photos that the update removes under one URL and keeps under another
Respelt == KeysIn(save.removed) \cap KeysIn(save.list)

\* the row that an update has left behind after it has deleted the object
RowLeft ==
    {k \in {save.key} : save.at = "cleanRecord" /\ save'.at # "cleanRecord" /\ media'[k] # Nil}

\* a run of the CloudFront script that ends before it has written the gallery
CdnCutOff ==
    /\ job = "cdn" /\ job' = "none" /\ ~ ScriptWrites
    /\ ~ (at = "readAll" /\ \A l \in moments : Convert(l) = l)

\* keys that are linked somewhere, or may be
Held == KeysIn(moments' \cup list' \cup save'.list \cup {guest'.link})

(* Bookkeeping that no action reads, kept as long as it matters.  joined:   *)
(* path links that joined the gallery since the script looked for them.     *)
(* late: photos that joined it since the script, or the owner's update,     *)
(* read the list it is to write, and that this list has not.  old: the      *)
(* list a script or a browser has is older than another one's write, or an  *)
(* admin has set the preview since the script read it.  dead: keys without  *)
(* object, of lists written so, of photos that an update removed under one  *)
(* URL and kept under another, of updates cut off and of rows that were not *)
(* deleted.  mixed: keys of such lists and photos, and those whose row and  *)
(* link a CloudFront run may have parted.                                   *)
Track ==
    LET came == Photos(moments') \ Photos(moments)
        outdated == (IF ScriptWrites /\ old.script THEN KeysIn(list) ELSE {})
                    \cup (IF OwnerWrites THEN Respelt ELSE {})
                    \cup (IF OwnerWrites /\ old.owner THEN KeysIn(save.list) ELSE {})
        Late(before, writer) ==
            ((before \cup came) \cap Photos(moments')) \ Photos(writer)
    IN
    /\ joined' = IF job' # "uploads" THEN {}
                 ELSE joined \cup {l \in moments' \ moments : l.kind = "path"}
    /\ late' = [script |-> IF at' \in Writing THEN Late(late.script, list') ELSE {},
                owner |-> IF save'.at \in {"idle", "open"} THEN {}
                          ELSE Late(late.owner, save'.list)]
    /\ old' = [script |-> at' \in Writing /\ (old.script \/ OwnerWrites),
               owner |-> /\ save'.at # "idle" /\ KeysIn(save'.list) # {}
                         /\ (old.owner \/ ScriptWrites \/ OwnerWrites),
               preview |-> /\ at' \in PreviewSteps
                           /\ (old.preview \/ (preview' # preview /\ at' = at))]
    /\ dead' = (dead \cup outdated \cup RowLeft
                      \cup (IF UpdateCutOff THEN KeysIn(save.removed) ELSE {})) \ stored'
    /\ mixed' = Held \cap (mixed \cup outdated
                           \cup (IF CdnCutOff \/ base = "bare" THEN drawn ELSE {})
                           \cup (IF job = "cdn" /\ guest.at # "idle" THEN {guest.link.of} ELSE {}))

Next ==
    /\ \/ MigrateLocal \/ MigrateVideos \/ MigrateCdn \/ CrashScript
       \/ Server \/ CrashServer
    /\ Track

Spec == Init /\ [][Next]_vars

-----------------------------------------------------------------------------
Uploaded == {"verify", "record", "writePreview", "readInvitation"}

(* Every variable stays within its type, and what a script has put into the *)
(* bucket is not linked before it has been verified and registered.         *)
TypeOK ==
    /\ moments \subseteq Links
    /\ preview \in Originals \cup Urls
    /\ media \in [Keys -> {"s3", "cdn", "bare", Nil}]
    /\ content \in [Keys -> Files \cup Pictures \cup Videos \cup Keys]
    /\ stored \subseteq drawn /\ drawn \subseteq Keys
    /\ list \subseteq Links \cup Originals /\ save.list \subseteq Links
    /\ save.removed \subseteq Links /\ save.todo \subseteq Keys
    /\ KeysIn(moments \cup {preview}) \subseteq drawn
    /\ at \in Uploaded =>
           /\ key \in stored /\ content[key] = file
           /\ key \notin KeysIn(moments \cup {preview})

(* migrate-local-images-to-s3.ts:100 "SAFE S3 MEDIA MIGRATION (NON-         *)
(* DESTRUCTIVE)": beside the scripts a photo leaves the gallery only by the *)
(* owner's update, which takes it out or read the list before it came, and  *)
(* by a script that writes back a list it read before the photo joined it.  *)
PhotosKept ==
    [][\A p \in Photos(moments) \ Photos(moments') :
           \/ save'.at # save.at /\ p \in Photos(save.removed) \cup late.owner
           \/ at \in Writing /\ p \in late.script]_vars

(* The preview's picture changes only when an admin changes it, or when a   *)
(* script writes what it read before an admin did.                          *)
PreviewKept == [][Photo(preview') = Photo(preview) \/ at' = at \/ old.preview]_vars

(* verifyS3Url, and update's clean-up, which deletes objects before it      *)
(* writes the list: a link to the bucket leads to an object, unless it      *)
(* is being cleaned up or the update that did so was cut off, or a browser  *)
(* or a script brought it back with a list from before another's write, or  *)
(* the owner kept a photo that was shown under another URL than is stored   *)
(* (mapInvitationResponse), so that the update took it to be removed.       *)
LinksLead ==
    KeysIn(moments \cup {preview}) \subseteq stored \cup KeysIn(save.removed) \cup dead

(* update's clean-up finds a photo's row by "url: { in: urlsToRemove }"     *)
(* (invitation.service.ts:217): a link of the gallery is the URL in the     *)
(* photo's row, but during a run of the CloudFront script and after one     *)
(* that was cut off, had no CLOUDFRONT_URL or ran while a photo was being   *)
(* uploaded, after a list from before such a run was written back, or after *)
(* an update kept the photo under another URL than it had.                  *)
FoundByUrl ==
    \A l \in moments \cap Urls :
        media[l.of] \in {Nil, l.kind} \/ l.of \in mixed \/ job = "cdn"

(* invitation.service.ts:200 "Perform automatic S3 storage and DB cleanup   *)
(* for removed images": the file of a photo that stays is not deleted.  But *)
(* the file of a photo that is stored under its S3 URL and shown under its  *)
(* CloudFront one is, whatever it was that the owner came to change.        *)
OnlyRemovedCleaned == [][\A k \in stored \ stored' : k \notin KeysIn(save.list)]_vars

(* A script registers what it has verified and leaves alone what is gone: a *)
(* row has an object, unless a clean-up is between the two, was cut off     *)
(* there, or could not delete the row and went on (:230).                   *)
RowsHaveObjects ==
    \A k \in Keys : media[k] # Nil =>
        k \in stored \cup dead \/ (save.at = "cleanRecord" /\ save.key = k)

(* migrate-local-images-to-s3.ts:317 "ALL MIGRATED FILES SUCCESSFULLY       *)
(* VERIFIED": a run that ends without errors leaves no link to the path of  *)
(* a file that it has found, but those that came back while it ran.  A link *)
(* to a missing file, or in a missing directory, stays without an error, as *)
(* does a path behind a host name, which is counted as migrated.            *)
NothingLeftBehind ==
    [][job = "uploads" /\ at = "next" /\ todo = {} /\ job' = "none" /\ ~ failed =>
           \A l \in moments : l.kind = "path" /\ l.of \in disk => l \in joined]_vars
=============================================================================
