------------------------ MODULE MediaMigrationProofs ------------------------
(***************************************************************************)
(* Theorems about MediaMigration for any number of files, keys and links.  *)
(* The keys carry the argument (KeyInv): the server and the scripts put    *)
(* objects under new keys only, so the key of an upload that is not yet    *)
(* linked is in no list, the preview's keys are not the gallery's, and a   *)
(* clean-up, which deletes what an update has taken out of the gallery,    *)
(* meets neither.  On it rest the photos of the lists that are about to be *)
(* written (PhotoInv, PreviewInv), the objects they lead to (LeadInv), the *)
(* rows their keys have (UrlInv) and the paths the loop over the files has *)
(* still to replace (LeftInv).  The lemmas Changes... say which steps       *)
(* change a variable, the lemmas Track... what the bookkeeping adds.       *)
(***************************************************************************)
EXTENDS MediaMigration, TLAPS

\* Next without its bookkeeping
Step ==
    \/ MigrateLocal \/ MigrateVideos \/ MigrateCdn \/ CrashScript
    \/ Server \/ CrashServer

-----------------------------------------------------------------------------
(* The inductive invariant *)

SaveSteps == {"idle", "open", "findMedia", "cleanObject", "cleanRecord", "overwrite"}
TemplateSteps == {"putPreview", "verify", "record", "writePreview", "readInvitations"}
UploadSteps == {"next", "verify", "record", "readInvitation", "writeMoments"}
CdnSteps == {"updateMedia", "writePreviews", "readAll", "writeAll"}

Saves == [at : SaveSteps, list : SUBSET Links, removed : SUBSET Links, todo : SUBSET Keys,
          key : Keys \cup {Nil}]

DataTypes ==
    /\ moments \subseteq Links
    /\ preview \in Originals \cup Urls
    /\ media \in [Keys -> {"s3", "cdn", "bare", Nil}]
    /\ content \in [Keys -> Files \cup Pictures \cup Videos \cup Keys]
    /\ stored \subseteq drawn /\ drawn \subseteq Keys

ScriptTypes ==
    /\ \/ job = "none" /\ at = "idle" /\ todo = {}
       \/ job = "previews" /\ at \in TemplateSteps /\ todo \subseteq Pictures
       \/ job = "uploads" /\ at \in UploadSteps /\ todo \subseteq Files
       \/ job = "videos" /\ at \in {"next", "verify", "record"} /\ todo \subseteq Videos
       \/ job = "cdn" /\ at \in CdnSteps /\ todo \subseteq Keys
    /\ file \in Files \cup Pictures \cup Videos \cup {Nil}
    /\ key \in Keys \cup {Nil} /\ (at \in Uploaded => key \in Keys)
    /\ mapped \subseteq Files
    /\ list \subseteq (IF at = "writePreviews" THEN Originals \cup Urls ELSE Links)
    /\ at \in Writing \cup {"writePreviews"} \/ list = {}
    /\ base \in (IF job = "cdn" THEN {"cdn", "bare"} ELSE {"s3"})

ServerTypes ==
    /\ save \in Saves
    /\ guest \in [at : {"idle", "record", "push"}, link : Urls \cup {Nil}]
    /\ guest.at = "idle" <=> guest.link = Nil
    /\ save.at = "idle" => save.list = {}
    /\ save.at \in {"idle", "open"} => save.removed = {}
    /\ save.at = "overwrite" => save.todo = {}
    /\ save.todo \subseteq KeysIn(save.removed)
    /\ save.at = "cleanRecord" => save.key \in KeysIn(save.removed)

Types == DataTypes /\ ScriptTypes /\ ServerTypes

\* keys that the preview has, or is about to have; those of the gallery, and of lists of it
PreviewKeys == KeysIn(IF at = "writePreviews" THEN list \cup {preview} ELSE {preview})
LinkKeys ==
    KeysIn(moments \cup (IF at = "writePreviews" THEN {} ELSE list)
                   \cup save.list \cup {guest.link})
GalleryKeys == LinkKeys \cup KeysIn(save.removed)

\* what is uploaded or previewed is in the bucket and nobody else's; so is the guest's upload
KeyInv ==
    /\ PreviewKeys \subseteq stored
    /\ GalleryKeys \subseteq drawn \ PreviewKeys
    /\ \A k \in Keys : media[k] # Nil => k \in drawn
    /\ guest.at # "idle" =>
           /\ guest.link.of \in stored
           /\ guest.link.of \notin KeysIn(moments) \cup KeysIn(list) \cup KeysIn(save.list)
                                   \cup KeysIn(save.removed)
    /\ at \in Uploaded =>
           /\ key \in stored \ (PreviewKeys \cup GalleryKeys)
           /\ content[key] = file
           /\ at \in {"verify", "record"} => media[key] = Nil
           /\ at \in {"writePreview", "readInvitation"} => media[key] = "s3"

\* what a list that is to be written has not is accounted for
PhotoInv ==
    /\ at \in Writing => Photos(moments) \ Photos(list) \subseteq late.script
    /\ save.at \notin {"idle", "open"} =>
           Photos(moments) \ Photos(save.list) \subseteq Photos(save.removed) \cup late.owner

\* the script is at the preview it read, or an admin has set another
PreviewInv ==
    old.preview \/
    /\ at = "putPreview" => preview.kind = "path" /\ todo = {preview.of}
    /\ job = "previews" /\ at \in {"verify", "record", "writePreview"} =>
           preview.kind = "path" /\ preview.of = file
    /\ at = "writePreviews" => \A l \in list : Photo(l) = Photo(preview)

OneUrlEach(links) == \A l, m \in links \cap Urls : l.of = m.of => l = m

Alive == stored \cup KeysIn(save.removed) \cup dead

\* a list has keys of the gallery, or of objects, until another list is written; a link that
\* the owner keeps is one of the gallery, or the update takes its photo to be removed
LeadInv ==
    /\ OneUrlEach(moments) /\ OneUrlEach(save.list) /\ (at \in Writing => OneUrlEach(list))
    /\ KeysIn(moments) \subseteq Alive
    /\ save.at = "idle" \/ old.owner \/ KeysIn(save.list) \subseteq KeysIn(moments)
    /\ save.at \notin {"idle", "open"} /\ ~old.owner =>
           \A l \in save.list \cap Urls : l \in moments \/ l.of \in KeysIn(save.removed)
    /\ at \in Writing => old.script \/ KeysIn(list) \subseteq Alive

\* the row of a link's key has the link's URL; during a CloudFront run all rows become one kind
Fits(l) == media[l.of] \in {Nil, l.kind} \/ l.of \in mixed

UrlInv ==
    /\ job # "cdn" => \A l \in moments \cap Urls : Fits(l)
    /\ at = "writeMoments" => \A l \in list \cap Urls : Fits(l)
    /\ job # "cdn" /\ guest.at = "push" => Fits(guest.link)
    /\ base = "cdn" => \A k \in LinkKeys :
          media[k] \in {Nil, "cdn"} \/ (at = "updateMedia" /\ k \in todo) \/ k \in mixed
    /\ at = "writeAll" => base = "cdn" /\ \A l \in list \cap Urls : l.kind = "cdn"

\* a path whose file was found is still to come, being migrated or on the report
LeftInv ==
    /\ job = "uploads" => \A l \in moments :
           l.kind = "path" /\ l.of \in disk =>
               \/ l \in joined
               \/ /\ l.of \in mapped
                  /\ \/ failed \/ l.of \in todo
                     \/ at \in {"verify", "record", "readInvitation", "writeMoments"} /\ l.of = file
    /\ at = "writeMoments" => [kind |-> "path", of |-> file] \notin list

-----------------------------------------------------------------------------
(* Typing *)

LEMMA TypesInit == Init => Types
<1> SUFFICES ASSUME Init PROVE Types
    OBVIOUS
<1>1. DataTypes
    BY DEF Init, DataTypes, Links
<1>2. ScriptTypes
    BY DEF Init, ScriptTypes, Uploaded
<1>3. ServerTypes
    BY DEF Init, ServerTypes, Idle, Saves, SaveSteps
<1> QED BY <1>1, <1>2, <1>3 DEF Types

LEMMA PutTypes ==
    ASSUME Types, NEW f \in Files \cup Pictures \cup Videos, Put(f),
           \/ job = "previews" /\ todo' \subseteq Pictures
           \/ job = "uploads" /\ todo' \subseteq Files
           \/ job = "videos" /\ todo' \subseteq Videos,
           at \in {"putPreview", "next"}
    PROVE  Types'
<1>1. PICK k \in Keys \ drawn :
          /\ stored' = stored \cup {k} /\ drawn' = drawn \cup {k}
          /\ content' = [content EXCEPT ![k] = f]
          /\ file' = f /\ key' = k
          /\ Goto("verify")
          /\ UNCHANGED <<moments, preview, media, mapped, list, server>>
    BY DEF Put
<1>2. DataTypes'
    BY <1>1 DEF Types, DataTypes
<1>3. ScriptTypes'
    BY <1>1 DEF Types, ScriptTypes, Goto, TemplateSteps, UploadSteps, CdnSteps, Writing, Uploaded
<1>4. ServerTypes'
    BY <1>1 DEF Types, ServerTypes, server
<1> QED BY <1>2, <1>3, <1>4 DEF Types

\* a step of a script that leaves the data as they are
LEMMA QuietTypes ==
    ASSUME Types, UNCHANGED <<data, server>>, ScriptTypes' PROVE Types'
BY DEF Types, DataTypes, ServerTypes, data, server

LEMMA StopTypes == Stop => ScriptTypes'
BY DEF Stop, ScriptTypes, Writing, Uploaded

LEMMA LocalTypes == ASSUME Types, MigrateLocal \/ MigrateVideos PROVE Types'
<1>1. CASE ReadTemplates
    <2>1. preview.kind = "path" => preview.of \in Pictures
        BY DEF Types, DataTypes, Originals, Urls
    <2>2. ScriptTypes'
        BY <1>1, <2>1 DEF ReadTemplates, Start, Types, ScriptTypes, TemplateSteps, UploadSteps,
            CdnSteps, Writing, Uploaded
    <2> QED BY <1>1, <2>2, QuietTypes DEF ReadTemplates, Start
<1>2. CASE PutPreview
    BY <1>2, PutTypes DEF PutPreview, Types, ScriptTypes, TemplateSteps, UploadSteps, CdnSteps
<1>3. CASE NextUpload \/ NextVideo
    <2>1. CASE Stop /\ UNCHANGED <<data, server>>
        BY <2>1, StopTypes, QuietTypes
    <2>2. CASE ~(Stop /\ UNCHANGED <<data, server>>)
        BY <1>3, <2>2, PutTypes DEF NextUpload, NextVideo, NextFile, Types, ScriptTypes
    <2> QED BY <2>1, <2>2
<1>4. CASE VerifyPreview \/ VerifyUpload \/ VerifyVideo
    <2>1. UNCHANGED <<data, server>>
        BY <1>4 DEF VerifyPreview, VerifyUpload, VerifyVideo, Verify, Keep, Drop, Rest
    <2>2. ScriptTypes'
        BY <1>4 DEF VerifyPreview, VerifyUpload, VerifyVideo, Verify, Keep, Drop, Rest, Goto,
            Types, ScriptTypes, TemplateSteps, UploadSteps, CdnSteps, Writing, Uploaded
    <2> QED BY <2>1, <2>2, QuietTypes
<1>5. CASE RecordPreview \/ RecordUpload \/ RecordVideo
    <2>1. DataTypes'
        BY <1>5 DEF RecordPreview, RecordUpload, RecordVideo, Record, Types, DataTypes
    <2>2. ScriptTypes'
        BY <1>5 DEF RecordPreview, RecordUpload, RecordVideo, Record, Keep, Drop, Rest, Goto,
            Types, ScriptTypes, TemplateSteps, UploadSteps, CdnSteps, Writing, Uploaded
    <2>3. ServerTypes'
        BY <1>5 DEF RecordPreview, RecordUpload, RecordVideo, Record, Keep, Drop, Rest, Types,
            ServerTypes, server
    <2> QED BY <2>1, <2>2, <2>3 DEF Types
<1>6. CASE WritePreview
    <2>1. key \in Keys
        BY <1>6 DEF WritePreview, Types, ScriptTypes, Uploaded
    <2>2. DataTypes'
        BY <1>6, <2>1 DEF WritePreview, Types, DataTypes, Urls
    <2>3. ScriptTypes'
        BY <1>6 DEF WritePreview, Goto, Drop, Rest, Types, ScriptTypes, TemplateSteps,
            UploadSteps, CdnSteps, Writing, Uploaded
    <2>4. ServerTypes'
        BY <1>6 DEF WritePreview, Drop, Rest, server, Types, ServerTypes
    <2> QED BY <2>2, <2>3, <2>4 DEF Types
<1>7. CASE ReadInvitations \/ BeginVideos
    <2>1. ScriptTypes'
        BY <1>7 DEF ReadInvitations, BeginVideos, Start, Types, ScriptTypes, TemplateSteps,
            UploadSteps, CdnSteps, Writing, Uploaded, Paths
    <2> QED BY <1>7, <2>1, QuietTypes DEF ReadInvitations, BeginVideos, Start
<1>8. CASE ReadInvitation
    <2>1. list' \subseteq Links
        <3>1. key \in Keys
            BY <1>8 DEF ReadInvitation, Types, ScriptTypes, Uploaded
        <3>2. [kind |-> "s3", of |-> key] \in Links
            BY <3>1 DEF Links, Urls
        <3> QED BY <1>8, <3>2 DEF ReadInvitation, Replaced, Types, DataTypes
    <2>2. ScriptTypes'
        BY <1>8, <2>1 DEF ReadInvitation, Goto, Types, ScriptTypes, TemplateSteps, UploadSteps,
            CdnSteps, Writing, Uploaded
    <2> QED BY <1>8, <2>2, QuietTypes DEF ReadInvitation
<1>9. CASE WriteMoments
    <2>1. job = "uploads"
        BY <1>9 DEF WriteMoments, Types, ScriptTypes, TemplateSteps, UploadSteps, CdnSteps
    <2>2. DataTypes'
        BY <1>9 DEF WriteMoments, Types, DataTypes, ScriptTypes
    <2>3. ScriptTypes'
        BY <1>9, <2>1 DEF WriteMoments, Goto, Drop, Rest, Types, ScriptTypes, UploadSteps,
            Writing, Uploaded
    <2>4. ServerTypes'
        BY <1>9 DEF WriteMoments, Drop, Rest, server, Types, ServerTypes
    <2> QED BY <2>2, <2>3, <2>4 DEF Types
<1> QED
    BY <1>1, <1>2, <1>3, <1>4, <1>5, <1>6, <1>7, <1>8, <1>9 DEF MigrateLocal, MigrateVideos

LEMMA CdnTypes == ASSUME Types, MigrateCdn \/ CrashScript PROVE Types'
<1>1. CASE ReadMedia
    <2>1. ScriptTypes'
        BY <1>1 DEF ReadMedia, Start, Types, ScriptTypes, CdnSteps, Writing, Uploaded
    <2> QED BY <1>1, <2>1, QuietTypes DEF ReadMedia, Start
<1>2. CASE UpdateMedia
    <2>1. job = "cdn"
        BY <1>2 DEF UpdateMedia, Types, ScriptTypes, TemplateSteps, UploadSteps
    <2>2. PICK k \in todo :
              IF media[k] = Nil THEN Stop /\ UNCHANGED media
              ELSE /\ media' = [media EXCEPT ![k] = base]
                   /\ todo' = todo \ {k}
                   /\ UNCHANGED <<at, job, base, failed, file, key, mapped, list>>
        BY <1>2 DEF UpdateMedia
    <2>3. DataTypes'
        BY <1>2, <2>1, <2>2 DEF UpdateMedia, Types, DataTypes, ScriptTypes
    <2>4. ScriptTypes'
        BY <1>2, <2>1, <2>2, StopTypes DEF UpdateMedia, Types, ScriptTypes, CdnSteps, Writing,
            Uploaded
    <2>5. ServerTypes'
        BY <1>2 DEF UpdateMedia, server, Types, ServerTypes
    <2> QED BY <2>3, <2>4, <2>5 DEF Types
<1>3. CASE ReadPreviews
    <2>1. Convert(preview) \in Originals \cup Urls
        BY DEF Convert, Types, DataTypes, Urls, Originals
    <2>2. ScriptTypes'
        BY <1>3, <2>1 DEF ReadPreviews, Goto, Types, ScriptTypes, TemplateSteps, UploadSteps,
            CdnSteps, Writing, Uploaded
    <2> QED BY <1>3, <2>2, QuietTypes DEF ReadPreviews
<1>4. CASE WritePreviews
    <2>1. job = "cdn"
        BY <1>4 DEF WritePreviews, Types, ScriptTypes, TemplateSteps, UploadSteps
    <2>2. DataTypes'
        BY <1>4 DEF WritePreviews, Types, DataTypes, ScriptTypes
    <2>3. ScriptTypes'
        BY <1>4, <2>1 DEF WritePreviews, Goto, Drop, Rest, Types, ScriptTypes, CdnSteps, Writing,
            Uploaded
    <2>4. ServerTypes'
        BY <1>4 DEF WritePreviews, Drop, Rest, server, Types, ServerTypes
    <2> QED BY <2>2, <2>3, <2>4 DEF Types
<1>5. CASE ReadAll
    <2>1. CASE Stop
        BY <1>5, <2>1, StopTypes, QuietTypes DEF ReadAll
    <2>2. CASE ~Stop
        <3>1. list' = {Convert(l) : l \in moments} /\ Goto("writeAll")
              /\ UNCHANGED <<file, key, todo, mapped>>
            BY <1>5, <2>2 DEF ReadAll
        <3>2. list' \subseteq Links
            BY <3>1 DEF Convert, Types, DataTypes, Links, Urls, Paths
        <3>3. ScriptTypes'
            BY <1>5, <3>1, <3>2 DEF ReadAll, Goto, Types, ScriptTypes, TemplateSteps, UploadSteps,
                CdnSteps, Writing, Uploaded
        <3> QED BY <1>5, <3>3, QuietTypes DEF ReadAll
    <2> QED BY <2>1, <2>2
<1>6. CASE WriteAll
    <2>1. DataTypes'
        BY <1>6 DEF WriteAll, Types, DataTypes, ScriptTypes
    <2>2. ServerTypes'
        BY <1>6 DEF WriteAll, server, Types, ServerTypes
    <2> QED BY <1>6, <2>1, <2>2, StopTypes DEF WriteAll, Types
<1>7. CASE CrashScript
    BY <1>7, StopTypes, QuietTypes DEF CrashScript
<1> QED BY <1>1, <1>2, <1>3, <1>4, <1>5, <1>6, <1>7 DEF MigrateCdn

\* what an update has once it has read the row, and once it has read the media
LEMMA Selected ==
    ASSUME Types, ReadUpdate
    PROVE  /\ save.at = "open" /\ save'.at \in {"overwrite", "findMedia"}
           /\ save' \in Saves /\ save'.todo = {}
           /\ save'.list \subseteq save.list /\ save'.removed = moments \ save'.list
           /\ UNCHANGED <<moments, preview, media, stored, content, drawn, guest, script>>
<1>1. PICK kept \in SUBSET save.list :
          save' = [save EXCEPT
              !.list = kept, !.removed = moments \ kept,
              !.at = IF moments \ kept = {} THEN "overwrite" ELSE "findMedia"]
    BY DEF ReadUpdate
<1>2. save.at = "open" /\ UNCHANGED <<moments, preview, media, stored, content, drawn, guest, script>>
    BY DEF ReadUpdate, Quiet, data
<1>3. save.todo = {}
    BY <1>2 DEF Types, ServerTypes, KeysIn
<1>4. save' \in Saves
    BY <1>1 DEF Types, DataTypes, ServerTypes, Saves, SaveSteps
<1>5. /\ save'.list = kept /\ save'.removed = moments \ kept /\ save'.todo = {}
      /\ save'.at \in {"overwrite", "findMedia"}
    BY <1>1, <1>3 DEF Types, ServerTypes, Saves
<1> QED BY <1>2, <1>4, <1>5

\* the page that a browser gets has the keys of the gallery
LEMMA Loaded ==
    ASSUME Types, LoadPage
    PROVE  /\ save.at = "idle" /\ save'.at = "open" /\ save' \in Saves
           /\ save'.removed = {} /\ save'.todo = {}
           /\ KeysIn(save'.list) = KeysIn(moments)
           /\ OneUrlEach(moments) => OneUrlEach(save'.list)
           /\ UNCHANGED <<moments, preview, media, stored, content, drawn, guest, script>>
<1>1. PICK shown \in {moments, {Served(l) : l \in moments}} :
          save' = [at |-> "open", list |-> shown, removed |-> {}, todo |-> {}, key |-> Nil]
    BY DEF LoadPage, Idle
<1>2. ASSUME NEW l \in moments
      PROVE  /\ Served(l) \in Links /\ Served(l).of = l.of
             /\ Served(l) \in Urls <=> l \in Urls
    BY DEF Served, Types, DataTypes, Links, Paths, Urls
<1>3. shown \subseteq Links
    BY <1>2 DEF Types, DataTypes
<1>4. KeysIn(shown) = KeysIn(moments)
    BY <1>2 DEF KeysIn
<1>5. OneUrlEach(moments) => OneUrlEach(shown)
    BY <1>2 DEF OneUrlEach
<1>6. save' \in Saves
    BY <1>1, <1>3 DEF Saves, SaveSteps
<1>7. UNCHANGED <<moments, preview, media, stored, content, drawn, guest, script>>
    BY DEF LoadPage, Quiet, data
<1> QED BY <1>1, <1>4, <1>5, <1>6, <1>7 DEF LoadPage

LEMMA Found ==
    ASSUME Types, FindMedia
    PROVE  /\ save.at = "findMedia" /\ save'.at = "cleanObject" /\ save' \in Saves
           /\ save'.list = save.list /\ save'.removed = save.removed
           /\ save'.todo \subseteq KeysIn(save.removed)
           /\ UNCHANGED <<moments, preview, media, stored, content, drawn, guest, script>>
<1> DEFINE found == {k \in Keys : [kind |-> media[k], of |-> k] \in save.removed}
<1>1. found \subseteq KeysIn(save.removed)
    <2> SUFFICES ASSUME NEW k \in found PROVE k \in KeysIn(save.removed)
        OBVIOUS
    <2>1. [kind |-> media[k], of |-> k] \in Links
        BY DEF Types, ServerTypes, Saves
    <2>2. media[k] \in {"s3", "cdn", "path", "host"}
        BY <2>1 DEF Links, Paths, Urls
    <2>3. media[k] \in {"s3", "cdn", "bare", Nil}
        BY DEF Types, DataTypes
    <2>4. media[k] \in {"s3", "cdn"}
        BY <2>2, <2>3, ConstantsAssumption
    <2>5. [kind |-> media[k], of |-> k] \in save.removed \cap Urls
        BY <2>4 DEF Urls
    <2> QED BY <2>5 DEF KeysIn
<1>2. save' = [save EXCEPT !.at = "cleanObject", !.todo = found]
    BY DEF FindMedia
<1>3. UNCHANGED <<moments, preview, media, stored, content, drawn, guest, script>>
    BY DEF FindMedia, Quiet, data
<1>4. found \subseteq Keys /\ save.at = "findMedia"
    BY DEF FindMedia
<1> HIDE DEF found
<1>5. save' \in Saves
    BY <1>2, <1>4 DEF Types, ServerTypes, Saves, SaveSteps
<1>6. /\ save'.todo = found /\ save'.list = save.list /\ save'.removed = save.removed
      /\ save'.at = "cleanObject"
    BY <1>2 DEF Types, ServerTypes, Saves
<1> QED BY <1>1, <1>3, <1>4, <1>5, <1>6

LEMMA ServerSteps == ASSUME Types, Server \/ CrashServer PROVE Types'
<1>1. ScriptTypes'
    BY DEF Server, CrashServer, LoadPage, ReadUpdate, FindMedia, CleanObject, CleanRecord,
        Overwrite, PutGuest, RecordGuest, PushGuest, SetPreview, Quiet, script, Types, ScriptTypes
<1>2. CASE LoadPage \/ ReadUpdate \/ FindMedia
    <2>1. DataTypes' /\ guest' = guest
        BY <1>2 DEF LoadPage, ReadUpdate, FindMedia, data, Types, DataTypes
    <2>2. CASE LoadPage
        <3> QED BY <1>1, <2>1, <2>2, Loaded DEF Types, ServerTypes
    <2>3. CASE ReadUpdate
        BY <1>1, <2>1, <2>3, Selected DEF Types, DataTypes, ServerTypes, Saves
    <2>4. CASE FindMedia
        BY <1>1, <2>1, <2>4, Found DEF Types, ServerTypes, Saves
    <2> QED BY <1>1, <1>2, <2>1, <2>2, <2>3, <2>4 DEF Types
<1>3. CASE CleanObject \/ CleanRecord
    <2>1. DataTypes'
        BY <1>3 DEF CleanObject, CleanRecord, Types, DataTypes
    <2>2. ServerTypes'
        BY <1>3 DEF CleanObject, CleanRecord, Types, ServerTypes, Saves, SaveSteps
    <2> QED BY <1>1, <2>1, <2>2 DEF Types
<1>4. CASE Overwrite
    <2>1. DataTypes'
        BY <1>4 DEF Overwrite, Types, DataTypes, ServerTypes, Saves
    <2>2. ServerTypes'
        BY <1>4 DEF Overwrite, Idle, Types, ServerTypes, Saves, SaveSteps
    <2> QED BY <1>1, <2>1, <2>2 DEF Types
<1>5. CASE PutGuest \/ RecordGuest \/ PushGuest
    <2>1. CASE PutGuest
        <3>1. PICK k \in Keys \ drawn, form \in {"s3", "cdn"} :
                  /\ stored' = stored \cup {k} /\ drawn' = drawn \cup {k}
                  /\ guest' = [at |-> "record", link |-> [kind |-> form, of |-> k]]
            BY <2>1 DEF PutGuest
        <3>2. guest'.link \in Urls /\ guest'.link # Nil
            BY <3>1, ConstantsAssumption DEF Urls, Links
        <3> QED BY <1>1, <2>1, <3>1, <3>2 DEF PutGuest, Types, DataTypes, ServerTypes
    <2>2. CASE RecordGuest
        <3>1. guest.link \in Urls
            BY <2>2 DEF RecordGuest, Types, ServerTypes
        <3> QED BY <1>1, <2>2, <3>1 DEF RecordGuest, Types, DataTypes, ServerTypes, Urls
    <2>3. CASE PushGuest
        <3>1. guest.link \in Links
            BY <2>3 DEF PushGuest, Types, ServerTypes, Links
        <3> QED BY <1>1, <2>3, <3>1 DEF PushGuest, Types, DataTypes, ServerTypes
    <2> QED BY <1>5, <2>1, <2>2, <2>3
<1>6. CASE SetPreview
    BY <1>1, <1>6 DEF SetPreview, server, Types, DataTypes, ServerTypes
<1>7. CASE CrashServer
    BY <1>1, <1>7 DEF CrashServer, data, Idle, Types, DataTypes, ServerTypes, Saves, SaveSteps
<1> QED BY <1>2, <1>3, <1>4, <1>5, <1>6, <1>7 DEF Server

LEMMA TypesStep == Types /\ (Step \/ UNCHANGED vars) => Types'
<1>1. CASE UNCHANGED vars
    BY <1>1 DEF vars, data, script, server, Types, DataTypes, ScriptTypes, ServerTypes
<1> QED BY <1>1, LocalTypes, CdnTypes, ServerSteps DEF Step
-----------------------------------------------------------------------------
(* Who changes what *)

LEMMA ChangesMoments ==
    ASSUME Types, Step, moments' # moments
    PROVE  WriteMoments \/ WriteAll \/ Overwrite \/ PushGuest
BY DEF Step, MigrateLocal, MigrateVideos, MigrateCdn, Server, CrashScript, CrashServer, data,
    ReadTemplates, PutPreview, VerifyPreview, RecordPreview, WritePreview, ReadInvitations,
    NextUpload, VerifyUpload, RecordUpload, ReadInvitation, BeginVideos, NextVideo, VerifyVideo,
    RecordVideo, ReadMedia, UpdateMedia, ReadPreviews, WritePreviews, ReadAll, LoadPage,
    ReadUpdate, FindMedia, CleanObject, CleanRecord, PutGuest, RecordGuest, SetPreview, Start,
    Put, NextFile, Verify, Record

LEMMA ChangesPreview ==
    ASSUME Types, Step, preview' # preview
    PROVE  WritePreview \/ WritePreviews \/ SetPreview
BY DEF Step, MigrateLocal, MigrateVideos, MigrateCdn, Server, CrashScript, CrashServer, data,
    ReadTemplates, PutPreview, VerifyPreview, RecordPreview, ReadInvitations, NextUpload,
    VerifyUpload, RecordUpload, ReadInvitation, WriteMoments, BeginVideos, NextVideo, VerifyVideo,
    RecordVideo, ReadMedia, UpdateMedia, ReadPreviews, ReadAll, WriteAll, LoadPage, ReadUpdate,
    FindMedia, CleanObject, CleanRecord, Overwrite, PutGuest, RecordGuest, PushGuest, Start, Put,
    NextFile, Verify, Record

LEMMA ChangesMedia ==
    ASSUME Types, Step, media' # media
    PROVE  RecordPreview \/ RecordUpload \/ RecordVideo \/ UpdateMedia \/ CleanRecord \/ RecordGuest
BY DEF Step, MigrateLocal, MigrateVideos, MigrateCdn, Server, CrashScript, CrashServer, data,
    ReadTemplates, PutPreview, VerifyPreview, WritePreview, ReadInvitations, NextUpload,
    VerifyUpload, ReadInvitation, WriteMoments, BeginVideos, NextVideo, VerifyVideo, ReadMedia,
    ReadPreviews, WritePreviews, ReadAll, WriteAll, LoadPage, ReadUpdate, FindMedia, CleanObject,
    Overwrite, PutGuest, PushGuest, SetPreview, Start, Put, NextFile, Verify

\* a new object has a new key; an object goes in a clean-up only
LEMMA ChangesBucket ==
    ASSUME Types, Step, <<stored, content, drawn>>' # <<stored, content, drawn>>
    PROVE  \/ /\ UNCHANGED <<moments, preview, media, list, save, job, base>>
              /\ at' = "verify" /\ at \in {"putPreview", "next"} /\ guest' = guest
              /\ \E k \in Keys \ drawn :
                     /\ stored' = stored \cup {k} /\ drawn' = drawn \cup {k} /\ key' = k
                     /\ \E f \in todo \cup Files : content' = [content EXCEPT ![k] = f]
           \/ PutGuest \/ CleanObject
<1>1. CASE PutPreview \/ NextUpload \/ NextVideo
    <2>1. PICK f \in todo : Put(f) /\ at \in {"putPreview", "next"}
        BY <1>1 DEF PutPreview, NextUpload, NextVideo, NextFile, data
    <2> QED BY <2>1 DEF Put, Goto, server
<1> QED
    BY <1>1 DEF Step, MigrateLocal, MigrateVideos, MigrateCdn, Server, CrashScript, CrashServer,
        data, ReadTemplates, VerifyPreview, RecordPreview, WritePreview, ReadInvitations,
        VerifyUpload, RecordUpload, ReadInvitation, WriteMoments, BeginVideos, VerifyVideo,
        RecordVideo, ReadMedia, UpdateMedia, ReadPreviews, WritePreviews, ReadAll, WriteAll,
        LoadPage, ReadUpdate, FindMedia, CleanRecord, Overwrite, RecordGuest, PushGuest,
        SetPreview, Start, Verify, Record

\* the list of a script, and where it stands with it
LEMMA ChangesList ==
    ASSUME Types, Step, at' \in Writing \cup {"writePreviews"}
    PROVE  (at' = at /\ list' = list /\ base' = base) \/ ReadInvitation \/ ReadPreviews \/ ReadAll
<1>1. CASE MigrateLocal \/ MigrateVideos
    BY <1>1 DEF MigrateLocal, MigrateVideos, ReadTemplates, PutPreview, VerifyPreview,
        RecordPreview, WritePreview, ReadInvitations, NextUpload, VerifyUpload, RecordUpload,
        WriteMoments, BeginVideos, NextVideo, VerifyVideo, RecordVideo, Start, Put, NextFile,
        Verify, Record, Goto, Stop, Writing
<1>2. CASE MigrateCdn \/ CrashScript
    BY <1>2 DEF MigrateCdn, ReadMedia, UpdateMedia, WritePreviews, WriteAll, CrashScript, Start,
        Goto, Stop, Writing
<1>3. CASE Server \/ CrashServer
    BY <1>3 DEF Server, CrashServer, LoadPage, ReadUpdate, FindMedia, CleanObject, CleanRecord,
        Overwrite, PutGuest, RecordGuest, PushGuest, SetPreview, Quiet, script
<1> QED BY <1>1, <1>2, <1>3 DEF Step

LEMMA StepOfScript ==
    Step => MigrateLocal \/ MigrateVideos \/ MigrateCdn \/ CrashScript \/ UNCHANGED script
BY DEF Step, Server, CrashServer, LoadPage, ReadUpdate, FindMedia, CleanObject, CleanRecord,
    Overwrite, PutGuest, RecordGuest, PushGuest, SetPreview, Quiet

LEMMA ChangesGuest ==
    ASSUME Types, Step
    PROVE  PutGuest \/ guest'.link \in {Nil, guest.link}
<1>1. CASE RecordGuest
    BY <1>1 DEF RecordGuest, Types, ServerTypes
<1>2. CASE PushGuest \/ CrashServer
    BY <1>2 DEF PushGuest, CrashServer
<1>3. CASE ~(PutGuest \/ RecordGuest \/ PushGuest \/ CrashServer)
    <2>1. guest' = guest
        BY <1>3 DEF Step, MigrateLocal, MigrateVideos, MigrateCdn, Server, CrashScript,
            ReadTemplates, PutPreview, VerifyPreview, RecordPreview, WritePreview,
            ReadInvitations, NextUpload, VerifyUpload, RecordUpload, ReadInvitation, WriteMoments,
            BeginVideos, NextVideo, VerifyVideo, RecordVideo, ReadMedia, UpdateMedia,
            ReadPreviews, WritePreviews, ReadAll, WriteAll, LoadPage, ReadUpdate, FindMedia,
            CleanObject, CleanRecord, Overwrite, SetPreview, server, Start, Put, NextFile, Verify,
            Record, Keep, Drop, Rest
    <2> QED BY <2>1
<1> QED BY <1>1, <1>2, <1>3

\* the guest's photo gets its row
LEMMA RecordsGuest ==
    ASSUME Types, RecordGuest
    PROVE  /\ guest.at = "record" /\ guest' # guest /\ guest'.link = guest.link
           /\ UNCHANGED <<moments, script, save>>
BY DEF RecordGuest, Quiet, Types, ServerTypes

LEMMA ChangesSave ==
    ASSUME Types, Step, save'.at # "idle"
    PROVE  \/ LoadPage \/ ReadUpdate
           \/ /\ save.at # "idle" /\ save'.list = save.list /\ save'.removed = save.removed
              /\ save.at = "open" <=> save'.at = "open"
<1>1. CASE FindMedia
    BY <1>1, Found
<1>2. CASE CleanObject \/ CleanRecord
    BY <1>2 DEF CleanObject, CleanRecord, Types, ServerTypes, Saves
<1> QED
    BY <1>1, <1>2 DEF Step, MigrateLocal, MigrateVideos, MigrateCdn, Server, CrashScript,
        CrashServer, ReadTemplates, PutPreview, VerifyPreview, RecordPreview, WritePreview,
        ReadInvitations, NextUpload, VerifyUpload, RecordUpload, ReadInvitation, WriteMoments,
        BeginVideos, NextVideo, VerifyVideo, RecordVideo, ReadMedia, UpdateMedia, ReadPreviews,
        WritePreviews, ReadAll, WriteAll, Overwrite, PutGuest, RecordGuest, PushGuest, SetPreview,
        server, Idle, Start, Put, NextFile, Verify, Record, Keep, Drop, Rest

-----------------------------------------------------------------------------
(* Whose a key is *)

LEMMA KeyStep == ASSUME Types, Types', KeyInv, Step PROVE KeyInv'
<1> USE DEF Types, DataTypes, ScriptTypes, ServerTypes, Saves, KeyInv, PreviewKeys, GalleryKeys,
    LinkKeys, KeysIn
<1>1. CASE ReadTemplates
    BY <1>1, SMTT(20) DEF ReadTemplates, Start, server, data, Uploaded, Writing
<1>2. CASE PutPreview
    BY <1>2, SMTT(20) DEF PutPreview, Put, Goto, server, data, Uploaded, Writing
<1>3. CASE VerifyPreview
    BY <1>3, SMTT(20) DEF VerifyPreview, Verify, Goto, Keep, Drop, Rest, server, data, Uploaded,
        Writing
<1>4. CASE RecordPreview
    BY <1>4, SMTT(20) DEF RecordPreview, Record, Goto, Keep, Drop, Rest, server, data, Uploaded,
        Writing
<1>5. CASE WritePreview
    BY <1>5, SMTT(20) DEF WritePreview, Goto, Drop, Rest, server, data, Uploaded, Writing
<1>6. CASE ReadInvitations
    BY <1>6, SMTT(20) DEF ReadInvitations, server, data, Uploaded, Writing
<1>7. CASE NextUpload \/ NextVideo
    BY <1>7, SMTT(20) DEF NextUpload, NextVideo, NextFile, Put, Goto, Stop, server, data,
        Uploaded, Writing
<1>8. CASE VerifyUpload \/ VerifyVideo
    BY <1>8, SMTT(20) DEF VerifyUpload, VerifyVideo, Verify, Goto, Keep, Drop, Rest, server, data,
        Uploaded, Writing
<1>9. CASE RecordUpload \/ RecordVideo
    <2>1. /\ at = "record" /\ at' # "record" /\ at' # "verify" /\ at' # "writePreview"
          /\ at' = "readInvitation" => UNCHANGED <<file, key>>
          /\ media' = [media EXCEPT ![key] = "s3"]
          /\ UNCHANGED <<moments, preview, stored, content, drawn, save, guest>>
          /\ list' = list \/ list' = {}
        BY <1>9 DEF RecordUpload, RecordVideo, Record, Goto, Keep, Drop, Rest, server
    <2>2. at' \in {"next", "readInvitation"}
        BY <1>9 DEF RecordUpload, RecordVideo, Record, Goto
    <2>3. list' = list
        BY <2>1 DEF Writing
    <2>4. PreviewKeys' = PreviewKeys /\ GalleryKeys' = GalleryKeys
        BY <2>1, <2>2, <2>3
    <2> QED BY <2>1, <2>2, <2>3, <2>4 DEF Uploaded
<1>10. CASE ReadInvitation
    BY <1>10, SMTT(20) DEF ReadInvitation, Goto, Replaced, server, data, Uploaded, Writing
<1>11. CASE WriteMoments
    BY <1>11, SMTT(20) DEF WriteMoments, Goto, Drop, Rest, server, data, Uploaded, Writing
<1>12. CASE ReadMedia \/ BeginVideos
    BY <1>12, SMTT(20) DEF ReadMedia, BeginVideos, Start, server, data, Uploaded, Writing
<1>13. CASE UpdateMedia
    BY <1>13, SMTT(20) DEF UpdateMedia, Stop, server, data, Uploaded, Writing
<1>14. CASE ReadPreviews
    <2>1. \A l \in KeysIn({Convert(preview)}) : l \in KeysIn({preview})
        BY DEF Convert, Originals, Urls
    <2>2. at # "writePreviews" /\ UNCHANGED <<moments, preview, media, stored, content, drawn, save, guest>>
        BY <1>14 DEF ReadPreviews, server, data
    <2>3. PreviewKeys' \subseteq PreviewKeys
        BY <1>14, <2>1, <2>2 DEF ReadPreviews, Goto
    <2>4. GalleryKeys' \subseteq GalleryKeys
        BY <1>14, <2>2 DEF ReadPreviews, Goto
    <2>5. guest.at # "idle" => guest.link.of \notin KeysIn(list')
        BY <1>14, <2>1, <2>2 DEF ReadPreviews, Goto
    <2>6. at' \notin Uploaded
        BY <1>14 DEF ReadPreviews, Goto, Uploaded
    <2> HIDE DEF PreviewKeys, GalleryKeys, LinkKeys, KeysIn
    <2> QED BY <2>2, <2>3, <2>4, <2>5, <2>6
<1>15. CASE WritePreviews
    BY <1>15, SMTT(20) DEF WritePreviews, Goto, Drop, Rest, server, data, Uploaded, Writing
<1>16. CASE ReadAll
    <2>1. KeysIn({Convert(l) : l \in moments}) \subseteq KeysIn(moments)
        BY DEF Convert, Paths, Urls, Links
    <2>2. list = {} /\ UNCHANGED <<moments, preview, media, stored, content, drawn, save, guest>>
        BY <1>16 DEF ReadAll, server, data, Writing
    <2>3. at' # "writePreviews" /\ at' \notin Uploaded
        BY <1>16 DEF ReadAll, Stop, Goto, Uploaded
    <2>4. list' = {} \/ list' = {Convert(l) : l \in moments}
        BY <1>16 DEF ReadAll, Stop
    <2>5. KeysIn(list') \subseteq KeysIn(moments)
        BY <2>1, <2>4
    <2>6. PreviewKeys' = PreviewKeys
        BY <1>16, <2>2, <2>3 DEF ReadAll
    <2>7. GalleryKeys' \subseteq GalleryKeys
        BY <1>16, <2>2, <2>3, <2>5 DEF ReadAll
    <2>8. guest.at # "idle" => guest.link.of \notin KeysIn(list')
        BY <2>5
    <2> HIDE DEF PreviewKeys, GalleryKeys, LinkKeys, KeysIn
    <2> QED BY <2>2, <2>3, <2>6, <2>7, <2>8
<1>17. CASE WriteAll
    BY <1>17, SMTT(20) DEF WriteAll, Stop, server, data, Uploaded, Writing
<1>18. CASE CrashScript
    BY <1>18, SMTT(20) DEF CrashScript, Stop, server, data, Uploaded, Writing
<1>19. CASE LoadPage
    <2>1. save'.removed = {} /\ KeysIn(save'.list) = KeysIn(moments)
        BY <1>19, Loaded
    <2>2. UNCHANGED <<moments, preview, media, stored, content, drawn, at, file, key, list, guest>>
        BY <1>19, Loaded DEF script
    <2>3. PreviewKeys' = PreviewKeys /\ GalleryKeys' \subseteq GalleryKeys
        BY <2>1, <2>2
    <2> QED BY <2>1, <2>2, <2>3
<1>20. CASE ReadUpdate
    <2>1. save'.list \subseteq save.list /\ save'.removed \subseteq moments
        BY <1>20, Selected
    <2>2. UNCHANGED <<moments, preview, media, stored, content, drawn, at, file, key, list, guest>>
        BY <1>20, Selected DEF script
    <2> QED BY <2>1, <2>2
<1>21. CASE FindMedia
    <2>1. save'.list = save.list /\ save'.removed = save.removed
        BY <1>21, Found
    <2>2. UNCHANGED <<moments, preview, media, stored, content, drawn, at, file, key, list, guest>>
        BY <1>21, Found DEF script
    <2> QED BY <2>1, <2>2
<1>22. CASE CleanObject
    <2>1. save'.list = save.list /\ save'.removed = save.removed
        BY <1>22 DEF CleanObject
    <2>2. UNCHANGED <<moments, preview, media, content, drawn, at, file, key, list, guest>>
        BY <1>22 DEF CleanObject, Quiet, script
    <2>3. PICK k \in save.todo : stored \ {k} \subseteq stored'
        BY <1>22 DEF CleanObject
    <2>4. PreviewKeys' = PreviewKeys /\ GalleryKeys' = GalleryKeys
        BY <2>1, <2>2
    <2>5. k \in GalleryKeys /\ k \in KeysIn(save.removed)
        BY <2>3
    <2> QED BY <2>1, <2>2, <2>3, <2>4, <2>5
<1>23. CASE CleanRecord
    BY <1>23, SMTT(20) DEF CleanRecord, Quiet, script, data
<1>24. CASE Overwrite
    BY <1>24, SMTT(20) DEF Overwrite, Idle, Quiet, script, data
<1>25. CASE PutGuest
    <2>1. PICK k \in Keys \ drawn, form \in {"s3", "cdn"} :
              /\ stored' = stored \cup {k} /\ drawn' = drawn \cup {k}
              /\ guest' = [at |-> "record", link |-> [kind |-> form, of |-> k]]
        BY <1>25 DEF PutGuest
    <2>2. UNCHANGED <<moments, preview, media, content, at, file, key, list, save>>
        BY <1>25 DEF PutGuest, Quiet, script
    <2>3. PreviewKeys' = PreviewKeys
        BY <2>2
    <2>4. GalleryKeys' \subseteq GalleryKeys \cup {k}
        BY <2>1, <2>2
    <2>5. k \notin KeysIn(moments) \cup KeysIn(list) \cup KeysIn(save.list) \cup KeysIn(save.removed)
        OBVIOUS
    <2>6. guest'.link.of = k /\ k \notin PreviewKeys
        BY <2>1
    <2> HIDE DEF PreviewKeys, GalleryKeys, LinkKeys, KeysIn
    <2> QED BY <2>1, <2>2, <2>3, <2>4, <2>5, <2>6
<1>26. CASE RecordGuest
    BY <1>26, SMTT(20) DEF RecordGuest, Quiet, script, data
<1>27. CASE PushGuest
    <2>1. UNCHANGED <<preview, media, stored, content, drawn, at, file, key, list, save>>
        BY <1>27 DEF PushGuest, Quiet, script
    <2>2. moments' = moments \cup {guest.link} /\ guest'.at = "idle" /\ guest'.link = Nil
        BY <1>27 DEF PushGuest
    <2>3. PreviewKeys' = PreviewKeys
        BY <2>1
    <2>4. GalleryKeys' \subseteq GalleryKeys
        BY <2>1, <2>2, ConstantsAssumption DEF Links
    <2> QED BY <2>1, <2>2, <2>3, <2>4
<1>28. CASE SetPreview
    <2>1. preview' \notin Urls
        BY <1>28 DEF SetPreview, Originals, Urls
    <2>2. UNCHANGED <<moments, media, stored, content, drawn, save, guest, at, file, key, list>>
        BY <1>28 DEF SetPreview, Quiet, script, server
    <2>3. PreviewKeys' \subseteq PreviewKeys
        BY <2>1, <2>2
    <2>4. GalleryKeys' = GalleryKeys
        BY <2>2
    <2> QED BY <2>2, <2>3, <2>4
<1>29. CASE CrashServer
    <2>1. save'.list = {} /\ save'.removed = {} /\ guest'.at = "idle" /\ guest'.link = Nil
        BY <1>29 DEF CrashServer, Idle
    <2>2. UNCHANGED <<moments, preview, media, stored, content, drawn, at, file, key, list>>
        BY <1>29 DEF CrashServer, Quiet, script, data
    <2>3. PreviewKeys' = PreviewKeys
        BY <2>2
    <2>4. GalleryKeys' \subseteq GalleryKeys
        BY <2>1, <2>2, ConstantsAssumption DEF Links
    <2> QED BY <2>1, <2>2, <2>3, <2>4
<1> QED
    BY <1>1, <1>2, <1>3, <1>4, <1>5, <1>6, <1>7, <1>8, <1>9, <1>10, <1>11, <1>12, <1>13, <1>14,
        <1>15, <1>16, <1>17, <1>18, <1>19, <1>20, <1>21, <1>22, <1>23, <1>24, <1>25, <1>26, <1>27,
        <1>28, <1>29 DEF Step, MigrateLocal, MigrateVideos, MigrateCdn, Server
-----------------------------------------------------------------------------
(* No photo is lost *)

LEMMA DrawnBefore ==
    ASSUME Types, Types', KeyInv, KeyInv', Step
    PROVE  /\ \A k \in drawn : content'[k] = content[k]
           /\ KeysIn(moments' \cup list' \cup save'.list \cup save'.removed \cup {preview'})
                  \subseteq drawn
<1>1. KeysIn(moments' \cup list' \cup save'.list \cup save'.removed \cup {preview'}) \subseteq drawn'
    BY DEF Types, DataTypes, KeyInv, PreviewKeys, GalleryKeys, LinkKeys, KeysIn
<1>2. KeysIn(moments \cup list \cup save.list \cup save.removed \cup {preview}) \subseteq drawn
    BY DEF Types, DataTypes, KeyInv, PreviewKeys, GalleryKeys, LinkKeys, KeysIn
<1>3. CASE UNCHANGED <<stored, content, drawn>>
    BY <1>1, <1>3
<1>4. CASE PutGuest
    BY <1>2, <1>4 DEF PutGuest, Quiet, script
<1>5. CASE CleanObject
    BY <1>1, <1>5 DEF CleanObject
<1>6. CASE /\ UNCHANGED <<moments, preview, media, list, save, job, base>>
           /\ \E k \in Keys \ drawn :
                  \E f \in todo \cup Files : content' = [content EXCEPT ![k] = f]
    BY <1>2, <1>6 DEF Types, DataTypes
<1> QED BY <1>3, <1>4, <1>5, <1>6, ChangesBucket

\* so a link keeps its photo
LEMMA SamePhoto ==
    ASSUME Types, Types', KeyInv, KeyInv', Step,
           NEW l \in moments' \cup list' \cup save'.list \cup save'.removed \cup {preview'}
    PROVE  Photo(l)' = Photo(l)
<1>1. l \in Links \cup Originals
    BY DEF Types, DataTypes, ScriptTypes, ServerTypes, Saves, Links
<1>2. CASE l \in Urls
    BY <1>2, DrawnBefore DEF Photo, KeysIn
<1>3. CASE l \notin Urls
    BY <1>1, <1>3 DEF Photo, Links, Paths, Originals
<1> QED BY <1>2, <1>3

Came == Photos(moments') \ Photos(moments)

LEMMA TrackLate ==
    ASSUME Track
    PROVE  /\ at' \in Writing =>
                  late'.script = ((late.script \cup Came) \cap Photos(moments')) \ Photos(list')
           /\ save'.at \notin {"idle", "open"} =>
                  late'.owner = ((late.owner \cup Came) \cap Photos(moments')) \ Photos(save'.list)
BY DEF Track, Came

LEMMA PhotoStep ==
    ASSUME Types, Types', KeyInv, KeyInv', PhotoInv, Step, Track
    PROVE  PhotoInv'
<1>1. /\ Photos(moments)' = Photos(moments') /\ Photos(list)' = Photos(list')
      /\ Photos(save.list)' = Photos(save'.list) /\ Photos(save.removed)' = Photos(save'.removed)
    BY SamePhoto DEF Photos
<1>2. ASSUME at' \in Writing PROVE Photos(moments') \ Photos(list') \subseteq late'.script
    <2>1. CASE at \in Writing /\ list' = list
        BY <1>2, <2>1, TrackLate DEF PhotoInv, Came
    <2>2. CASE ReadInvitation
        <3>1. content[key] = file
            BY <2>2 DEF ReadInvitation, KeyInv, Uploaded
        <3>2. ASSUME NEW l \in moments PROVE \E m \in list' : Photo(m) = Photo(l)
            <4>1. CASE l = [kind |-> "path", of |-> file]
                <5>1. [kind |-> "s3", of |-> key] \in list'
                    BY <2>2, <4>1 DEF ReadInvitation, Replaced
                <5>2. Photo([kind |-> "s3", of |-> key]) = file /\ Photo(l) = file
                    BY <3>1, <4>1 DEF Photo
                <5> QED BY <5>1, <5>2
            <4>2. CASE l # [kind |-> "path", of |-> file]
                BY <2>2, <4>2 DEF ReadInvitation, Replaced
            <4> QED BY <4>1, <4>2
        <3> QED BY <2>2, <3>2 DEF ReadInvitation, data, Photos
    <2>3. CASE ReadAll
        <3>1. moments' = moments /\ list' = {Convert(l) : l \in moments}
            BY <1>2, <2>3 DEF ReadAll, data, Stop, Writing
        <3>2. \A l \in moments : Photo(Convert(l)) = Photo(l)
            BY DEF Types, DataTypes, Convert, Photo, Links, Paths, Urls
        <3> QED BY <3>1, <3>2 DEF Photos
    <2>4. ~ReadPreviews
        BY <1>2 DEF ReadPreviews, Goto, Writing
    <2> QED BY <1>2, <2>1, <2>2, <2>3, <2>4, ChangesList
<1>3. ASSUME save'.at \notin {"idle", "open"}
      PROVE  Photos(moments') \ Photos(save'.list) \subseteq Photos(save'.removed) \cup late'.owner
    <2>1. CASE ReadUpdate
        BY <2>1, Selected DEF Photos
    <2>2. ~LoadPage
        BY <1>3 DEF LoadPage, Idle
    <2>3. CASE save.at \notin {"idle", "open"} /\ save'.list = save.list /\ save'.removed = save.removed
        BY <1>3, <2>3, TrackLate DEF PhotoInv, Came
    <2> QED BY <1>3, <2>1, <2>2, <2>3, ChangesSave
<1> QED BY <1>1, <1>2, <1>3 DEF PhotoInv
LEMMA TrackOldPreview ==
    Track => (old'.preview <=> at' \in PreviewSteps
                               /\ (old.preview \/ (preview' # preview /\ at' = at)))
BY DEF Track

LEMMA PreviewStep ==
    ASSUME Types, Types', KeyInv, KeyInv', PreviewInv, Step, Track
    PROVE  PreviewInv'
<1> SUFFICES ASSUME ~old'.preview PROVE PreviewInv'
    BY DEF PreviewInv
<1>1. ASSUME UNCHANGED script, at \in {"putPreview", "verify", "record", "writePreview"}
      PROVE  preview' = preview /\ ~old.preview
    BY <1>1, TrackOldPreview DEF script, PreviewSteps
<1>2. ASSUME at' = "putPreview" PROVE preview'.kind = "path" /\ todo' = {preview'.of}
    <2>1. ReadTemplates \/ UNCHANGED script
        BY <1>2, StepOfScript DEF MigrateLocal, MigrateVideos, MigrateCdn, PutPreview,
            VerifyPreview, RecordPreview, WritePreview, ReadInvitations, NextUpload, VerifyUpload,
            RecordUpload, ReadInvitation, WriteMoments, BeginVideos, NextVideo, VerifyVideo,
            RecordVideo, ReadMedia, UpdateMedia, ReadPreviews, WritePreviews, ReadAll, WriteAll,
            CrashScript, Start, Put, NextFile, Verify, Record, Goto, Stop
    <2> QED BY <1>1, <1>2, <2>1 DEF ReadTemplates, Start, data, script, PreviewInv
<1>3. ASSUME job' = "previews", at' \in {"verify", "record", "writePreview"}
      PROVE  preview'.kind = "path" /\ preview'.of = file'
    <2>1. PutPreview \/ VerifyPreview \/ RecordPreview \/ UNCHANGED script
        BY <1>3, StepOfScript DEF MigrateLocal, MigrateVideos, MigrateCdn, ReadTemplates,
            WritePreview, ReadInvitations, NextUpload, VerifyUpload, RecordUpload, ReadInvitation,
            WriteMoments, BeginVideos, NextVideo, VerifyVideo, RecordVideo, ReadMedia,
            UpdateMedia, ReadPreviews, WritePreviews, ReadAll, WriteAll, CrashScript, Start, Put,
            NextFile, Verify, Record, Goto, Stop
    <2>2. CASE PutPreview
        <3>1. ~old.preview
            BY <2>2, TrackOldPreview DEF PutPreview, Put, Goto, PreviewSteps
        <3> QED BY <2>2, <3>1 DEF PutPreview, Put, PreviewInv
    <2>3. CASE VerifyPreview \/ RecordPreview
        <3>1. ~old.preview
            BY <1>3, TrackOldPreview DEF PreviewSteps
        <3> QED BY <1>3, <2>3, <3>1 DEF VerifyPreview, RecordPreview, Verify, Record, data, Keep,
            Goto, PreviewInv
    <2> QED BY <1>1, <1>3, <2>1, <2>2, <2>3 DEF script, PreviewInv
<1>4. ASSUME at' = "writePreviews", NEW l \in list' PROVE Photo(l)' = Photo(preview)'
    <2>1. CASE ReadPreviews
        <3>1. list' = {Convert(preview)} /\ preview' = preview /\ content' = content
            BY <1>4, <2>1 DEF ReadPreviews, Goto, data
        <3> QED BY <3>1 DEF Convert, Photo, Types, DataTypes, Originals, Urls
    <2>2. CASE at' = at /\ list' = list
        <3>1. preview' = preview /\ ~old.preview
            BY <1>4, <2>2, TrackOldPreview DEF PreviewSteps
        <3>2. Photo(l)' = Photo(l) /\ Photo(preview)' = Photo(preview')
            BY SamePhoto
        <3> QED BY <1>4, <2>2, <3>1, <3>2 DEF PreviewInv
    <2>3. ~ReadInvitation /\ ~ReadAll
        BY <1>4 DEF ReadInvitation, ReadAll, Goto, Stop
    <2> QED BY <1>4, <2>1, <2>2, <2>3, ChangesList
<1> QED BY <1>2, <1>3, <1>4 DEF PreviewInv

-----------------------------------------------------------------------------
(* Links and rows lead to objects *)

LEMMA TrackDead ==
    ASSUME Track
    PROVE  /\ dead \ stored' \subseteq dead'
           /\ UpdateCutOff => KeysIn(save.removed) \ stored' \subseteq dead'
           /\ ScriptWrites /\ old.script => KeysIn(list) \ stored' \subseteq dead'
           /\ OwnerWrites /\ old.owner => KeysIn(save.list) \ stored' \subseteq dead'
           /\ OwnerWrites => Respelt \ stored' \subseteq dead'
           /\ RowLeft \ stored' \subseteq dead'
BY DEF Track

LEMMA TrackOldLists ==
    ASSUME Track
    PROVE  /\ old'.script <=> at' \in Writing /\ (old.script \/ OwnerWrites)
           /\ old'.owner <=> /\ save'.at # "idle" /\ KeysIn(save'.list) # {}
                             /\ (old.owner \/ ScriptWrites \/ OwnerWrites)
BY DEF Track

\* what is alive stays so, unless the update that was to clean it up is over
LEMMA AliveStays ==
    ASSUME Types, Types', Step, Track, NEW k \in Alive
    PROVE  k \in Alive' \/ (OwnerWrites /\ k \in KeysIn(save.removed))
<1>1. CASE k \in dead
    BY <1>1, TrackDead DEF Alive
<1>2. CASE k \in stored /\ k \notin stored'
    <2>1. CleanObject
        BY <1>2, ChangesBucket DEF PutGuest
    <2> QED BY <1>2, <2>1 DEF CleanObject, Alive, Types, ServerTypes, Saves
<1>3. CASE k \in KeysIn(save.removed)
    <2>1. save.at \notin {"idle", "open"}
        BY <1>3 DEF Types, ServerTypes, KeysIn
    <2>2. save'.removed = save.removed \/ save'.at = "idle"
        BY <2>1, ChangesSave DEF LoadPage, ReadUpdate
    <2>3. save'.at = "idle" => OwnerWrites \/ UpdateCutOff
        BY <2>1 DEF UpdateCutOff
    <2> QED BY <1>3, <2>2, <2>3, TrackDead DEF Alive
<1> QED BY <1>1, <1>2, <1>3 DEF Alive

LEMMA RowsStep ==
    ASSUME Types, Types', KeyInv, RowsHaveObjects, Step, Track
    PROVE  RowsHaveObjects'
<1> SUFFICES ASSUME NEW k \in Keys, media'[k] # Nil
             PROVE  k \in stored' \cup dead' \/ (save'.at = "cleanRecord" /\ save'.key = k)
    BY DEF RowsHaveObjects
<1>1. CASE media[k] # Nil
    <2>1. CASE k \in stored /\ k \notin stored'
        <3>1. CleanObject
            BY <2>1, ChangesBucket DEF PutGuest
        <3> QED BY <2>1, <3>1 DEF CleanObject, Types, ServerTypes, Saves
    <2>2. CASE k \in dead
        BY <2>2, TrackDead
    <2>3. CASE save.at = "cleanRecord" /\ save.key = k
        <3>1. save'.at # "cleanRecord" => k \in RowLeft
            BY <1>1, <2>3 DEF RowLeft
        <3>2. CASE CleanRecord
            <4>1. save'.at # "cleanRecord"
                BY <3>2 DEF CleanRecord, Types, ServerTypes, Saves
            <4> QED BY <3>1, <4>1, TrackDead
        <3>3. CASE ~CleanRecord
            <4>1. save' = save \/ save'.at = "idle"
                BY <2>3, <3>3 DEF Step, MigrateLocal, MigrateVideos, MigrateCdn, Server,
                    CrashScript, CrashServer, ReadTemplates, PutPreview, VerifyPreview,
                    RecordPreview, WritePreview, ReadInvitations, NextUpload, VerifyUpload,
                    RecordUpload, ReadInvitation, WriteMoments, BeginVideos, NextVideo,
                    VerifyVideo, RecordVideo, ReadMedia, UpdateMedia, ReadPreviews, WritePreviews,
                    ReadAll, WriteAll, LoadPage, ReadUpdate, FindMedia, CleanObject, Overwrite,
                    PutGuest, RecordGuest, PushGuest, SetPreview, server, Idle, Start, Put,
                    NextFile, Verify, Record, Keep, Drop, Rest
            <4> QED BY <2>3, <3>1, <4>1, TrackDead
        <3> QED BY <3>2, <3>3
    <2> QED BY <1>1, <2>1, <2>2, <2>3 DEF RowsHaveObjects
<1>2. CASE media[k] = Nil
    <2>1. CASE RecordPreview \/ RecordUpload \/ RecordVideo
        <3>1. k = key
            BY <1>2, <2>1 DEF RecordPreview, RecordUpload, RecordVideo, Record, Types, DataTypes
        <3> QED BY <2>1, <3>1 DEF RecordPreview, RecordUpload, RecordVideo, Record, KeyInv,
            Uploaded
    <2>2. CASE RecordGuest
        <3>1. k = guest.link.of
            BY <1>2, <2>2 DEF RecordGuest, Types, DataTypes
        <3> QED BY <2>2, <3>1 DEF RecordGuest, KeyInv
    <2>3. ~UpdateMedia /\ ~CleanRecord
        BY <1>2 DEF UpdateMedia, CleanRecord, Types, DataTypes
    <2> QED BY <1>2, <2>1, <2>2, <2>3, ChangesMedia
<1> QED BY <1>1, <1>2

\* the keys a list is written with are alive when it is written
LEMMA WrittenAlive ==
    ASSUME Types, Types', KeyInv, LeadInv, Step, Track
    PROVE  /\ WriteMoments \/ WriteAll => KeysIn(list) \subseteq Alive'
           /\ OwnerWrites => KeysIn(save.list) \subseteq Alive'
<1>1. ASSUME WriteMoments \/ WriteAll PROVE KeysIn(list) \subseteq Alive'
    <2>1. ScriptWrites /\ save' = save /\ at \in Writing
        BY <1>1 DEF WriteMoments, WriteAll, ScriptWrites, Goto, Stop, Drop, Rest, server, Writing
    <2>2. ~OwnerWrites
        BY <2>1 DEF OwnerWrites
    <2> QED BY <2>1, <2>2, AliveStays, TrackDead DEF LeadInv, Alive
<1>2. ASSUME OwnerWrites, NEW k \in KeysIn(save.list) PROVE k \in Alive'
    <2>1. CASE old.owner
        BY <1>2, <2>1, TrackDead DEF Alive
    <2>2. CASE ~old.owner
        <3>1. k \in Alive
            BY <1>2, <2>2 DEF LeadInv, OwnerWrites
        <3>2. CASE k \in KeysIn(save.removed)
            BY <1>2, <3>2, TrackDead DEF Respelt, Alive
        <3> QED BY <3>1, <3>2, AliveStays
    <2> QED BY <2>1, <2>2
<1> QED BY <1>1, <1>2

LEMMA OneUrlStep ==
    ASSUME Types, Types', KeyInv, LeadInv, Step
    PROVE  OneUrlEach(moments') /\ OneUrlEach(save'.list) /\ (at' \in Writing => OneUrlEach(list'))
<1>1. OneUrlEach(moments')
    <2>1. CASE WriteMoments \/ WriteAll
        BY <2>1 DEF WriteMoments, WriteAll, LeadInv, Writing
    <2>2. CASE Overwrite
        BY <2>2 DEF Overwrite, LeadInv
    <2>3. CASE PushGuest
        <3>1. guest.link.of \notin KeysIn(moments)
            BY <2>3 DEF PushGuest, KeyInv, KeysIn
        <3> QED BY <2>3, <3>1 DEF PushGuest, LeadInv, OneUrlEach, KeysIn
    <2> QED BY <2>1, <2>2, <2>3, ChangesMoments DEF LeadInv
<1>2. OneUrlEach(save'.list)
    <2>1. CASE save'.at = "idle"
        BY <2>1 DEF Types, ServerTypes, OneUrlEach
    <2>2. CASE LoadPage
        BY <2>2, Loaded DEF LeadInv
    <2>3. CASE ReadUpdate
        BY <2>3, Selected DEF LeadInv, OneUrlEach
    <2> QED BY <2>1, <2>2, <2>3, ChangesSave DEF LeadInv
<1>3. ASSUME at' \in Writing PROVE OneUrlEach(list')
    <2>1. CASE ReadInvitation
        <3>1. key \notin KeysIn(moments) /\ list' = Replaced(moments)
            BY <2>1 DEF ReadInvitation, KeyInv, GalleryKeys, LinkKeys, KeysIn, Uploaded
        <3> DEFINE made == [kind |-> "s3", of |-> key]
        <3>2. \A l \in list' \cap Urls : l \in moments \/ l = made
            BY <3>1 DEF Replaced
        <3>3. \A l \in moments \cap Urls : l.of # made.of
            BY <3>1 DEF KeysIn
        <3> HIDE DEF made
        <3> QED BY <3>2, <3>3 DEF LeadInv, OneUrlEach
    <2>2. CASE ReadAll
        <3>1. list' = {Convert(l) : l \in moments}
            BY <1>3, <2>2 DEF ReadAll, Stop, Writing
        <3>2. \A l \in moments : Convert(l) \in Urls => l \in Urls /\ Convert(l).of = l.of
            BY DEF Convert, Types, DataTypes, Links, Paths, Urls
        <3> QED BY <3>1, <3>2 DEF LeadInv, OneUrlEach
    <2>3. ~ReadPreviews
        BY <1>3 DEF ReadPreviews, Goto, Writing
    <2> QED BY <1>3, <2>1, <2>2, <2>3, ChangesList DEF LeadInv
<1> QED BY <1>1, <1>2, <1>3

LEMMA LeadStep ==
    ASSUME Types, Types', KeyInv, LeadInv, Step, Track
    PROVE  LeadInv'
<1>1. KeysIn(moments') \subseteq Alive'
    <2>1. CASE WriteMoments \/ WriteAll
        BY <2>1, WrittenAlive DEF WriteMoments, WriteAll
    <2>2. CASE OwnerWrites
        BY <2>2, WrittenAlive DEF OwnerWrites
    <2>3. Overwrite => OwnerWrites
        BY DEF Overwrite, OwnerWrites, Idle, Types, ServerTypes
    <2>4. CASE PushGuest /\ ~OwnerWrites
        <3>1. guest.link.of \in stored /\ stored' = stored /\ moments' = moments \cup {guest.link}
            BY <2>4 DEF PushGuest, KeyInv
        <3> QED BY <2>4, <3>1, AliveStays DEF LeadInv, KeysIn, Alive
    <2>5. CASE moments' = moments /\ ~OwnerWrites
        BY <2>5, AliveStays DEF LeadInv
    <2> QED BY <2>1, <2>2, <2>3, <2>4, <2>5, ChangesMoments
<1>2. ASSUME save'.at # "idle", KeysIn(save'.list) # {}, ~old'.owner
      PROVE  ~old.owner /\ moments \subseteq moments'
    <2>1. ~old.owner /\ ~ScriptWrites /\ ~OwnerWrites
        BY <1>2, TrackOldLists
    <2>2. ~WriteMoments /\ ~WriteAll /\ ~Overwrite
        BY <1>2, <2>1 DEF WriteMoments, WriteAll, Overwrite, ScriptWrites, Goto, Stop, Writing,
            Idle
    <2> QED BY <2>1, <2>2, ChangesMoments DEF PushGuest
<1>3. save'.at = "idle" \/ old'.owner \/ KeysIn(save'.list) \subseteq KeysIn(moments')
    <2>1. CASE KeysIn(save'.list) = {}
        BY <2>1
    <2>2. CASE save'.at # "idle" /\ ~old'.owner /\ KeysIn(save'.list) # {}
        <3>1. KeysIn(moments) \subseteq KeysIn(moments')
            BY <1>2, <2>2 DEF KeysIn
        <3>2. CASE LoadPage
            BY <3>1, <3>2, Loaded
        <3>3. CASE ReadUpdate
            <4>1. KeysIn(save'.list) \subseteq KeysIn(save.list)
                BY <3>3, Selected DEF KeysIn
            <4> QED BY <1>2, <2>2, <3>1, <3>3, <4>1, Selected DEF LeadInv
        <3>4. CASE save.at # "idle" /\ save'.list = save.list
            BY <1>2, <2>2, <3>1, <3>4 DEF LeadInv
        <3> QED BY <2>2, <3>2, <3>3, <3>4, ChangesSave
    <2> QED BY <2>1, <2>2
<1>4. ASSUME save'.at \notin {"idle", "open"}, ~old'.owner, NEW l \in save'.list \cap Urls
      PROVE  l \in moments' \/ l.of \in KeysIn(save'.removed)
    <2>1. ~old.owner /\ moments \subseteq moments'
        BY <1>2, <1>4 DEF KeysIn
    <2>2. CASE ReadUpdate
        <3>1. l \in save.list /\ save'.removed = moments \ save'.list
            BY <1>4, <2>2, Selected
        <3>2. PICK m \in moments \cap Urls : m.of = l.of
            BY <1>4, <2>1, <2>2, <3>1, Selected DEF LeadInv, KeysIn
        <3>3. CASE m \in save'.list
            <4>1. m = l
                BY <1>4, <2>2, <3>1, <3>2, <3>3, Selected DEF LeadInv, OneUrlEach
            <4> QED BY <2>1, <3>2, <4>1
        <3>4. CASE m \notin save'.list
            BY <3>1, <3>2, <3>4 DEF KeysIn
        <3> QED BY <3>3, <3>4
    <2>3. ~LoadPage
        BY <1>4, Loaded
    <2>4. CASE /\ save.at \notin {"idle", "open"}
               /\ save'.list = save.list /\ save'.removed = save.removed
        BY <1>4, <2>1, <2>4 DEF LeadInv
    <2> QED BY <1>4, <2>2, <2>3, <2>4, ChangesSave
<1>5. ASSUME at' \in Writing PROVE old'.script \/ KeysIn(list') \subseteq Alive'
    <2>1. CASE ReadInvitation \/ ReadAll
        <3>1. ~OwnerWrites /\ stored' = stored
            BY <2>1 DEF ReadInvitation, ReadAll, OwnerWrites, data, server
        <3>2. CASE ReadInvitation
            <4>1. KeysIn(list') \subseteq KeysIn(moments) \cup {key}
                BY <3>2 DEF ReadInvitation, Replaced, KeysIn
            <4>2. key \in stored
                BY <3>2 DEF ReadInvitation, KeyInv, Uploaded
            <4> QED BY <3>1, <4>1, <4>2, AliveStays DEF LeadInv, Alive
        <3>3. CASE ReadAll
            <4>1. list' = {Convert(l) : l \in moments}
                BY <1>5, <3>3 DEF ReadAll, Stop, Writing
            <4>2. \A l \in moments : Convert(l) \in Urls => l \in Urls /\ Convert(l).of = l.of
                BY DEF Convert, Types, DataTypes, Links, Paths, Urls
            <4>3. KeysIn(list') \subseteq KeysIn(moments)
                BY <4>1, <4>2 DEF KeysIn
            <4> QED BY <3>1, <4>3, AliveStays DEF LeadInv
        <3> QED BY <2>1, <3>2, <3>3
    <2>2. CASE at \in Writing /\ at' = at /\ list' = list
        BY <2>2, AliveStays, TrackOldLists DEF LeadInv
    <2>3. ~ReadPreviews
        BY <1>5 DEF ReadPreviews, Goto, Writing
    <2> QED BY <1>5, <2>1, <2>2, <2>3, ChangesList
<1> QED BY OneUrlStep, <1>1, <1>3, <1>4, <1>5 DEF LeadInv, OneUrlEach

-----------------------------------------------------------------------------
(* Rows are found by the link *)

LEMMA TrackMixed ==
    ASSUME Track,
           NEW k \in KeysIn(moments' \cup list' \cup save'.list \cup {guest'.link}),
           \/ k \in mixed
           \/ OwnerWrites /\ old.owner /\ k \in KeysIn(save.list)
           \/ OwnerWrites /\ k \in Respelt
           \/ (CdnCutOff \/ base = "bare") /\ k \in drawn
           \/ job = "cdn" /\ guest.at # "idle" /\ k = guest.link.of
    PROVE  k \in mixed'
BY DEF Track, Held

\* the row of a linked photo is touched by its upload, its clean-up and the CloudFront script
LEMMA RowOfLink ==
    ASSUME Types, KeyInv, Step, job # "cdn", NEW k \in LinkKeys
    PROVE  media'[k] \in {Nil, media[k]} \/ (RecordGuest /\ k = guest.link.of)
<1>1. k \in Keys
    BY DEF KeyInv, GalleryKeys, Types, DataTypes
<1>2. CASE RecordPreview \/ RecordUpload \/ RecordVideo
    <2>1. key # k
        BY <1>2 DEF RecordPreview, RecordUpload, RecordVideo, Record, KeyInv, GalleryKeys,
            Uploaded
    <2> QED BY <1>1, <1>2, <2>1 DEF RecordPreview, RecordUpload, RecordVideo, Record, Types,
        DataTypes
<1>3. CASE CleanRecord
    BY <1>1, <1>3 DEF CleanRecord, Types, DataTypes
<1>4. CASE RecordGuest
    BY <1>1, <1>4 DEF RecordGuest, Types, DataTypes
<1>5. ~UpdateMedia
    BY DEF UpdateMedia, Types, ScriptTypes, TemplateSteps, UploadSteps
<1> QED BY <1>2, <1>3, <1>4, <1>5, ChangesMedia

LEMMA FitsStays ==
    ASSUME Types, KeyInv, Step, Track, job # "cdn",
           NEW l \in Urls, l.of \in LinkKeys, Fits(l),
           l \in moments' \cup list' \cup save'.list \cup {guest'.link},
           ~RecordGuest \/ l.of # guest.link.of
    PROVE  Fits(l)'
<1>1. l.of \in KeysIn(moments' \cup list' \cup save'.list \cup {guest'.link})
    BY DEF KeysIn
<1>2. media'[l.of] \in {Nil, media[l.of]}
    BY RowOfLink
<1> QED BY <1>1, <1>2, TrackMixed DEF Fits

\* a run of the CloudFront script is over
LEMMA CdnEnds ==
    ASSUME Types, Types', KeyInv, KeyInv', UrlInv, Step, Track, job = "cdn", job' # "cdn",
           NEW l \in (moments' \cup {guest'.link}) \cap Urls
    PROVE  Fits(l)'
<1>1. UpdateMedia \/ ReadAll \/ WriteAll \/ CrashScript
    BY StepOfScript DEF MigrateLocal, MigrateVideos, MigrateCdn, ReadTemplates, PutPreview,
        VerifyPreview, RecordPreview, WritePreview, ReadInvitations, NextUpload, VerifyUpload,
        RecordUpload, ReadInvitation, WriteMoments, BeginVideos, NextVideo, VerifyVideo,
        RecordVideo, ReadMedia, ReadPreviews, WritePreviews, Start, Put, NextFile, Verify, Record,
        Goto, script, Types, ScriptTypes, TemplateSteps, UploadSteps
<1>2. l.of \in KeysIn(moments' \cup list' \cup save'.list \cup {guest'.link})
    BY DEF KeysIn
<1>3. guest' = guest /\ job' = "none"
    BY <1>1 DEF UpdateMedia, ReadAll, WriteAll, CrashScript, Stop, Goto, server
<1>4. CASE l = guest'.link
    <2>1. guest.at # "idle"
        BY <1>3, <1>4, ConstantsAssumption DEF Types, ServerTypes, Links
    <2> QED BY <1>2, <1>3, <1>4, <2>1, TrackMixed DEF Fits
<1>5. CASE l \in moments' /\ (CdnCutOff \/ base = "bare")
    <2>1. l.of \in drawn
        BY <1>5, DrawnBefore DEF KeysIn
    <2> QED BY <1>2, <1>5, <2>1, TrackMixed DEF Fits
<1>6. CASE l \in moments' /\ ~CdnCutOff /\ base # "bare"
    <2>1. base = "cdn"
        BY <1>6 DEF Types, ScriptTypes
    <2>2. at # "updateMedia" /\ l.kind = "cdn" /\ l.of \in LinkKeys
        <3>1. CASE ScriptWrites
            <4>1. at = "writeAll" /\ moments' = list
                BY <3>1 DEF ScriptWrites, Writing, Types, ScriptTypes, TemplateSteps, UploadSteps,
                    CdnSteps
            <4> QED BY <1>6, <4>1 DEF UrlInv, LinkKeys, KeysIn
        <3>2. CASE at = "readAll" /\ \A m \in moments : Convert(m) = m
            <4>1. moments' = moments
                BY <1>1, <3>2 DEF UpdateMedia, ReadAll, WriteAll, CrashScript, data
            <4>2. l.kind # "s3"
                BY <1>6, <2>1, <3>2, <4>1 DEF Convert, Urls
            <4> QED BY <1>6, <3>2, <4>1, <4>2 DEF Urls, LinkKeys, KeysIn
        <3> QED BY <1>3, <1>6, <3>1, <3>2 DEF CdnCutOff
    <2>3. media' = media
        BY <1>1, <2>2 DEF UpdateMedia, ReadAll, WriteAll, CrashScript, data
    <2>4. media[l.of] \in {Nil, "cdn"} \/ l.of \in mixed
        BY <2>1, <2>2 DEF UrlInv
    <2> QED BY <1>2, <2>2, <2>3, <2>4, TrackMixed DEF Fits
<1> QED BY <1>4, <1>5, <1>6

LEMMA LinksInRun ==
    ASSUME Types, Types', KeyInv, Step, job = "cdn", job' = "cdn",
           NEW k \in LinkKeys', k \in Keys, media[k] # Nil
    PROVE  k \in LinkKeys
<1>1. job = "cdn" /\ at \in CdnSteps
    BY DEF Types, ScriptTypes
<1>2. CASE MigrateLocal \/ MigrateVideos \/ MigrateCdn \/ CrashScript
    <2>1. UpdateMedia \/ ReadPreviews \/ WritePreviews \/ ReadAll
        BY <1>1, <1>2 DEF MigrateLocal, MigrateVideos, MigrateCdn, ReadTemplates, PutPreview,
            VerifyPreview, RecordPreview, WritePreview, ReadInvitations, NextUpload, VerifyUpload,
            RecordUpload, ReadInvitation, WriteMoments, BeginVideos, NextVideo, VerifyVideo,
            RecordVideo, ReadMedia, WriteAll, CrashScript, Start, Put, NextFile, Verify, Record,
            Stop, CdnSteps
    <2>2. moments' = moments /\ save' = save /\ guest' = guest
        BY <2>1 DEF UpdateMedia, ReadPreviews, WritePreviews, ReadAll, server, data, Drop, Rest
    <2>3. CASE ReadAll /\ list' # list
        <3>1. list' = {Convert(l) : l \in moments} /\ at # "writePreviews"
            BY <2>3 DEF ReadAll, Stop, Types, ScriptTypes, Writing
        <3>2. \A l \in moments : Convert(l) \in Urls => l \in Urls /\ Convert(l).of = l.of
            BY DEF Convert, Types, DataTypes, Links, Paths, Urls
        <3> QED BY <2>2, <3>1, <3>2 DEF LinkKeys, KeysIn
    <2>4. CASE list' = {} \/ at' = "writePreviews"
        BY <2>2, <2>4 DEF LinkKeys, KeysIn
    <2>5. CASE list' = list /\ at # "writePreviews"
        BY <2>2, <2>5 DEF LinkKeys, KeysIn
    <2>6. list' = {} \/ at' = "writePreviews" \/ (list' = list /\ at # "writePreviews") \/ ReadAll
        BY <2>1 DEF UpdateMedia, Stop, ReadPreviews, Goto, WritePreviews, Drop
    <2>7. ReadAll => at # "writePreviews"
        BY DEF ReadAll
    <2> QED BY <2>3, <2>4, <2>5, <2>6, <2>7
<1>3. CASE UNCHANGED script
    <2>1. KeysIn(save'.list) \subseteq KeysIn(save.list) \cup KeysIn(moments)
        <3>1. save'.at = "idle" => save'.list = {}
            BY DEF Types, ServerTypes
        <3>2. CASE LoadPage
            BY <3>2, Loaded
        <3>3. CASE save'.list \subseteq save.list
            BY <3>3 DEF KeysIn
        <3> QED BY <3>1, <3>2, <3>3, Selected, ChangesSave
    <2>2. KeysIn(moments') \subseteq KeysIn(moments) \cup KeysIn(save.list) \cup KeysIn({guest.link})
                                    \cup (IF at \in Writing THEN KeysIn(list) ELSE {})
        BY ChangesMoments DEF WriteMoments, WriteAll, Overwrite, PushGuest, KeysIn, Writing
    <2>3. k \in KeysIn({guest'.link}) => k \in KeysIn({guest.link})
        <3>1. CASE PutGuest
            <4>1. guest'.link.of \notin drawn
                BY <3>1 DEF PutGuest
            <4>2. k \in drawn
                BY DEF KeyInv, GalleryKeys, LinkKeys, KeysIn, Types, DataTypes
            <4> QED BY <4>1, <4>2 DEF KeysIn
        <3>2. CASE guest' = guest \/ guest'.link \in {Nil, guest.link}
            BY <3>2, ConstantsAssumption DEF KeysIn, Links
        <3> QED BY <3>1, <3>2, ChangesGuest
    <2>4. LinkKeys = KeysIn(moments) \cup KeysIn(save.list) \cup KeysIn({guest.link})
                     \cup (IF at = "writePreviews" THEN {} ELSE KeysIn(list))
        BY DEF LinkKeys, KeysIn
    <2>5. k \in KeysIn(moments') \cup KeysIn(save'.list) \cup KeysIn({guest'.link})
                \cup (IF at = "writePreviews" THEN {} ELSE KeysIn(list))
        BY <1>3 DEF LinkKeys, KeysIn, script
    <2> QED BY <2>1, <2>2, <2>3, <2>4, <2>5 DEF Writing
<1> QED BY <1>2, <1>3, StepOfScript

\* during one, a row has the new URL already, or is still to come
LEMMA ConvertedStep ==
    ASSUME Types, Types', KeyInv, KeyInv', UrlInv, Step, Track, base' = "cdn",
           NEW k \in LinkKeys', media'[k] \notin {Nil, "cdn"}
    PROVE  (at' = "updateMedia" /\ k \in todo') \/ k \in mixed'
<1>1. k \in KeysIn(moments' \cup list' \cup save'.list \cup {guest'.link}) /\ k \in Keys
    BY DEF LinkKeys, KeysIn, KeyInv, GalleryKeys, Types, DataTypes
<1>2. CASE base # "cdn"
    <2>1. ReadMedia
        BY <1>2, StepOfScript DEF MigrateLocal, MigrateVideos, MigrateCdn, ReadTemplates,
            PutPreview, VerifyPreview, RecordPreview, WritePreview, ReadInvitations, NextUpload,
            VerifyUpload, RecordUpload, ReadInvitation, WriteMoments, BeginVideos, NextVideo,
            VerifyVideo, RecordVideo, UpdateMedia, ReadPreviews, WritePreviews, ReadAll, WriteAll,
            CrashScript, Start, Put, NextFile, Verify, Record, Goto, Stop, script
    <2> QED BY <1>1, <2>1 DEF ReadMedia, Start, data
<1>3. CASE base = "cdn"
    <2>1. job = "cdn" /\ at \in CdnSteps
        BY <1>3 DEF Types, ScriptTypes
    <2>2. CASE RecordGuest /\ k = guest.link.of
        BY <1>1, <2>1, <2>2, TrackMixed DEF RecordGuest
    <2>3. CASE ~(RecordGuest /\ k = guest.link.of)
        <3>1. media[k] = media'[k] /\ (UpdateMedia => k \in todo' \/ k \notin todo)
            BY <1>1, <1>3, <2>1, <2>3, ChangesMedia DEF RecordPreview, RecordUpload, RecordVideo,
                Record, UpdateMedia, Stop, CleanRecord, RecordGuest, CdnSteps, Types, DataTypes
        <3>2. k \in LinkKeys
            BY <1>1, <2>1, <3>1, LinksInRun DEF Types, ScriptTypes
        <3>3. at = "updateMedia" /\ k \in todo => at' = "updateMedia" /\ k \in todo'
            <4>1. CASE at = "updateMedia" /\ k \in todo
                <5>1. UpdateMedia \/ UNCHANGED script
                    BY <1>3, <2>1, <4>1, StepOfScript DEF MigrateLocal, MigrateVideos, MigrateCdn,
                        ReadTemplates, PutPreview, VerifyPreview, RecordPreview, WritePreview,
                        ReadInvitations, NextUpload, VerifyUpload, RecordUpload, ReadInvitation,
                        WriteMoments, BeginVideos, NextVideo, VerifyVideo, RecordVideo, ReadMedia,
                        ReadPreviews, WritePreviews, ReadAll, WriteAll, CrashScript, Start,
                        NextFile, Verify, Record, Stop
                <5>2. UpdateMedia => at' = "updateMedia"
                    BY <1>3 DEF UpdateMedia, Stop
                <5> QED BY <3>1, <4>1, <5>1, <5>2 DEF script
            <4> QED BY <4>1
        <3> QED BY <1>1, <1>3, <3>1, <3>2, <3>3, TrackMixed DEF UrlInv
    <2> QED BY <2>2, <2>3
<1> QED BY <1>2, <1>3

LEMMA GuestStays ==
    ASSUME Types, Step, guest'.at = "push", ~RecordGuest
    PROVE  guest.at = "push" /\ guest'.link = guest.link
<1>1. CASE PutGuest \/ PushGuest \/ CrashServer
    BY <1>1 DEF PutGuest, PushGuest, CrashServer
<1>2. CASE ~(PutGuest \/ PushGuest \/ CrashServer)
    <2>1. guest' = guest
        BY <1>2 DEF Step, MigrateLocal, MigrateVideos, MigrateCdn, Server, CrashScript,
            ReadTemplates, PutPreview, VerifyPreview, RecordPreview, WritePreview,
            ReadInvitations, NextUpload, VerifyUpload, RecordUpload, ReadInvitation, WriteMoments,
            BeginVideos, NextVideo, VerifyVideo, RecordVideo, ReadMedia, UpdateMedia,
            ReadPreviews, WritePreviews, ReadAll, WriteAll, LoadPage, ReadUpdate, FindMedia,
            CleanObject, CleanRecord, Overwrite, SetPreview, server, Start, Put, NextFile, Verify,
            Record, Keep, Drop, Rest
    <2> QED BY <2>1
<1> QED BY <1>1, <1>2

LEMMA UrlStep ==
    ASSUME Types, Types', KeyInv, KeyInv', LeadInv, UrlInv, Step, Track
    PROVE  UrlInv'
<1>1. ASSUME job' # "cdn", NEW l \in moments' \cap Urls PROVE Fits(l)'
    <2>1. CASE job = "cdn"
        BY <1>1, <2>1, CdnEnds
    <2>2. CASE job # "cdn" /\ OwnerWrites
        <3>1. l \in save.list
            BY <1>1, <2>2 DEF OwnerWrites
        <3>2. CASE old.owner
            <4>1. l.of \in KeysIn(save.list)
                BY <1>1, <3>1 DEF KeysIn
            <4>2. l.of \in KeysIn(moments' \cup list' \cup save'.list \cup {guest'.link})
                BY <1>1 DEF KeysIn
            <4> QED BY <2>2, <3>2, <4>1, <4>2, TrackMixed DEF Fits
        <3>3. CASE ~old.owner
            <4>1. l \in moments \/ l.of \in KeysIn(save.removed)
                BY <1>1, <2>2, <3>1, <3>3 DEF LeadInv, OwnerWrites
            <4>2. CASE l.of \in KeysIn(save.removed)
                <5>1. l.of \in Respelt
                    BY <1>1, <3>1, <4>2 DEF Respelt, KeysIn
                <5>2. l.of \in KeysIn(moments' \cup list' \cup save'.list \cup {guest'.link})
                    BY <1>1 DEF KeysIn
                <5> QED BY <2>2, <5>1, <5>2, TrackMixed DEF Fits
            <4>3. CASE l \in moments
                <5>1. l.of \in LinkKeys
                    BY <1>1, <4>3 DEF LinkKeys, KeysIn
                <5>2. ~RecordGuest
                    BY <2>2 DEF OwnerWrites, RecordGuest
                <5> QED BY <1>1, <2>2, <4>3, <5>1, <5>2, FitsStays DEF UrlInv
            <4> QED BY <4>1, <4>2, <4>3
        <3> QED BY <3>2, <3>3
    <2>3. CASE job # "cdn" /\ WriteMoments
        <3>1. at = "writeMoments" /\ l \in list
            BY <1>1, <2>3 DEF WriteMoments
        <3>2. l.of \in LinkKeys
            BY <1>1, <3>1 DEF LinkKeys, KeysIn
        <3>3. ~RecordGuest
            BY <2>3, RecordsGuest DEF WriteMoments, Drop, Rest, server
        <3>4. Fits(l)
            BY <1>1, <3>1 DEF UrlInv
        <3> QED BY <1>1, <2>3, <3>2, <3>3, <3>4, FitsStays
    <2>4. CASE job # "cdn" /\ PushGuest
        <3>1. CASE l = guest.link
            BY <1>1, <2>4, <3>1, FitsStays DEF UrlInv, PushGuest, LinkKeys, KeysIn, RecordGuest
        <3>2. CASE l \in moments
            BY <1>1, <2>4, <3>2, FitsStays DEF UrlInv, PushGuest, LinkKeys, KeysIn, RecordGuest
        <3> QED BY <1>1, <2>4, <3>1, <3>2 DEF PushGuest
    <2>5. CASE job # "cdn" /\ moments' = moments
        <3>1. l.of \in LinkKeys /\ l.of \in KeysIn(moments)
            BY <1>1, <2>5 DEF LinkKeys, KeysIn
        <3>2. ~RecordGuest \/ l.of # guest.link.of
            BY <3>1 DEF KeyInv, RecordGuest
        <3> QED BY <1>1, <2>5, <3>1, <3>2, FitsStays DEF UrlInv
    <2>6. job # "cdn" => ~WriteAll
        BY DEF WriteAll, Types, ScriptTypes, TemplateSteps, UploadSteps
    <2>7. Overwrite => OwnerWrites
        BY DEF Overwrite, OwnerWrites, Idle, Types, ServerTypes
    <2> QED BY <2>1, <2>2, <2>3, <2>4, <2>5, <2>6, <2>7, ChangesMoments
<1>2. ASSUME at' = "writeMoments", NEW l \in list' \cap Urls PROVE Fits(l)'
    <2>1. CASE ReadInvitation
        <3>1. at = "readInvitation" /\ UNCHANGED <<data, server>>
            BY <2>1 DEF ReadInvitation
        <3>5. job # "cdn"
            BY <3>1 DEF Types, ScriptTypes, CdnSteps
        <3>6. media' = media /\ media[key] = "s3"
            BY <3>1 DEF data, KeyInv, Uploaded
        <3>7. ~RecordGuest
            BY <3>1, RecordsGuest DEF server
        <3>2. l \in moments \/ l = [kind |-> "s3", of |-> key]
            BY <1>2, <2>1 DEF ReadInvitation, Replaced
        <3>3. CASE l \in moments
            <4>1. l.of \in LinkKeys
                BY <1>2, <3>3 DEF LinkKeys, KeysIn
            <4> QED BY <1>2, <3>3, <3>5, <3>7, <4>1, FitsStays DEF UrlInv
        <3>4. CASE l = [kind |-> "s3", of |-> key]
            BY <3>4, <3>6 DEF Fits
        <3> QED BY <3>2, <3>3, <3>4
    <2>2. CASE at' = at /\ list' = list
        <3>1. job # "cdn" /\ l.of \in LinkKeys /\ l.of \in KeysIn(list)
            BY <1>2, <2>2 DEF Types, ScriptTypes, CdnSteps, LinkKeys, KeysIn
        <3>2. ~RecordGuest \/ l.of # guest.link.of
            BY <3>1 DEF KeyInv, RecordGuest
        <3> QED BY <1>2, <2>2, <3>1, <3>2, FitsStays DEF UrlInv
    <2>3. ~ReadPreviews /\ ~ReadAll
        BY <1>2 DEF ReadPreviews, ReadAll, Goto, Stop
    <2> QED BY <1>2, <2>1, <2>2, <2>3, ChangesList DEF Writing
<1>3. ASSUME job' # "cdn", guest'.at = "push", NEW l \in {guest'.link} PROVE Fits(l)'
    <2>1. l \in Urls
        BY <1>3 DEF Types, ServerTypes
    <2>2. CASE job = "cdn"
        BY <1>3, <2>1, <2>2, CdnEnds
    <2>3. CASE RecordGuest
        <3>1. l = guest.link /\ media' = [media EXCEPT ![guest.link.of] = guest.link.kind]
            BY <2>3, RecordsGuest DEF RecordGuest
        <3>2. l.of \in Keys
            BY <2>1 DEF Urls
        <3> QED BY <3>1, <3>2 DEF Fits, Types, DataTypes
    <2>4. CASE job # "cdn" /\ ~RecordGuest
        <3>1. l = guest.link /\ guest.at = "push"
            BY <1>3, <2>1, <2>4, GuestStays DEF Types, ServerTypes
        <3>2. l.of \in LinkKeys
            BY <2>1, <3>1 DEF LinkKeys, KeysIn
        <3>3. Fits(l)
            BY <2>4, <3>1 DEF UrlInv
        <3> QED BY <2>1, <2>4, <3>2, <3>3, FitsStays
    <2> QED BY <2>2, <2>3, <2>4
<1>4. ASSUME at' = "writeAll" PROVE base' = "cdn" /\ \A l \in list' \cap Urls : l.kind = "cdn"
    <2>1. CASE ReadAll
        <3>1. list' = {Convert(l) : l \in moments} /\ list' # moments /\ base' = base
            BY <1>4, <2>1 DEF ReadAll, Stop, Goto
        <3>2. base = "cdn"
            BY <3>1 DEF Convert
        <3> QED BY <3>1, <3>2 DEF Convert, Urls
    <2>2. CASE at' = at /\ list' = list /\ base' = base
        BY <1>4, <2>2 DEF UrlInv
    <2>3. ~ReadInvitation /\ ~ReadPreviews
        BY <1>4 DEF ReadInvitation, ReadPreviews, Goto
    <2> QED BY <1>4, <2>1, <2>2, <2>3, ChangesList DEF Writing
<1>5. base' = "cdn" => \A k \in LinkKeys' :
          media'[k] \in {Nil, "cdn"} \/ (at' = "updateMedia" /\ k \in todo') \/ k \in mixed'
    BY ConvertedStep
<1>6. job' # "cdn" /\ guest'.at = "push" => Fits(guest.link)'
    BY <1>3 DEF Fits
<1> QED BY <1>1, <1>2, <1>4, <1>5, <1>6 DEF UrlInv

-----------------------------------------------------------------------------
(* Nothing is left behind *)

LEMMA TrackJoined ==
    ASSUME Track, job' = "uploads", NEW l \in moments', l.kind = "path",
           l \in joined \/ l \notin moments
    PROVE  l \in joined'
BY DEF Track

LEMMA UploadMoves ==
    ASSUME Types, Step, job' = "uploads"
    PROVE  \/ ReadInvitations \/ (NextUpload /\ at' = "verify") \/ VerifyUpload \/ RecordUpload
           \/ ReadInvitation \/ WriteMoments \/ UNCHANGED script
BY StepOfScript DEF MigrateLocal, MigrateVideos, MigrateCdn, ReadTemplates, PutPreview,
    VerifyPreview, RecordPreview, WritePreview, NextUpload, BeginVideos, NextVideo, VerifyVideo,
    RecordVideo, ReadMedia, UpdateMedia, ReadPreviews, WritePreviews, ReadAll, WriteAll,
    CrashScript, Start, Put, NextFile, Verify, Record, Goto, Stop, Types, ScriptTypes,
    TemplateSteps, UploadSteps, CdnSteps

\* the file the loop is at has its link replaced, or a verification has failed
LEMMA LeftStep == ASSUME Types, Types', LeftInv, Step, Track PROVE LeftInv'
<1>1. ASSUME job' = "uploads", NEW l \in moments', l.kind = "path", l.of \in disk'
      PROVE  \/ l \in joined'
             \/ /\ l.of \in mapped'
                /\ \/ failed' \/ l.of \in todo'
                   \/ /\ at' \in {"verify", "record", "readInvitation", "writeMoments"}
                      /\ l.of = file'
    <2>1. CASE l \in joined \/ l \notin moments
        BY <1>1, <2>1, TrackJoined
    <2>2. CASE l \in moments /\ l \notin joined
        <3>1. l = [kind |-> "path", of |-> l.of] /\ l.of \in Files
            BY <1>1, <2>2 DEF Types, DataTypes, Links, Paths, Urls
        <3>2. CASE ReadInvitations
            BY <1>1, <2>2, <3>1, <3>2 DEF ReadInvitations, Paths
        <3>3. CASE ~ReadInvitations
            <4>1. job = "uploads"
                BY <1>1, <3>3, UploadMoves DEF NextUpload, NextFile, VerifyUpload, Verify,
                    RecordUpload, Record, ReadInvitation, WriteMoments, script, Types,
                    ScriptTypes, TemplateSteps, CdnSteps
            <4>9. disk' = disk
                BY <1>1, <3>3, UploadMoves DEF NextUpload, NextFile, Put, VerifyUpload, Verify,
                    RecordUpload, Record, ReadInvitation, WriteMoments, script, Goto, Stop
            <4>2. /\ l.of \in mapped
                  /\ \/ failed \/ l.of \in todo
                     \/ /\ at \in {"verify", "record", "readInvitation", "writeMoments"}
                        /\ l.of = file
                BY <1>1, <2>2, <4>1, <4>9 DEF LeftInv
            <4>3. CASE NextUpload /\ at' = "verify"
                BY <4>2, <4>3 DEF NextUpload, NextFile, Put, Goto, Stop
            <4>4. CASE VerifyUpload
                BY <4>2, <4>4 DEF VerifyUpload, Verify, Goto, Keep, Drop, Rest
            <4>5. CASE RecordUpload
                BY <4>2, <4>5 DEF RecordUpload, Record, Goto, Keep, Drop, Rest
            <4>6. CASE ReadInvitation
                BY <4>2, <4>6 DEF ReadInvitation, Goto
            <4>7. CASE WriteMoments
                <5>1. l # [kind |-> "path", of |-> file]
                    BY <1>1, <4>7 DEF LeftInv, WriteMoments
                <5> QED BY <3>1, <4>2, <4>7, <5>1 DEF WriteMoments, Goto, Drop, Rest
            <4>8. CASE UNCHANGED script
                BY <4>2, <4>8 DEF script
            <4> QED BY <1>1, <3>3, <4>3, <4>4, <4>5, <4>6, <4>7, <4>8, UploadMoves
        <3> QED BY <3>2, <3>3
    <2> QED BY <2>1, <2>2
<1>2. ASSUME at' = "writeMoments" PROVE [kind |-> "path", of |-> file'] \notin list'
    <2>1. CASE ReadInvitation
        BY <2>1 DEF ReadInvitation, Replaced
    <2>2. CASE UNCHANGED script
        BY <1>2, <2>2 DEF script, LeftInv
    <2>3. job' = "uploads"
        BY <1>2 DEF Types, ScriptTypes, TemplateSteps, CdnSteps
    <2> QED
        BY <1>2, <2>1, <2>2, <2>3, UploadMoves DEF ReadInvitations, VerifyUpload, Verify,
            RecordUpload, Record, WriteMoments, Goto
<1> QED BY <1>1, <1>2 DEF LeftInv

-----------------------------------------------------------------------------
(* The invariant as a whole *)

IInv ==
    /\ Types /\ KeyInv /\ PhotoInv /\ PreviewInv /\ LeadInv /\ RowsHaveObjects
    /\ UrlInv /\ LeftInv

LEMMA InvInit == Init => IInv
<1> SUFFICES ASSUME Init PROVE IInv
    OBVIOUS
<1>1. Types
    BY TypesInit
<1>2. /\ moments \cap Urls = {} /\ preview \notin Urls /\ list = {} /\ save.list = {}
      /\ save.removed = {} /\ save.at = "idle" /\ guest.at = "idle" /\ guest.link = Nil
    BY ConstantsAssumption DEF Init, Idle, Paths, Originals, Urls
<1>3. PreviewKeys = {} /\ GalleryKeys = {} /\ LinkKeys = {}
    BY <1>2, ConstantsAssumption DEF PreviewKeys, GalleryKeys, LinkKeys, KeysIn, Links, Init
<1>4. KeyInv
    BY <1>2, <1>3 DEF Init, KeyInv, Uploaded
<1>5. PhotoInv /\ PreviewInv /\ RowsHaveObjects /\ LeftInv
    BY <1>2 DEF Init, PhotoInv, PreviewInv, RowsHaveObjects, LeftInv, Writing
<1>6. LeadInv
    BY <1>2 DEF Init, LeadInv, OneUrlEach, KeysIn, Writing
<1>7. UrlInv
    BY <1>2, <1>3 DEF Init, UrlInv
<1> QED BY <1>1, <1>4, <1>5, <1>6, <1>7 DEF IInv

LEMMA InvStep == IInv /\ [Next]_vars => IInv'
<1> SUFFICES ASSUME IInv, [Next]_vars PROVE IInv'
    OBVIOUS
<1>1. CASE UNCHANGED vars
    BY <1>1, TypesStep DEF IInv, vars, data, script, server, KeyInv, PreviewKeys, GalleryKeys,
        LinkKeys, KeysIn, PhotoInv, Photos, Photo, PreviewInv, LeadInv, OneUrlEach, Alive,
        RowsHaveObjects, UrlInv, Fits, LeftInv
<1>2. CASE Next
    <2>1. Step /\ Track
        BY <1>2 DEF Next, Step
    <2>2. Types /\ Types'
        BY <2>1, TypesStep DEF IInv
    <2>3. KeyInv /\ KeyInv'
        BY <2>1, <2>2, KeyStep DEF IInv
    <2> QED
        BY <2>1, <2>2, <2>3, PhotoStep, PreviewStep, LeadStep, RowsStep, UrlStep, LeftStep DEF
            IInv
<1> QED BY <1>1, <1>2

(* The parts of the invariant hold together in every state.                 *)
THEOREM Invariant == Spec => []IInv
BY InvInit, InvStep, PTL DEF Spec

-----------------------------------------------------------------------------
(* What the runs check *)

(* Every variable stays within its type, and what a script has put into the *)
(* bucket is not linked before it has been verified and registered.         *)
THEOREM Typing == Spec => []TypeOK
<1>1. IInv => TypeOK
    <2> SUFFICES ASSUME IInv PROVE TypeOK
        OBVIOUS
    <2>1. KeysIn(moments \cup {preview}) \subseteq LinkKeys \cup PreviewKeys
        BY DEF KeysIn, LinkKeys, PreviewKeys
    <2>2. LinkKeys \cup PreviewKeys \subseteq drawn
        BY DEF IInv, KeyInv, GalleryKeys, Types, DataTypes
    <2>3. at \in Uploaded => key \in stored \ (PreviewKeys \cup LinkKeys) /\ content[key] = file
        BY DEF IInv, KeyInv, GalleryKeys
    <2>4. list \subseteq Links \cup Originals
        BY DEF IInv, Types, ScriptTypes, Links
    <2> QED
        BY <2>1, <2>2, <2>3, <2>4 DEF IInv, Types, DataTypes, ServerTypes, Saves, TypeOK
<1> QED BY <1>1, Invariant, PTL

(* A link of the gallery or the preview to the bucket leads to an object,   *)
(* unless the object is being cleaned up, the update that did so was cut    *)
(* off, a list from before another's write brought the link back, or the    *)
(* owner kept the photo under the URL that the response spelt for it, while *)
(* the clean-up went by the one that is stored.                             *)
THEOREM LinksToObjects == Spec => []LinksLead
<1>1. IInv => LinksLead
    BY DEF IInv, LinksLead, KeyInv, PreviewKeys, LeadInv, Alive, KeysIn
<1> QED BY <1>1, Invariant, PTL

(* The clean-up of the owner's update finds a photo's row, whichever        *)
(* scripts have run: the gallery's link is the URL in the row, but during a *)
(* run of the CloudFront script, after one that left the two apart and      *)
(* after an update that kept the photo under another URL than is stored.    *)
THEOREM RowsFound == Spec => []FoundByUrl
<1>1. IInv => FoundByUrl
    BY DEF IInv, UrlInv, Fits, FoundByUrl
<1> QED BY <1>1, Invariant, PTL

(* Whatever the scripts and the clean-up do at the same time, a row of the  *)
(* media table has an object, unless its clean-up is between the two        *)
(* stores, was cut off there or could not delete the row and went on.       *)
THEOREM RowsStand == Spec => []RowsHaveObjects
<1>1. IInv => RowsHaveObjects
    BY DEF IInv
<1> QED BY <1>1, Invariant, PTL

(* Beside the scripts a photo leaves the gallery only by the owner's update *)
(* or with a list that was read before the photo joined the gallery.        *)
THEOREM PhotosStay == Spec => PhotosKept
<1>1. ASSUME IInv, [Next]_vars, NEW p \in Photos(moments) \ Photos(moments')
      PROVE  \/ save'.at # save.at /\ p \in Photos(save.removed) \cup late.owner
             \/ at \in Writing /\ p \in late.script
    <2>1. moments' # moments /\ Step
        BY <1>1 DEF vars, data, Next, Step
    <2>2. CASE WriteMoments \/ WriteAll
        <3>1. at \in Writing /\ moments' = list
            BY <2>2 DEF WriteMoments, WriteAll, Writing
        <3> QED BY <1>1, <3>1 DEF IInv, PhotoInv
    <2>3. CASE Overwrite
        BY <1>1, <2>3 DEF Overwrite, Idle, IInv, PhotoInv
    <2>4. CASE PushGuest
        BY <1>1, <2>4 DEF PushGuest, Photos
    <2> QED BY <1>1, <2>1, <2>2, <2>3, <2>4, ChangesMoments DEF IInv
<1>2. IInv /\ [Next]_vars =>
          [\A p \in Photos(moments) \ Photos(moments') :
               \/ save'.at # save.at /\ p \in Photos(save.removed) \cup late.owner
               \/ at \in Writing /\ p \in late.script]_vars
    BY <1>1
<1> QED BY <1>2, Invariant, PTL DEF Spec, PhotosKept

(* The picture of the template changes only when an admin changes it, or    *)
(* when a script writes what it had read before an admin did.               *)
THEOREM PreviewStays == Spec => PreviewKept
<1>1. ASSUME IInv, [Next]_vars, preview' # preview, at' # at, ~old.preview
      PROVE  Photo(preview') = Photo(preview)
    <2>1. Step
        BY <1>1 DEF vars, data, Next, Step
    <2>2. CASE WritePreview
        <3>1. preview' = [kind |-> "s3", of |-> key] /\ content[key] = file
            BY <1>1, <2>2 DEF WritePreview, IInv, KeyInv, Uploaded
        <3>2. preview.kind = "path" /\ preview.of = file
            BY <1>1, <2>2 DEF WritePreview, IInv, PreviewInv, Types, ScriptTypes, UploadSteps,
                CdnSteps
        <3> QED BY <3>1, <3>2 DEF Photo
    <2>3. CASE WritePreviews
        BY <1>1, <2>3 DEF WritePreviews, IInv, PreviewInv
    <2>4. CASE SetPreview
        BY <1>1, <2>4 DEF SetPreview, Quiet, script
    <2> QED BY <1>1, <2>1, <2>2, <2>3, <2>4, ChangesPreview DEF IInv
<1>2. IInv /\ [Next]_vars => [Photo(preview') = Photo(preview) \/ at' = at \/ old.preview]_vars
    BY <1>1 DEF vars, data
<1> QED BY <1>2, Invariant, PTL DEF Spec, PreviewKept

(* A run of the local script that ends without errors leaves no link to the *)
(* path of a file it has found, but those that came back while it ran.  Of  *)
(* links to files that it has not found it says nothing.                    *)
THEOREM UploadsMigrated == Spec => NothingLeftBehind
<1>1. ASSUME IInv, job = "uploads", at = "next", todo = {}, job' = "none", ~failed,
             NEW l \in moments, l.kind = "path",
             l.of \in disk
      PROVE  l \in joined
    BY <1>1 DEF IInv, LeftInv
<1>2. IInv /\ [Next]_vars =>
          [job = "uploads" /\ at = "next" /\ todo = {} /\ job' = "none" /\ ~ failed =>
               \A l \in moments : l.kind = "path" /\ l.of \in disk => l \in joined]_vars
    BY <1>1
<1> QED BY <1>2, Invariant, PTL DEF Spec, NothingLeftBehind
=============================================================================
