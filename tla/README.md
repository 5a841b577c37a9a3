# Mazoom backend: TLA+ models and proofs

Mazoom sells digital invitations. A client requests a template, an admin
approves, the approval makes a purchase, the purchase is filled in as an
invitation page, guests open the page, answer it (RSVP) and upload photos, and
the client reviews the product. The backend (`src/src`) is a NestJS application
over PostgreSQL (Prisma), a cache (cache-manager over Redis or memory) and an S3
bucket.

All of it runs as handlers on one event loop, or in several processes over the
same stores: a handler is suspended at every `await`, and another handler may
run there. Almost every operation is "read a row, decide, write by id" with
awaits in between, so what is hard here is what happens between a read and the
write that trusts it, and what is left behind when one of several writes fails.
Almost nothing is wrapped in a transaction, and the tests of the repository run
one call at a time, if they call the services at all.

## 1. Inventory

| Part | State it keeps | Operations that change it | Talks to |
| --- | --- | --- | --- |
| Purchase requests (`purchase-request`) | `purchase_requests`, `purchases`, `users.phone_number` | create, updateStatus (one transaction), cancel | templates (read), users |
| Authentication (`auth`) | `users`, `refresh_tokens` | register, login, googleLogin, refresh, logout | abuse counters, audit log |
| Users and the JWT strategy (`user`, `auth/strategies`) | `users`, cache `users:id:*` | validate (fills), updateProfile, createUserByAdmin, updateUserByAdmin | every guarded route calls validate |
| Invitations (`invitation`) | `invitations`, `purchases.slug`, cache `invitations:slug:*` | create, update, toggleStatus, findBySlug (fills) | purchases, templates, RSVPs, gallery |
| Gallery and media (`invitation`, `media`, `upload`) | `invitations.moments` and `images`, `media`, the bucket | uploadMedia, deleteMedia, guestUpload, addMoment, update | S3 |
| RSVPs (`rsvp`) | `rsvps`, locks `idempotency:*` | create, toggleHide, softDelete | deletes the page's cache key |
| Testimonials (`testimonial`) | `testimonials`, cache `testimonials:all` | createOrUpdate, remove, findAll (fills) | purchases |
| Templates (`template`) | `templates`, cache `templates:*` | create, update, findAll and findOne (fill) | read by most others, and part of every page |
| Abuse counters (`common/services`) | cache `login:fail:*`, `rate-limit:*`, `slug-bruteforce:*` | record, reset, check | called by auth, rsvp, invitation and a guard |
| Audit log | `audit_logs`, read by nobody | log | called by auth and user |
| Migration scripts (`src/scripts`) | `media`, bucket, links in `templates` and `invitations` | copy local files to the bucket, rewrite links | run by hand beside the service |
| Purchases, health, wiring, guards, filters, seeds | none of their own | only read, or format | |

Parts share tables and cache keys rather than call each other: an approval of
the first makes the row that the fourth fills in; the fifth and sixth, and the
templates, write what the fourth caches; the first and third write the same phone
numbers.

What is hard, and the properties that make each part correct:

* **Purchase requests.** Decisions race. A request is resolved once; an approved
  one has exactly one purchase, of the client and the template it was for.
* **Sessions.** Rotation is find, create, revoke in three statements. Chains of
  replaced tokens stay sound, revocation is final, a session has one usable token.
* **Accounts.** Unique contacts are looked up before the write; the standing of
  an account is cached for five minutes. Conflicts are found in time, a
  deactivation is obeyed, unless a race or a crash accounts for it.
* **Pages.** A cache is filled after a read, and emptied after a write. What
  guests see is the page, or comes to be; a slug names one page.
* **Gallery.** Three stores without a transaction. The bucket and the table name
  the same files, the limit holds, and a photo does not vanish.
* **RSVPs.** Three look-ups that a write trusts. No name twice, no submission
  twice, no lost toggle, unless two calls overlap.
* **Templates and testimonials.** Two tables behind one cache of four kinds of key,
  and a list that shows columns of both. What visitors are shown is what the tables
  say, or comes to be; a review an admin has removed does not come back.
* **Abuse counters.** Read in one await, stored higher in a later one. A limit is
  passed by the overlapping calls only; a count is exact unless one of them lost it.
* **Migration scripts.** They read a list, work for minutes and write it back, beside
  a server that does the same. No photo is lost and no link dies, unless a list was
  written back late or saved under another URL; a run that reports success has
  left no file behind that it found.

What is hard to test, line by line, is `hazards` in `PROJECT.json`, each with the
properties that cover it or the reason why none does.

## 2. Plan

In the order of importance; all of these are here.

1. `OrderLifecycle` (abstract) and `PurchaseRequests`, which implements it when
   the decisions on one request do not overlap; `OrderToInvitation`, its composition
   with the creation of invitations, which reads purchases and never requests.
2. `AuthSessions`.
3. `InvitationPages`.
4. `InvitationGallery`.
5. `Rsvps`.
6. `UserAccounts`.
7. `Showcase`: templates and testimonials and the cache in front of them.
8. `AbuseCounters`: the login lock-out, the lock-out of who guesses slugs, and the
   rate limit in its two implementations (Redis, memory).
9. `MediaMigration`: the three scripts beside the running service.
10. `ReadThroughCache` (abstract): what the caches of `UserAccounts` and `Showcase`
    promise, and both implement. `InvitationPages` does not: an update that was
    overtaken by another renaming deletes the key it had read, not the one it changes.

Each but `Rsvps` has a module `XProofs` with its theorems (those of
`OrderToInvitation` are in `PurchaseRequestsProofs`; those of `Rsvps` at the end of
`InvitationPagesProofs`), and each has an `MCX` that instantiates it for TLC.
`GuestAnswers` is `Rsvps` under names of its own, so that it can stand beside
`InvitationPages` in one module of theorems; `MCRsvps` extends it.

Left for later, in this order:

* emails as typed in `UserAccounts` (the model takes them as already in small letters);
* `invitations.images` in `InvitationGallery`.

## 3. How the models correspond to the code

A **handler** is one HTTP call being served. Every awaited statement is an action
named for what it does; `at[h]` says at which await handler `h` stands, and the
other per-handler variables hold what its local variables hold that a later
statement uses. So

* a `Begin...` action is the arrival of a call with any input the controller and
  the dto let through;
* an action's guard and its `IF` come from the code's conditions and early returns;
  an `End(h)` is a return or a throw;
* what a handler looks at but the module does not keep (rights, file types, the
  rate limit) makes the call give up: a disjunct `End(h)`;
* `Crash(h)`, at any await, is a statement that throws, a process that dies or an
  answer that is lost: what was written stays, the rest is never done;
* an interactive `$transaction` is one action, since its first statement locks the
  row and readers see committed rows;
* what other components write to the same tables is an action of the module
  (`SetActive`, `BeginAppend`, `WriteTemplate`, `BeginOrder`, `LockElsewhere`);
* a failure that the code catches is an alternative of the action, and the call goes
  on: so the clean-up of update may lose the object and keep the row (`CleanRecord`).

All modules but the two abstract ones and `PurchaseRequests`, to which
`OrderToInvitation` adds them, keep
**history variables** (`overtaken`, `raced`, `explained`, `excused`, `blurred`, `lost`, `late`, `old`,
`dead`, ...), which no action reads and which the conjunct `Track` of `Next` updates. `overtaken[h]` is set when another handler
changes what `h` has read and is about to act on. They let a property say exactly what
the code does promise: *this can go wrong only through such an overlap*.

| Module | Variables and the code's state | Actions and the code's operations |
| --- | --- | --- |
| `PurchaseRequests` | `order`, `status`: the rows of `purchase_requests`; `purchases`; `phone`: `users.phone_number` | `FindTemplate` ... `AdoptPhone`: create; `ReadForStatus`, `StatusTx`: updateStatus; `ReadForCancel`, `WriteCancel`: cancel |
| `OrderToInvitation` | `invited`: purchases with an invitation; `opening`: creations under way | `FindPurchase`, `Insert`, `GiveUp`: create of the invitation service, beside all actions of `PurchaseRequests` |
| `OrderLifecycle` | `status`, `bought` | `Submit`, `Approve`, `Close` (rejected or cancelled) as the texts of the service state them |
| `ReadThroughCache` | `source`, `entry`; `asked`, `held`, `owed`: what a call has read and not stored, and has still to delete | `Read`, `Store`: a reader; `Change`, `Delete`: a writer; `GiveUp`: a crash; `Expire` |
| `AuthSessions` | `account`; `owner`, `revoked`, `successor`, `expired`: `refresh_tokens`; `session`, `held`: what clients have | `FindContacts`, `InsertUser`: register; `FindUser`: login; `FindGoogleUser`; `CreateToken`; `FindToken`, `CreateSuccessor`, `RevokeOld`: refresh; `RevokeOnLogout`; `Answer`: the cookie reaches the client |
| `InvitationPages` | `row`: an invitation with what a read of it brings (its visible RSVPs, its template's titles and preview); `purchaseSlug`; `entry` (the cache) | `Lookup`, `ReadPage`, `Fill`: findBySlug; `FindPurchase`, `CheckCreate`, `Insert`: create; `ReadUpdate`, `CheckUpdate`, `WritePurchase`, `Write`, `DropSeen`, `DropNew`: update; `ReadToggle`, `Toggle`; `ReadAppend`, `Append`: RSVPs, moments; `WriteTemplate`: TemplateService.update |
| `InvitationGallery` | `moments`, `recorded` (media), `stored` (bucket), `drawn`, `cut`, `late` | `Put`, `Record`: uploadMedia; `ReadGuest`, `Push`: guestUpload; `ReadOwner`: addMoment; `ReadUpdate`, `FindMedia`, `CleanObject`, `CleanRecord`, `Overwrite`: update; `FindRow`, `DeleteObject`, `DeleteRecord`: deleteMedia |
| `Rsvps` | `guest`, `hidden`, `deleted`: `rsvps`; `locks` | `ReadLock`, `SetLock`, `FindInvitation`, `FindDuplicate`, `Insert`: create; `ReadToggle`, `Flip`; `ReadDelete`, `SoftDelete`; `Expire` and `LockElsewhere` for the locks |
| `Showcase` | `template`, `review`: `templates`, `testimonials`; `entry`: the cache | `Lookup`, `Query`, `Fill`: every findAll and findOne; `Insert`, `ReadTemplate`, `Write`: create and update of a template; `FindReview`, `Upsert`: createOrUpdate; `ReadReview`, `Remove`; `Drop`: one deletion of a key |
| `AbuseCounters` | `fails`: counts in the cache; `log`: times of a rate; `redis`: which cache it is | `CheckLogin`, `Test`, `ReadCount`, `StoreCount`, `ClearCount`: login; `CheckVisitor`, `LookUp`: findBySlug; `CountInRedis`, or `ReadLog` and `StoreLog`: checkRateLimit; `ExpireCount`, `Slide`: time |
| `MediaMigration` | `moments`, `preview`: the links; `media`; `stored` and `content`: the bucket; `disk`: the files the script finds; `save`, `guest`: the server's calls | `ReadTemplates` ... `WriteMoments`: migrate-local-images-to-s3; `NextVideo` ...: migrate-videos-to-s3; `ReadMedia` ... `WriteAll`: migrate-s3-urls-to-cloudfront; `LoadPage` ... `Overwrite`: the owner's page, as mapInvitationResponse shows it (`Served`), and update; `PutGuest` ... `PushGuest`; `SetPreview` |
| `UserAccounts` | `email`, `phone`, `standing`: `users`; `entry`: the cache `users:id:*` | `Lookup`, `ReadUser`, `Fill`, `Leave`: validate and the request behind it; `ReadUpdate`, `FindEmail`, `FindPhone`, `Write`, `Drop`: the updates, the creation by an admin and the sign-ups; `ReadPhone`, `FindOwner`, `Adopt`: an order's number |

`map` in `PROJECT.json` gives the lines of every definition.

Some conversions matter and are modelled: `dto.contactPhone.trim()` and the trim
of a guest's name (`Blank`, the constant operator `Trim`), the demo slugs of the
templates (`Reserved`), the two spellings of a URL of the bucket (`Served`,
`Convert`). Tokens, keys and slugs are model values: the hash of a
token is one-to-one with it, and the slug of a purchase is drawn at random.

## 4. The runs

| Run | Question | Instance |
| --- | --- | --- |
| `orders` | Do approvals and cancellations keep tables consistent, and is an invitation one of an approved order? | 2 handlers, 2 requests, 2 slugs, 1 phone, 1 creation of invitations |
| `orders_resolved_twice` | Is "Only PENDING requests can be transitioned" true? **No** | 1 request |
| `sessions` | Are chains sound, what lies behind a second usable token or a lost session, do calls of a deactivated account drain? | 2 handlers, 1 account, 3 tokens, fairness |
| `pages` | Unique slugs; stale entries only behind a race, a cut-off or a written template; do page and purchase stay in step? | 2 handlers, 2 pages, 2 slugs |
| `pages_live` | Do guests come to see the page? | 1 page, 2 slugs, fairness |
| `gallery` | Bucket and table, the limit, photos that vanish | 2 handlers, 2 files, limits 1 and 2 |
| `rsvps` | Names, locks, toggles | 2 handlers, 2 rows, 3 spellings of 2 names, 1 header |
| `accounts` | Contacts, numbers, stale standings, deactivated users; is the cache a `ReadThroughCache`? | 2 handlers, 2 accounts, 2 emails, 2 numbers, 2 standings |
| `showcase` | Stale lists only behind a race or a cut-off? Do removed reviews stay so, do visitors catch up? Is the cache a `ReadThroughCache`? | 2 handlers, 1 template, 2 titles, 1 review, 3 of the 4 keys, fairness |
| `abuse` | Are counts exact and limits kept, with Redis and without? | 2 handlers, one key of each kind, limits 2 and 1, 3 arrivals |
| `migration` | Do the scripts lose photos, links or rows beside a working server? | 1 file, 2 pictures, 1 video, 2 object keys, 1 link, 1 upload |
| `migration_kept` | Does update clean up "removed images" only? **No** | the same without uploads |

The runs do not check `TypeOK`: it is a theorem of every module (`Typing` in each),
about the same specification. Five more statements are theorems only: `PhonesUnique`,
`PurchaseOnlyByApproval`, `PurchaseMatchesRequest`, `RevocationIsFinal`, and that
`PurchaseRequests` under `SerialSpec` implements `OrderLifecycle`.

*Bounds.* Two handlers are enough for every race of the code, which is between one
read and one write, and a handler is reused as soon as its call ends, so that any
number of calls follow each other; two rows let one call meet the row of another;
where a chain matters (tokens) there are three. Every counter is the size of a
finite set of ids: when the ids are used up, no more rows come to exist, but calls
on the existing ones go on. In `gallery` two files pass both limits. In `rsvps`
three spellings make two names equal only after the trim. In `showcase`, `Asked` leaves
out one of the two template lists for readers: the list of active templates differs
from that of all only by its filter, and writers delete both. In `abuse`,
`MaxArrivals` = 3 requests meet a limit of 1, so that it is reached, passed by a race
and reached again when the window has moved; `MaxFails` = 3 bounds only a count that
grows on from a value left over. In `migration`, two keys allow one photo by the guest
and one by a script, or the same file copied twice; the gallery starts with at
most `MaxOld` = 1 link to the file, its path or its path behind a host name;
`MaxUploads` = 1 is the guest's upload, and in `migration_kept` there is none, so that
the photo is one that a script has migrated. The directory may lack the file. `Reserved` (the slugs of the demos) is empty in the
runs of the pages: a call for such a slug is refused, which is a step that other
refusals take as well. Symmetry is used in runs without liveness and over values that
only equality tells apart.

*Two kinds of weakening.* `SerialSpec` (orders, a theorem only) is the specification in which two calls
never stand between read and write of one request: it shows what the operation does
and that only the overlap is to blame. `OrderToInvitation` and the other modules use
the histories instead, on all behaviours.

*Fairness.* `FairSpec` has weak fairness of `Serve(h)`: Node resumes a pending
await, and a statement either completes or throws. `InvitationPages` and `Showcase` add
weak fairness of `Expire`, since the entries are stored with a lifetime. Clients, admins
and clocks are not fair. In these two modules fairness is about `actual`, the
variables without the histories, since an action has no say on those.

*Crashes.* `CHECK_DEADLOCK` is left on in all runs: a handler can always begin a
call or end one.

### What the runs found

* **A request is resolved twice** (`orders_resolved_twice`). updateStatus and cancel
  check PENDING in a read and update by id alone. An approval, with its purchase, is
  overwritten by a cancellation that had read PENDING; the purchase stays and still
  lets an invitation be made, of an order that is not approved (the exception in
  `InvitedIfApproved`; `ResolvedUnlessRaced` shows that nothing but the overlap does it).

* **A kept photo is deleted** (`migration_kept`). Every page is answered through
  `mapInvitationResponse`, which turns S3 URLs into `CLOUDFRONT_URL` ones, and update
  compares what it is sent with what is stored as strings. `migrate-local-images-to-s3`
  stores S3 URLs whatever the server's setting is. So on a server with
  `CLOUDFRONT_URL` the first save of a migrated page, even one that changes a title,
  takes every migrated photo for removed: their objects and rows are deleted and dead
  links are stored. It needs no overlap, and lasts until
  `migrate-s3-urls-to-cloudfront` has rewritten the links.

The same kind of race is shown without a run of its own, as the exception that a precise
property names. Each exception can happen, and each property is false without it:

* two overlapping refreshes both succeed with one token; its row names only the later
  successor, and the earlier stays usable beside it (`RotatedOnce`,
  `OneUsablePerSession`), even after a logout (`LogoutEndsSession`);
* the answer of a refresh is lost after the old token was revoked: the client's
  session is over (`SessionSurvives`);
* a stale page, list or template is cached after its invalidation
  (`StaleOnlyIfRaced`, in both modules that have it);
* a page keeps the titles, preview and demo link that its template had when it was
  cached: an update of the template deletes no page's key (`StaleOnlyIfRaced`, and
  `GuestsCatchUp` by the entry's expiry only);
* the clean-up of update deletes an object and fails to delete its row; the failure is
  logged, the update completes, and the row is left for good (`StoresAgree`,
  `RowsHaveObjects`);
* a guest's photo pushed while the owner saves the page (`LeavesByCleanUpOrRace`), the
  gallery's limit (`OvershootBounded`), a name stored twice, a repeated submission, a
  lost toggle (`Rsvps`), a deactivated user let in and a phone number overwritten
  (`UserAccounts`), a purchase with another slug than its page (`PurchaseSlugFollows`,
  and `StaysInStep` for the rename that is refused or cut off between its two writes);
* of two failed logins at once one is counted, and a right password between read and
  store of another's failure does not clear the count (`FailuresCounted`); without Redis
  requests at once count as one (`RateHeld`);
* a photo that joins the gallery while a script, or the owner, is between reading the
  list and writing it back is gone from the list (`PhotosKept`);
* an owner's page that was open while a script rewrote the links is saved afterwards:
  its links are other strings than those stored, so the clean-up takes the photos for
  removed, deletes their objects, and the dead links are written back (`LinksLead`);
* if the deletion of the object fails there, which is caught, the row keeps one URL and
  the page gets the other, so that no later clean-up finds the photo (`FoundByUrl`);
* a CloudFront run that is cut off, or has no `CLOUDFRONT_URL` (media rows are then
  rewritten to a bare key, the other tables not at all), leaves rows whose URL is not
  the link; removing such a photo deletes neither its object nor its row
  (`FoundByUrl`);
* a link behind a host name counts as found, its file is uploaded and the run ends
  with "ALL MIGRATED FILES SUCCESSFULLY VERIFIED", but only a link equal to the bare
  path is replaced; a link to a file that is missing, or any link when there is no
  directory, is passed over without an error and the run ends in the same words
  (`NothingLeftBehind`).

Seen while modelling and not the subject of a run: that a page is not there is
cached for up to a minute after it is created; a submission refused as spam keeps its
lock, so that the corrected retry is refused too, for an hour with a header; a
request refused by the rate limit counts against it with Redis and does not without,
so who keeps asking stays out in one and not in the other; the title of a template in
the list of reviews changes only when the entry expires; a script that is run again
uploads every file again, under new keys; a
blank guest name passes the length check, which precedes the trim; an
idempotency header is not tied to an invitation; an email is stored as typed by an
admin or by an update of a profile, while login and register write it in small
letters, so that an account with a capital in it cannot log in; the dto lets an admin set CANCELLED
by updateStatus; a race for a slug, an email or a number is answered 500 by the
index, not 409; the audit log's insert is neither awaited nor caught.

## 5. The theorems

The module `XProofs` proves, for every value of the constants of `X` that its named
`ASSUME` allows, what the runs check on the small instance.

| Module | Proved | By |
| --- | --- | --- |
| `PurchaseRequestsProofs` | `TypeOK`, `ApprovedHasPurchase`, `PurchaseMatchesRequest`, `BoughtOnce`, `PhonesUnique`, `PurchaseOnlyByApproval`, `LifecycleSpec` of `SerialSpec`; `InvitedIfApproved`, `ResolvedUnlessRaced` and that the composition implements `PurchaseRequests` | typing strengthened by what a call has read (`CallFacts`): a request's client and template never change, so the copy is right. The refinement maps each step of `SerialSpec` to a step of `OrderLifecycle` or to none; its invariant is that a call between read and write of a request finds it still PENDING. For the composition (`JointInv`) such a call does so or is overtaken |
| `AuthSessionsProofs` | `TypeOK`, `ChainsSound`, `RevocationIsFinal`, `OneUsablePerSession`, `LogoutEndsSession`, `RotatedOnce`, `SessionSurvives` | the row a refresh has made is its own (`CallFacts`), so revoking gives the chain a new end; unless a refresh was overtaken, the *live* tokens of a session, those made and not yet given out included, are at most one |
| `InvitationPagesProofs` | `TypeOK`, `SlugNamesOnePage`, `StaleOnlyIfRaced`, `PurchaseSlugFollows`, `StaysInStep` | a call that is not overtaken has read what is there; so what it fills is current, and what it writes makes stale only the key it goes on to delete; a write of the template makes stale the pages it is named for. A purchase's slug changes only on the way to the write of its page (`OwnRename`), and other calls leave both alone (`OtherCalls`) |
| the same, of `Rsvps` | `TypeOK`, `NamesakesRaced`, `RepeatsRaced`, `LostTogglesRaced` | `RsvpTrustInv`: each call is overtaken, or what it trusts is so. Stated of the instance in `GuestAnswers` |
| `InvitationGalleryProofs` | `TypeOK`, `StoresAgree`, `OvershootBounded`, `LeavesByCleanUpOrRace` | a file is in one store only while a call that owns its key is between the two, or in `cut`, which names the calls cut off there and the rows that could not be deleted; the pushes under way count against the limit; a photo not in the list an update read is in `late` |
| `UserAccountsProofs` | `TypeOK`, `ConflictsFoundInTime`, `NumbersReplacedRaced`, `StaleRightsExplained`, `DeactivatedStayOut`, `CacheSpec` | `TrustInv` as above; with it, a step makes an entry stale only if it is a save, which is followed by the deletion, or an overtaken fill, which is excused. The refinement reads off where a call stands what it holds and owes (`PlacesStep`) |
| `ShowcaseProofs` | `TypeOK`, `StaleOnlyIfRaced`, `RemovalIsFinal`, `CacheSpec` | the same argument for keys of several tables: what a writer has made stale are keys it has still to delete (`WriteStep`, which the refinement of `ReadThroughCache` rests on as well) |
| `AbuseCountersProofs` | `TypeOK`, `FailuresCounted`, `GuessesBounded`, `RateHeld` | a call that will store and is not overtaken has read the count (`CountInv`); the failures made and the calls in flight together stay below limit and handlers; the times let in lie among those stored, which are fewer than the limit when one more is let in |
| `MediaMigrationProofs` | `TypeOK`, `LinksLead`, `FoundByUrl`, `RowsHaveObjects`, `PhotosKept`, `PreviewKept`, `NothingLeftBehind` | see below |

`ReadThroughCache` does not promise that an entry is current: the code does not
either. It names the only two sources of a stale entry, a value that is stored after
it was read and a deletion that is owed and given up or not yet made, and a step of
`Showcase` or `UserAccounts` that made an entry stale in any other way would be no
step of it. `source` leaves out what the list of reviews borrows from other tables.

No property above is inductive by itself. The property speaks of the moment when a
call writes, and has to be strengthened to a statement about every await between its
read and its write, for every handler: that is `CallFacts` for what a call holds and
`Trusted` for what it believes. The proof that a step keeps `Trusted` is alike in the
modules that have it: a call that stays where it is keeps what it read (`Kept`,
`OthersStep`, `StandingCall`), so what it believed stays true unless the step overtakes
it; a call that moves to where it trusts something has just read it (`JustRead`,
`OwnStep`).

`MediaMigration` has no handlers but one script beside one update, one upload and one
change of the preview, and each of the four holds a list or a key while the others
work. Its invariant (`IInv`) says for each what the rest of the system cannot take
away from it. `KeyInv`: objects are put under new keys only, so that the key of an
upload is in no list before it is written there, the preview's keys are never among
the gallery's, and the clean-up of an update, which goes by the links it has taken
out of the gallery, deletes neither. `PhotoInv` and `PreviewInv`: a list that is about
to be written lacks only photos that are in `late` or were taken out, and the picture
a script has uploaded for the preview is that of the preview, or an admin has set
another. `LeadInv`: the owner's list has one URL for each key and, until
somebody else writes a list, only keys of the gallery; once the update has compared
the two, each of its links is a link of the gallery or of a photo that is taken for
removed. The links of the gallery lead to objects, but those that an update is
deleting or that are in `dead`, where the photos go that it keeps under another URL
(`Respelt`) when it writes its list.
`UrlInv`: a row and the links to its key have one URL outside of a run of the
CloudFront script; during one every key that is linked has a row that is converted
already, or still on the script's list, or in `mixed`. `LeftInv`: a path that was
found, of a file that was found, is still to come, is the one being migrated, or is on the report. TLC checks
the same invariant on the instance of `migration`. The gallery is a set of links in
this model: no script and no property looks at the order or at repeated links, and
`InvitationGallery` has the list.

The assumptions are about constants only (`Nil` is no value of another kind, the
limits are numbers, admins are users); TLC evaluates them in every run.

*Only model-checked:* the liveness properties `DeactivationDrains`, `GuestsCatchUp` and
`VisitorsCatchUp`, since liveness under fairness is out of the prover's reach; and the violations, which
are counterexamples. Every invariant and every action property of the other runs is a
theorem.

## 6. What is not modelled

The audit log is read by no code. Purchases are only read by their own service. Uploads
by template admins put an object into the bucket under a random name and keep no state
besides. Guards, filters, translations, logging, health, wiring and seeds keep no state.
Texts, prices, dates, names of users and password hashes are left out everywhere: no
decision that the properties are about looks at them. In `InvitationGallery` the list
`invitations.images`, which update cleans in the same way as `moments`, is left out.
Rows are never deleted in the models, as no service deletes one, but for media.

In `MediaMigration` there is one invitation, one template and one script at a time. Left
out are the detection of file types, the counts of the report (only whether it has an
error is kept), a file name that stands in the galleries of two invitations, of which
the script maps one, and the page cache: the scripts delete no key of it, so that pages
are stale for as long as an entry lives. An admin's preview is a path there, and
never a URL, which the dto would let through as well. The server's calls are there as far as they
meet the scripts; `InvitationGallery` and `Showcase` have the whole of them.
