---------------------------- MODULE GuestAnswers ----------------------------
(***************************************************************************)
(* Rsvps under constants and variables of its own, so that it can stand    *)
(* beside InvitationPages in one module of theorems: the handlers of both  *)
(* have an at, a row, a seen and an overtaken.  What the runs check and    *)
(* the theorems state of the answers of the guests is named here.          *)
(***************************************************************************)
CONSTANTS RsvpHandlers, RsvpRows, TypedNames, Trimmed(_), Headers, Nothing

VARIABLES guest, hidden, deleted, locks, name, key,
          rsvpAt, rsvpRow, rsvpSeen, rsvpOvertaken

R == INSTANCE Rsvps
     WITH Handlers <- RsvpHandlers, Rows <- RsvpRows, Typed <- TypedNames, Trim <- Trimmed,
          Nil <- Nothing,
          at <- rsvpAt, row <- rsvpRow, seen <- rsvpSeen, overtaken <- rsvpOvertaken

ASSUME RsvpAssumption == R!NilAssumption

RsvpSpec == R!Spec

(* rsvp.service.ts:81: a name is stored a second time only by a call that   *)
(* looked for it before it was stored the first time.                       *)
NamesakesRaced == R!NamesakesRaced

(* rsvp.service.ts:34: a call goes on under a key that is locked only if it *)
(* looked at the lock before the other call had set it.                     *)
RepeatsRaced == R!RepeatsRaced

(* rsvp.controller.ts:75: a toggle that is carried out changes what the     *)
(* guests see, unless another one of the same answer came in between.       *)
LostTogglesRaced == R!LostTogglesRaced
=============================================================================
