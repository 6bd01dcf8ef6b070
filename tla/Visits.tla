------------------------------- MODULE Visits -------------------------------
(***************************************************************************)
(* A visitor, the artist's edit form and the clock: the share and embed    *)
(* pages (internal/web/share.go, embed.go) with the presigned URL they     *)
(* mint, the player they load and its beacon, and the expiry dates that    *)
(* the upload and the edit form write (upload.go, admin.go).               *)
(*                                                                         *)
(* Time is counted in ticks, and an expiry in the ticks left of it, so an  *)
(* expiry is past when none are left and one has gone by since (Expired    *)
(* asks whether now is after it).  A tick is hours: media events and the   *)
(* requests under way are done before the next one.  Days are numbered     *)
(* from the first one, in UTC.                                             *)
(***************************************************************************)
EXTENDS Listener, Player, Functions

CONSTANTS
    Day,        \* ticks of a day
    TTL,        \* ticks a GET URL lasts (PresignedGetTTL, 4 hours)
    Horizon,    \* bound on the clock
    Latest,     \* bound on the ticks an expiry may lie ahead
    Dates,      \* days the artist may choose in the edit form
    Lifetimes,  \* expires_in_days of the uploads
    MaxLoads,   \* bound on the pages loaded
    NoDate,     \* the empty date field
    Nowhere     \* no player page, or no edit form, is open

ASSUME VisitsAssumption ==
    /\ Day \in Nat \ {0} /\ TTL \in Nat /\ Horizon \in Nat /\ Latest \in Nat
    /\ MaxLoads \in Nat
    /\ Dates \subseteq Nat
    /\ Lifetimes \subseteq Int /\ \A days \in Lifetimes : days * Day <= Latest
    /\ NoDate \notin Int /\ Never \notin Int
    /\ Nowhere \notin Slugs
    /\ Past = (-Horizon)..(-1)
    /\ Expiries = Past \cup 0..Latest \cup {Never}

VARIABLES
    now,        \* the clock
    page,       \* the slug whose player page the visitor has open
    url,        \* slug -> ticks left of the last GET URL minted for its file
    loads,      \* player pages loaded so far
    inFlight,   \* slug -> beacons on the way to the server
    form,       \* the edit form the artist has open
    dark        \* history: slug -> ticks since its link last showed the
                \* player, at most TTL

visitVars == <<page, url, loads>>
vars == <<storeVars, listenerVars, playerVars, now, visitVars, inFlight, form, dark>>

Visible(s) == Ready(s) /\ ~Expired(s)

TypeOK ==
    /\ StoreTypeOK
    /\ ListenerTypeOK
    /\ PlayerTypeOK
    /\ now \in 0..Horizon
    /\ page \in Slugs \cup {Nowhere}
    /\ url \in [Slugs -> 0..TTL]
    /\ loads \in 0..MaxLoads
    /\ inFlight \in [Slugs -> Nat]
    /\ form \in [slug: Slugs, date: Nat \cup {NoDate}] \cup {Nowhere}
    /\ dark \in [Slugs -> 0..TTL]

Init ==
    /\ StoreInit
    /\ ListenerInit
    /\ PlayerInit
    /\ now = 0
    /\ page = Nowhere
    /\ url = [s \in Slugs |-> 0]
    /\ loads = 0
    /\ inFlight = [s \in Slugs |-> 0]
    /\ form = Nowhere
    /\ dark = [s \in Slugs |-> TTL]

-----------------------------------------------------------------------------
(* The table, as far as a visitor can tell *)

\* handleUploadRequest: days that are missing, 0 or negative are no expiry
ExpiryAfter(days) == IF days > 0 THEN days * Day ELSE Never

Upload(s, days) ==
    /\ Fresh(s)
    /\ \E e \in Exts : CreatePending(s, <<s, e>>, ExpiryAfter(days))

\* the poller confirms a file (a failed track is a pending one to a visitor),
\* handleReplaceRequest takes the page offline, handleDelete ends the link;
\* handleRotateSlug ends it too, and starts another
Manage(s) ==
    /\ Exists(s)
    /\ \/ MarkReady(s)
       \/ BeginReplace(s, tracks[s].key)
       \/ Delete(s)

TableStep ==
    /\ \E s \in Slugs : Manage(s) \/ \E days \in Lifetimes : Upload(s, days)
    /\ UNCHANGED <<listenerVars, playerVars, now, visitVars, inFlight, form>>

-----------------------------------------------------------------------------
(* The edit form *)

\* the date field of handleEditForm
ShownDate(s) ==
    IF tracks[s].expires = Never THEN NoDate ELSE (now + tracks[s].expires) \div Day

\* mutant: the expiry is the start of the chosen day
StartOfDay(date) == IF date = NoDate THEN Never ELSE date * Day - now

\* handleEditSubmit: the end of the chosen day
EndOfDay(date) == IF date = NoDate THEN Never ELSE (date + 1) * Day - now

OpenForm(s) ==
    /\ form = Nowhere
    /\ Exists(s)
    /\ form' = [slug |-> s, date |-> ShownDate(s)]
    /\ UNCHANGED <<storeVars, listenerVars, playerVars, now, visitVars, inFlight>>

\* a slug that has gone since the form was opened is answered with a 404
SaveForm(date) ==
    /\ form # Nowhere
    /\ form' = Nowhere
    /\ IF Exists(form.slug)
       THEN EndOfDay(date) \in Expiries /\ UpdateTrack(form.slug, EndOfDay(date))
       ELSE UNCHANGED storeVars
    /\ UNCHANGED <<listenerVars, playerVars, now, visitVars, inFlight>>

\* the artist leaves the date alone, picks another or empties the field
FormStep ==
    \/ \E s \in Slugs : OpenForm(s)
    \/ form # Nowhere /\ \E date \in Dates \cup {NoDate, form.date} : SaveForm(date)

-----------------------------------------------------------------------------
(* The visitor *)

\* each load mints URLs of the full length, to play and to download the file,
\* whatever is left of the link; url stands for both
PresignGet(s) == url' = [url EXCEPT ![s] = TTL]

\* mutant: one of the two pages does not ask whether the track has expired
OpenPageUnexpired(s) ==
    /\ loads < MaxLoads
    /\ Ready(s)
    /\ loads' = loads + 1
    /\ page' = s
    /\ PresignGet(s)
    /\ PlayerReload
    /\ UNCHANGED <<storeVars, listenerVars, now, inFlight, form>>

\* handleShare and handleShareEmbed
OpenPage(s) ==
    /\ loads < MaxLoads
    /\ Ready(s) /\ ~Expired(s)
    /\ loads' = loads + 1
    /\ page' = s
    /\ PresignGet(s)
    /\ PlayerReload
    /\ UNCHANGED <<storeVars, listenerVars, now, inFlight, form>>

\* 404, or share_expired.html: a page without player and URL
OpenDeadLink(s) ==
    /\ ~Visible(s)
    /\ page' = Nowhere
    /\ PlayerReload
    /\ UNCHANGED <<storeVars, listenerVars, now, url, loads, inFlight, form>>

\* the visitor plays, and the audio comes from the URL while it lasts
Watch ==
    /\ page # Nowhere
    /\ \/ VisitorActs
       \/ Advance
       \/ url[page] > 0 /\ Loaded("loaded")
       \/ Loaded("failed")
    /\ UNCHANGED <<storeVars, listenerVars, now, visitVars, inFlight, form>>

\* An event reaches player.js.  The beacon is sent with keepalive: it
\* survives the page.
Hear ==
    /\ page # Nowhere
    /\ OnEvent
    /\ inFlight' = IF Beacons THEN [inFlight EXCEPT ![page] = @ + 1] ELSE inFlight
    /\ UNCHANGED <<storeVars, listenerVars, now, visitVars, form>>

Arrive(s) ==
    /\ inFlight[s] > 0
    /\ inFlight' = [inFlight EXCEPT ![s] = @ - 1]

\* The beacon is served, is answered with a 404 or gets lost; then it is
\* served to the end.
BeaconStep ==
    /\ \/ \E s \in Slugs : Arrive(s) /\ ((\E l \in Listeners : LookupPlay(l, s))
                                          \/ UNCHANGED <<storeVars, listenerVars>>)
       \/ UNCHANGED inFlight /\ \E l \in Listeners : RecordPlay(l)
    /\ UNCHANGED <<playerVars, now, visitVars, form>>

-----------------------------------------------------------------------------
Aged(s) ==
    IF Exists(s) /\ tracks[s].expires # Never
    THEN [tracks[s] EXCEPT !.expires = @ - 1] ELSE tracks[s]

Tick ==
    /\ now < Horizon
    /\ tasks = <<>>
    /\ \A s \in Slugs : inFlight[s] = 0
    /\ \A l \in Listeners : hearing[l] = Silent
    /\ now' = now + 1
    /\ tracks' = [s \in Slugs |-> Aged(s)]
    /\ url' = [s \in Slugs |-> IF url[s] = 0 THEN 0 ELSE url[s] - 1]
    /\ UNCHANGED <<used, listenerVars, playerVars, page, loads, inFlight, form>>

Darken(ticks) ==
    dark' = [s \in Slugs |->
                IF Visible(s)' THEN 0
                ELSE IF dark[s] + ticks > TTL THEN TTL ELSE dark[s] + ticks]

VisitStep ==
    \/ \E s \in Slugs : OpenPage(s) \/ OpenDeadLink(s)
    \/ Watch
    \/ Hear

Next ==
    \/ (TableStep \/ FormStep \/ VisitStep \/ BeaconStep) /\ Darken(0)
    \/ Tick /\ Darken(1)

Spec == Init /\ [][Next]_vars

-----------------------------------------------------------------------------
(* Safety *)

\* Whatever ends a link (expiry, edit, rotation, delete, replacement), the
\* URLs it has handed out end at most TTL later, for no route mints a new one
\* (share.go:20-75, embed.go:14-22).
UrlsDieWithLinks == \A s \in Slugs : dark[s] + url[s] <= TTL

\* The beacon goes out once per page load, "replays/scrubbing within the same
\* visit shouldn't inflate the count" (player.js:47-56): whatever the visitor
\* clicks, and however the events of the audio element lag behind, the plays
\* counted, being counted, on the way and still to come are no more than the
\* loads.
Serving == {l \in Listeners : hearing[l] # Silent}

OnePlayPerLoad ==
    LET underway == [s \in Slugs |-> inFlight[s]]
        toCome   == IF page # Nowhere /\ ~playRecorded THEN 1 ELSE 0
    IN  recorded + Cardinality(Serving) + FoldFunction(+, 0, underway) + toCome <= loads

\* When every event is handled, the button says what the next click will do
\* (player.js:58-69): a click pauses exactly if "Pause" is shown, unless the
\* last event was the end, from which the visitor may have sought away (see
\* ButtonAgrees); and an element left at its end is paused.  The button does
\* not tell whether there is sound: a source that fails stays un-paused.
ButtonTellsClick ==
    tasks = <<>> =>
        /\ isPlaying => ~paused
        /\ ~isPlaying => paused \/ heard = "end"
        /\ AtEnd => paused

\* Saving the edit form with the date it was opened with, to change the title
\* say, never brings a link's end forward, and never puts it off by more than a
\* day (admin.go:36-39, 53-62).  The code does move it, as the form shows the
\* day after the one whose end was stored.
SaveNeverCutsShort ==
    [][form # Nowhere /\ SaveForm(form.date) /\ Exists(form.slug) =>
           LET old == tracks[form.slug].expires
               new == tracks'[form.slug].expires
           IN  IF old = Never THEN new = Never ELSE new - old \in 0..Day]_vars

-----------------------------------------------------------------------------
(* What the documentation says and the code does not do *)

\* README.md:17-18: share pages mint a short-lived URL on each load, "so link
\* expiry is enforced by R2 itself".  So no URL may outlast its track's expiry.
ExpiryEndsAudio == \A s \in Slugs : Exists(s) /\ Expired(s) => url[s] = 0

\* CONTEXT.md:27-37: to seek, skip or jump "never changes play/pause state".
\* So the button agrees with the element when every event is handled, wherever
\* the visitor has gone in between.
ButtonAgrees == tasks = <<>> => (isPlaying <=> ~paused)
=============================================================================
