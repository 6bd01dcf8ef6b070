# Transients, specified

TLA+ specifications of `transients`, the single-admin audio host of this
repository, with TLC runs on small instances and TLAPS proofs for all sizes.
Paths are relative to the repository root.

## The system

| Part | Source | State | Operations |
|---|---|---|---|
| track store | `internal/store`, `internal/db` | the SQLite table `tracks`: slug, object key (UNIQUE), status, play count, expiry, payload columns | one SQL statement each: create pending, create from discovery, mark ready / failed, update, begin replace, rotate, count a play, delete |
| R2 bucket | external; client in `internal/r2` | objects by key | presigned PUT and GET, Head, Delete |
| event queue | external; `infra/opentofu/queue.tf`, `internal/ingest/queue_client.go` | messages not acknowledged | send on object creation, pull (lends messages out), ack |
| ingest poller | `internal/ingest/poller.go` | batch, acks, the message in hand, the track it looked up | every tick: pull; per message look up or insert the track, Head, mark ready or failed; ack |
| admin handlers | `internal/web/upload.go`, `replace.go`, `admin.go` | what a handler read before its writes | upload, replace, edit, rotate, delete, status, dashboard |
| share surface | `internal/web/share.go`, `embed.go` | none | share page, embed, oEmbed, play beacon |
| browser scripts | `internal/web/static` | one page load | PUT the file, poll the status, play, seek, beacon once |
| admin session | `internal/auth`, `internal/web/login.go` | the signed cookie | login, logout, check |
| process | `cmd/server/main.go` | poller goroutine, HTTP server | start, orderly shutdown |
| deployment | `docker-compose.yml`, `infra`, workflows | - | a redeploy kills and restarts the container |

**Interaction.** An upload inserts a *pending* row under `slug + extension`
and hands out a PUT URL for that key. The browser writes the object, R2 queues
an event, and the poller finds the row by the key, checks the object with Head
and marks the row *ready*. `rclone` writes objects that have no row; the poller
inserts one. Replace deletes the old object, points the row at a new key with
status pending, and waits for ingest in the same way. Delete removes the object,
then the row. Rotate changes the slug, that is the primary key, in place. A
share link shows a player only for a ready row that has not expired.

**What is hard.** The poller, the handlers and the beacons run concurrently
over one table with no transaction longer than a statement: the poller makes up
to five calls per message, replace and delete two writes to two systems. Events
come late, more than once and in any order; calls fail; acks get lost; the
container is killed at any point; an object may arrive after its row is gone.

**What makes each part correct.**

- store: a key belongs to at most one row; a slug that is gone stays gone.
- poller: every object that arrived gets a ready track, in spite of failures
  and duplicates; no track is ready without its file; handled events are not
  lost before they are handled.
- admin handlers: a request that stops half-way leaves no file without a track,
  and no track stuck whose file is there; two requests never lead two links to
  one file.
- share surface: plays are neither lost nor invented; a link follows
  `ShareLinks`; the URLs a page hands out do not go on being minted once the
  link has ended; an edit form saved unchanged never cuts a link short.
- player: one beacon per page load, a button that says what a click will do.
- upload and replace pages: success is reported of stored files only, and a page
  does not wait for ever once the answer is known.

## The modules

| Module | Models | Correspondence |
|---|---|---|
| `Store` | `internal/store/store.go` | `tracks` is the table as a function from slugs; one operator per SQL statement |
| `Cloud` | R2, the event rule and the queue | external: `objects`, `queue`, and `Fault`, the budget of failing calls |
| `Poller` | `internal/ingest` | `phase` is the call `pollOnce` makes next; one action per call to SQLite, R2 or the queue, each with its failing outcome |
| `Admin` | `upload.go`, `replace.go`, `admin.go` | one action for a handler with one write; replace and delete keep a request in `req[r]` between lookup, `r2.Delete` and the row's statement |
| `Listener` | `handleTrackPlay` in `share.go` | lookup and increment are two actions |
| `Transients` | the running service | interleaves the components; adds browsers, rclone, stray messages, passing of expiry dates, `Crash`; holds the properties |
| `ShareLinks` | what a link's holder is promised | abstract specification; `Transients` implements it by the mapping `Page`, `FileBehind` |
| `Player` | `static/player.js` over the browser's audio element | the element (`source`, `paused`, `position`, external) changes at once and queues `tasks`; `OnEvent` is the script's listeners, which set `playRecorded` and `isPlaying` |
| `Visits` | `share.go`, `embed.go`, dates in `upload.go` and `admin.go` | composes `Listener` and `Player` over the table with a clock: page loads mint `url`, beacons are `inFlight`, the open edit form is `form`, `Tick` ages expiries and URLs |
| `Session` | `internal/auth`, `login.go` | `cookie`: would the server verify it |
| `UploadPage` | `static/upload.js`, `static/replace.js`, upload status | composes `Transients` and `Session` with the scripts of each `tab`: first request, PUT, poll |
| `MCTransients`, `MCVisits` | - | symmetry and bounded sets for TLC |
| `StoreProofs`, `TransientsProofs`, `SafetyProofs`, `NeverStuckProofs`, `PlaysProofs` | - | theorems about `Store` and `Transients` |
| `RefinementProofs` | - | `Transients` implements `ShareLinks`; theorems about `UploadPage` |
| `VisitsProofs` | - | theorems about `Visits` |
| `SumProofs` | - | lemmas on sums over finite sets |

Two compositions share the components. `Transients` is the service with the
bucket and the queue, where an expiry is only *past* or not; `UploadPage` adds
the artist's browser to it. `Visits` is the table with a visitor, where time is
counted and the bucket is not looked at.

`Poller`, `Admin` and `Listener` each extend the table (and the cloud) they
share, and `Transients` conjoins their next-state relations with `UNCHANGED` of
the others' variables.

**Reads.** A handler that ends before its first write (unknown slug, bad
form, failing lookup) changes nothing and is no action, and neither are the
pages that only read. An error a statement returns before it changes anything
and a refused statement are outcomes of the action.

**History variables.** No guard of the program's actions reads them.

- `promised`: keys some replacement has pointed a row at;
- `damaged`: keys whose object a two-step request (delete or replace) has
  removed, or may have, without seeing to the row that points at it: it failed,
  died half-way or finished on a row that had changed;
- `abandoned`: keys that two overlapping steps may leave in the bucket without
  a row or an event: written again between the two steps of a request, or those
  of a row that was repointed while a request on it was under way;
- `recorded`, `erased`: plays reported as counted, and plays of deleted rows;
- `dark` (`Visits`): ticks since a link last showed the player;
- `heard` (`Player`): the last event of the audio element that was handled.

The first two are the exceptions of the safety properties, and each property has
only those it needs. That a track is ready without its file is excused by
`damaged`. That a file is left without a track
(`NoOrphans`), or a track stuck (`NeverStuck`), is excused by `abandoned` alone:
no crash and no failing call is an excuse there.

**Abstractions.** A key is `<<slug, extension>>` or a name rclone uses. The
files rclone drops are not named like a slug of the service. A slug is drawn at
most once (`used`); when a small instance has none left, the poller's insert
fails and the event is retried. `expires_at` is one of the constant `Expiries`, of
which those in `Past` are over. In `Transients` it is *never*, *later* or
*past*, and `Lapse` moves a row from one to the next. In `Visits` it is the
number of ticks left, so that `Tick` takes one from all of them, and a calendar
day is `Day` ticks (UTC, as the container's time is). `PutObject` covers the three event
actions of `queue.tf`. A PUT URL never expires in the model although it lasts
15 minutes in the program, and the queue keeps a message until it is
acknowledged: the first allows more behaviours than the program has, the second
fewer when the queue's retention or retry limits strike, see *Not modelled*.
In `Visits` media events and requests under way are done before the next
tick, because a tick is hours; within a tick they come in any order. In
`UploadPage` a tab's replacement is served by the same two steps as in `Admin`,
and its answer by a third outcome of the second; an upload keeps no expiry, on
which no step of the scripts depends. Failing calls that change nothing and stop a handler before its first write are
left out; a failing presign after the write behaves like a PUT that is
never made.

## The runs

`visits`, `expiry` and `button` are of `MCVisits`, `upload_page` is of
`UploadPage` itself, and the others are of `MCTransients`.

| Run | Question | Instance |
|---|---|---|
| `upload_delete` | do late events, retries, lost acks and batches that fail in part leave a track ready without a file, or stuck, or a file forgotten? | 3 slugs, 1 rclone name, 2 messages, 1 failing call, 1 restart, batch of 2, uploads and deletes |
| `replace` | the same with the file behind a track changing, to the same and another extension, no shared key, and is `IngestInv`, the inductive invariant behind `NeverStuck`, an invariant? | 2 slugs, 2 extensions, 1 rclone name, 2 messages |
| `two_tabs` | is `SafetyInv` an invariant, is no object forgotten, does no slug come back, and does the service implement `ShareLinks`, when two admin requests interleave with each other and the poller, and it may be killed between any two steps? | 2 slugs, 2 slots, upload, replace, delete, rotate, 1 rclone name, 1 message, 1 failing call, 1 restart |
| `plays` | do the play counts add up, and does `ShareLinks` hold with all operations and expiry? | 2 slugs, 2 listeners, all operations, all expiries, 1 restart |
| `ingest` | does every file that arrived get a ready track? (liveness) | 2 slugs, 2 messages of which any may be stray, batch of 1, 1 failing call, 1 restart |
| `confirm` | violation: a track becomes ready without its own file being confirmed | 1 replacement during ingest |
| `rotated` | violation: a track whose file arrived stays pending for ever | 1 rotation during ingest |
| `gone` | violation: the event of a deleted object creates a track | 1 delete before the event |
| `visits` | does every URL end soon after its link, each load count one play, the button say what a click will do, an edit form saved unchanged cut no link short? | 1 slug, 2 loads, audio of 3 positions, 2 events of lag, days of 3 ticks, URLs of 2, a clock to 5 |
| `upload_page` | is success reported of stored files only, and does no page wait for ever (liveness)? | 1 slug, 2 extensions, 1 tab, 2 PUTs, 1 restart, a session that ends at any time |
| `expiry` | violation: a URL works after its track's expiry | as `visits` |
| `button` | violation: the button says Play while the element plays on | as `visits` |

**Bounds.** `MaxPuts` bounds the messages, and with them the objects written;
two suffice for an old and a new file of one key, a duplicate of a file's
event, or one good and one stray message. `MaxFaults` = 1 and `MaxCrashes` = 1
place one failure at every point of every behaviour; every failing call hurts
on its own. `two_tabs` has a single message, to leave room for its second slot; a
file that is written again and a batch of two are in `replace` and `upload_delete`.
`MaxPlays` stops new beacons, not those on their way. Two slugs
show rotation, a collision of two rows and a discovery after a delete; three
leave a fresh one after these. `BatchSize` is 2 for a batch with an unhandled
rest or one message that fails beside one that does not, and 1 where a bad message alone fills a pull. In `visits`
the clock passes a midnight and reaches an expiry, a URL's end and the day after;
`TTL` and `Day` differ so that neither hides the other; two loads show a reload
and a beacon that outlives its page, and two waiting events the smallest lag in
which a click overtakes the event of the last one (`MaxTasks` bounds only what the
visitor adds, not the end of playback). One slug is enough there, as no operation
of `Visits` relates two of them, and a rotation ends a link as a delete does.
`upload_page` has one tab and one request slot. With two tabs that replace the same
track `SuccessIsStored` is false, as the status asked for is the track's and not
the file's. With two slots it is false as well: a replacement whose tab was closed
goes on in the server and removes the file of the next one. It has no
failing calls in the service, whose effects the other runs show, but every failure
the browser can see. Rotation is left out there; for the page it is a slug that is
gone, as after a delete. The proofs have no bounds.

**Fairness.** `ingest` and `rotated` use `FairSpec`: weak fairness of the
poller's steps (the goroutine runs on), and strong fairness, per message, of a
pull that contains it: the ticker keeps firing and the queue lends every
message out again. Nothing is asked of the artist, the browsers or
listeners, and failing calls are finite in number, as any number of them
justifies no progress at all. `upload_page` adds weak fairness of `Poll`: the loop of
a tab that is left open asks again every two seconds. The PUT, the request before
it, and the session need not make progress.

**The violations** are disagreements between code and documents:

- `confirm`: `ingestObject` looks the track up by key but marks it ready by slug
  (`poller.go:104`, `:132`). With a replacement in between, the row already
  points at the new key, and the link shows a player for a file that is not
  there. `CONTEXT.md:20` promises a 404 until ingest confirms the new file.
- `rotated`: `MarkReady` does not look at `RowsAffected` (`store.go:79-86`). With a
  rotation in between, it updates no row, the event is acknowledged and no other
  will come. `README.md:148-149` expects the track to become ready.
- `gone`: the row is inserted before the Head call (`poller.go:109-119`), so
  a late event for a deleted object leaves a failed track in the dashboard. The
  comment at `poller.go:121-123` says there is nothing to ingest.
- `expiry`: every page load mints a URL of the full `PresignedGetTTL`
  (`share.go:47`), also minutes before the expiry, and R2 knows of no other end.
  `README.md:17-18` says that "link expiry is enforced by R2 itself". What holds
  is `UrlsDieWithLinks`: the URLs end at most four hours after the link.
- `button`: the listener of `ended` (`player.js:64`) shows Play whether or not the
  element still plays. The event is a task of the browser, queued when the playhead
  gets to the end; a visitor who has sought there and seeks, skips or jumps away
  before it is handled goes on listening under a button that says Play, and the
  next click pauses. `CONTEXT.md:28`, `:32` and `:36` say of all three that they
  never change the play/pause state. What holds is `ButtonTellsClick`.

`NeverStuck`, `IngestInv` and the liveness properties are therefore checked, and the
first two proved, without rotation, and `ReadyPlayable` excludes promised keys
(`confirm`) and damaged ones.

Two more things the code does are no violations of a property here, and are not
hidden by one:

- A replacement deletes the old object before it takes the track offline
  (`replace.go:44`, `:51`). One that is cut off in between, by a kill or by the
  orderly shutdown, leaves a ready track, whose link shows a player, without a
  file, until the artist replaces it again; a delete does the same
  (`admin.go:116`, `:122`). `CONTEXT.md:20` has the link answer 404 from that
  deletion on; ADR 0003 accepts that a replacement may leave a broken track.
  This is the exception `damaged` of `ReadyPlayable`.
- An expiry is stored as midnight after the chosen day (`admin.go:62`) and
  shown as its calendar date (`admin.go:36`), which is the next day. So each save
  of the form, to change the title say, moves the expiry a day on, and within a
  day after an expiry it revives the link. `SaveNeverCutsShort` allows
  this drift and says that there is none in the other direction.

**Mutants.** Operators preceded by a comment `mutant:` are not used by the
specification. Each is a plausible bug of the operator that follows it; with
it in place, the property it is paired with in `PROJECT.json` fails.

## The proofs

`tlapm` checks, for all values of the constants that satisfy the assumptions in
the modules (the placeholder values are outside the sets they stand beside,
the bounds are naturals, `BatchSize` is positive, `Ops` and `Offered` are
subsets of the known operations and expiries, `Slugs` is finite as the 62^10
strings are, and the expiry field of the upload form may be left empty):

| Theorem | States |
|---|---|
| `TypeCorrect` | `Spec => []TypeOK` |
| `KeysStayUnique` | `Spec => []UniqueKeys` |
| `DeadSlugsStayDead` | `Spec => RetiredSlugsStayDead` |
| `SafetyInvariant` | `Spec => []SafetyInv` |
| `ReadyTracksPlay` | `Spec => []ReadyPlayable` |
| `NoObjectForgotten` | `Spec => []NoOrphans` |
| `IngestInvariant` | `Spec => []IngestInv`, if `Ops` has no rotation |
| `NobodyIsStuck` | `Spec => []NeverStuck`, if `Ops` has no rotation |
| `PlaysAreConserved` | `Spec => []PlaysConserved` |
| `ServiceImplementsShareLinks` | `Spec => ImplementsShareLinks` |
| `PageTypeCorrect` | `PageSpec => []PageTypeOK` |
| `PageImplementsService` | `PageSpec => Spec` |
| `SuccessIsHonest` | `PageSpec => SuccessIsStored`, of one tab and one request at a time |
| `UrlsEnd` | `Spec => []UrlsDieWithLinks` (of `Visits`, as the next four) |
| `SaveNeverShortens` | `Spec => SaveNeverCutsShort` |
| `ButtonTellsTruth` | `Spec => []ButtonTellsClick` |
| `PlaysBounded` | `Spec => []OnePlayPerLoad` |
| `VisitsTypeCorrect` | `Spec => []TypeOK` |

**`StoreProofs`.** What each statement does to the table's type and to the
expiries, for the two compositions that share the table.

**`TransientsProofs`.** Types are proved per component. Every step of the
service has one of a few effects on the table (`TableStep`): it keeps the keys,
inserts a row under a free key and a fresh slug, repoints a row to a free key,
moves a row to a fresh slug or removes one. Each effect preserves *rows have
drawn slugs* (`RowsAreIssued`, which makes a fresh slug one without a row, so
that an insertion or a rotation overwrites nothing) and `UniqueKeys`, and none
gives a drawn slug without a row its row back.

**`SafetyProofs`.** `ReadyPlayable` is not inductive: the poller marks a track
ready because of a Head call it made earlier. `PollerIsCurrent` carries what
was read from one step to the next: the track in hand still has the event's key
or has been repointed, and after the Head call the object is there or a request
is to blame. `HalfDoneIsGone` accounts for a request between its two steps.
`NoOrphans` is not inductive either: it counts an event that is in the queue
but that the poller has dealt with. `OpenCovers` counts only events not yet
dealt with, and needs `IdsAreOld`, so that a new message is not taken for one
already acknowledged. `SafetyInv` is the conjunction; TLC checks it as it
stands in `two_tabs`.

**`NeverStuckProofs`.** `NeverStuck` is not inductive for the same reason as
`NoOrphans`, and for two more. The event in hand may be of the track's key and yet
be handled for another track, or end in a failed mark: `WillConfirm` counts the
events that will make *this* track ready, and `Unfinished` asks for one of them.
And the poller may mark a ready track failed: `HandIsHonest` says that it is about to do
so only while another such event is left, or the file is gone or abandoned, and that
a track repointed under its hands is not ready. `InHand` keeps the message in hand apart from the batch and from
the acks. The conjunction `IngestInv` is preserved, beside `SafetyInv`, by every step
but a rotation, which takes the row from under the slug the poller holds; the run
`rotated` shows that it must be excluded. TLC checks `IngestInv` in `replace`.

**`PlaysProofs`** and **`SumProofs`.** `PlaysConserved` adds the plays up with the
folds of the community modules, which take the elements in an order of their own.
`SumProofs` shows that the order does not matter, so that one summand can be taken
out, changed or moved: a sum is a table of the sums of all subsets (`IsSum`), and
two tables agree because a smallest subset on which they differ cannot exist
(the strict subset order on a finite set is well-founded). That is induction
without a theorem that takes an operator. A slug without a row counts no plays, so
`AllPlays`, over all slugs, is what `PlaysConserved` adds up; each step changes one
summand, or, for a rotation, moves one, and `erased` or `recorded` with it.

**`RefinementProofs`.** A link (`LinkOf`) is a function of its row and of whether its
slug was drawn, so each effect on the table that `TransientsProofs` distinguishes is
an action of `ShareLinks` or changes no link; `UniqueKeys` and `RowsAreIssued` give the
guards. `PageSpec` implements `Spec` because each step of the scripts is a step of a
component, given that a tab that waits has its request (`PageTypeOK`, which needs
`OneTabPerRequest`: no two tabs wait for one slot). So `TableInv` holds in `UploadPage`
too, and `SuccessIsHonest` rests on it: while a tab puts a file or waits for the
status, no replacement of its track is under way (`NotReplaced`), so the track's key
changes under it only when the row goes, and the file is in the bucket or a request
is to blame (`FileInv`). The hypothesis `OneAtATime`, one tab and one request
slot, is what makes `NotReplaced` invariant, and *Bounds* says how `SuccessIsStored`
fails without it.

**`VisitsProofs`.** `UrlsDieWithLinks` needs the ranges of `url` and `dark` beside
it: a tick takes one from a URL and adds one to the darkness, both stop at their
ends, and a load resets both while the link is visible. `SaveNeverCutsShort`
is an action property, and rests on `FormInv`: as long as the row exists, the date
in the form is that of its expiry. That is invariant because the end of a link,
`now + expires`, moves with no tick and changes only by saving the one form there
is; a slug that is gone does not come back under the form (`used`); and no end
lies before the clock started, so dates are naturals. The rest is the
arithmetic of `\div`: the end of the day of an instant is later than it, by a
day at most. The property would also hold of a form that moves nothing.

`ButtonTellsClick` speaks of the moment when no event waits; `PlayerInv` says what
the waiting events will do. The button shows what was heard last (`ButtonIsHeard`).
While the element is paused the last event waiting is not a play, and when none
waits the button shows Play (`PauseIsHeard`); while it is not, the last event is a
play or an end, whether it waits or was handled (`PlayIsHeard`); and an element that
plays at its end has an end to report that no play follows (`EndIsHeard`). The
exception in the property is the one `button` reports. It is about `paused`, which
decides what a click does, and not about sound: a source that fails while play is
wanted stays un-paused, under a button that says Pause.
For `OnePlayPerLoad` a load is
followed through its stages: a beacon to come, under way, being served, recorded.
Their sum never exceeds the loads (`PlaysInv`, with the sums of `SumProofs`), as each
step takes one play from a stage to the next or drops it.

**Only model-checked:** liveness (`EventuallyReady`, `EventuallyDiscovered`,
`PageSettles`), which is out of the prover's reach. Every invariant and action
property that a run checks to hold is stated by a theorem.

## Not modelled

- The queue's retry limit and retention. A message that is given up is an event
  lost: the liveness runs hold only while the queue keeps its messages.
- The 15 minutes of a PUT URL (`upload.go:14`).
- The orderly shutdown as such: `ListenAndServe` returns as soon as `Shutdown` is
  called and `main` with it (`main.go:58-69`), so it is a `Crash` whose poller may
  see its last call fail first.
- Two edit forms open at once: the second saved overwrites what the first
  wrote, by the form's design (`admin.go:65-68`).
- Playback that breaks off in the middle (`player.js:28-47` only logs it; a
  source that fails from the start is modelled), time zones other than UTC, daylight saving time.
- The page a login leads on to, bcrypt and HMAC themselves.
- oEmbed, the dashboard and the other pages that only read; the time display and
  the rest of the layout.
- Which page has the keyboard: `CONTEXT.md:12` wants the Embed to claim no keys,
  while `player.js:106` listens on both pages. That is a property of one line
  and not of any sequence of steps.
- Environment variables, migrations, templates, static assets, infrastructure
  declarations, CI: no state of the running service.

## Plan

Done, in this order: `Store`, `Cloud`, `Poller`, `Admin`, `Transients` with
uploads and deletes, then replace and two tabs, `Listener`, `ShareLinks`, the
violations, the proofs about `Transients`; then `Player`, `Visits` (with the
clock of the presigned URLs), `Session`, `UploadPage`, and the proofs about
`Visits`.

Then the proofs of ingest (`IngestInv`), of the play counts and the sums they need, of
the refinement of `ShareLinks`, of the player, and of the upload and replace pages.

Next proofs: what the liveness runs rest on and the prover can state without
`ENABLED`, such as that the poller's steps between two pulls only ever shorten what it
still has to do.
