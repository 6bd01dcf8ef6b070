----------------------------- MODULE Transients -----------------------------
(***************************************************************************)
(* The running service: the poller goroutine, the artist's handlers and    *)
(* the listeners' beacons interleave call by call over one table, while    *)
(* browsers and rclone write to the bucket, time passes and the container  *)
(* may be killed and restarted (cmd/server/main.go, docker-compose.yml).   *)
(***************************************************************************)
EXTENDS Poller, Admin, Listener, FiniteSetsExt

CONSTANT MaxCrashes   \* bound on restarts

ASSUME TransientsAssumption == MaxCrashes \in Nat

VARIABLE crashes

vars == <<storeVars, cloudVars, pollerVars, adminVars, listenerVars, crashes>>

TypeOK ==
    /\ StoreTypeOK
    /\ CloudTypeOK
    /\ PollerTypeOK
    /\ AdminTypeOK
    /\ ListenerTypeOK
    /\ crashes \in Nat

Init ==
    /\ StoreInit
    /\ CloudInit
    /\ PollerInit
    /\ AdminInit
    /\ ListenerInit
    /\ crashes = 0

-----------------------------------------------------------------------------
(* The world outside the server *)

\* upload.js or replace.js PUTs the file to the URL it was given
BrowserPut(k) ==
    /\ k \in grants
    /\ PutObject(k)
    /\ Rewritten(k)
    /\ UNCHANGED <<storeVars, pollerVars, listenerVars, crashes>>

\* rclone copies a file into the bucket
Drop(k) ==
    /\ k \in DropNames
    /\ PutObject(k)
    /\ Rewritten(k)
    /\ UNCHANGED <<storeVars, pollerVars, listenerVars, crashes>>

\* a message on the queue that announces no object
Stray(action, k) ==
    /\ Send(action, k)
    /\ UNCHANGED <<storeVars, objects, pollerVars, adminVars, listenerVars, crashes>>

\* a track's expiry date passes
Lapse(s, x) ==
    /\ Exists(s) /\ ~Expired(s) /\ tracks[s].expires # Never
    /\ tracks' = [tracks EXCEPT ![s].expires = x]
    /\ UNCHANGED <<used, cloudVars, pollerVars, adminVars, listenerVars, crashes>>

\* The process is killed and started again: the table, the bucket and the
\* queue survive it, every handler in flight and the poller's batch do not.
Crash ==
    /\ crashes < MaxCrashes
    /\ crashes' = crashes + 1
    /\ PollerCrash /\ AdminCrash /\ ListenerCrash
    /\ UNCHANGED <<storeVars, cloudVars, recorded>>

World ==
    \/ \E k \in ObjectKeys : BrowserPut(k) \/ Drop(k)
    \/ \E action \in Actions \ {"create"}, k \in DropNames : Stray(action, k)
    \/ \E s \in Slugs, x \in Past : Lapse(s, x)
    \/ Crash

Next ==
    \/ PollerNext   /\ UNCHANGED <<adminVars, listenerVars, crashes>>
    \/ AdminNext    /\ UNCHANGED <<pollerVars, listenerVars, crashes>>
    \/ ListenerNext /\ UNCHANGED <<cloudVars, pollerVars, adminVars, crashes>>
    \/ World

Spec == Init /\ [][Next]_vars

\* The goroutine keeps running and the ticker keeps firing; the queue lends
\* every message out again until it is acknowledged.  Nothing obliges the
\* artist, the browsers or the listeners to do anything.
Fairness ==
    /\ WF_vars(PollerStep /\ UNCHANGED <<adminVars, listenerVars, crashes>>)
    /\ \A id \in 0..MaxPuts :
           SF_vars(\E ms \in SUBSET queue :
                       /\ \E m \in ms : m.id = id
                       /\ Pull(ms)
                       /\ UNCHANGED <<adminVars, listenerVars, crashes>>)

FairSpec == Spec /\ Fairness

-----------------------------------------------------------------------------
(* Safety *)

\* Two share links never lead to one file, whatever replacements, rotations
\* and discoveries interleave: the UNIQUE constraint stops every write that
\* would point a second row at a key (store.go:46-65, 114-117).
UniqueKeys ==
    \A s, t \in Slugs :
        Exists(s) /\ Exists(t) /\ tracks[s].key = tracks[t].key => s = t

\* A slug that was rotated away or deleted never resolves again, not even
\* through a handler or a poller that still holds it (store.go:132-148).
RetiredSlugsStayDead ==
    [][\A s \in used : ~Exists(s) => ~Exists(s)']_vars

\* A ready track has its file in the bucket, however deletes, late events,
\* failed calls, lost acks and restarts interleave (poller.go:104-134,
\* admin.go:105-126).  The exceptions are a delete or replace between its two
\* steps, one that failed, died or was overtaken there (the row then keeps a
\* key whose object is gone), and a file promised by a replacement (see ConfirmedKeyIsCurrent).
ReadyPlayable ==
    \A s \in Slugs :
        Ready(s) => tracks[s].key \in objects \cup damaged \cup promised \cup HalfDone

\* No file is forgotten: each object in the bucket has its track or an event
\* still to be handled that will make it, also after errors, lost acks and
\* restarts, and after deletes and replacements that failed or died half-way
\* (poller.go:73-86, admin.go:116-123).  Only where a second step overlaps one
\* of these two may an object be left (abandoned).
NoOrphans ==
    \A k \in objects \ abandoned : GetByObjectKey(k) # {} \/ Announced(k)

\* No track is stuck: as long as a track whose file has arrived is not
\* ready, an event that will make it ready is still in the queue, also when
\* an event of the file failed, came twice or was overtaken by a replacement,
\* or a request on the track died half-way (poller.go:127-134).  A rotation
\* breaks this, see the run rotated.
NeverStuck ==
    \A s \in Slugs :
        Exists(s) /\ ~Ready(s) /\ tracks[s].key \in objects \ abandoned
        => Announced(tracks[s].key)

\* No play is lost or invented: the counters of the live tracks and of the
\* deleted ones add up to the increments the listeners were told of, across
\* rotations, replacements and edits made while a beacon is being served.
PlaysConserved ==
    LET live     == {s \in Slugs : Exists(s)}
        plays(s) == tracks[s].plays
    IN  MapThenSumSet(plays, live) + erased = recorded

-----------------------------------------------------------------------------
(* Why the safety properties hold: their inductive invariant               *)

RowsAreIssued == \A s \in Slugs : Exists(s) => s \in used

\* the poller holds the slug of a track it looked up or inserted
Holding == phase \in Ingesting \ {"create"}

\* What the poller read stays true of the table: its track still has the
\* event's key unless a replacement has repointed it, and the object it has
\* seen is still there unless a two-step request has removed it.
PollerIsCurrent ==
    Holding =>
        /\ track \in used
        /\ Exists(track) =>
              /\ tracks[track].key \in {msg.key} \cup promised
              /\ phase = "markReady" =>
                    tracks[track].key \in objects \cup damaged \cup promised \cup HalfDone

\* A message can be told from every message sent later.
IdsAreOld ==
    /\ \A m \in queue \cup batch \cup acks : m.id < sent
    /\ phase \in Ingesting => msg.id < sent

\* messages that are not, and will not be, acknowledged by this poll so far
Open == {m \in queue \ acks : Holding => m # msg}

\* NoOrphans, counting only the events the poller has not dealt with yet
OpenCovers ==
    \A k \in objects \ abandoned :
        GetByObjectKey(k) # {} \/ \E m \in Open : m.action = "create" /\ m.key = k

\* Between the two steps of a delete or replace the object is gone, unless it
\* has been written again.
HalfDoneIsGone == HalfDone \cap objects \subseteq abandoned

\* TypeOK and the safety properties, strengthened until every step of the
\* service preserves them (poller.go:67-138, replace.go:33-64,
\* admin.go:105-126).
SafetyInv ==
    /\ TypeOK
    /\ RowsAreIssued
    /\ UniqueKeys
    /\ PollerIsCurrent
    /\ IdsAreOld
    /\ HalfDoneIsGone
    /\ ReadyPlayable
    /\ OpenCovers

\* What the poller still has to handle is not acknowledged and no longer in
\* its batch once it is in hand.
InHand ==
    /\ batch \subseteq queue \ acks
    /\ phase \in Ingesting =>
          msg \in (queue \ acks) \ batch /\ msg.action = "create"
    /\ phase = "idle" => batch = {} /\ acks = {}

\* The poller will mark s ready by m, unless the object disappears.
WillConfirm(m, s) ==
    /\ m \in queue \ acks
    /\ m.action = "create" /\ m.key = tracks[s].key
    /\ m = msg => phase # "markGone" /\ (phase \in {"head", "markReady"} => track = s)

\* NeverStuck, counting only the events that will be handled for the track
Unfinished ==
    \A s \in Slugs :
        Exists(s) /\ ~Ready(s) /\ tracks[s].key \in objects \ abandoned
        => \E m \in queue : WillConfirm(m, s)

\* The poller may mark the track in its hands failed: that takes a ready track
\* back only while an event is left that makes it ready again.
HandIsHonest ==
    Holding /\ Exists(track) =>
        /\ tracks[track].key # msg.key => ~Ready(track)
        /\ phase = "markGone" /\ tracks[track].key \in objects \ abandoned
           => \E m \in queue : WillConfirm(m, track)

\* NeverStuck, strengthened until every step but a rotation preserves it
\* beside SafetyInv (poller.go:67-138).
IngestInv == InHand /\ Unfinished /\ HandIsHonest

-----------------------------------------------------------------------------
(* What the documentation says and the code does not do *)

\* CONTEXT.md:20: after a replace "the share link 404s [...] until ingest
\* confirms the new file".  So a track may become ready only by an event for
\* the file it now points at (poller.go:104-134).
ConfirmedKeyIsCurrent ==
    [][\A s \in Slugs :
           Exists(s) /\ ~Ready(s) /\ Ready(s)' /\ phase = "markReady"
           => tracks[s].key = msg.key]_vars

\* poller.go:121-123: an event for an object that was deleted is dropped,
\* "nothing to ingest".  So it may not leave a new track behind.
GoneObjectIsDropped ==
    [][phase = "create" /\ phase' # phase /\ msg.key \notin objects
       => tracks' = tracks]_vars

-----------------------------------------------------------------------------
(* Liveness *)

Arrived(s) == Exists(s) /\ ~Ready(s) /\ tracks[s].key \in objects \ abandoned

\* A track whose file has arrived becomes ready, or is taken out of the
\* poller's hands by the artist (README.md:148-149).
EventuallyReady == \A s \in Slugs : Arrived(s) ~> ~Arrived(s)

\* A file dropped into the bucket gets its track, unless the artist deletes
\* it (README.md:150-151) or the small instance has no slug left to draw.
EventuallyDiscovered ==
    \A k \in DropNames :
        k \in objects
        ~> GetByObjectKey(k) # {} \/ k \notin objects \ abandoned \/ used = Slugs

-----------------------------------------------------------------------------
(* Refinement of the promise about share links *)

CONSTANT NoFile   \* what is behind a link without a track

ASSUME NoFileAssumption == NoFile \notin ObjectKeys

Page(s) ==
    IF ~Exists(s) THEN (IF s \in used THEN "gone" ELSE "unissued")
    ELSE IF tracks[s].status # "ready" THEN "offline"
    ELSE IF Expired(s) THEN "expired"
    ELSE "player"

FileBehind(s) == IF Exists(s) THEN tracks[s].key ELSE NoFile

Links == INSTANCE ShareLinks WITH
    Files <- ObjectKeys,
    link  <- [s \in Slugs |-> [page |-> Page(s), file |-> FileBehind(s)]]

\* Seen from its share links, the service is ShareLinks.
ImplementsShareLinks == Links!Spec
=============================================================================
