------------------------------- MODULE Poller -------------------------------
(***************************************************************************)
(* The ingest poller (internal/ingest): the goroutine that pulls a batch   *)
(* of event messages, turns every created object into a ready track and    *)
(* acknowledges the messages it is done with.  Each call it makes to       *)
(* SQLite, R2 or the queue is a step of its own, since the web handlers    *)
(* run between any two of them.                                            *)
(***************************************************************************)
EXTENDS Cloud

CONSTANTS
    BatchSize,  \* batchSize of poller.go (10)
    NoMsg,      \* no message is being handled
    NoSlug      \* no track is held

ASSUME PollerAssumption ==
    /\ BatchSize \in Nat \ {0}
    /\ NoMsg \notin Message
    /\ NoSlug \notin Slugs

VARIABLES
    phase,      \* the call pollOnce is about to make
    batch,      \* messages of the pull still to be handled
    acks,       \* messages handled without an error
    msg,        \* the message ingestObject is working on
    track       \* the slug ingestObject looked up or drew

pollerVars == <<phase, batch, acks, msg, track>>

Ingesting  == {"create", "head", "markReady", "markGone", "markError"}
Phases     == {"idle", "next"} \cup Ingesting

PollerTypeOK ==
    /\ phase \in Phases
    /\ batch \subseteq Message
    /\ acks \subseteq Message
    /\ msg \in Message \cup {NoMsg}
    /\ track \in Slugs \cup {NoSlug}
    /\ phase \in Ingesting => msg \in Message
    /\ phase \in Ingesting \ {"create"} => track \in Slugs

PollerInit ==
    /\ phase = "idle"
    /\ batch = {}
    /\ acks = {}
    /\ msg = NoMsg
    /\ track = NoSlug

-----------------------------------------------------------------------------
(* How handleMessage returns *)

\* nil: the message joins the batch of acks
Handled ==
    /\ phase' = "next"
    /\ acks' = acks \cup {msg}
    /\ msg' = NoMsg
    /\ track' = NoSlug
    /\ UNCHANGED batch

\* mutant: the error is logged and the message acknowledged
AckedAnyway ==
    /\ phase' = "next"
    /\ acks' = acks \cup {msg}
    /\ msg' = NoMsg
    /\ track' = NoSlug
    /\ UNCHANGED batch

\* an error: the message is left in the queue for a later pull
LeftForRetry ==
    /\ phase' = "next"
    /\ msg' = NoMsg
    /\ track' = NoSlug
    /\ UNCHANGED <<batch, acks>>

-----------------------------------------------------------------------------
(* pollOnce *)

Pull(ms) ==
    /\ phase = "idle"
    /\ ms # {} /\ ms \subseteq queue
    /\ Cardinality(ms) <= BatchSize
    /\ phase' = "next"
    /\ batch' = ms
    /\ UNCHANGED <<acks, msg, track, storeVars, cloudVars>>

\* the pull returns nothing, or fails: the loop waits for the next tick
PollEmpty ==
    /\ phase = "idle"
    /\ UNCHANGED <<pollerVars, storeVars, cloudVars>>

\* json.Unmarshal fails: an error, so the message is not acknowledged
TakeMalformed(m) ==
    /\ phase = "next" /\ m \in batch
    /\ m.action = "malformed"
    /\ batch' = batch \ {m}
    /\ UNCHANGED <<phase, acks, msg, track, storeVars, cloudVars>>

\* not an object-create event: nothing to ingest
TakeOther(m) ==
    /\ phase = "next" /\ m \in batch
    /\ m.action = "other"
    /\ batch' = batch \ {m}
    /\ acks' = acks \cup {m}
    /\ UNCHANGED <<phase, msg, track, storeVars, cloudVars>>

\* ingestObject starts: the track is looked up by the event's key
TakeCreate(m) ==
    /\ phase = "next" /\ m \in batch
    /\ m.action = "create"
    /\ batch' = batch \ {m}
    /\ \/ \E s \in GetByObjectKey(m.key) :
             /\ phase' = "head" /\ msg' = m /\ track' = s
             /\ UNCHANGED faults
       \/ /\ GetByObjectKey(m.key) = {}
          /\ phase' = "create" /\ msg' = m
          /\ UNCHANGED <<track, faults>>
       \/ /\ Fault
          /\ UNCHANGED <<phase, msg, track>>
    /\ UNCHANGED <<acks, storeVars, objects, queue, sent>>

\* mutant: the inserted track is not kept for the calls that follow
CreateForgettingTrack ==
    /\ phase = "create"
    /\ \E s \in Slugs :
           /\ Fresh(s)
           /\ CreateFromDiscovery(s, msg.key)
           /\ phase' = "head"
    /\ UNCHANGED <<batch, acks, msg, track, faults, objects, queue, sent>>

\* no row has the key: an rclone drop, so a row is inserted under a new slug
CreateDiscovered ==
    /\ phase = "create"
    /\ \/ \E s \in Slugs :
             /\ Fresh(s)
             /\ CreateFromDiscovery(s, msg.key)
             /\ phase' = "head" /\ track' = s
             /\ UNCHANGED <<batch, acks, msg, faults>>
       \/ \* the INSERT fails: an error, a row that took the key since the
          \* lookup, or (in a small instance) no slug left to draw
          /\ \/ Fault
             \/ GetByObjectKey(msg.key) # {} /\ UNCHANGED faults
             \/ used = Slugs /\ UNCHANGED faults
          /\ LeftForRetry
          /\ UNCHANGED storeVars
    /\ UNCHANGED <<objects, queue, sent>>

\* mutant: a 404 is treated like a hit
HeadObjectIgnoring404 ==
    /\ phase = "head"
    /\ \/ phase' = "markReady" /\ UNCHANGED faults
       \/ phase' = "markError" /\ Fault
    /\ UNCHANGED <<batch, acks, msg, track, storeVars, objects, queue, sent>>

HeadObject ==
    /\ phase = "head"
    /\ \/ msg.key \in objects    /\ phase' = "markReady" /\ UNCHANGED faults
       \/ msg.key \notin objects /\ phase' = "markGone"  /\ UNCHANGED faults
       \/ phase' = "markError" /\ Fault
    /\ UNCHANGED <<batch, acks, msg, track, storeVars, objects, queue, sent>>

ConfirmReady ==
    /\ phase = "markReady"
    /\ \/ MarkReady(track) /\ Handled /\ UNCHANGED faults
       \/ Fault /\ LeftForRetry /\ UNCHANGED storeVars
    /\ UNCHANGED <<objects, queue, sent>>

\* the Head call said 404: the error of MarkFailed is ignored
DropGone ==
    /\ phase = "markGone"
    /\ \/ MarkFailed(track) /\ UNCHANGED faults
       \/ Fault /\ UNCHANGED storeVars
    /\ Handled
    /\ UNCHANGED <<objects, queue, sent>>

\* the Head call failed otherwise
FailForNow ==
    /\ phase = "markError"
    /\ \/ MarkFailed(track) /\ UNCHANGED faults
       \/ Fault /\ UNCHANGED storeVars
    /\ LeftForRetry
    /\ UNCHANGED <<objects, queue, sent>>

\* The end of the batch.  Acks that get lost (the call fails, or a lease has
\* expired) leave their messages in the queue; no acks, no call.
Ack ==
    /\ phase = "next" /\ batch = {}
    /\ \/ queue' = queue \ acks /\ UNCHANGED faults
       \/ /\ acks # {} /\ Fault
          /\ \E lost \in (SUBSET acks) \ {{}} : queue' = queue \ (acks \ lost)
    /\ phase' = "idle"
    /\ acks' = {}
    /\ UNCHANGED <<batch, msg, track, storeVars, objects, sent>>

PollerStep ==
    \/ \E m \in batch : TakeMalformed(m) \/ TakeOther(m) \/ TakeCreate(m)
    \/ CreateDiscovered
    \/ HeadObject
    \/ ConfirmReady
    \/ DropGone
    \/ FailForNow
    \/ Ack

PollerNext ==
    \/ PollEmpty
    \/ \E ms \in SUBSET queue : Pull(ms)
    \/ PollerStep

\* the process died: what pollOnce held in memory is gone
PollerCrash ==
    /\ phase' = "idle"
    /\ batch' = {}
    /\ acks' = {}
    /\ msg' = NoMsg
    /\ track' = NoSlug
=============================================================================
