-------------------------- MODULE NeverStuckProofs --------------------------
(***************************************************************************)
(* No track is stuck as long as the artist rotates no slug: IngestInv is   *)
(* preserved, beside SafetyInv, by every step but a rotation.              *)
(***************************************************************************)
EXTENDS SafetyProofs

SameRow(s) ==
    /\ Exists(s)
    /\ tracks'[s].key = tracks[s].key /\ tracks'[s].status = tracks[s].status

(***************************************************************************)
(* The message in hand.                                                    *)
(***************************************************************************)
LEMMA InHandPoller ==
    ASSUME TypeOK, InHand, PollerNext
    PROVE  InHand'
<1> USE DEF InHand, Ingesting
<1>1. CASE PollEmpty
  BY <1>1 DEF PollEmpty, pollerVars, cloudVars
<1>2. ASSUME NEW ms \in SUBSET queue, Pull(ms)
      PROVE  InHand'
  BY <1>2 DEF Pull, cloudVars
<1>3. ASSUME NEW m \in batch, TakeMalformed(m) \/ TakeOther(m)
      PROVE  InHand'
  BY <1>3 DEF TakeMalformed, TakeOther, cloudVars
<1>4. ASSUME NEW m \in batch, TakeCreate(m)
      PROVE  InHand'
  <2>1. /\ batch' = batch \ {m} /\ acks' = acks /\ queue' = queue
        /\ m.action = "create" /\ phase = "next"
    BY <1>4 DEF TakeCreate
  <2>2. \/ phase' \in {"head", "create"} /\ msg' = m
        \/ phase' = "next"
    BY <1>4, <2>1 DEF TakeCreate
  <2> QED
    BY <2>1, <2>2
<1>5. CASE CreateDiscovered
  BY <1>5 DEF CreateDiscovered, LeftForRetry
<1>6. CASE HeadObject
  BY <1>6 DEF HeadObject
<1>7. CASE ConfirmReady \/ DropGone \/ FailForNow
  BY <1>7 DEF ConfirmReady, DropGone, FailForNow, Handled, LeftForRetry
<1>8. CASE Ack
  BY <1>8 DEF Ack
<1> QED
  BY <1>1, <1>2, <1>3, <1>4, <1>5, <1>6, <1>7, <1>8 DEF PollerNext, PollerStep

LEMMA InHandQuiet ==
    ASSUME InHand, UNCHANGED pollerVars, queue \subseteq queue'
    PROVE  InHand'
BY DEF InHand, pollerVars

(***************************************************************************)
(* Steps of the poller.                                                    *)
(***************************************************************************)

\* The poller lays its message down, and no create event is acknowledged.
LEMMA StillUnfinished ==
    ASSUME Unfinished, UNCHANGED <<storeVars, objects, abandoned>>,
           \A m \in queue \ acks : m.action = "create" => m \in queue' \ acks',
           phase' \notin {"head", "markReady", "markGone"}
    PROVE  Unfinished'
<1> SUFFICES ASSUME NEW s \in Slugs, Exists(s)', ~Ready(s)',
                    tracks'[s].key \in objects' \ abandoned'
             PROVE  \E m \in queue' : WillConfirm(m, s)'
  BY DEF Unfinished
<1>1. PICK m \in queue : WillConfirm(m, s)
  BY DEF Unfinished, Exists, Ready, storeVars
<1> QED
  BY <1>1 DEF WillConfirm, storeVars

LEMMA TakeCreateIngest ==
    ASSUME TypeOK, UniqueKeys, IngestInv, NEW n \in batch, TakeCreate(n),
           UNCHANGED abandoned
    PROVE  Unfinished' /\ HandIsHonest'
<1>1. UNCHANGED <<storeVars, objects, abandoned, queue, acks>> /\ phase = "next"
  BY DEF TakeCreate
<1>2. CASE phase' \in {"create", "next"}
  BY <1>1, <1>2, StillUnfinished DEF IngestInv, HandIsHonest, Holding, Ingesting
<1>3. ASSUME NEW u \in GetByObjectKey(n.key), phase' = "head", msg' = n, track' = u
      PROVE  Unfinished' /\ HandIsHonest'
  <2>1. u \in Slugs /\ Exists(u) /\ tracks[u].key = n.key
    BY DEF GetByObjectKey
  <2>2. HandIsHonest'
    BY <1>1, <1>3, <2>1 DEF HandIsHonest, storeVars
  <2>3. ASSUME NEW s \in Slugs, Exists(s), NEW m \in queue, WillConfirm(m, s)
        PROVE  WillConfirm(m, s)'
    <3>1. m = n => s = u
      BY <2>1, <2>3 DEF UniqueKeys, WillConfirm
    <3> QED
      BY <1>1, <1>3, <2>3, <3>1 DEF WillConfirm, storeVars
  <2>4. Unfinished'
    BY <1>1, <2>3 DEF IngestInv, Unfinished, Exists, Ready, storeVars
  <2> QED
    BY <2>2, <2>4
<1> QED
  BY <1>1, <1>2, <1>3 DEF TakeCreate

LEMMA CreateDiscoveredIngest ==
    ASSUME TypeOK, RowsAreIssued, IngestInv, CreateDiscovered, UNCHANGED abandoned
    PROVE  Unfinished' /\ HandIsHonest'
<1>1. UNCHANGED <<objects, abandoned, queue, acks>> /\ phase = "create"
  BY DEF CreateDiscovered, LeftForRetry
<1>2. CASE LeftForRetry /\ UNCHANGED storeVars
  BY <1>1, <1>2, StillUnfinished DEF LeftForRetry, IngestInv, HandIsHonest, Holding, Ingesting
<1>3. ASSUME NEW u \in Slugs, Fresh(u), CreateFromDiscovery(u, msg.key),
             phase' = "head", track' = u, msg' = msg
      PROVE  Unfinished' /\ HandIsHonest'
  <2>1. msg.key \in ObjectKeys
    BY <1>1 DEF TypeOK, PollerTypeOK, Ingesting, Message
  <2>2. Inserts(u, msg.key)
    BY <1>3, <2>1, InsertEffect, ExpiryAssumption DEF CreateFromDiscovery, TypeOK
  <2>3. HandIsHonest'
    BY <1>3, <2>2 DEF HandIsHonest, Inserts
  <2>4. \E m \in queue' : WillConfirm(m, u)'
    BY <1>1, <1>3, <2>2 DEF WillConfirm, IngestInv, InHand, Inserts, Ingesting
  <2>5. ASSUME NEW s \in Slugs \ {u}, Exists(s)', ~Ready(s)',
               tracks'[s].key \in objects' \ abandoned'
        PROVE  \E m \in queue' : WillConfirm(m, s)'
    <3>1. tracks'[s] = tracks[s]
      BY <2>2 DEF Inserts, Others
    <3>2. PICK m \in queue : WillConfirm(m, s)
      BY <1>1, <2>5, <3>1 DEF IngestInv, Unfinished, Exists, Ready
    <3>3. m # msg
      BY <2>2, <2>5, <3>1, <3>2 DEF WillConfirm, Inserts, KeyFreeFor, GetByObjectKey, Exists
    <3> QED
      BY <1>1, <1>3, <3>1, <3>2, <3>3 DEF WillConfirm
  <2>6. Unfinished'
    BY <2>4, <2>5 DEF Unfinished
  <2> QED
    BY <2>3, <2>6
<1> QED
  BY <1>1, <1>2, <1>3 DEF CreateDiscovered

LEMMA HeadObjectIngest ==
    ASSUME TypeOK, IngestInv, HeadObject, UNCHANGED abandoned
    PROVE  Unfinished' /\ HandIsHonest'
<1>1. /\ UNCHANGED <<storeVars, objects, abandoned, queue, acks, msg, track>>
      /\ phase = "head" /\ Holding /\ Holding' /\ track \in Slugs
  BY DEF HeadObject, Holding, Ingesting, TypeOK, PollerTypeOK
<1>2. Exists(track) /\ tracks[track].key # msg.key => ~Ready(track)
  BY <1>1 DEF IngestInv, HandIsHonest
<1>3. CASE phase' = "markError"
  BY <1>1, <1>2, <1>3, StillUnfinished
     DEF IngestInv, HandIsHonest, storeVars, Exists, Ready
<1>4. CASE phase' = "markReady"
  <2>1. \A m \in queue, s \in Slugs : WillConfirm(m, s) => WillConfirm(m, s)'
    BY <1>1, <1>4 DEF WillConfirm, storeVars
  <2> QED
    BY <1>1, <1>2, <1>4, <2>1 DEF IngestInv, Unfinished, HandIsHonest, storeVars, Exists, Ready
<1>5. CASE phase' = "markGone"
  <2>1. msg.key \notin objects
    BY <1>5 DEF HeadObject
  <2>2. ASSUME NEW s \in Slugs, Exists(s), ~Ready(s), tracks[s].key \in objects \ abandoned
        PROVE  \E m \in queue' : WillConfirm(m, s)'
    <3>1. PICK m \in queue : WillConfirm(m, s)
      BY <2>2 DEF IngestInv, Unfinished
    <3>2. m # msg
      BY <2>1, <2>2, <3>1 DEF WillConfirm
    <3> QED
      BY <1>1, <3>1, <3>2 DEF WillConfirm, storeVars
  <2>3. Unfinished'
    BY <1>1, <2>2 DEF Unfinished, storeVars, Exists, Ready
  <2>4. Exists(track) /\ tracks[track].key \in objects \ abandoned
        => \E m \in queue' : WillConfirm(m, track)'
    BY <1>1, <1>2, <2>1, <2>2
  <2>5. HandIsHonest'
    BY <1>1, <1>2, <2>4 DEF HandIsHonest, storeVars, Exists, Ready
  <2> QED
    BY <2>3, <2>5
<1> QED
  BY <1>3, <1>4, <1>5 DEF HeadObject

\* The three ways a message leaves the poller's hands once Head has answered.
LEMMA HandledIngest ==
    ASSUME TypeOK, IngestInv, ConfirmReady \/ DropGone \/ FailForNow, UNCHANGED abandoned
    PROVE  Unfinished' /\ HandIsHonest'
<1>1. /\ UNCHANGED <<objects, abandoned, queue>> /\ phase' = "next"
      /\ track \in Slugs /\ Holding
      /\ msg \in queue \ acks /\ msg.action = "create"
  BY DEF ConfirmReady, DropGone, FailForNow, Handled, LeftForRetry, Holding, Ingesting,
         TypeOK, PollerTypeOK, IngestInv, InHand
<1>2. HandIsHonest'
  BY <1>1 DEF HandIsHonest, Holding, Ingesting
<1>3. /\ Keeps /\ Others({track})
      /\ Exists(track) /\ phase = "markReady" /\ acks' # acks
             => tracks'[track].status = "ready"
  <2>1. CASE phase = "markReady" /\ MarkReady(track)
    BY <1>1, <2>1, SetStatusEffect DEF MarkReady, Statuses, TypeOK
  <2>2. CASE phase # "markReady" /\ MarkFailed(track)
    BY <1>1, <2>2, SetStatusEffect DEF MarkFailed, Statuses, TypeOK
  <2>3. CASE UNCHANGED storeVars /\ (phase = "markReady" => UNCHANGED acks)
    BY <2>3, UnchangedEffect DEF storeVars, Others
  <2> QED
    BY <2>1, <2>2, <2>3 DEF ConfirmReady, DropGone, FailForNow, LeftForRetry
<1>4. /\ acks' \in {acks, acks \cup {msg}}
      /\ acks' # acks => phase \in {"markReady", "markGone"}
  BY DEF ConfirmReady, DropGone, FailForNow, Handled, LeftForRetry
<1>5. ASSUME NEW s \in Slugs, Exists(s)', ~Ready(s)', tracks'[s].key \in objects' \ abandoned'
      PROVE  \E m \in queue' : WillConfirm(m, s)'
  <2>1. Exists(s) /\ tracks'[s].key = tracks[s].key
    BY <1>3, <1>5 DEF Keeps, Exists
  <2>2. ASSUME NEW m \in queue, WillConfirm(m, s), m \notin acks'
        PROVE  \E n \in queue' : WillConfirm(n, s)'
    BY <1>1, <2>1, <2>2 DEF WillConfirm
  <2>3. CASE s # track
    <3>1. PICK m \in queue : WillConfirm(m, s)
      BY <1>1, <1>3, <1>5, <2>1, <2>3 DEF IngestInv, Unfinished, Others, Exists, Ready
    <3>2. m \notin acks'
      BY <1>4, <2>3, <3>1 DEF WillConfirm
    <3> QED
      BY <2>2, <3>1, <3>2
  <2>4. CASE s = track /\ acks' = acks
    <3>1. CASE tracks[s].key = msg.key
      BY <1>1, <2>1, <2>4, <3>1 DEF WillConfirm
    <3>2. CASE tracks[s].key # msg.key
      <4>1. ~Ready(s)
        BY <1>1, <2>1, <2>4, <3>2 DEF IngestInv, HandIsHonest
      <4>2. PICK m \in queue : WillConfirm(m, s)
        BY <1>1, <1>5, <2>1, <4>1 DEF IngestInv, Unfinished
      <4> QED
        BY <2>2, <2>4, <4>2 DEF WillConfirm
    <3> QED
      BY <3>1, <3>2
  <2>5. CASE s = track /\ acks' # acks
    <3>1. phase = "markGone"
      BY <1>3, <1>4, <1>5, <2>1, <2>5 DEF Ready, Exists
    <3>2. PICK m \in queue : WillConfirm(m, s)
      BY <1>1, <1>5, <2>1, <2>5, <3>1 DEF IngestInv, HandIsHonest
    <3> QED
      BY <1>4, <2>2, <3>1, <3>2 DEF WillConfirm
  <2> QED
    BY <2>3, <2>4, <2>5
<1> QED
  BY <1>2, <1>5 DEF Unfinished

LEMMA PollerIngest ==
    ASSUME SafetyInv, IngestInv, PollerNext, UNCHANGED adminVars
    PROVE  IngestInv'
<1>1. TypeOK /\ RowsAreIssued /\ UniqueKeys /\ UNCHANGED abandoned
  BY DEF SafetyInv, adminVars
<1>2. InHand'
  BY <1>1, InHandPoller DEF IngestInv
<1>3. CASE PollEmpty
  BY <1>1, <1>2, <1>3 DEF PollEmpty, IngestInv, Unfinished, HandIsHonest, WillConfirm,
     pollerVars, storeVars, cloudVars, Exists, Ready, Holding
<1>4. ASSUME \/ \E ms \in SUBSET queue : Pull(ms)
             \/ \E m \in batch : TakeMalformed(m) \/ TakeOther(m)
      PROVE  Unfinished' /\ HandIsHonest'
  <2>1. /\ UNCHANGED <<storeVars, objects, abandoned, queue>> /\ phase' = "next"
        /\ \A m \in queue \ acks : m.action = "create" => m \in queue' \ acks'
    BY <1>1, <1>4 DEF Pull, TakeMalformed, TakeOther, cloudVars
  <2> QED
    BY <2>1, StillUnfinished DEF IngestInv, HandIsHonest, Holding, Ingesting
<1>5. CASE Ack
  <2>1. /\ UNCHANGED <<storeVars, objects, abandoned>> /\ phase' = "idle"
        /\ queue \ acks \subseteq queue' \ acks'
    BY <1>1, <1>5 DEF Ack
  <2> QED
    BY <1>2, <2>1, StillUnfinished DEF IngestInv, HandIsHonest, Holding, Ingesting
<1> QED
  BY <1>1, <1>2, <1>3, <1>4, <1>5, TakeCreateIngest, CreateDiscoveredIngest,
     HeadObjectIngest, HandledIngest DEF IngestInv, PollerNext, PollerStep

(***************************************************************************)
(* Steps that leave the poller alone.                                      *)
(***************************************************************************)

\* Each row there is afterwards is one that was there with the same object, or
\* has an event to come if its object is there; and none has become ready.
LEMMA QuietIngest ==
    ASSUME IngestInv, UNCHANGED pollerVars, queue \subseteq queue',
           \A s \in Slugs : Exists(s)' =>
               /\ tracks'[s].status = "ready" =>
                     /\ Exists(s) /\ tracks[s].status = "ready"
                     /\ tracks'[s].key = tracks[s].key
               /\ tracks'[s].key \in objects' \ abandoned' =>
                     \/ SameRow(s) /\ tracks[s].key \in objects \ abandoned
                     \/ \E m \in queue' : WillConfirm(m, s)',
           track \in Slugs \/ ~Holding
    PROVE  IngestInv'
<1>1. InHand'
  BY InHandQuiet DEF IngestInv
<1>2. ASSUME NEW s \in Slugs, SameRow(s), \E m \in queue : WillConfirm(m, s)
      PROVE  \E m \in queue' : WillConfirm(m, s)'
  BY <1>2 DEF SameRow, WillConfirm, pollerVars
<1>3. Unfinished'
  <2> SUFFICES ASSUME NEW s \in Slugs, Exists(s)', ~Ready(s)',
                      tracks'[s].key \in objects' \ abandoned'
               PROVE  \E m \in queue' : WillConfirm(m, s)'
    BY DEF Unfinished
  <2>1. CASE SameRow(s) /\ tracks[s].key \in objects \ abandoned
    BY <1>2, <2>1 DEF IngestInv, Unfinished, SameRow, Ready, Exists
  <2> QED
    BY <2>1
<1>4. HandIsHonest'
  <2> SUFFICES ASSUME Holding, track \in Slugs, tracks'[track] # NoRow
               PROVE  /\ tracks'[track].key # msg.key => tracks'[track].status # "ready"
                      /\ phase = "markGone" /\ tracks'[track].key \in objects' \ abandoned'
                         => \E m \in queue' : WillConfirm(m, track)'
    BY DEF HandIsHonest, Holding, pollerVars, Exists, Ready
  <2>1. tracks'[track].key # msg.key => tracks'[track].status # "ready"
    BY DEF IngestInv, HandIsHonest, Ready, Exists
  <2>2. ASSUME phase = "markGone", tracks'[track].key \in objects' \ abandoned'
        PROVE  \E m \in queue' : WillConfirm(m, track)'
    <3>1. CASE SameRow(track) /\ tracks[track].key \in objects \ abandoned
      <4>1. \E m \in queue : WillConfirm(m, track)
        BY <2>2, <3>1 DEF IngestInv, HandIsHonest, SameRow
      <4> QED
        BY <3>1, <4>1 DEF SameRow, WillConfirm, pollerVars
    <3>2. CASE \E m \in queue' : \A s \in {track} : WillConfirm(m, s)'
      BY <3>2 DEF pollerVars
    <3> QED
      BY <2>2, <3>1, <3>2 DEF Exists
  <2> QED
    BY <2>1, <2>2
<1> QED
  BY <1>1, <1>3, <1>4 DEF IngestInv

LEMMA TrackInHand == TypeOK => track \in Slugs \/ ~Holding
BY DEF TypeOK, PollerTypeOK, Holding

\* The rows stay as they are and no object appears.
LEMMA KeepsIngest ==
    ASSUME TypeOK, IngestInv, UNCHANGED pollerVars, queue \subseteq queue', Keeps,
           \A t \in Slugs : Exists(t) => tracks'[t].status = tracks[t].status,
           objects' \subseteq objects, abandoned \subseteq abandoned'
    PROVE  IngestInv'
BY QuietIngest, TrackInHand DEF Keeps, SameRow, Exists

\* An object without a row has an event the poller has not dealt with.
LEMMA NewRowConfirmable ==
    ASSUME OpenCovers, UNCHANGED <<queue, pollerVars>>, NEW s \in Slugs,
           GetByObjectKey(tracks'[s].key) = {}, tracks'[s].key \in objects \ abandoned
    PROVE  \E m \in queue' : WillConfirm(m, s)'
<1>1. PICK m \in Open : m.action = "create" /\ m.key = tracks'[s].key
  BY DEF OpenCovers
<1> QED
  BY <1>1 DEF Open, Holding, Ingesting, WillConfirm, pollerVars

\* A row is inserted or repointed; its object, if there is one, had no row.
LEMMA NewKeyIngest ==
    ASSUME SafetyInv, IngestInv, UNCHANGED <<queue, pollerVars, objects>>,
           abandoned \subseteq abandoned',
           NEW s \in Slugs, NEW k \in ObjectKeys, Inserts(s, k) \/ Repoints(s, k),
           k \in objects \ abandoned' => ~Exists(s) \/ tracks[s].key # k
    PROVE  IngestInv'
<1>1. /\ tracks'[s].key = k /\ tracks'[s].status = "pending"
      /\ KeyFreeFor(s, k) /\ Others({s})
  BY DEF Inserts, Repoints
<1>2. ASSUME k \in objects \ abandoned'
      PROVE  \E m \in queue' : WillConfirm(m, s)'
  <2>1. GetByObjectKey(k) = {}
    BY <1>1, <1>2 DEF KeyFreeFor, GetByObjectKey
  <2> QED
    BY <1>1, <1>2, <2>1, NewRowConfirmable DEF SafetyInv
<1>3. ASSUME NEW t \in Slugs, Exists(t)'
      PROVE  /\ tracks'[t].status = "ready" =>
                   /\ Exists(t) /\ tracks[t].status = "ready"
                   /\ tracks'[t].key = tracks[t].key
             /\ tracks'[t].key \in objects' \ abandoned' =>
                   \/ SameRow(t) /\ tracks[t].key \in objects \ abandoned
                   \/ \E m \in queue' : WillConfirm(m, t)'
  <2>1. CASE t = s
    BY <1>1, <1>2, <2>1
  <2>2. CASE t # s
    BY <1>1, <1>3, <2>2 DEF Others, SameRow, Exists
  <2> QED
    BY <2>1, <2>2
<1> QED
  BY <1>3, QuietIngest, TrackInHand DEF SafetyInv

LEMMA AdminIngest ==
    ASSUME "rotate" \notin Ops, SafetyInv, IngestInv, AdminNext, UNCHANGED pollerVars
    PROVE  IngestInv'
<1> USE DEF SafetyInv, TypeOK
<1>1. UNCHANGED queue
  BY DEF AdminNext, Upload, Edit, Rotate, StartReplace, StartDelete, Start, DeleteObject,
         FinishReplace, FinishDelete, cloudVars
<1>2. ASSUME NEW s \in Slugs, NEW e \in Exts, NEW x \in Offered, Upload(s, e, x)
      PROVE  IngestInv'
  <2>1. Inserts(s, <<s, e>>) /\ <<s, e>> \in ObjectKeys
    BY <1>2, UploadEffect
  <2>2. ~Exists(s)
    BY <2>1 DEF Inserts, RowsAreIssued
  <2> QED
    BY <1>1, <1>2, <2>1, <2>2, NewKeyIngest DEF Upload, cloudVars
<1>3. ASSUME NEW s \in Slugs, NEW x \in Offered, Edit(s, x)
      PROVE  IngestInv'
  BY <1>1, <1>3, EditEffect, KeepsIngest DEF Edit, adminVars, cloudVars
<1>4. ASSUME NEW s \in Slugs, NEW t \in Slugs, Rotate(s, t)
      PROVE  IngestInv'
  BY <1>4 DEF Rotate, CanServe
<1>5. ASSUME NEW r \in Reqs,
             \/ \E s \in Slugs, e \in Exts : StartReplace(r, s, e)
             \/ \E s \in Slugs : StartDelete(r, s)
      PROVE  IngestInv'
  <2>1. UNCHANGED <<storeVars, objects, abandoned>>
    BY <1>5 DEF StartReplace, StartDelete, Start, cloudVars
  <2> QED
    BY <1>1, <2>1, UnchangedEffect, KeepsIngest DEF storeVars
<1>6. ASSUME NEW r \in Reqs, DeleteObject(r)
      PROVE  IngestInv'
  <2>1. UNCHANGED storeVars /\ objects' \subseteq objects /\ abandoned \subseteq abandoned'
    BY <1>6, DeleteObjectHalfDone DEF DeleteObject
  <2> QED
    BY <1>1, <2>1, UnchangedEffect, KeepsIngest DEF storeVars
<1>7. ASSUME NEW r \in Reqs, FinishReplace(r)
      PROVE  IngestInv'
  <2> DEFINE q == req[r]
  <2>1. q.slug \in Slugs /\ q.newKey \in ObjectKeys /\ objects' = objects
    BY <1>7, FinishReplaceEffect
  <2>2. CASE UNCHANGED <<storeVars, abandoned>>
    BY <1>1, <2>1, <2>2, UnchangedEffect, KeepsIngest DEF storeVars
  <2>3. CASE Repoints(q.slug, q.newKey) /\ Confuse(q)
    <3>1. q.key \notin objects \ abandoned
      BY <1>7 DEF FinishReplace, AtWrite, HalfDoneIsGone, HalfDone
    <3>2. q.newKey \in objects \ abandoned' => tracks[q.slug].key # q.newKey
      BY <2>3, <3>1 DEF Confuse, Overtaken
    <3> QED
      BY <1>1, <2>1, <2>3, <3>2, NewKeyIngest DEF Confuse
  <2> QED
    BY <1>7, <2>2, <2>3, FinishReplaceEffect
<1>8. ASSUME NEW r \in Reqs, FinishDelete(r)
      PROVE  IngestInv'
  <2> DEFINE q == req[r]
  <2>1. q.slug \in Slugs /\ objects' = objects
    BY <1>8, FinishDeleteEffect
  <2>2. CASE UNCHANGED <<storeVars, abandoned>>
    BY <1>1, <2>1, <2>2, UnchangedEffect, KeepsIngest DEF storeVars
  <2>3. CASE Removes(q.slug) /\ Confuse(q)
    <3>1. \A t \in Slugs : Exists(t)' => tracks'[t] = tracks[t] /\ Exists(t)
      BY <2>3 DEF Removes, Others, Exists
    <3> QED
      BY <1>1, <2>1, <2>3, <3>1, QuietIngest, TrackInHand DEF SameRow, Confuse
  <2> QED
    BY <1>8, <2>2, <2>3, FinishDeleteEffect
<1> QED
  BY <1>2, <1>3, <1>4, <1>5, <1>6, <1>7, <1>8 DEF AdminNext

LEMMA WorldIngest ==
    ASSUME SafetyInv, IngestInv, World
    PROVE  IngestInv'
<1> USE DEF SafetyInv
<1>1. Keeps /\ \A t \in Slugs : Exists(t) => tracks'[t].status = tracks[t].status
  BY WorldTable DEF TypeOK
<1>2. ASSUME NEW k \in ObjectKeys, BrowserPut(k) \/ Drop(k)
      PROVE  IngestInv'
  <2> DEFINE m == [id |-> sent, action |-> "create", key |-> k]
  <2>1. /\ queue' = queue \cup {m} /\ UNCHANGED pollerVars
        /\ objects' = objects \cup {k} /\ abandoned \subseteq abandoned'
    BY <1>2 DEF BrowserPut, Drop, PutObject, Send, Rewritten
  <2>2. m \notin acks /\ (phase \in Ingesting => m # msg)
    BY DEF IdsAreOld, TypeOK, CloudTypeOK
  <2>3. ASSUME NEW s \in Slugs, tracks'[s].key = k
        PROVE  \E n \in queue' : WillConfirm(n, s)'
    <3>1. m.action = "create" /\ m.key = k
      OBVIOUS
    <3> HIDE DEF m
    <3> QED
      BY <2>1, <2>2, <2>3, <3>1 DEF WillConfirm, pollerVars, Ingesting
  <2>4. ASSUME NEW s \in Slugs, Exists(s)', tracks'[s].key \in objects' \ abandoned'
        PROVE  \/ SameRow(s) /\ tracks[s].key \in objects \ abandoned
               \/ \E n \in queue' : WillConfirm(n, s)'
    BY <1>1, <2>1, <2>3, <2>4 DEF Keeps, SameRow, Exists
  <2>5. \A s \in Slugs : Exists(s)' /\ tracks'[s].status = "ready" =>
           /\ Exists(s) /\ tracks[s].status = "ready"
           /\ tracks'[s].key = tracks[s].key
    BY <1>1 DEF Keeps, Exists
  <2> QED
    BY <2>1, <2>4, <2>5, QuietIngest, TrackInHand
<1>3. ASSUME NEW a \in Actions, NEW k \in DropNames, Stray(a, k)
      PROVE  IngestInv'
  BY <1>1, <1>3, KeepsIngest DEF Stray, Send, adminVars
<1>4. ASSUME NEW s \in Slugs, NEW x \in Past, Lapse(s, x)
      PROVE  IngestInv'
  BY <1>1, <1>4, KeepsIngest DEF Lapse, cloudVars, adminVars
<1>5. CASE Crash
  <2>1. /\ UNCHANGED <<storeVars, objects, queue>> /\ abandoned \subseteq abandoned'
        /\ phase' = "idle" /\ batch' = {} /\ acks' = {}
    BY <1>5 DEF Crash, PollerCrash, AdminCrash, cloudVars
  <2>2. InHand' /\ HandIsHonest'
    BY <2>1 DEF InHand, HandIsHonest, Holding, Ingesting
  <2>3. \A m \in queue, s \in Slugs : WillConfirm(m, s) => WillConfirm(m, s)'
    BY <2>1 DEF WillConfirm, storeVars
  <2>4. Unfinished'
    BY <2>1, <2>3 DEF IngestInv, Unfinished, storeVars, Exists, Ready
  <2> QED
    BY <2>2, <2>4 DEF IngestInv
<1> QED
  BY <1>2, <1>3, <1>4, <1>5 DEF World

(***************************************************************************)
(* The theorems.                                                           *)
(***************************************************************************)
LEMMA IngestInit == Init => IngestInv
BY DEF Init, StoreInit, CloudInit, PollerInit, IngestInv, InHand, Unfinished, HandIsHonest,
   Holding, Ingesting, Exists

LEMMA IngestStep ==
    ASSUME "rotate" \notin Ops
    PROVE  SafetyInv /\ IngestInv /\ [Next]_vars => IngestInv'
<1> SUFFICES ASSUME SafetyInv, IngestInv, [Next]_vars
             PROVE  IngestInv'
  OBVIOUS
<1>1. CASE PollerNext /\ UNCHANGED adminVars
  BY <1>1, PollerIngest
<1>2. CASE AdminNext /\ UNCHANGED pollerVars
  BY <1>2, AdminIngest
<1>3. CASE ListenerNext /\ UNCHANGED <<cloudVars, pollerVars, adminVars, crashes>>
  BY <1>3, ListenerTable, KeepsIngest DEF SafetyInv, TypeOK, cloudVars, adminVars
<1>4. CASE World
  BY <1>4, WorldIngest
<1>5. CASE UNCHANGED vars
  BY <1>5, UnchangedEffect, KeepsIngest
     DEF SafetyInv, vars, storeVars, cloudVars, adminVars
<1> QED
  BY <1>1, <1>2, <1>3, <1>4, <1>5 DEF Next

\* Without rotations IngestInv holds in every reachable state of the service.
THEOREM IngestInvariant ==
    ASSUME "rotate" \notin Ops
    PROVE  Spec => []IngestInv
<1>1. SafetyInv /\ IngestInv /\ [Next]_vars => IngestInv'
  BY IngestStep
<1> QED
  BY <1>1, IngestInit, SafetyInit, SafetyStep, PTL DEF Spec

\* As long as no slug is rotated, a track whose file has arrived is ready or has
\* an event left in the queue that will make it so: no failed call, lost ack,
\* late or repeated event, replacement, delete or restart leaves it stuck.  The
\* run rotated shows that the condition is needed.
THEOREM NobodyIsStuck ==
    ASSUME "rotate" \notin Ops
    PROVE  Spec => []NeverStuck
<1>1. IngestInv => NeverStuck
  BY DEF IngestInv, Unfinished, WillConfirm, NeverStuck, Announced
<1> QED
  BY <1>1, IngestInvariant, PTL
=============================================================================
