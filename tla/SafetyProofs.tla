---------------------------- MODULE SafetyProofs ----------------------------
(***************************************************************************)
(* SafetyInv is an inductive invariant of Transients; ReadyPlayable and    *)
(* NoOrphans follow.                                                       *)
(***************************************************************************)
EXTENDS TransientsProofs

(***************************************************************************)
(* The keys a ready track may have, and how they change.  A key is excused *)
(* when its object exists or an exception of ReadyPlayable holds.          *)
(***************************************************************************)
Excused == objects \cup damaged \cup promised \cup HalfDone

LEMMA StartKeepsHalfDone ==
    ASSUME NEW r \in Reqs, NEW op, NEW s \in Slugs, NEW k, Start(r, op, s, k),
           req \in [Reqs -> Request \cup {NoReq}]
    PROVE  HalfDone' = HalfDone
<1>1. \A x \in Reqs : x # r => req'[x] = req[x]
  BY DEF Start
<1>2. req[r] = NoReq /\ req'[r].at = "deleteObject"
  BY DEF Start
<1> QED
  BY <1>1, <1>2 DEF HalfDone

LEMMA AnsweredHalfDone ==
    ASSUME NEW r \in Reqs, Answered(r), req \in [Reqs -> Request \cup {NoReq}]
    PROVE  HalfDone \subseteq HalfDone' \cup {req[r].key} /\ HalfDone' \subseteq HalfDone
<1>1. \A x \in Reqs : x # r => req'[x] = req[x]
  BY DEF Answered
<1>2. req'[r] = NoReq
  BY DEF Answered
<1> QED
  BY <1>1, <1>2 DEF HalfDone

LEMMA DeleteObjectHalfDone ==
    ASSUME AdminTypeOK, NEW r \in Reqs, DeleteObject(r)
    PROVE  /\ objects \cup damaged \cup HalfDone \subseteq objects' \cup damaged' \cup HalfDone'
           /\ objects' \subseteq objects /\ damaged \subseteq damaged'
           /\ HalfDone' \cap objects' \subseteq (HalfDone \cap objects)
<1> DEFINE q == req[r]
<1>1. q \in Request /\ q.at = "deleteObject"
  BY DEF DeleteObject, AdminTypeOK
<1>2. CASE req' = [req EXCEPT ![r].at = "writeRow"] /\ objects' = objects \ {q.key} /\ damaged' = damaged
  <2>1. req'[r] # NoReq /\ req'[r].at = "writeRow" /\ req'[r].key = q.key
    <3>1. [q EXCEPT !.at = "writeRow"] \in Request
      BY <1>1 DEF Request
    <3>2. /\ [q EXCEPT !.at = "writeRow"].at = "writeRow"
          /\ [q EXCEPT !.at = "writeRow"].key = q.key
      BY <1>1 DEF Request
    <3>3. req'[r] = [q EXCEPT !.at = "writeRow"]
      BY <1>2 DEF AdminTypeOK
    <3> QED
      BY <3>1, <3>2, <3>3, AdminAssumption
  <2>2. \A x \in Reqs : x # r => req'[x] = req[x]
    BY <1>2 DEF AdminTypeOK
  <2>3. HalfDone' = HalfDone \cup {q.key}
    BY <1>1, <2>1, <2>2 DEF HalfDone
  <2> QED
    BY <1>2, <2>3
<1>3. CASE /\ objects' \in {objects, objects \ {q.key}}
           /\ Answered(r)
           /\ damaged' = damaged \cup {q.key}
  BY <1>3, AnsweredHalfDone DEF AdminTypeOK
<1> QED
  BY <1>2, <1>3 DEF DeleteObject

LEMMA CrashHalfDone ==
    ASSUME AdminTypeOK, AdminCrash
    PROVE  HalfDone' = {}
<1>1. \A r \in Reqs : req'[r] = NoReq
  BY DEF AdminCrash
<1> QED
  BY <1>1 DEF HalfDone

\* A request that writes its row in time takes its key away from the row, and
\* no other row holds that key.
LEMMA ReleasedKey ==
    ASSUME StoreTypeOK, TableInv, NEW q \in Request, NEW t \in Slugs,
           Exists(q.slug), Exists(t), t # q.slug, tracks[t].key = q.key, Confuse(q)
    PROVE  q.key \in damaged'
<1>1. q.slug \in Slugs
  BY DEF Request
<1>2. tracks[q.slug].key # q.key
  BY <1>1 DEF TableInv, UniqueKeys
<1> QED
  BY <1>2 DEF Confuse, Overtaken

\* A step keeps the excuse of every key that has a row after it.
LEMMA ExcuseKept ==
    ASSUME TypeOK, TableInv, [Next]_vars,
           NEW t \in Slugs, tracks'[t] # NoRow, tracks'[t].key \in Excused
    PROVE  tracks'[t].key \in Excused'
<1> USE DEF TypeOK
<1>1. CASE UNCHANGED <<objects, damaged, promised, req>>
  BY <1>1 DEF Excused, HalfDone
<1>2. ASSUME NEW r \in Reqs, FinishReplace(r)
      PROVE  tracks'[t].key \in Excused'
  <2>1. Excused \subseteq Excused' \cup {req[r].key}
    BY <1>2, FinishReplaceEffect, AnsweredHalfDone DEF Excused, AdminTypeOK, Confuse
  <2>2. CASE req[r].key \in damaged'
    BY <2>1, <2>2 DEF Excused
  <2>3. CASE /\ Repoints(req[r].slug, req[r].newKey)
             /\ promised' = promised \cup {req[r].newKey}
             /\ Confuse(req[r])
    <3>1. CASE t = req[r].slug
      BY <2>3, <3>1 DEF Repoints, Excused
    <3>2. CASE t # req[r].slug
      <4>1. tracks'[t] = tracks[t] /\ Exists(t) /\ Exists(req[r].slug)
        BY <2>3, <3>2 DEF Repoints, Others, Exists
      <4>2. tracks[t].key = req[r].key => req[r].key \in damaged'
        BY <1>2, <2>3, <3>2, <4>1, FinishReplaceEffect, ReleasedKey
      <4> QED
        BY <2>1, <4>1, <4>2 DEF Excused
    <3> QED
      BY <3>1, <3>2
  <2> QED
    BY <1>2, <2>2, <2>3, FinishReplaceEffect
<1>3. ASSUME NEW r \in Reqs, FinishDelete(r)
      PROVE  tracks'[t].key \in Excused'
  <2>1. Excused \subseteq Excused' \cup {req[r].key}
    BY <1>3, FinishDeleteEffect, AnsweredHalfDone DEF Excused, AdminTypeOK, Confuse
  <2>2. CASE req[r].key \in damaged'
    BY <2>1, <2>2 DEF Excused
  <2>3. CASE /\ Exists(req[r].slug) /\ Removes(req[r].slug)
             /\ Confuse(req[r])
    <3>1. t # req[r].slug
      BY <2>3 DEF Removes
    <3>2. tracks'[t] = tracks[t] /\ Exists(t)
      BY <2>3, <3>1 DEF Removes, Others, Exists
    <3>3. tracks[t].key = req[r].key => req[r].key \in damaged'
      BY <1>3, <2>3, <3>1, <3>2, FinishDeleteEffect, ReleasedKey
    <3> QED
      BY <2>1, <3>2, <3>3 DEF Excused
  <2> QED
    BY <1>3, <2>2, <2>3, FinishDeleteEffect
<1>4. ASSUME NEW r \in Reqs, NEW s \in Slugs, NEW k, NEW op, Start(r, op, s, k)
      PROVE  tracks'[t].key \in Excused'
  BY <1>4, StartKeepsHalfDone DEF Start, cloudVars, Excused, AdminTypeOK
<1>5. ASSUME NEW r \in Reqs, DeleteObject(r)
      PROVE  tracks'[t].key \in Excused'
  <2>1. promised' = promised
    BY <1>5 DEF DeleteObject
  <2> QED
    BY <1>5, <2>1, DeleteObjectHalfDone DEF Excused
<1>6. ASSUME NEW k \in ObjectKeys, BrowserPut(k) \/ Drop(k)
      PROVE  tracks'[t].key \in Excused'
  <2>1. /\ objects \subseteq objects' /\ damaged \subseteq damaged'
        /\ promised' = promised /\ req' = req
    BY <1>6 DEF BrowserPut, Drop, PutObject, Rewritten
  <2> QED
    BY <2>1 DEF Excused, HalfDone
<1>7. CASE Crash
  BY <1>7 DEF Crash, AdminCrash, cloudVars, Excused
<1>8. CASE PollerNext /\ UNCHANGED adminVars
  BY <1>1, <1>8 DEF PollerNext, PollerStep, PollEmpty, Pull, TakeMalformed, TakeOther,
     TakeCreate, CreateDiscovered, HeadObject, ConfirmReady, DropGone, FailForNow, Ack,
     cloudVars, adminVars
<1>9. ASSUME NEW s \in Slugs,
             \/ \E e \in Exts, x \in Offered : Upload(s, e, x)
             \/ \E x \in Offered : Edit(s, x)
             \/ \E u \in Slugs : Rotate(s, u)
      PROVE  tracks'[t].key \in Excused'
  BY <1>1, <1>9 DEF Upload, Edit, Rotate, adminVars, cloudVars
<1>10. CASE AdminNext
  BY <1>2, <1>3, <1>4, <1>5, <1>9, <1>10 DEF AdminNext, StartReplace, StartDelete
<1>11. CASE World
  BY <1>1, <1>6, <1>7, <1>11 DEF World, Stray, Lapse, Send, adminVars, cloudVars
<1> QED
  BY <1>1, <1>8, <1>10, <1>11 DEF Next, vars, cloudVars, adminVars

(***************************************************************************)
(* A ready row's key is excused: the only step that makes a row ready is   *)
(* ConfirmReady, after a Head call that saw the object.                    *)
(***************************************************************************)
LEMMA ReadyStep ==
    ASSUME TypeOK, TableInv, PollerIsCurrent, ReadyPlayable, [Next]_vars,
           NEW t \in Slugs, tracks'[t] # NoRow, tracks'[t].status = "ready"
    PROVE  tracks'[t].key \in Excused
<1> USE DEF TypeOK
<1>1. ASSUME NEW u \in Slugs, Exists(u), tracks[u].status = "ready"
      PROVE  tracks[u].key \in Excused
  BY <1>1 DEF ReadyPlayable, Ready, Excused
<1>2. CASE Keeps /\ \A u \in Slugs : Exists(u) => tracks'[u].status = tracks[u].status
  BY <1>1, <1>2 DEF Keeps, Exists
<1>3. ASSUME NEW u \in Slugs, NEW k \in ObjectKeys, Inserts(u, k) \/ Repoints(u, k)
      PROVE  tracks'[t].key \in Excused
  BY <1>1, <1>3 DEF Inserts, Repoints, Others, Exists
<1>4. ASSUME NEW u \in Slugs, NEW v \in Slugs, Moves(u, v)
      PROVE  tracks'[t].key \in Excused
  BY <1>1, <1>4 DEF Moves, Others, Exists
<1>5. ASSUME NEW u \in Slugs, Removes(u)
      PROVE  tracks'[t].key \in Excused
  BY <1>1, <1>5 DEF Removes, Others, Exists
<1>6. CASE UNCHANGED storeVars
  BY <1>2, <1>6, UnchangedEffect DEF storeVars
<1>7. CASE PollerNext
  <2>1. CASE MarkReady(track) /\ phase = "markReady"
    <3>1. track \in Slugs
      BY <2>1 DEF PollerTypeOK, Ingesting
    <3>2. Keeps /\ Others({track})
      BY <2>1, <3>1, SetStatusEffect DEF MarkReady, Statuses
    <3>3. Exists(track) => tracks[track].key \in Excused
      BY <2>1 DEF PollerIsCurrent, Holding, Ingesting, Excused
    <3> QED
      BY <1>1, <3>2, <3>3 DEF Keeps, Others, Exists
  <2>2. CASE MarkFailed(track) /\ phase \in {"markGone", "markError"}
    <3>1. track \in Slugs
      BY <2>2 DEF PollerTypeOK, Ingesting
    <3>2. Keeps /\ Others({track}) /\ (Exists(track) => tracks'[track].status = "failed")
      BY <2>2, <3>1, SetStatusEffect DEF MarkFailed, Statuses
    <3>3. t # track
      BY <3>2 DEF Keeps, Exists
    <3> QED
      BY <1>1, <3>2, <3>3 DEF Others, Exists
  <2>3. CASE CreateDiscovered
    <3>1. msg.key \in ObjectKeys
      BY <2>3 DEF CreateDiscovered, PollerTypeOK, Ingesting, Message
    <3>2. CASE UNCHANGED storeVars
      BY <1>6, <3>2
    <3>3. ASSUME NEW u \in Slugs, Fresh(u), CreateFromDiscovery(u, msg.key)
          PROVE  tracks'[t].key \in Excused
      BY <1>3, <3>1, <3>3, InsertEffect, ExpiryAssumption DEF CreateFromDiscovery
    <3> QED
      BY <2>3, <3>2, <3>3 DEF CreateDiscovered
  <2> QED
    BY <1>6, <1>7, <2>1, <2>2, <2>3 DEF PollerNext, PollerStep, PollEmpty, Pull,
       TakeMalformed, TakeOther, TakeCreate, HeadObject, ConfirmReady, DropGone,
       FailForNow, Ack
<1>8. CASE AdminNext
  <2>1. ASSUME NEW r \in Reqs, FinishReplace(r) \/ FinishDelete(r)
        PROVE  tracks'[t].key \in Excused
    BY <1>3, <1>5, <1>6, <2>1, FinishReplaceEffect, FinishDeleteEffect
  <2>2. ASSUME NEW u \in Slugs, NEW v \in Slugs, Rotate(u, v)
        PROVE  tracks'[t].key \in Excused
    BY <1>4, <2>2, RotateSlugEffect DEF Rotate, TableInv
  <2> QED
    BY <1>2, <1>3, <1>6, <1>8, <2>1, <2>2, UploadEffect, EditEffect
       DEF AdminNext, StartReplace, StartDelete, Start, DeleteObject
<1>9. CASE ListenerNext
  BY <1>2, <1>9, ListenerTable
<1>10. CASE World
  BY <1>2, <1>10, WorldTable
<1>11. CASE UNCHANGED vars
  BY <1>6, <1>11 DEF vars
<1> QED
  BY <1>7, <1>8, <1>9, <1>10, <1>11 DEF Next

LEMMA ReadyPlayableStep ==
    ASSUME TypeOK, TableInv, PollerIsCurrent, ReadyPlayable, [Next]_vars
    PROVE  ReadyPlayable'
<1> SUFFICES ASSUME NEW t \in Slugs, tracks'[t] # NoRow, tracks'[t].status = "ready"
             PROVE  tracks'[t].key \in Excused'
  BY DEF ReadyPlayable, Ready, Exists, Excused
<1> QED
  BY ReadyStep, ExcuseKept

(***************************************************************************)
(* The poller's view of its track.                                         *)
(***************************************************************************)

\* A row changes its key only for one a replacement has promised.
LEMMA KeyOrPromise ==
    ASSUME TypeOK, TableInv, [Next]_vars
    PROVE  /\ used \subseteq used' /\ promised \subseteq promised'
           /\ \A t \in Slugs : Exists(t) /\ tracks'[t] # NoRow
                 => tracks'[t].key \in {tracks[t].key} \cup promised'
<1> USE DEF TypeOK
<1>1. used \subseteq used'
  BY NextTable DEF TableInv, TableStep, Keeps, Inserts, Repoints, Moves, Removes
<1>3. CASE Keeps /\ promised' = promised
  BY <1>1, <1>3 DEF Keeps
<1>4. CASE PollerNext /\ UNCHANGED adminVars
  BY <1>1, <1>4, PollerTable
     DEF TableInv, RowsAreIssued, Keeps, Inserts, Others, adminVars, Exists
<1>5. ASSUME NEW r \in Reqs, FinishReplace(r) \/ FinishDelete(r)
      PROVE  /\ promised \subseteq promised'
             /\ \A t \in Slugs : Exists(t) /\ tracks'[t] # NoRow
                   => tracks'[t].key \in {tracks[t].key} \cup promised'
  <2>1. CASE UNCHANGED storeVars
    BY <1>5, <2>1, FinishReplaceEffect, FinishDeleteEffect DEF storeVars
  <2>2. CASE Repoints(req[r].slug, req[r].newKey) /\ promised' = promised \cup {req[r].newKey}
    BY <2>2 DEF Repoints, Others
  <2>3. CASE Removes(req[r].slug) /\ promised' = promised
    BY <2>3 DEF Removes, Others
  <2> QED
    BY <1>5, <2>1, <2>2, <2>3, FinishReplaceEffect, FinishDeleteEffect
<1>6. ASSUME NEW s \in Slugs, NEW k \in ObjectKeys, Inserts(s, k), promised' = promised
      PROVE  \A t \in Slugs : Exists(t) /\ tracks'[t] # NoRow
                   => tracks'[t].key \in {tracks[t].key} \cup promised'
  BY <1>6 DEF TableInv, RowsAreIssued, Inserts, Others, Exists
<1>7. ASSUME NEW s \in Slugs, NEW u \in Slugs, Rotate(s, u)
      PROVE  /\ promised' = promised
             /\ \A t \in Slugs : Exists(t) /\ tracks'[t] # NoRow
                   => tracks'[t].key \in {tracks[t].key} \cup promised'
  <2>1. Moves(s, u) /\ promised' = promised
    BY <1>7, RotateSlugEffect DEF Rotate, TableInv, adminVars
  <2> QED
    BY <2>1 DEF TableInv, RowsAreIssued, Moves, Others, Exists
<1>8. ASSUME NEW s \in Slugs, NEW e \in Exts, NEW x \in Offered, Upload(s, e, x)
      PROVE  /\ promised' = promised
             /\ \A t \in Slugs : Exists(t) /\ tracks'[t] # NoRow
                   => tracks'[t].key \in {tracks[t].key} \cup promised'
  BY <1>6, <1>8, UploadEffect DEF Upload
<1>9. ASSUME NEW s \in Slugs, NEW x \in Offered, Edit(s, x)
      PROVE  Keeps /\ promised' = promised
  BY <1>9, EditEffect DEF Edit, adminVars
<1>10. ASSUME NEW r \in Reqs,
              \/ \E s \in Slugs, e \in Exts : StartReplace(r, s, e)
              \/ \E s \in Slugs : StartDelete(r, s)
              \/ DeleteObject(r)
       PROVE  Keeps /\ promised' = promised
  BY <1>10, UnchangedEffect DEF StartReplace, StartDelete, Start, DeleteObject
<1>11. CASE AdminNext
  BY <1>1, <1>3, <1>5, <1>7, <1>8, <1>9, <1>10, <1>11 DEF AdminNext
<1>12. CASE ListenerNext /\ UNCHANGED adminVars
  BY <1>3, <1>12, ListenerTable DEF adminVars
<1>13. CASE World
  <2>1. promised' = promised
    BY <1>13 DEF World, BrowserPut, Drop, Rewritten, Stray, Lapse, Crash, AdminCrash, adminVars
  <2> QED
    BY <1>3, <1>13, <2>1, WorldTable
<1>14. CASE UNCHANGED vars
  BY <1>3, <1>14, UnchangedEffect DEF vars, adminVars
<1> QED
  BY <1>4, <1>11, <1>12, <1>13, <1>14 DEF Next

LEMMA PollerIsCurrentStep ==
    ASSUME TypeOK, TableInv, PollerIsCurrent, [Next]_vars
    PROVE  PollerIsCurrent'
<1> USE DEF TypeOK
<1>1. ASSUME UNCHANGED pollerVars
      PROVE  PollerIsCurrent'
  <2> SUFFICES ASSUME Holding
               PROVE  /\ track \in used'
                      /\ tracks'[track] # NoRow =>
                            /\ tracks'[track].key \in {msg.key} \cup promised'
                            /\ phase = "markReady" => tracks'[track].key \in Excused'
    BY <1>1 DEF pollerVars, PollerIsCurrent, Holding, Exists, Excused
  <2>1. /\ track \in used /\ track \in Slugs
        /\ Exists(track) => tracks[track].key \in {msg.key} \cup promised
        /\ Exists(track) /\ phase = "markReady" => tracks[track].key \in Excused
    BY DEF PollerIsCurrent, Excused, StoreTypeOK
  <2>2. tracks'[track] # NoRow => Exists(track)
    BY <2>1, NextTable, DeadStep DEF TableInv, Exists
  <2>3. tracks'[track] # NoRow => tracks'[track].key \in {tracks[track].key} \cup promised'
    BY <2>1, <2>2, KeyOrPromise
  <2>4. tracks'[track] # NoRow /\ phase = "markReady" => tracks'[track].key \in Excused'
    <3>1. CASE tracks'[track].key = tracks[track].key
      BY <2>1, <2>2, <3>1, ExcuseKept
    <3>2. CASE tracks'[track].key \in promised'
      BY <3>2 DEF Excused
    <3> QED
      BY <2>3, <3>1, <3>2
  <2> QED
    BY <2>1, <2>2, <2>3, <2>4, KeyOrPromise
<1>2. CASE ~Holding'
  BY <1>2 DEF PollerIsCurrent
<1>3. ASSUME NEW m \in batch, TakeCreate(m), Holding'
      PROVE  PollerIsCurrent'
  <2>1. PICK s \in GetByObjectKey(m.key) : phase' = "head" /\ msg' = m /\ track' = s
    BY <1>3 DEF TakeCreate, Holding, Ingesting
  <2>2. UNCHANGED storeVars
    BY <1>3 DEF TakeCreate
  <2> QED
    BY <2>1, <2>2 DEF PollerIsCurrent, GetByObjectKey, storeVars, TableInv, RowsAreIssued,
                      Exists
<1>4. ASSUME CreateDiscovered, Holding'
      PROVE  PollerIsCurrent'
  <2>1. phase' = "head" /\ msg' = msg
    BY <1>4 DEF CreateDiscovered, LeftForRetry, Holding, Ingesting
  <2>2. PICK s \in Slugs : Fresh(s) /\ CreateFromDiscovery(s, msg.key) /\ track' = s
    BY <1>4 DEF CreateDiscovered, LeftForRetry, Holding, Ingesting
  <2>3. msg.key \in ObjectKeys
    BY <1>4 DEF CreateDiscovered, PollerTypeOK, Ingesting, Message
  <2>4. Inserts(track', msg.key)
    BY <2>2, <2>3, InsertEffect, ExpiryAssumption DEF CreateFromDiscovery
  <2> QED
    BY <2>1, <2>4 DEF PollerIsCurrent, Inserts
<1>5. ASSUME HeadObject, UNCHANGED adminVars
      PROVE  PollerIsCurrent'
  <2>1. /\ UNCHANGED <<track, msg, storeVars, objects>> /\ Holding
        /\ phase' = "markReady" => msg.key \in objects
    BY <1>5 DEF HeadObject, Holding, Ingesting
  <2> QED
    BY <1>5, <2>1 DEF PollerIsCurrent, storeVars, adminVars, HalfDone, Exists
<1>6. CASE PollerNext /\ UNCHANGED adminVars
  <2>1. CASE PollEmpty
    BY <1>1, <2>1 DEF PollEmpty
  <2> QED
    BY <1>2, <1>3, <1>4, <1>5, <1>6, <2>1 DEF PollerNext, PollerStep, Pull, TakeMalformed,
       TakeOther, ConfirmReady, DropGone, FailForNow, Ack, Handled, LeftForRetry,
       Holding, Ingesting
<1>7. CASE World
  <2>1. CASE Crash
    BY <1>2, <2>1 DEF Crash, PollerCrash, Holding, Ingesting
  <2> QED
    BY <1>1, <1>7, <2>1 DEF World, BrowserPut, Drop, Stray, Lapse
<1> QED
  BY <1>1, <1>6, <1>7 DEF Next, vars, adminVars

(***************************************************************************)
(* Between the two steps of a request.                                     *)
(***************************************************************************)
LEMMA HalfDoneIsGoneStep ==
    ASSUME TypeOK, HalfDoneIsGone, [Next]_vars
    PROVE  HalfDoneIsGone'
<1> USE DEF TypeOK
<1>1. CASE UNCHANGED <<req, objects, abandoned>>
  BY <1>1 DEF HalfDoneIsGone, HalfDone
<1>2. CASE HalfDone' \cap objects' \subseteq HalfDone \cap objects /\ abandoned \subseteq abandoned'
  BY <1>2 DEF HalfDoneIsGone
<1>3. ASSUME NEW r \in Reqs, FinishReplace(r) \/ FinishDelete(r)
      PROVE  HalfDoneIsGone'
  BY <1>2, <1>3, FinishReplaceEffect, FinishDeleteEffect, AnsweredHalfDone
     DEF AdminTypeOK, Confuse
<1>4. ASSUME NEW r \in Reqs, DeleteObject(r)
      PROVE  HalfDoneIsGone'
  BY <1>2, <1>4, DeleteObjectHalfDone DEF DeleteObject
<1>5. ASSUME NEW r \in Reqs, NEW s \in Slugs, NEW k, NEW op, Start(r, op, s, k)
      PROVE  HalfDoneIsGone'
  BY <1>2, <1>5, StartKeepsHalfDone DEF Start, cloudVars, AdminTypeOK
<1>6. CASE AdminNext
  BY <1>1, <1>3, <1>4, <1>5, <1>6 DEF AdminNext, StartReplace, StartDelete, Upload, Edit,
     Rotate, adminVars, cloudVars
<1>7. ASSUME NEW k \in ObjectKeys, BrowserPut(k) \/ Drop(k)
      PROVE  HalfDoneIsGone'
  <2>1. /\ objects' = objects \cup {k} /\ req' = req
        /\ abandoned' = abandoned \cup (HalfDone \cap {k})
    BY <1>7 DEF BrowserPut, Drop, PutObject, Rewritten
  <2> QED
    BY <2>1 DEF HalfDoneIsGone, HalfDone
<1>8. CASE Crash
  <2>1. HalfDone' = {}
    BY <1>8, CrashHalfDone DEF Crash
  <2> QED
    BY <2>1 DEF HalfDoneIsGone
<1>9. CASE World
  BY <1>1, <1>7, <1>8, <1>9 DEF World, Stray, Lapse, Send, adminVars, cloudVars
<1>10. CASE PollerNext /\ UNCHANGED adminVars
  BY <1>1, <1>10 DEF PollerNext, PollerStep, PollEmpty, Pull, TakeMalformed, TakeOther,
     TakeCreate, CreateDiscovered, HeadObject, ConfirmReady, DropGone, FailForNow, Ack,
     cloudVars, adminVars
<1> QED
  BY <1>1, <1>6, <1>9, <1>10 DEF Next, vars, adminVars, cloudVars

(***************************************************************************)
(* No event is acknowledged before its object has a track.                 *)
(***************************************************************************)
LEMMA IdsAreOldStep ==
    ASSUME TypeOK, IdsAreOld, [Next]_vars
    PROVE  IdsAreOld'
<1> USE DEF TypeOK
<1>1. CASE UNCHANGED <<queue, sent, pollerVars>>
  BY <1>1 DEF IdsAreOld, pollerVars
<1>2. ASSUME NEW a \in Actions, NEW k \in ObjectKeys, Send(a, k), UNCHANGED pollerVars
      PROVE  IdsAreOld'
  <2>1. /\ sent' = sent + 1 /\ sent \in Nat
        /\ queue' = queue \cup {[id |-> sent, action |-> a, key |-> k]}
    BY <1>2 DEF Send, CloudTypeOK
  <2>2. \A m \in Message : m.id \in Nat
    BY DEF Message
  <2>3. \A m \in queue' \cup batch \cup acks : m.id < sent'
    BY <2>1, <2>2 DEF IdsAreOld, CloudTypeOK, PollerTypeOK
  <2>4. phase \in Ingesting => msg.id < sent'
    BY <2>1, <2>2 DEF IdsAreOld, PollerTypeOK
  <2> QED
    BY <1>2, <2>3, <2>4 DEF IdsAreOld, pollerVars
<1>3. CASE PollerNext
  <2>1. sent' = sent /\ queue' \subseteq queue
    BY <1>3 DEF PollerNext, PollerStep, PollEmpty, Pull, TakeMalformed, TakeOther,
       TakeCreate, CreateDiscovered, HeadObject, ConfirmReady, DropGone, FailForNow, Ack,
       cloudVars
  <2>2. batch' \subseteq batch \cup queue
    BY <1>3 DEF PollerNext, PollerStep, PollEmpty, Pull, TakeMalformed, TakeOther,
       TakeCreate, CreateDiscovered, HeadObject, ConfirmReady, DropGone, FailForNow, Ack,
       Handled, LeftForRetry, pollerVars
  <2>3. \/ acks' \subseteq acks \cup batch
        \/ phase \in Ingesting /\ acks' \subseteq acks \cup {msg}
    BY <1>3 DEF PollerNext, PollerStep, PollEmpty, Pull, TakeMalformed, TakeOther,
       TakeCreate, CreateDiscovered, HeadObject, ConfirmReady, DropGone, FailForNow, Ack,
       Handled, LeftForRetry, pollerVars, Ingesting
  <2>4. phase' \in Ingesting => msg' \in batch \/ (phase \in Ingesting /\ msg' = msg)
    BY <1>3 DEF PollerNext, PollerStep, PollEmpty, Pull, TakeMalformed, TakeOther,
       TakeCreate, CreateDiscovered, HeadObject, ConfirmReady, DropGone, FailForNow, Ack,
       Handled, LeftForRetry, pollerVars, Ingesting
  <2> QED
    BY <2>1, <2>2, <2>3, <2>4 DEF IdsAreOld
<1>4. CASE World
  <2>1. ASSUME NEW k \in ObjectKeys, BrowserPut(k) \/ Drop(k)
        PROVE  IdsAreOld'
    BY <1>2, <2>1 DEF BrowserPut, Drop, PutObject, Actions
  <2>2. ASSUME NEW a \in Actions, NEW k \in DropNames, Stray(a, k)
        PROVE  IdsAreOld'
    BY <1>2, <2>2 DEF Stray, ObjectKeys
  <2>3. CASE Crash
    BY <2>3 DEF Crash, PollerCrash, cloudVars, IdsAreOld, Ingesting
  <2> QED
    BY <1>1, <1>4, <2>1, <2>2, <2>3 DEF World, Lapse, cloudVars
<1>5. CASE AdminNext /\ UNCHANGED pollerVars
  BY <1>1, <1>5 DEF AdminNext, Upload, Edit, Rotate, StartReplace, StartDelete, Start,
     DeleteObject, FinishReplace, FinishDelete, cloudVars
<1> QED
  BY <1>1, <1>3, <1>4, <1>5 DEF Next, vars, cloudVars

\* an event that makes the poller look at k
Covering(m, k) == m.action = "create" /\ m.key = k

\* Until a step takes the last row of a key away, or acknowledges an event,
\* what covers an object goes on covering it.
LEMMA CoverKept ==
    ASSUME OpenCovers, NEW k \in objects \ abandoned,
           GetByObjectKey(k) # {} => GetByObjectKey(k)' # {},
           \A m \in Open : Covering(m, k) => m \in Open' \/ GetByObjectKey(k)' # {}
    PROVE  GetByObjectKey(k)' # {} \/ \E m \in Open' : m.action = "create" /\ m.key = k
BY DEF OpenCovers, Covering

\* A row keeps its key covered in every step but the last one of a request.
LEMMA RowsKept ==
    ASSUME TableInv,
           \/ Keeps
           \/ \E s \in Slugs, k \in ObjectKeys : Inserts(s, k)
           \/ \E s \in Slugs, t \in Slugs : Moves(s, t),
           NEW k, GetByObjectKey(k) # {}
    PROVE  GetByObjectKey(k)' # {}
<1>1. PICK u \in Slugs : Exists(u) /\ tracks[u].key = k
  BY DEF GetByObjectKey
<1>2. CASE Keeps
  BY <1>1, <1>2 DEF Keeps, GetByObjectKey, Exists
<1>3. ASSUME NEW s \in Slugs, NEW kk \in ObjectKeys, Inserts(s, kk)
      PROVE  GetByObjectKey(k)' # {}
  <2>1. u # s
    BY <1>1, <1>3 DEF TableInv, RowsAreIssued, Inserts
  <2> QED
    BY <1>1, <1>3, <2>1 DEF Inserts, Others, GetByObjectKey, Exists
<1>4. ASSUME NEW s \in Slugs, NEW t \in Slugs, Moves(s, t)
      PROVE  GetByObjectKey(k)' # {}
  <2>1. u # t
    BY <1>1, <1>4 DEF TableInv, RowsAreIssued, Moves
  <2>2. CASE u = s
    BY <1>1, <1>4, <2>2 DEF Moves, GetByObjectKey, Exists
  <2>3. CASE u # s
    BY <1>1, <1>4, <2>1, <2>3 DEF Moves, Others, GetByObjectKey, Exists
  <2> QED
    BY <2>2, <2>3
<1> QED
  BY <1>2, <1>3, <1>4

LEMMA OpenCoversPoller ==
    ASSUME TypeOK, TableInv, OpenCovers, PollerNext, UNCHANGED adminVars
    PROVE  OpenCovers'
<1> USE DEF TypeOK
<1>1. objects' = objects /\ abandoned' = abandoned
  BY DEF adminVars, PollerNext, PollerStep, PollEmpty, Pull, TakeMalformed, TakeOther,
     TakeCreate, CreateDiscovered, HeadObject, ConfirmReady, DropGone, FailForNow, Ack,
     cloudVars
<1> SUFFICES ASSUME NEW k \in objects \ abandoned
             PROVE  /\ GetByObjectKey(k) # {} => GetByObjectKey(k)' # {}
                    /\ \A m \in Open : Covering(m, k)
                          => m \in Open' \/ GetByObjectKey(k)' # {}
  BY <1>1, CoverKept DEF OpenCovers
<1>2. GetByObjectKey(k) # {} => GetByObjectKey(k)' # {}
  <2>1. phase = "create" => msg.key \in ObjectKeys
    BY DEF PollerTypeOK, Ingesting, Message
  <2> QED
    BY <2>1, PollerTable, RowsKept
<1> SUFFICES ASSUME NEW m \in Open, Covering(m, k)
             PROVE  m \in Open' \/ GetByObjectKey(k)' # {}
  BY <1>2
<1>3. m \in queue /\ m \notin acks /\ (Holding => m # msg)
  BY DEF Open
<1>4. ASSUME NEW n \in batch, TakeOther(n)
      PROVE  m \in Open'
  BY <1>3, <1>4 DEF TakeOther, Covering, Open, Holding, Ingesting, cloudVars
<1>5. ASSUME NEW n \in batch, TakeCreate(n)
      PROVE  m \in Open' \/ GetByObjectKey(k)' # {}
  <2>1. acks' = acks /\ queue' = queue /\ UNCHANGED storeVars
    BY <1>5 DEF TakeCreate
  <2>2. CASE Holding' /\ m = n
    <3>1. GetByObjectKey(m.key) # {}
      BY <1>5, <2>2 DEF TakeCreate, Holding, Ingesting
    <3> QED
      BY <1>2, <3>1 DEF Covering
  <2>3. CASE Holding' => m # n
    BY <1>3, <1>5, <2>1, <2>3 DEF TakeCreate, Open, Holding, Ingesting
  <2> QED
    BY <2>2, <2>3
<1>6. CASE CreateDiscovered
  <2>1. acks' = acks /\ queue' = queue
    BY <1>6 DEF CreateDiscovered, LeftForRetry
  <2>2. ASSUME NEW s \in Slugs, Fresh(s), CreateFromDiscovery(s, msg.key), m = msg
        PROVE  GetByObjectKey(k)' # {}
    <3>1. msg.key \in ObjectKeys
      BY <1>6 DEF CreateDiscovered, PollerTypeOK, Ingesting, Message
    <3>2. Inserts(s, msg.key)
      BY <2>2, <3>1, InsertEffect, ExpiryAssumption DEF CreateFromDiscovery
    <3> QED
      BY <2>2, <3>2 DEF Inserts, GetByObjectKey, Exists, Covering
  <2> QED
    BY <1>3, <1>6, <2>1, <2>2 DEF CreateDiscovered, LeftForRetry, Open, Holding, Ingesting
<1>7. CASE HeadObject
  BY <1>3, <1>7 DEF HeadObject, Open, Holding, Ingesting
<1>8. CASE ConfirmReady \/ DropGone \/ FailForNow
  BY <1>3, <1>8 DEF ConfirmReady, DropGone, FailForNow, Handled, LeftForRetry, Open,
                    Holding, Ingesting
<1>9. CASE Ack
  BY <1>3, <1>9 DEF Ack, Open, Holding, Ingesting
<1>10. CASE \/ PollEmpty
            \/ \E ms \in SUBSET queue : Pull(ms)
            \/ \E n \in batch : TakeMalformed(n)
  BY <1>3, <1>10 DEF PollEmpty, Pull, TakeMalformed, Open, Holding, Ingesting,
                     cloudVars, pollerVars
<1> QED
  BY <1>4, <1>5, <1>6, <1>7, <1>8, <1>9, <1>10 DEF PollerNext, PollerStep

LEMMA OpenCoversAdmin ==
    ASSUME TypeOK, TableInv, HalfDoneIsGone, OpenCovers, AdminNext, UNCHANGED pollerVars
    PROVE  OpenCovers'
<1> USE DEF TypeOK
<1>1. queue' = queue /\ Open' = Open
  BY DEF AdminNext, Upload, Edit, Rotate, StartReplace, StartDelete, Start, DeleteObject,
     FinishReplace, FinishDelete, cloudVars, pollerVars, Open, Holding
<1>2. ASSUME objects' \subseteq objects, abandoned \subseteq abandoned',
             \/ Keeps
             \/ \E s \in Slugs, k \in ObjectKeys : Inserts(s, k)
             \/ \E s \in Slugs, t \in Slugs : Moves(s, t)
      PROVE  OpenCovers'
  BY <1>1, <1>2, RowsKept DEF OpenCovers
<1>3. ASSUME NEW r \in Reqs, FinishReplace(r) \/ FinishDelete(r)
      PROVE  OpenCovers'
  <2> DEFINE q == req[r]
  <2>1. q \in Request /\ q.slug \in Slugs /\ objects' = objects /\ abandoned \subseteq abandoned'
    BY <1>3, FinishReplaceEffect, FinishDeleteEffect DEF Confuse
  <2>2. q.key \notin objects \ abandoned
    BY <1>3 DEF FinishReplace, FinishDelete, AtWrite, HalfDoneIsGone, HalfDone
  <2>3. CASE UNCHANGED storeVars
    BY <1>2, <2>1, <2>3, UnchangedEffect
  <2>4. CASE /\ Exists(q.slug) /\ Others({q.slug})
             /\ Confuse(q)
    <3> SUFFICES ASSUME NEW k \in objects' \ abandoned', GetByObjectKey(k) # {}
                 PROVE  GetByObjectKey(k)' # {}
      BY <1>1, <2>1 DEF OpenCovers
    <3>1. tracks[q.slug].key # k
      BY <2>1, <2>2, <2>4 DEF Confuse, Overtaken
    <3>2. PICK u \in Slugs : Exists(u) /\ tracks[u].key = k
      BY DEF GetByObjectKey
    <3>3. tracks'[u] = tracks[u]
      BY <2>4, <3>1, <3>2 DEF Others
    <3> QED
      BY <3>2, <3>3 DEF GetByObjectKey, Exists
  <2> QED
    BY <1>3, <2>3, <2>4, FinishReplaceEffect, FinishDeleteEffect DEF Repoints, Removes
<1>4. ASSUME NEW s \in Slugs, NEW e \in Exts, NEW x \in Offered, Upload(s, e, x)
      PROVE  OpenCovers'
  BY <1>2, <1>4, UploadEffect DEF Upload, cloudVars
<1>5. ASSUME NEW s \in Slugs, NEW x \in Offered, Edit(s, x)
      PROVE  OpenCovers'
  BY <1>2, <1>5, EditEffect DEF Edit, adminVars, cloudVars
<1>6. ASSUME NEW s \in Slugs, NEW t \in Slugs, Rotate(s, t)
      PROVE  OpenCovers'
  BY <1>2, <1>6, RotateSlugEffect DEF Rotate, TableInv, adminVars, cloudVars
<1>7. ASSUME NEW r \in Reqs,
             \/ \E s \in Slugs, e \in Exts : StartReplace(r, s, e)
             \/ \E s \in Slugs : StartDelete(r, s)
      PROVE  OpenCovers'
  BY <1>2, <1>7, UnchangedEffect DEF StartReplace, StartDelete, Start, cloudVars
<1>8. ASSUME NEW r \in Reqs, DeleteObject(r)
      PROVE  OpenCovers'
  BY <1>2, <1>8, UnchangedEffect, DeleteObjectHalfDone DEF DeleteObject
<1> QED
  BY <1>3, <1>4, <1>5, <1>6, <1>7, <1>8 DEF AdminNext

LEMMA OpenCoversWorld ==
    ASSUME TypeOK, TableInv, IdsAreOld, OpenCovers, World
    PROVE  OpenCovers'
<1> USE DEF TypeOK
<1>1. Keeps
  BY WorldTable
<1>2. ASSUME objects' \subseteq objects, abandoned \subseteq abandoned', Open \subseteq Open'
      PROVE  OpenCovers'
  BY <1>1, <1>2, RowsKept DEF OpenCovers
<1>3. ASSUME NEW a \in Actions, NEW k \in ObjectKeys, Send(a, k), UNCHANGED pollerVars
      PROVE  /\ Open \subseteq Open'
             /\ [id |-> sent, action |-> a, key |-> k] \in Open'
  <2> DEFINE new == [id |-> sent, action |-> a, key |-> k]
  <2>1. new \notin acks /\ (Holding => new # msg)
    BY DEF IdsAreOld, CloudTypeOK, Holding
  <2> QED
    BY <1>3, <2>1 DEF Send, Open, Holding, pollerVars
<1>4. ASSUME NEW k \in ObjectKeys, BrowserPut(k) \/ Drop(k)
      PROVE  OpenCovers'
  <2>1. /\ Send("create", k) /\ UNCHANGED pollerVars
        /\ objects' = objects \cup {k} /\ abandoned \subseteq abandoned'
    BY <1>4 DEF BrowserPut, Drop, PutObject, Rewritten
  <2>2. /\ Open \subseteq Open'
        /\ [id |-> sent, action |-> "create", key |-> k] \in Open'
    BY <1>3, <2>1 DEF Actions
  <2> QED
    BY <1>1, <2>1, <2>2, RowsKept DEF OpenCovers
<1>5. ASSUME NEW a \in Actions, NEW k \in DropNames, Stray(a, k)
      PROVE  OpenCovers'
  BY <1>2, <1>3, <1>5 DEF Stray, ObjectKeys, adminVars
<1>6. ASSUME NEW s \in Slugs, NEW x \in Past, Lapse(s, x)
      PROVE  OpenCovers'
  BY <1>2, <1>6 DEF Lapse, cloudVars, adminVars, pollerVars, Open, Holding
<1>7. CASE Crash
  BY <1>2, <1>7 DEF Crash, PollerCrash, AdminCrash, cloudVars, Open, Holding, Ingesting
<1> QED
  BY <1>4, <1>5, <1>6, <1>7 DEF World

LEMMA OpenCoversStep ==
    ASSUME TypeOK, TableInv, HalfDoneIsGone, IdsAreOld, OpenCovers, [Next]_vars
    PROVE  OpenCovers'
<1>1. ASSUME Keeps, UNCHANGED <<cloudVars, pollerVars, adminVars>>
      PROVE  OpenCovers'
  BY <1>1, RowsKept DEF OpenCovers, cloudVars, pollerVars, adminVars, Open, Holding
<1>2. CASE ListenerNext /\ UNCHANGED <<cloudVars, pollerVars, adminVars, crashes>>
  BY <1>1, <1>2, ListenerTable DEF TypeOK
<1>3. CASE UNCHANGED vars
  BY <1>1, <1>3, UnchangedEffect DEF vars
<1> QED
  BY <1>2, <1>3, OpenCoversPoller, OpenCoversAdmin, OpenCoversWorld DEF Next

(***************************************************************************)
(* The theorems.                                                           *)
(***************************************************************************)
LEMMA SafetyInit == Init => SafetyInv
BY TypeInit DEF Init, StoreInit, CloudInit, PollerInit, AdminInit, SafetyInv, RowsAreIssued,
   UniqueKeys, PollerIsCurrent, IdsAreOld, HalfDoneIsGone, ReadyPlayable, OpenCovers,
   Holding, HalfDone, Ready, Exists, Ingesting

LEMMA SafetyStep == SafetyInv /\ [Next]_vars => SafetyInv'
<1> SUFFICES ASSUME SafetyInv, [Next]_vars
             PROVE  SafetyInv'
  OBVIOUS
<1>1. TypeOK /\ TableInv
  BY DEF SafetyInv, TableInv
<1>2. TypeOK' /\ RowsAreIssued' /\ UniqueKeys'
  BY <1>1, TypeStep, NextTable, TableInvStep DEF TableInv, TypeOK
<1>3. PollerIsCurrent' /\ IdsAreOld' /\ HalfDoneIsGone'
  BY <1>1, PollerIsCurrentStep, IdsAreOldStep, HalfDoneIsGoneStep DEF SafetyInv
<1>4. ReadyPlayable' /\ OpenCovers'
  BY <1>1, ReadyPlayableStep, OpenCoversStep DEF SafetyInv
<1> QED
  BY <1>2, <1>3, <1>4 DEF SafetyInv

\* The strengthened invariant holds in every reachable state of the service.
THEOREM SafetyInvariant == Spec => []SafetyInv
BY SafetyInit, SafetyStep, PTL DEF Spec

\* A ready track plays: however the poller, the artist's two-step handlers,
\* late events, failures and restarts interleave, the object of a ready track
\* exists, up to the exceptions ReadyPlayable names.
THEOREM ReadyTracksPlay == Spec => []ReadyPlayable
<1>1. SafetyInv => ReadyPlayable
  BY DEF SafetyInv
<1> QED
  BY <1>1, SafetyInvariant, PTL

\* No object is forgotten: one without a track has an event left in the queue,
\* because the poller acknowledges an event only once its object has a track.
THEOREM NoObjectForgotten == Spec => []NoOrphans
<1>1. SafetyInv => NoOrphans
  BY DEF SafetyInv, OpenCovers, NoOrphans, Announced, Open
<1> QED
  BY <1>1, SafetyInvariant, PTL
=============================================================================
