-------------------------- MODULE TransientsProofs --------------------------
(***************************************************************************)
(* Proofs about Transients, for every set of slugs, keys, request slots    *)
(* and listeners, every batch size and every bound.                        *)
(***************************************************************************)
EXTENDS Transients, StoreProofs

(***************************************************************************)
(* Type correctness, one lemma per component.                              *)
(***************************************************************************)
LEMMA SendType ==
    ASSUME CloudTypeOK, NEW a \in Actions, NEW k \in ObjectKeys, Send(a, k)
    PROVE  /\ queue' \subseteq Message
           /\ sent' \in Nat
           /\ faults' \in Nat
BY DEF CloudTypeOK, Send, Message

LEMMA PutObjectType ==
    ASSUME CloudTypeOK, NEW k \in ObjectKeys, PutObject(k)
    PROVE  CloudTypeOK'
BY SendType DEF CloudTypeOK, PutObject, Actions

LEMMA PollerTypeStep ==
    ASSUME StoreTypeOK, CloudTypeOK, PollerTypeOK, PollerNext
    PROVE  StoreTypeOK' /\ CloudTypeOK' /\ PollerTypeOK'
<1> USE DEF Phases, Ingesting
<1>1. CASE PollEmpty
  BY <1>1 DEF PollEmpty, pollerVars, storeVars, cloudVars,
              StoreTypeOK, CloudTypeOK, PollerTypeOK
<1>2. ASSUME NEW ms \in SUBSET queue, Pull(ms)
      PROVE  StoreTypeOK' /\ CloudTypeOK' /\ PollerTypeOK'
  BY <1>2 DEF Pull, storeVars, cloudVars, StoreTypeOK, CloudTypeOK, PollerTypeOK
<1>3. ASSUME NEW m \in batch, TakeMalformed(m)
      PROVE  StoreTypeOK' /\ CloudTypeOK' /\ PollerTypeOK'
  BY <1>3 DEF TakeMalformed, storeVars, cloudVars,
              StoreTypeOK, CloudTypeOK, PollerTypeOK
<1>4. ASSUME NEW m \in batch, TakeOther(m)
      PROVE  StoreTypeOK' /\ CloudTypeOK' /\ PollerTypeOK'
  BY <1>4 DEF TakeOther, storeVars, cloudVars,
              StoreTypeOK, CloudTypeOK, PollerTypeOK
<1>5. ASSUME NEW m \in batch, TakeCreate(m)
      PROVE  StoreTypeOK' /\ CloudTypeOK' /\ PollerTypeOK'
  <2>1. m \in Message
    BY DEF PollerTypeOK
  <2>2. faults' \in Nat
    BY <1>5 DEF TakeCreate, Fault, CloudTypeOK
  <2>3. StoreTypeOK' /\ CloudTypeOK'
    BY <1>5, <2>2 DEF TakeCreate, storeVars, StoreTypeOK, CloudTypeOK
  <2>4. PollerTypeOK'
    BY <1>5, <2>1 DEF TakeCreate, GetByObjectKey, PollerTypeOK
  <2> QED
    BY <2>3, <2>4
<1>6. CASE CreateDiscovered
  <2> USE <1>6 DEF CreateDiscovered
  <2>1. msg \in Message /\ msg.key \in ObjectKeys
    BY DEF PollerTypeOK, Message
  <2>2. StoreTypeOK'
    BY <2>1, InsertType, ExpiryAssumption DEF CreateFromDiscovery, storeVars, StoreTypeOK
  <2>3. CloudTypeOK'
    BY DEF Fault, CloudTypeOK
  <2>4. PollerTypeOK'
    BY DEF LeftForRetry, PollerTypeOK
  <2> QED
    BY <2>2, <2>3, <2>4
<1>7. CASE HeadObject
  BY <1>7 DEF HeadObject, Fault, storeVars, StoreTypeOK, CloudTypeOK, PollerTypeOK
<1>8. ASSUME ConfirmReady \/ DropGone \/ FailForNow
      PROVE  StoreTypeOK' /\ CloudTypeOK' /\ PollerTypeOK'
  <2>1. track \in Slugs /\ msg \in Message
    BY <1>8 DEF ConfirmReady, DropGone, FailForNow, PollerTypeOK
  <2>2. StoreTypeOK'
    <3>1. CASE MarkReady(track)
      BY <2>1, <3>1, SetStatusType DEF MarkReady, Statuses
    <3>2. CASE MarkFailed(track)
      BY <2>1, <3>2, SetStatusType DEF MarkFailed, Statuses
    <3>3. CASE UNCHANGED storeVars
      BY <3>3 DEF storeVars, StoreTypeOK
    <3> QED
      BY <1>8, <3>1, <3>2, <3>3 DEF ConfirmReady, DropGone, FailForNow
  <2>3. CloudTypeOK'
    BY <1>8 DEF ConfirmReady, DropGone, FailForNow, Fault, CloudTypeOK
  <2>4. PollerTypeOK'
    BY <1>8, <2>1 DEF ConfirmReady, DropGone, FailForNow, Handled, LeftForRetry,
                      PollerTypeOK
  <2> QED
    BY <2>2, <2>3, <2>4
<1>9. CASE Ack
  <2>1. queue' \subseteq queue
    BY <1>9 DEF Ack
  <2> QED
    BY <1>9, <2>1 DEF Ack, Fault, storeVars, StoreTypeOK, CloudTypeOK, PollerTypeOK
<1> QED
  BY <1>1, <1>2, <1>3, <1>4, <1>5, <1>6, <1>7, <1>8, <1>9 DEF PollerNext, PollerStep

LEMMA AdminTypeStep ==
    ASSUME StoreTypeOK, CloudTypeOK, AdminTypeOK, AdminNext
    PROVE  StoreTypeOK' /\ CloudTypeOK' /\ AdminTypeOK'
<1>1. ASSUME NEW s \in Slugs, NEW e \in Exts, NEW x \in Offered, Upload(s, e, x)
      PROVE  StoreTypeOK' /\ CloudTypeOK' /\ AdminTypeOK'
  <2>1. <<s, e>> \in ObjectKeys /\ x \in Expiries
    BY AdminAssumption DEF ObjectKeys
  <2>2. StoreTypeOK'
    BY <1>1, <2>1, InsertType DEF Upload, CreatePending
  <2> QED
    BY <1>1, <2>1, <2>2 DEF Upload, cloudVars, CloudTypeOK, AdminTypeOK
<1>2. ASSUME NEW s \in Slugs, NEW x \in Offered, Edit(s, x)
      PROVE  StoreTypeOK' /\ CloudTypeOK' /\ AdminTypeOK'
  <2>1. StoreTypeOK'
    BY <1>2, AdminAssumption, UpdateTrackType DEF Edit
  <2> QED
    BY <1>2, <2>1 DEF Edit, adminVars, cloudVars, CloudTypeOK, AdminTypeOK
<1>3. ASSUME NEW s \in Slugs, NEW t \in Slugs, Rotate(s, t)
      PROVE  StoreTypeOK' /\ CloudTypeOK' /\ AdminTypeOK'
  <2>1. StoreTypeOK'
    BY <1>3, RotateSlugType DEF Rotate
  <2> QED
    BY <1>3, <2>1 DEF Rotate, adminVars, cloudVars, CloudTypeOK, AdminTypeOK
<1>4. ASSUME NEW r \in Reqs, NEW s \in Slugs, NEW e \in Exts, StartReplace(r, s, e)
      PROVE  StoreTypeOK' /\ CloudTypeOK' /\ AdminTypeOK'
  <2>1. tracks[s].key \in ObjectKeys /\ <<s, e>> \in ObjectKeys
    BY <1>4 DEF StartReplace, Start, Exists, StoreTypeOK, Row, ObjectKeys
  <2>2. req' \in [Reqs -> Request \cup {NoReq}]
    BY <1>4, <2>1 DEF StartReplace, Start, AdminTypeOK, Request
  <2> QED
    BY <1>4, <2>2 DEF StartReplace, Start, storeVars, cloudVars,
                      StoreTypeOK, CloudTypeOK, AdminTypeOK
<1>5. ASSUME NEW r \in Reqs, NEW s \in Slugs, StartDelete(r, s)
      PROVE  StoreTypeOK' /\ CloudTypeOK' /\ AdminTypeOK'
  <2>1. tracks[s].key \in ObjectKeys
    BY <1>5 DEF StartDelete, Start, Exists, StoreTypeOK, Row
  <2>2. req' \in [Reqs -> Request \cup {NoReq}]
    BY <1>5, <2>1 DEF StartDelete, Start, AdminTypeOK, Request
  <2> QED
    BY <1>5, <2>2 DEF StartDelete, Start, storeVars, cloudVars,
                      StoreTypeOK, CloudTypeOK, AdminTypeOK
<1>6. ASSUME NEW r \in Reqs, DeleteObject(r)
      PROVE  StoreTypeOK' /\ CloudTypeOK' /\ AdminTypeOK'
  <2>1. req[r] \in Request
    BY <1>6 DEF DeleteObject, AdminTypeOK
  <2>2. req' \in [Reqs -> Request \cup {NoReq}]
    <3>1. [req[r] EXCEPT !.at = "writeRow"] \in Request
      BY <2>1 DEF Request
    <3> QED
      BY <1>6, <3>1 DEF DeleteObject, Answered, AdminTypeOK
  <2>3. StoreTypeOK' /\ CloudTypeOK'
    BY <1>6 DEF DeleteObject, Fault, storeVars, StoreTypeOK, CloudTypeOK
  <2>4. damaged' \subseteq ObjectKeys
    BY <1>6, <2>1 DEF DeleteObject, Request, AdminTypeOK
  <2> QED
    BY <1>6, <2>2, <2>3, <2>4 DEF DeleteObject, AdminTypeOK
<1>7. ASSUME NEW r \in Reqs, FinishReplace(r)
      PROVE  StoreTypeOK' /\ CloudTypeOK' /\ AdminTypeOK'
  <2> USE <1>7 DEF FinishReplace
  <2>1. /\ req[r] \in Request
        /\ req[r].slug \in Slugs /\ req[r].key \in ObjectKeys
        /\ req[r].newKey \in ObjectKeys
    BY DEF AtWrite, AdminTypeOK, Request
  <2>2. Exists(req[r].slug) => tracks[req[r].slug].key \in ObjectKeys
    BY <2>1 DEF Exists, StoreTypeOK, Row
  <2>3. StoreTypeOK'
    BY <2>1, BeginReplaceType DEF StopHalfway, storeVars, StoreTypeOK
  <2>4. CloudTypeOK'
    BY DEF StopHalfway, Fault, CloudTypeOK
  <2>5. req' \in [Reqs -> Request \cup {NoReq}]
    BY DEF Answered, AdminTypeOK
  <2>6. AdminTypeOK'
    BY <2>1, <2>2, <2>5 DEF StopHalfway, Confuse, AdminTypeOK
  <2> QED
    BY <2>3, <2>4, <2>6
<1>8. ASSUME NEW r \in Reqs, FinishDelete(r)
      PROVE  StoreTypeOK' /\ CloudTypeOK' /\ AdminTypeOK'
  <2> USE <1>8 DEF FinishDelete
  <2>1. /\ req[r] \in Request
        /\ req[r].slug \in Slugs /\ req[r].key \in ObjectKeys
    BY DEF AtWrite, AdminTypeOK, Request
  <2>2. Exists(req[r].slug) => /\ tracks[req[r].slug].key \in ObjectKeys
                               /\ tracks[req[r].slug].plays \in Nat
    BY <2>1 DEF Exists, StoreTypeOK, Row
  <2>3. StoreTypeOK'
    BY <2>1, DeleteType DEF StopHalfway, storeVars, StoreTypeOK
  <2>4. CloudTypeOK'
    BY DEF StopHalfway, Fault, CloudTypeOK
  <2>5. req' \in [Reqs -> Request \cup {NoReq}]
    BY DEF Answered, AdminTypeOK
  <2>6. AdminTypeOK'
    BY <2>1, <2>2, <2>5 DEF StopHalfway, Confuse, AdminTypeOK
  <2> QED
    BY <2>3, <2>4, <2>6
<1> QED
  BY <1>1, <1>2, <1>3, <1>4, <1>5, <1>6, <1>7, <1>8 DEF AdminNext

LEMMA ListenerTypeStep ==
    ASSUME StoreTypeOK, ListenerTypeOK, ListenerNext
    PROVE  StoreTypeOK' /\ ListenerTypeOK'
<1>1. ASSUME NEW l \in Listeners, NEW s \in Slugs, LookupPlay(l, s)
      PROVE  StoreTypeOK' /\ ListenerTypeOK'
  BY <1>1 DEF LookupPlay, storeVars, StoreTypeOK, ListenerTypeOK
<1>2. ASSUME NEW l \in Listeners, RecordPlay(l)
      PROVE  StoreTypeOK' /\ ListenerTypeOK'
  <2>1. hearing[l] \in Slugs
    BY <1>2 DEF RecordPlay, ListenerTypeOK
  <2>2. StoreTypeOK'
    BY <1>2, <2>1, IncrementType DEF RecordPlay, storeVars, StoreTypeOK
  <2> QED
    BY <1>2, <2>2 DEF RecordPlay, ListenerTypeOK
<1> QED
  BY <1>1, <1>2 DEF ListenerNext

LEMMA HalfDoneType == AdminTypeOK => HalfDone \subseteq ObjectKeys
<1> SUFFICES ASSUME AdminTypeOK, NEW r \in Reqs, req[r] # NoReq
             PROVE  req[r].key \in ObjectKeys
  BY DEF HalfDone
<1>1. req[r] \in Request
  BY DEF AdminTypeOK
<1> QED
  BY <1>1 DEF Request

LEMMA WorldTypeStep ==
    ASSUME TypeOK, World
    PROVE  TypeOK'
<1> USE DEF TypeOK
<1>1. ASSUME NEW k \in ObjectKeys, BrowserPut(k) \/ Drop(k)
      PROVE  TypeOK'
  <2>1. CloudTypeOK'
    BY <1>1, PutObjectType DEF BrowserPut, Drop
  <2>2. AdminTypeOK'
    BY <1>1 DEF BrowserPut, Drop, Rewritten, AdminTypeOK
  <2> QED
    BY <1>1, <2>1, <2>2 DEF BrowserPut, Drop, storeVars, pollerVars, listenerVars,
                            StoreTypeOK, PollerTypeOK, ListenerTypeOK
<1>2. ASSUME NEW a \in Actions, NEW k \in DropNames, Stray(a, k)
      PROVE  TypeOK'
  <2>1. CloudTypeOK'
    BY <1>2, SendType DEF Stray, CloudTypeOK, ObjectKeys
  <2> QED
    BY <1>2, <2>1 DEF Stray, storeVars, pollerVars, adminVars, listenerVars,
                      StoreTypeOK, PollerTypeOK, AdminTypeOK, ListenerTypeOK
<1>3. ASSUME NEW s \in Slugs, NEW x \in Past, Lapse(s, x)
      PROVE  TypeOK'
  <2>1. [tracks[s] EXCEPT !.expires = x] \in Row
    BY <1>3, ExpiryAssumption DEF Lapse, Exists, StoreTypeOK, Row
  <2>2. StoreTypeOK'
    BY <1>3, <2>1 DEF Lapse, StoreTypeOK
  <2> QED
    BY <1>3, <2>2 DEF Lapse, cloudVars, pollerVars, adminVars, listenerVars,
                      CloudTypeOK, PollerTypeOK, AdminTypeOK, ListenerTypeOK
<1>4. CASE Crash
  <2>1. AdminTypeOK'
    BY <1>4, HalfDoneType DEF Crash, AdminCrash, AdminTypeOK
  <2>2. PollerTypeOK' /\ ListenerTypeOK' /\ crashes' \in Nat
    BY <1>4 DEF Crash, PollerCrash, ListenerCrash, PollerTypeOK, ListenerTypeOK,
                Phases, Ingesting
  <2> QED
    BY <1>4, <2>1, <2>2 DEF Crash, storeVars, cloudVars, StoreTypeOK, CloudTypeOK
<1> QED
  BY <1>1, <1>2, <1>3, <1>4 DEF World

LEMMA TypeStep == TypeOK /\ [Next]_vars => TypeOK'
<1> SUFFICES ASSUME TypeOK, [Next]_vars
             PROVE  TypeOK'
  OBVIOUS
<1>1. CASE PollerNext /\ UNCHANGED <<adminVars, listenerVars, crashes>>
  BY <1>1, PollerTypeStep DEF TypeOK, adminVars, listenerVars, AdminTypeOK, ListenerTypeOK
<1>2. CASE AdminNext /\ UNCHANGED <<pollerVars, listenerVars, crashes>>
  BY <1>2, AdminTypeStep DEF TypeOK, pollerVars, listenerVars, PollerTypeOK, ListenerTypeOK
<1>3. CASE ListenerNext /\ UNCHANGED <<cloudVars, pollerVars, adminVars, crashes>>
  BY <1>3, ListenerTypeStep DEF TypeOK, cloudVars, pollerVars, adminVars,
                                CloudTypeOK, PollerTypeOK, AdminTypeOK
<1>4. CASE World
  BY <1>4, WorldTypeStep
<1>5. CASE UNCHANGED vars
  BY <1>5 DEF vars, storeVars, cloudVars, pollerVars, adminVars, listenerVars, TypeOK,
              StoreTypeOK, CloudTypeOK, PollerTypeOK, AdminTypeOK, ListenerTypeOK
<1> QED
  BY <1>1, <1>2, <1>3, <1>4, <1>5 DEF Next

LEMMA TypeInit == Init => TypeOK
BY DEF Init, StoreInit, CloudInit, PollerInit, AdminInit, ListenerInit, TypeOK,
       StoreTypeOK, CloudTypeOK, PollerTypeOK, AdminTypeOK, ListenerTypeOK,
       Phases, Ingesting

\* Every variable keeps its type: in particular the poller always has a track
\* in hand when it writes one (poller.go:116), and a request in flight always
\* names a slug and a key.
THEOREM TypeCorrect == Spec => []TypeOK
BY TypeInit, TypeStep, PTL DEF Spec

(***************************************************************************)
(* What each step does to the table: it keeps every row's key and changes  *)
(* at most one row, or inserts, repoints, moves or removes one row.        *)
(***************************************************************************)
Others(S) == \A t \in Slugs \ S : tracks'[t] = tracks[t]

Keeps ==
    /\ used' = used
    /\ \A t \in Slugs : tracks'[t] = NoRow <=> tracks[t] = NoRow
    /\ \A t \in Slugs : Exists(t) => tracks'[t].key = tracks[t].key
    /\ \A t, u \in Slugs :
           tracks'[t] # tracks[t] /\ tracks'[u] # tracks[u] => t = u

Inserts(s, k) ==
    /\ s \notin used /\ used' = used \cup {s}
    /\ tracks'[s] # NoRow
    /\ tracks'[s].key = k /\ tracks'[s].status = "pending"
    /\ KeyFreeFor(s, k)
    /\ Others({s})

Repoints(s, k) ==
    /\ used' = used
    /\ Exists(s)
    /\ tracks'[s] # NoRow
    /\ tracks'[s].key = k /\ tracks'[s].status = "pending"
    /\ KeyFreeFor(s, k)
    /\ Others({s})

Moves(s, t) ==
    /\ Exists(s)
    /\ t \notin used /\ used' = used \cup {t}
    /\ tracks'[t] = tracks[s]
    /\ s # t /\ tracks'[s] = NoRow
    /\ Others({s, t})

Removes(s) ==
    /\ used' = used
    /\ tracks'[s] = NoRow
    /\ Others({s})

TableStep ==
    \/ Keeps
    \/ \E s \in Slugs, k \in ObjectKeys : Inserts(s, k) \/ Repoints(s, k)
    \/ \E s \in Slugs, t \in Slugs : Moves(s, t)
    \/ \E s \in Slugs : Removes(s)

LEMMA InsertEffect ==
    ASSUME StoreTypeOK, NEW s \in Slugs, NEW k \in ObjectKeys, NEW x \in Expiries,
           Fresh(s), KeyFreeFor(s, k), Insert(s, k, x)
    PROVE  Inserts(s, k)
<1>1. [key |-> k, status |-> "pending", plays |-> 0, expires |-> x] \in Row
  BY DEF Row, Statuses
<1> QED
  BY <1>1, NoRowAssumption DEF Inserts, Insert, Fresh, Others, StoreTypeOK

LEMMA SetStatusEffect ==
    ASSUME StoreTypeOK, NEW s \in Slugs, NEW st \in Statuses, SetStatus(s, st),
           UNCHANGED used
    PROVE  /\ Keeps
           /\ Others({s})
           /\ Exists(s) => tracks'[s].status = st
<1>1. CASE Exists(s)
  <2>1. [tracks[s] EXCEPT !.status = st] \in Row
    BY <1>1 DEF StoreTypeOK, Exists, Row
  <2>2. /\ [tracks[s] EXCEPT !.status = st].key = tracks[s].key
        /\ [tracks[s] EXCEPT !.status = st].status = st
    BY <1>1 DEF StoreTypeOK, Exists, Row
  <2>3. tracks' = [tracks EXCEPT ![s] = [tracks[s] EXCEPT !.status = st]]
    BY <1>1 DEF SetStatus
  <2> QED
    BY <1>1, <2>1, <2>2, <2>3, NoRowAssumption DEF Keeps, Others, Exists, StoreTypeOK
<1>2. CASE ~Exists(s)
  BY <1>2 DEF SetStatus, Keeps, Others, Exists
<1> QED
  BY <1>1, <1>2

LEMMA UpdateTrackEffect ==
    ASSUME StoreTypeOK, NEW s \in Slugs, NEW x \in Expiries, Exists(s),
           tracks' = [tracks EXCEPT ![s].expires = x], UNCHANGED used
    PROVE  /\ Keeps
           /\ \A t \in Slugs : Exists(t) => tracks'[t].status = tracks[t].status
<1>1. [tracks[s] EXCEPT !.expires = x] \in Row
  BY DEF StoreTypeOK, Exists, Row
<1>2. /\ [tracks[s] EXCEPT !.expires = x].key = tracks[s].key
      /\ [tracks[s] EXCEPT !.expires = x].status = tracks[s].status
  BY DEF StoreTypeOK, Exists, Row
<1>3. tracks' = [tracks EXCEPT ![s] = [tracks[s] EXCEPT !.expires = x]]
  OBVIOUS
<1> QED
  BY <1>1, <1>2, <1>3, NoRowAssumption DEF Keeps, Exists, StoreTypeOK

LEMMA IncrementEffect ==
    ASSUME StoreTypeOK, NEW s \in Slugs, Exists(s), IncrementPlayCount(s)
    PROVE  /\ Keeps
           /\ \A t \in Slugs : Exists(t) => tracks'[t].status = tracks[t].status
<1> DEFINE row == [tracks[s] EXCEPT !.plays = @ + 1]
<1>1. row \in Row /\ row.key = tracks[s].key /\ row.status = tracks[s].status
  BY DEF StoreTypeOK, Exists, Row
<1>2. tracks' = [tracks EXCEPT ![s] = row]
  BY DEF IncrementPlayCount
<1> QED
  BY <1>1, <1>2, NoRowAssumption DEF Keeps, IncrementPlayCount, Exists, StoreTypeOK

LEMMA BeginReplaceEffect ==
    ASSUME StoreTypeOK, NEW s \in Slugs, NEW k \in ObjectKeys, Exists(s),
           KeyFreeFor(s, k), BeginReplace(s, k)
    PROVE  Repoints(s, k)
<1> DEFINE row == [[tracks[s] EXCEPT !.key = k] EXCEPT !.status = "pending"]
<1>1. row \in Row /\ row.key = k /\ row.status = "pending"
  BY DEF StoreTypeOK, Exists, Row, Statuses
<1>2. tracks' = [tracks EXCEPT ![s] = row]
  BY DEF BeginReplace, StoreTypeOK
<1> QED
  BY <1>1, <1>2, NoRowAssumption DEF Repoints, BeginReplace, Others, StoreTypeOK

LEMMA RotateSlugEffect ==
    ASSUME StoreTypeOK, NEW s \in Slugs, NEW t \in Slugs, Exists(s), Fresh(t),
           RowsAreIssued, RotateSlug(s, t)
    PROVE  Moves(s, t)
<1>1. s # t
  BY DEF Fresh, RowsAreIssued
<1> QED
  BY <1>1 DEF Moves, RotateSlug, Fresh, Others, StoreTypeOK

LEMMA DeleteEffect ==
    ASSUME StoreTypeOK, NEW s \in Slugs, Delete(s)
    PROVE  Removes(s)
BY DEF Removes, Delete, Others, StoreTypeOK

LEMMA UnchangedEffect == UNCHANGED storeVars => Keeps
BY DEF Keeps, storeVars, Exists

LEMMA PollerTable ==
    ASSUME StoreTypeOK, PollerTypeOK, PollerNext
    PROVE  Keeps \/ \E s \in Slugs : Inserts(s, msg.key) /\ phase = "create" /\ track' = s
<1>1. CASE UNCHANGED storeVars
  BY <1>1, UnchangedEffect
<1>2. CASE CreateDiscovered
  <2>1. msg.key \in ObjectKeys
    BY <1>2 DEF CreateDiscovered, PollerTypeOK, Ingesting, Message
  <2>2. ASSUME NEW s \in Slugs, Fresh(s), CreateFromDiscovery(s, msg.key)
        PROVE  Inserts(s, msg.key)
    BY <2>1, <2>2, InsertEffect, ExpiryAssumption DEF CreateFromDiscovery
  <2> QED
    BY <1>2, <2>2, UnchangedEffect DEF CreateDiscovered
<1>3. CASE ConfirmReady \/ DropGone \/ FailForNow
  <2>1. track \in Slugs
    BY <1>3 DEF ConfirmReady, DropGone, FailForNow, PollerTypeOK, Ingesting
  <2>2. CASE MarkReady(track)
    BY <2>1, <2>2, SetStatusEffect DEF MarkReady, Statuses
  <2>3. CASE MarkFailed(track)
    BY <2>1, <2>3, SetStatusEffect DEF MarkFailed, Statuses
  <2> QED
    BY <1>3, <2>2, <2>3, UnchangedEffect DEF ConfirmReady, DropGone, FailForNow
<1> QED
  BY <1>1, <1>2, <1>3 DEF PollerNext, PollerStep, PollEmpty, Pull, TakeMalformed,
     TakeOther, TakeCreate, HeadObject, Ack

LEMMA UploadEffect ==
    ASSUME StoreTypeOK, NEW s \in Slugs, NEW e \in Exts, NEW x \in Offered,
           Upload(s, e, x)
    PROVE  Inserts(s, <<s, e>>) /\ <<s, e>> \in ObjectKeys
<1>1. <<s, e>> \in ObjectKeys /\ x \in Expiries
  BY AdminAssumption DEF ObjectKeys
<1> QED
  BY <1>1, InsertEffect DEF Upload, CreatePending

LEMMA EditEffect ==
    ASSUME StoreTypeOK, NEW s \in Slugs, NEW x \in Offered, Edit(s, x)
    PROVE  /\ Keeps
           /\ \A t \in Slugs : Exists(t) => tracks'[t].status = tracks[t].status
<1>1. x \in Expiries
  BY AdminAssumption
<1> QED
  BY <1>1, UpdateTrackEffect DEF Edit, UpdateTrack

LEMMA FinishReplaceEffect ==
    ASSUME StoreTypeOK, AdminTypeOK, NEW r \in Reqs, FinishReplace(r)
    PROVE  /\ req[r] \in Request /\ Answered(r) /\ objects' = objects
           /\ req[r].slug \in Slugs /\ req[r].newKey \in ObjectKeys
           /\ \/ /\ Repoints(req[r].slug, req[r].newKey)
                 /\ promised' = promised \cup {req[r].newKey}
                 /\ Confuse(req[r])
              \/ /\ UNCHANGED <<storeVars, promised, abandoned>>
                 /\ damaged' = damaged \cup {req[r].key}
<1>1. /\ req[r] \in Request /\ req[r].slug \in Slugs /\ req[r].newKey \in ObjectKeys
  BY DEF FinishReplace, AtWrite, AdminTypeOK, Request
<1>2. CASE StopHalfway(r, ~(Exists(req[r].slug) /\ KeyFreeFor(req[r].slug, req[r].newKey)))
  BY <1>1, <1>2 DEF FinishReplace, StopHalfway
<1>3. CASE /\ Exists(req[r].slug) /\ KeyFreeFor(req[r].slug, req[r].newKey)
           /\ BeginReplace(req[r].slug, req[r].newKey)
           /\ promised' = promised \cup {req[r].newKey}
           /\ Confuse(req[r])
  BY <1>1, <1>3, BeginReplaceEffect DEF FinishReplace
<1> QED
  BY <1>2, <1>3 DEF FinishReplace

LEMMA FinishDeleteEffect ==
    ASSUME StoreTypeOK, AdminTypeOK, NEW r \in Reqs, FinishDelete(r)
    PROVE  /\ req[r] \in Request /\ Answered(r) /\ objects' = objects
           /\ req[r].slug \in Slugs
           /\ promised' = promised
           /\ \/ /\ Exists(req[r].slug) /\ Removes(req[r].slug)
                 /\ Confuse(req[r])
              \/ /\ UNCHANGED <<storeVars, abandoned>>
                 /\ damaged' = damaged \cup {req[r].key}
<1>1. req[r] \in Request /\ req[r].slug \in Slugs
  BY DEF FinishDelete, AtWrite, AdminTypeOK, Request
<1> QED
  BY <1>1, DeleteEffect DEF FinishDelete, StopHalfway

LEMMA AdminTable ==
    ASSUME StoreTypeOK, AdminTypeOK, RowsAreIssued, AdminNext
    PROVE  TableStep
<1>1. ASSUME NEW s \in Slugs, NEW t \in Slugs, Rotate(s, t)
      PROVE  Moves(s, t)
  BY <1>1, RotateSlugEffect DEF Rotate
<1>2. ASSUME NEW r \in Reqs, FinishReplace(r)
      PROVE  TableStep
  BY <1>2, FinishReplaceEffect, UnchangedEffect DEF TableStep
<1>3. ASSUME NEW r \in Reqs, FinishDelete(r)
      PROVE  TableStep
  BY <1>3, FinishDeleteEffect, UnchangedEffect DEF TableStep
<1>4. ASSUME NEW r \in Reqs,
             \/ \E s \in Slugs, e \in Exts : StartReplace(r, s, e)
             \/ \E s \in Slugs : StartDelete(r, s)
             \/ DeleteObject(r)
      PROVE  Keeps
  BY <1>4, UnchangedEffect DEF StartReplace, StartDelete, Start, DeleteObject
<1> QED
  BY <1>1, <1>2, <1>3, <1>4, UploadEffect, EditEffect DEF AdminNext, TableStep

LEMMA ListenerTable ==
    ASSUME StoreTypeOK, ListenerTypeOK, ListenerNext
    PROVE  Keeps /\ \A t \in Slugs : Exists(t) => tracks'[t].status = tracks[t].status
<1>1. CASE UNCHANGED storeVars
  BY <1>1, UnchangedEffect DEF storeVars
<1>2. ASSUME NEW l \in Listeners, Exists(hearing[l]), IncrementPlayCount(hearing[l]),
             hearing[l] # Silent
      PROVE  Keeps /\ \A t \in Slugs : Exists(t) => tracks'[t].status = tracks[t].status
  <2>1. hearing[l] \in Slugs
    BY <1>2 DEF ListenerTypeOK
  <2> QED
    BY <1>2, <2>1, IncrementEffect
<1> QED
  BY <1>1, <1>2 DEF ListenerNext, LookupPlay, RecordPlay

LEMMA WorldTable ==
    ASSUME StoreTypeOK, World
    PROVE  Keeps /\ \A t \in Slugs : Exists(t) => tracks'[t].status = tracks[t].status
<1>1. CASE UNCHANGED storeVars
  BY <1>1, UnchangedEffect DEF storeVars
<1>2. ASSUME NEW s \in Slugs, NEW x \in Past, Lapse(s, x)
      PROVE  Keeps /\ \A t \in Slugs : Exists(t) => tracks'[t].status = tracks[t].status
  BY <1>2, UpdateTrackEffect, ExpiryAssumption DEF Lapse
<1> QED
  BY <1>1, <1>2 DEF World, BrowserPut, Drop, Stray, Crash

LEMMA NextTable ==
    ASSUME TypeOK, RowsAreIssued, [Next]_vars
    PROVE  TableStep
<1>1. CASE PollerNext
  <2>1. Keeps \/ \E s \in Slugs : Inserts(s, msg.key) /\ phase = "create"
    BY <1>1, PollerTable DEF TypeOK
  <2>2. phase = "create" => msg.key \in ObjectKeys
    BY DEF TypeOK, PollerTypeOK, Ingesting, Message
  <2> QED
    BY <2>1, <2>2 DEF TableStep
<1>2. CASE AdminNext
  BY <1>2, AdminTable DEF TypeOK
<1>3. CASE ListenerNext
  BY <1>3, ListenerTable DEF TypeOK, TableStep
<1>4. CASE World
  BY <1>4, WorldTable DEF TypeOK, TableStep
<1>5. CASE UNCHANGED vars
  BY <1>5, UnchangedEffect DEF vars, TableStep
<1> QED
  BY <1>1, <1>2, <1>3, <1>4, <1>5 DEF Next

(***************************************************************************)
(* Keys stay unique and dead slugs stay dead: both follow from what a step *)
(* can do to the table.                                                    *)
(***************************************************************************)
TableInv == RowsAreIssued /\ UniqueKeys

LEMMA TableInvStep ==
    ASSUME StoreTypeOK, TableInv, TableStep
    PROVE  TableInv'
<1> USE DEF TableInv, RowsAreIssued, UniqueKeys, Exists
<1>1. CASE Keeps
  BY <1>1 DEF Keeps
<1>2. ASSUME NEW s \in Slugs, NEW k \in ObjectKeys, Inserts(s, k) \/ Repoints(s, k)
      PROVE  TableInv'
  <2>1. /\ used \subseteq used' /\ s \in used'
        /\ tracks'[s].key = k
        /\ \A t \in Slugs \ {s} : tracks'[t] = tracks[t]
        /\ \A t \in Slugs \ {s} : Exists(t) => tracks[t].key # k
    BY <1>2 DEF Inserts, Repoints, Others, KeyFreeFor, GetByObjectKey
  <2>2. RowsAreIssued'
    BY <2>1
  <2>3. ASSUME NEW t \in Slugs, NEW u \in Slugs, t # u,
               tracks'[t] # NoRow, tracks'[u] # NoRow
        PROVE  tracks'[t].key # tracks'[u].key
    <3>1. CASE t = s
      BY <2>1, <2>3, <3>1
    <3>2. CASE u = s
      BY <2>1, <2>3, <3>2
    <3>3. CASE t # s /\ u # s
      BY <2>1, <2>3, <3>3
    <3> QED
      BY <3>1, <3>2, <3>3
  <2> QED
    BY <2>2, <2>3
<1>3. ASSUME NEW s \in Slugs, NEW t \in Slugs, Moves(s, t)
      PROVE  TableInv'
  <2>1. tracks[t] = NoRow
    BY <1>3 DEF Moves
  <2> QED
    BY <1>3, <2>1 DEF Moves, Others
<1>4. ASSUME NEW s \in Slugs, Removes(s)
      PROVE  TableInv'
  BY <1>4 DEF Removes, Others
<1> QED
  BY <1>1, <1>2, <1>3, <1>4 DEF TableStep

LEMMA DeadStep ==
    ASSUME StoreTypeOK, TableInv, TableStep
    PROVE  \A s \in used : ~Exists(s) => ~Exists(s)'
<1> SUFFICES ASSUME NEW s \in used, tracks[s] = NoRow
             PROVE  tracks'[s] = NoRow
  BY DEF Exists
<1>1. s \in Slugs
  BY DEF StoreTypeOK
<1> QED
  BY <1>1 DEF TableStep, Keeps, Inserts, Repoints, Moves, Removes, Others, Exists

LEMMA TableInvariant == Spec => [](TypeOK /\ TableInv)
<1>1. Init => TableInv
  BY DEF Init, StoreInit, TableInv, RowsAreIssued, UniqueKeys, Exists
<1>2. TypeOK /\ TableInv /\ [Next]_vars => TableInv'
  BY NextTable, TableInvStep DEF TypeOK, TableInv
<1> QED
  BY <1>1, <1>2, TypeInit, TypeStep, PTL DEF Spec

\* No two rows ever hold one key: every statement that gives a row a key does
\* so past the UNIQUE constraint, and a rotation moves the key with the row.
THEOREM KeysStayUnique == Spec => []UniqueKeys
BY TableInvariant, PTL DEF TableInv

\* Once a slug has been issued and lost its row it never has one again: an
\* INSERT or a rotation draws a fresh slug, and an UPDATE of a slug without a
\* row, the poller's included, changes nothing.
THEOREM DeadSlugsStayDead == Spec => RetiredSlugsStayDead
<1>1. TypeOK /\ TableInv /\ [Next]_vars
      => [\A s \in used : ~Exists(s) => ~Exists(s)']_vars
  BY NextTable, DeadStep DEF TypeOK, TableInv
<1> QED
  BY <1>1, TableInvariant, PTL DEF Spec, RetiredSlugsStayDead
=============================================================================
