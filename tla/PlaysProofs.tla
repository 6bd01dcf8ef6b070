---------------------------- MODULE PlaysProofs ----------------------------
(***************************************************************************)
(* No play is lost or invented.  A slug without a row counts no plays, so  *)
(* the plays of the live tracks are a sum over all slugs, of which every   *)
(* step changes one summand at most, except that a rotation moves one.     *)
(***************************************************************************)
EXTENDS TransientsProofs, SumProofs

Count == [s \in Slugs |-> IF Exists(s) THEN tracks[s].plays ELSE 0]

AllPlays == Total(Count, Slugs)

PlaysAddUp == AllPlays + erased = recorded

LEMMA CountType ==
    ASSUME StoreTypeOK
    PROVE  /\ \A s \in Slugs : Count[s] \in Nat
           /\ AllPlays \in Nat
<1>1. \A s \in Slugs : Count[s] \in Nat
  BY DEF Count, StoreTypeOK, Exists, Row
<1>2. Total(Count, Slugs) \in Nat
  BY <1>1, SlugsAssumption, TotalNat
<1> QED
  BY <1>1, <1>2 DEF AllPlays

LEMMA NextCountType ==
    ASSUME StoreTypeOK'
    PROVE  /\ \A s \in Slugs : Count'[s] \in Nat
           /\ AllPlays' \in Nat
<1>1. \A s \in Slugs : Count'[s] \in Nat
  BY DEF Count, StoreTypeOK, Exists, Row
<1>2. Total(Count', Slugs) \in Nat
  BY <1>1, SlugsAssumption, TotalNat
<1> QED
  BY <1>1, <1>2 DEF AllPlays

\* Where one count changes, the sum changes by as much.
LEMMA OneCountChanges ==
    ASSUME StoreTypeOK, StoreTypeOK', NEW s \in Slugs,
           \A t \in Slugs \ {s} : Count[t] = Count'[t]
    PROVE  AllPlays' + Count[s] = AllPlays + Count'[s]
<1>1. \A t \in Slugs : Count[t] \in Nat /\ Count'[t] \in Nat
  BY CountType, NextCountType
<1>2. Total(Count', Slugs) + Count[s] = Total(Count, Slugs) + Count'[s]
  BY <1>1, SlugsAssumption, TotalChange
<1> QED
  BY <1>2 DEF AllPlays

(***************************************************************************)
(* What each statement does to the counts.                                 *)
(***************************************************************************)

\* A row is rewritten with the plays it had.
LEMMA RewriteKeepsCount ==
    ASSUME StoreTypeOK, NEW s \in Slugs, Exists(s), NEW row \in Row,
           row.plays = tracks[s].plays, tracks' = [tracks EXCEPT ![s] = row]
    PROVE  UNCHANGED Count
<1>1. \A t \in Slugs : Exists(t)' <=> Exists(t)
  BY NoRowAssumption DEF StoreTypeOK, Exists
<1>2. \A t \in Slugs : Exists(t) => tracks'[t].plays = tracks[t].plays
  BY DEF StoreTypeOK
<1> QED
  BY <1>1, <1>2 DEF Count

LEMMA SetStatusKeepsCount ==
    ASSUME StoreTypeOK, NEW s \in Slugs, NEW st \in Statuses, SetStatus(s, st)
    PROVE  UNCHANGED Count
<1>1. CASE Exists(s)
  <2> DEFINE row == [tracks[s] EXCEPT !.status = st]
  <2>1. row \in Row /\ row.plays = tracks[s].plays
    BY <1>1 DEF StoreTypeOK, Exists, Row
  <2>2. tracks' = [tracks EXCEPT ![s] = row]
    BY <1>1 DEF SetStatus
  <2> HIDE DEF row
  <2> QED
    BY <1>1, <2>1, <2>2, RewriteKeepsCount
<1>2. CASE ~Exists(s)
  BY <1>2 DEF SetStatus, Count, Exists
<1> QED
  BY <1>1, <1>2

LEMMA UpdateTrackKeepsCount ==
    ASSUME StoreTypeOK, NEW s \in Slugs, NEW x \in Expiries, Exists(s),
           tracks' = [tracks EXCEPT ![s].expires = x]
    PROVE  UNCHANGED Count
<1> DEFINE row == [tracks[s] EXCEPT !.expires = x]
<1>1. row \in Row /\ row.plays = tracks[s].plays
  BY DEF StoreTypeOK, Exists, Row
<1>2. tracks' = [tracks EXCEPT ![s] = row]
  OBVIOUS
<1> HIDE DEF row
<1> QED
  BY <1>1, <1>2, RewriteKeepsCount

LEMMA BeginReplaceKeepsCount ==
    ASSUME StoreTypeOK, NEW s \in Slugs, NEW k \in ObjectKeys, Exists(s),
           BeginReplace(s, k)
    PROVE  UNCHANGED Count
<1> DEFINE row == [[tracks[s] EXCEPT !.key = k] EXCEPT !.status = "pending"]
<1>1. row \in Row /\ row.plays = tracks[s].plays
  BY DEF StoreTypeOK, Exists, Row, Statuses
<1>2. tracks' = [tracks EXCEPT ![s] = row]
  BY DEF BeginReplace, StoreTypeOK
<1> HIDE DEF row
<1> QED
  BY <1>1, <1>2, RewriteKeepsCount

\* A new row has no plays.
LEMMA InsertKeepsCount ==
    ASSUME StoreTypeOK, RowsAreIssued, NEW s \in Slugs, NEW k, NEW x,
           Fresh(s), Insert(s, k, x)
    PROVE  UNCHANGED Count
<1>1. ~Exists(s) /\ \A t \in Slugs \ {s} : tracks'[t] = tracks[t]
  BY DEF Fresh, RowsAreIssued, Insert, StoreTypeOK
<1>2. tracks'[s].plays = 0
  BY DEF Insert, StoreTypeOK
<1> QED
  BY <1>1, <1>2 DEF Count, Exists

LEMMA IncrementAddsOne ==
    ASSUME StoreTypeOK, StoreTypeOK', NEW s \in Slugs, Exists(s), IncrementPlayCount(s)
    PROVE  AllPlays' = AllPlays + 1
<1> DEFINE row == [tracks[s] EXCEPT !.plays = @ + 1]
<1>1. row \in Row /\ row.plays = tracks[s].plays + 1 /\ tracks[s].plays \in Nat
  BY DEF StoreTypeOK, Exists, Row
<1>2. tracks' = [tracks EXCEPT ![s] = row]
  BY DEF IncrementPlayCount
<1> HIDE DEF row
<1>3. /\ Count'[s] = Count[s] + 1 /\ Count[s] \in Nat
      /\ \A t \in Slugs \ {s} : Count[t] = Count'[t]
  BY <1>1, <1>2, NoRowAssumption DEF Count, Exists, StoreTypeOK
<1>4. AllPlays' + Count[s] = AllPlays + Count'[s]
  BY <1>3, OneCountChanges
<1> QED
  BY <1>3, <1>4, CountType, NextCountType

LEMMA DeleteTakesPlays ==
    ASSUME StoreTypeOK, StoreTypeOK', NEW s \in Slugs, Exists(s), Delete(s)
    PROVE  AllPlays' + tracks[s].plays = AllPlays
<1>1. /\ Count'[s] = 0 /\ Count[s] = tracks[s].plays /\ Count[s] \in Nat
      /\ \A t \in Slugs \ {s} : Count[t] = Count'[t]
  BY CountType DEF Delete, Count, Exists, StoreTypeOK
<1>2. AllPlays' + Count[s] = AllPlays + Count'[s]
  BY <1>1, OneCountChanges
<1> QED
  BY <1>1, <1>2, CountType, NextCountType

\* A rotation moves the plays with the row.
LEMMA RotateKeepsPlays ==
    ASSUME StoreTypeOK, StoreTypeOK', RowsAreIssued, NEW s \in Slugs, NEW t \in Slugs,
           Exists(s), Fresh(t), RotateSlug(s, t)
    PROVE  AllPlays' = AllPlays
<1> DEFINE gone == [Count EXCEPT ![s] = 0]
<1>1. s # t /\ ~Exists(t)
  BY DEF Fresh, RowsAreIssued
<1>2. /\ Count[t] = 0 /\ Count'[s] = 0 /\ Count'[t] = Count[s]
      /\ \A u \in Slugs \ {s, t} : Count[u] = Count'[u]
  BY <1>1 DEF RotateSlug, Count, Exists, StoreTypeOK
<1>3. /\ gone[s] = 0 /\ gone[t] = 0
      /\ \A u \in Slugs \ {s} : Count[u] = gone[u]
      /\ \A u \in Slugs \ {t} : gone[u] = Count'[u]
  BY <1>1, <1>2 DEF Count
<1>4. \A u \in Slugs : Count[u] \in Nat /\ gone[u] \in Nat /\ Count'[u] \in Nat
  BY CountType, NextCountType
<1> HIDE DEF gone
<1>5. Total(gone, Slugs) + Count[s] = Total(Count, Slugs) + gone[s]
  BY <1>3, <1>4, SlugsAssumption, TotalChange
<1>6. Total(Count', Slugs) + gone[t] = Total(gone, Slugs) + Count'[t]
  BY <1>3, <1>4, SlugsAssumption, TotalChange
<1>7. /\ Total(Count', Slugs) \in Nat /\ Total(Count, Slugs) \in Nat
      /\ Total(gone, Slugs) \in Nat
  BY <1>4, SlugsAssumption, TotalNat
<1>8. Count[s] \in Nat
  BY <1>4
<1> QED
  BY <1>2, <1>3, <1>5, <1>6, <1>7, <1>8 DEF AllPlays

(***************************************************************************)
(* What each step does to the plays.                                       *)
(***************************************************************************)
LEMMA SameCount ==
    ASSUME UNCHANGED Count
    PROVE  AllPlays' = AllPlays
BY DEF AllPlays

LEMMA SameTable ==
    ASSUME UNCHANGED storeVars
    PROVE  AllPlays' = AllPlays
<1>1. UNCHANGED Count
  BY DEF storeVars, Count, Exists
<1> QED
  BY <1>1, SameCount

LEMMA PollerPlays ==
    ASSUME StoreTypeOK, PollerTypeOK, RowsAreIssued, PollerNext
    PROVE  AllPlays' = AllPlays
<1>1. CASE UNCHANGED storeVars
  BY <1>1, SameTable
<1>2. CASE CreateDiscovered
  <2>1. ASSUME NEW s \in Slugs, Fresh(s), CreateFromDiscovery(s, msg.key)
        PROVE  UNCHANGED Count
    BY <2>1, InsertKeepsCount DEF CreateFromDiscovery
  <2> QED
    BY <1>2, <2>1, SameCount, SameTable DEF CreateDiscovered
<1>3. CASE ConfirmReady \/ DropGone \/ FailForNow
  <2>1. track \in Slugs
    BY <1>3 DEF ConfirmReady, DropGone, FailForNow, PollerTypeOK, Ingesting
  <2>2. MarkReady(track) \/ MarkFailed(track) => UNCHANGED Count
    BY <2>1, SetStatusKeepsCount DEF MarkReady, MarkFailed, Statuses
  <2> QED
    BY <1>3, <2>2, SameCount, SameTable DEF ConfirmReady, DropGone, FailForNow
<1> QED
  BY <1>1, <1>2, <1>3 DEF PollerNext, PollerStep, PollEmpty, Pull, TakeMalformed,
     TakeOther, TakeCreate, HeadObject, Ack

LEMMA FinishPlays ==
    ASSUME StoreTypeOK, StoreTypeOK', AdminTypeOK, NEW r \in Reqs,
           FinishReplace(r) \/ FinishDelete(r)
    PROVE  AllPlays' + erased' = AllPlays + erased
<1>1. /\ req[r] \in Request /\ req[r].slug \in Slugs /\ req[r].newKey \in ObjectKeys
      /\ erased \in Nat
  BY DEF FinishReplace, FinishDelete, AtWrite, AdminTypeOK, Request
<1>2. CASE UNCHANGED storeVars /\ UNCHANGED erased
  BY <1>2, SameTable
<1>3. CASE /\ Exists(req[r].slug) /\ BeginReplace(req[r].slug, req[r].newKey)
           /\ UNCHANGED erased
  BY <1>1, <1>3, BeginReplaceKeepsCount, SameCount
<1>4. CASE /\ Exists(req[r].slug) /\ Delete(req[r].slug)
           /\ erased' = erased + tracks[req[r].slug].plays
  <2>1. AllPlays' + tracks[req[r].slug].plays = AllPlays
    BY <1>1, <1>4, DeleteTakesPlays
  <2>2. tracks[req[r].slug].plays \in Nat /\ AllPlays' \in Nat
    BY <1>1, <1>4, NextCountType DEF StoreTypeOK, Exists, Row
  <2> QED
    BY <1>1, <1>4, <2>1, <2>2
<1> QED
  BY <1>2, <1>3, <1>4 DEF FinishReplace, FinishDelete, StopHalfway

LEMMA AdminPlays ==
    ASSUME StoreTypeOK, StoreTypeOK', AdminTypeOK, RowsAreIssued, AdminNext
    PROVE  AllPlays' + erased' = AllPlays + erased
<1>1. ASSUME NEW s \in Slugs, NEW e \in Exts, NEW x \in Offered, Upload(s, e, x)
      PROVE  AllPlays' = AllPlays /\ UNCHANGED erased
  BY <1>1, InsertKeepsCount, SameCount DEF Upload, CreatePending
<1>2. ASSUME NEW s \in Slugs, NEW x \in Offered, Edit(s, x)
      PROVE  AllPlays' = AllPlays /\ UNCHANGED erased
  BY <1>2, UpdateTrackKeepsCount, SameCount, AdminAssumption
     DEF Edit, UpdateTrack, adminVars
<1>3. ASSUME NEW s \in Slugs, NEW t \in Slugs, Rotate(s, t)
      PROVE  AllPlays' = AllPlays /\ UNCHANGED erased
  BY <1>3, RotateKeepsPlays DEF Rotate, adminVars
<1>4. ASSUME NEW r \in Reqs,
             \/ \E s \in Slugs, e \in Exts : StartReplace(r, s, e)
             \/ \E s \in Slugs : StartDelete(r, s)
             \/ DeleteObject(r)
      PROVE  AllPlays' = AllPlays /\ UNCHANGED erased
  BY <1>4, SameTable DEF StartReplace, StartDelete, Start, DeleteObject
<1> QED
  BY <1>1, <1>2, <1>3, <1>4, FinishPlays DEF AdminNext

LEMMA ListenerPlays ==
    ASSUME StoreTypeOK, StoreTypeOK', ListenerTypeOK, ListenerNext
    PROVE  \/ AllPlays' = AllPlays /\ recorded' = recorded
           \/ AllPlays' = AllPlays + 1 /\ recorded' = recorded + 1
<1>1. ASSUME NEW l \in Listeners, RecordPlay(l)
      PROVE  \/ AllPlays' = AllPlays /\ recorded' = recorded
             \/ AllPlays' = AllPlays + 1 /\ recorded' = recorded + 1
  <2>1. hearing[l] \in Slugs
    BY <1>1 DEF RecordPlay, ListenerTypeOK
  <2> QED
    BY <1>1, <2>1, IncrementAddsOne, SameTable DEF RecordPlay
<1>2. ASSUME NEW l \in Listeners, NEW s \in Slugs, LookupPlay(l, s)
      PROVE  AllPlays' = AllPlays /\ recorded' = recorded
  BY <1>2, SameTable DEF LookupPlay, storeVars
<1> QED
  BY <1>1, <1>2 DEF ListenerNext

LEMMA WorldPlays ==
    ASSUME StoreTypeOK, World
    PROVE  AllPlays' = AllPlays /\ UNCHANGED <<erased, recorded>>
<1>1. UNCHANGED <<erased, recorded>>
  BY DEF World, BrowserPut, Drop, Stray, Lapse, Crash, Rewritten, AdminCrash, adminVars,
         listenerVars
<1>2. CASE UNCHANGED storeVars
  BY <1>1, <1>2, SameTable
<1>3. ASSUME NEW s \in Slugs, NEW x \in Past, Lapse(s, x)
      PROVE  AllPlays' = AllPlays
  BY <1>3, UpdateTrackKeepsCount, SameCount, ExpiryAssumption DEF Lapse
<1> QED
  BY <1>1, <1>2, <1>3 DEF World, BrowserPut, Drop, Stray, Crash

LEMMA PlaysStep ==
    ASSUME TypeOK, TypeOK', RowsAreIssued, PlaysAddUp, [Next]_vars
    PROVE  PlaysAddUp'
<1>1. /\ AllPlays \in Nat /\ AllPlays' \in Nat
      /\ erased \in Nat /\ erased' \in Nat /\ recorded \in Nat
  BY CountType, NextCountType DEF TypeOK, AdminTypeOK, ListenerTypeOK
<1>2. CASE PollerNext /\ UNCHANGED <<adminVars, listenerVars, crashes>>
  BY <1>2, PollerPlays DEF TypeOK, PlaysAddUp, adminVars, listenerVars
<1>3. CASE AdminNext /\ UNCHANGED <<pollerVars, listenerVars, crashes>>
  BY <1>3, AdminPlays DEF TypeOK, PlaysAddUp, listenerVars
<1>4. CASE ListenerNext /\ UNCHANGED <<cloudVars, pollerVars, adminVars, crashes>>
  BY <1>1, <1>4, ListenerPlays DEF TypeOK, PlaysAddUp, adminVars
<1>5. CASE World
  BY <1>5, WorldPlays DEF TypeOK, PlaysAddUp
<1>6. CASE UNCHANGED vars
  BY <1>6, SameTable DEF vars, storeVars, adminVars, listenerVars, PlaysAddUp
<1> QED
  BY <1>2, <1>3, <1>4, <1>5, <1>6 DEF Next

(***************************************************************************)
(* The fold over the live tracks is that sum.                              *)
(***************************************************************************)
LEMMA LivePlays ==
    ASSUME StoreTypeOK
    PROVE  PlaysConserved <=> PlaysAddUp
<1> DEFINE Live == {s \in Slugs : Exists(s)}
           it == CHOOSE iter :
                    iter = [T \in SUBSET Live |->
                               IF T = {} THEN 0
                               ELSE LET x == CHOOSE x \in T : TRUE
                                    IN  tracks[x].plays + iter[T \ {x}]]
<1>1. PlaysConserved <=> it[Live] + erased = recorded
  BY DEF PlaysConserved, MapThenSumSet, MapThenFoldSet
<1>2. IsFiniteSet(Live)
  BY SlugsAssumption, FS_Subset
<1>3. /\ \A s \in Slugs : Count[s] \in Nat
      /\ \A s \in Live : Count[s] = tracks[s].plays
      /\ \A s \in Slugs \ Live : Count[s] = 0
  BY CountType DEF Count
<1>4. ASSUME NEW iter
      PROVE  /\ Folds(iter, Count, Live)
             <=> iter = [T \in SUBSET Live |->
                            IF T = {} THEN 0
                            ELSE LET x == CHOOSE x \in T : TRUE
                                 IN  tracks[x].plays + iter[T \ {x}]]
  BY <1>3 DEF Folds
<1>5. Folds(it, Count, Live)
  <2>1. \E iter : Folds(iter, Count, Live)
    BY <1>2, <1>3, FoldExists
  <2> QED
    BY <1>4, <2>1
<1> HIDE DEF it
<1>6. it[Live] = Total(Count, Live)
  BY <1>2, <1>3, <1>5, FoldIsTotal
<1>7. Total(Count, Live) = Total(Count, Slugs)
  BY <1>3, SlugsAssumption, TotalSupport
<1> QED
  BY <1>1, <1>6, <1>7 DEF PlaysAddUp, AllPlays

\* However beacons, rotations, replacements, edits, deletes and restarts
\* interleave, the counters of the live and the deleted tracks add up to the
\* plays the listeners were told of, for any number of tracks.
THEOREM PlaysAreConserved == Spec => []PlaysConserved
<1>1. Init => PlaysAddUp
  <2> SUFFICES ASSUME Init PROVE PlaysAddUp
    OBVIOUS
  <2>1. erased = 0 /\ recorded = 0 /\ \A s \in Slugs : Count[s] = 0
    BY DEF Init, AdminInit, ListenerInit, StoreInit, Count, Exists
  <2>2. Total(Count, Slugs) = 0
    BY <2>1, SlugsAssumption, TotalZero
  <2> QED
    BY <2>1, <2>2 DEF PlaysAddUp, AllPlays
<1>2. TypeOK /\ TypeOK' /\ TableInv /\ PlaysAddUp /\ [Next]_vars => PlaysAddUp'
  BY PlaysStep DEF TableInv
<1>3. TypeOK /\ PlaysAddUp => PlaysConserved
  BY LivePlays DEF TypeOK
<1> QED
  BY TableInvariant, <1>1, <1>2, <1>3, PTL DEF Spec
=============================================================================
