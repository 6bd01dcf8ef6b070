---------------------------- MODULE StoreProofs ----------------------------
(***************************************************************************)
(* The statements of Store, for every table: one that writes a row writes  *)
(* a Row.                                                                  *)
(***************************************************************************)
EXTENDS Store, TLAPS

LEMMA InsertType ==
    ASSUME StoreTypeOK, NEW s \in Slugs, NEW k \in ObjectKeys, NEW x \in Expiries,
           Insert(s, k, x)
    PROVE  StoreTypeOK'
BY DEF StoreTypeOK, Insert, Row, Statuses

LEMMA SetStatusType ==
    ASSUME StoreTypeOK, NEW s \in Slugs, NEW st \in Statuses, SetStatus(s, st),
           UNCHANGED used
    PROVE  StoreTypeOK'
<1>1. CASE Exists(s)
  <2>1. [tracks[s] EXCEPT !.status = st] \in Row
    BY <1>1 DEF StoreTypeOK, Exists, Row
  <2> QED
    BY <1>1, <2>1 DEF StoreTypeOK, SetStatus
<1>2. CASE ~Exists(s)
  BY <1>2 DEF StoreTypeOK, SetStatus
<1> QED
  BY <1>1, <1>2

LEMMA UpdateTrackType ==
    ASSUME StoreTypeOK, NEW s \in Slugs, NEW x \in Expiries, Exists(s),
           UpdateTrack(s, x)
    PROVE  StoreTypeOK'
<1>1. [tracks[s] EXCEPT !.expires = x] \in Row
  BY DEF StoreTypeOK, Exists, Row
<1> QED
  BY <1>1 DEF StoreTypeOK, UpdateTrack

LEMMA BeginReplaceType ==
    ASSUME StoreTypeOK, NEW s \in Slugs, NEW k \in ObjectKeys, Exists(s),
           BeginReplace(s, k)
    PROVE  StoreTypeOK'
<1>1. [[tracks[s] EXCEPT !.key = k] EXCEPT !.status = "pending"] \in Row
  BY DEF StoreTypeOK, Exists, Row, Statuses
<1>2. tracks' = [tracks EXCEPT ![s] = [[tracks[s] EXCEPT !.key = k] EXCEPT !.status = "pending"]]
  BY DEF BeginReplace, StoreTypeOK
<1> QED
  BY <1>1, <1>2 DEF StoreTypeOK, BeginReplace

LEMMA RotateSlugType ==
    ASSUME StoreTypeOK, NEW s \in Slugs, NEW t \in Slugs, RotateSlug(s, t)
    PROVE  StoreTypeOK'
BY DEF StoreTypeOK, RotateSlug

LEMMA IncrementType ==
    ASSUME StoreTypeOK, NEW s \in Slugs, Exists(s), IncrementPlayCount(s)
    PROVE  StoreTypeOK'
<1>1. [tracks[s] EXCEPT !.plays = @ + 1] \in Row
  BY DEF StoreTypeOK, Exists, Row
<1> QED
  BY <1>1 DEF StoreTypeOK, IncrementPlayCount

LEMMA DeleteType ==
    ASSUME StoreTypeOK, NEW s \in Slugs, Delete(s)
    PROVE  StoreTypeOK'
BY DEF StoreTypeOK, Delete

(***************************************************************************)
(* Only an INSERT and UpdateTrack change an expiry.                        *)
(***************************************************************************)
KeepsExpiry ==
    /\ used' = used
    /\ \A t \in Slugs : Exists(t)' => Exists(t) /\ tracks'[t].expires = tracks[t].expires

LEMMA SetStatusKeepsExpiry ==
    ASSUME StoreTypeOK, NEW s \in Slugs, NEW st, SetStatus(s, st), UNCHANGED used
    PROVE  KeepsExpiry
<1>1. CASE Exists(s)
  <2>1. tracks' = [tracks EXCEPT ![s] = [tracks[s] EXCEPT !.status = st]]
    BY <1>1 DEF SetStatus
  <2>2. [tracks[s] EXCEPT !.status = st].expires = tracks[s].expires
    BY <1>1 DEF StoreTypeOK, Exists, Row
  <2> QED
    BY <1>1, <2>1, <2>2 DEF KeepsExpiry, Exists, StoreTypeOK
<1>2. CASE ~Exists(s)
  BY <1>2 DEF SetStatus, KeepsExpiry, Exists
<1> QED
  BY <1>1, <1>2

LEMMA BeginReplaceKeepsExpiry ==
    ASSUME StoreTypeOK, NEW s \in Slugs, NEW k, Exists(s), BeginReplace(s, k)
    PROVE  KeepsExpiry
<1> DEFINE row == [[tracks[s] EXCEPT !.key = k] EXCEPT !.status = "pending"]
<1>1. tracks' = [tracks EXCEPT ![s] = row]
  BY DEF BeginReplace, StoreTypeOK
<1>2. row.expires = tracks[s].expires
  BY DEF StoreTypeOK, Exists, Row
<1> QED
  BY <1>1, <1>2 DEF BeginReplace, KeepsExpiry, Exists, StoreTypeOK

LEMMA IncrementKeepsExpiry ==
    ASSUME StoreTypeOK, NEW s \in Slugs, Exists(s), IncrementPlayCount(s)
    PROVE  KeepsExpiry
<1>1. [tracks[s] EXCEPT !.plays = @ + 1].expires = tracks[s].expires
  BY DEF StoreTypeOK, Exists, Row
<1> QED
  BY <1>1 DEF IncrementPlayCount, KeepsExpiry, Exists, StoreTypeOK

LEMMA DeleteKeepsExpiry ==
    ASSUME StoreTypeOK, NEW s \in Slugs, Delete(s)
    PROVE  KeepsExpiry
BY DEF Delete, KeepsExpiry, Exists, StoreTypeOK
=============================================================================
