------------------------------- MODULE Store -------------------------------
(***************************************************************************)
(* The tracks table (internal/store/store.go over the schema of            *)
(* internal/db/migrations).  Every operator below is one SQL statement, so *)
(* it is atomic; what a handler does between two statements is up to the   *)
(* modules that extend this one.                                           *)
(*                                                                         *)
(* A row keeps the columns that decide what a visitor sees: the object it  *)
(* points at, its status, its play count and its expiry.  Title,           *)
(* description, downloadable, content type, size and the two timestamps    *)
(* are payload that no guard of the program reads.                         *)
(***************************************************************************)
EXTENDS Integers, FiniteSets

CONSTANTS
    Slugs,      \* the ids idgen.New can draw (62^10 of them in the program)
    Exts,       \* file extensions, "" included: an upload's key is slug + ext
    DropNames,  \* names of the files rclone drops into the bucket
    Expiries,   \* expires_at as seen from the present
    Never,      \* the expiry NULL
    Past,       \* the expiries that lie in the past
    NoRow       \* what a slug without a row maps to

ASSUME SlugsAssumption == IsFiniteSet(Slugs)

ASSUME ExpiryAssumption ==
    /\ Past \subseteq Expiries
    /\ Never \in Expiries \ Past

VARIABLES
    tracks,     \* the table, by its primary key: slug -> row or NoRow
    used        \* the slugs drawn so far: idgen draws 59 random bits, so a
                \* repetition is taken not to happen

storeVars == <<tracks, used>>

ObjectKeys == (Slugs \X Exts) \cup DropNames
Statuses   == {"pending", "ready", "failed"}

Row == [key: ObjectKeys, status: Statuses, plays: Nat, expires: Expiries]

ASSUME NoRowAssumption == NoRow \notin Row

StoreTypeOK ==
    /\ tracks \in [Slugs -> Row \cup {NoRow}]
    /\ used \subseteq Slugs

StoreInit ==
    /\ tracks = [s \in Slugs |-> NoRow]
    /\ used = {}

-----------------------------------------------------------------------------
(* Reads *)

Exists(s) == tracks[s] # NoRow

GetByObjectKey(k) == {s \in Slugs : Exists(s) /\ tracks[s].key = k}

Ready(s) == Exists(s) /\ tracks[s].status = "ready"

Expired(s) == tracks[s].expires \in Past

Fresh(s) == s \notin used

-----------------------------------------------------------------------------
(* Statements.  An UPDATE or DELETE of a slug that has no row touches      *)
(* nothing; where the method turns that into ErrNotFound, the caller tests *)
(* Exists first.                                                           *)

Insert(s, k, x) ==
    /\ used' = used \cup {s}
    /\ tracks' = [tracks EXCEPT ![s] =
           [key |-> k, status |-> "pending", plays |-> 0, expires |-> x]]

\* mutant: object_key without its UNIQUE constraint
KeyMayRepeat(s, k) == TRUE

\* the UNIQUE constraint on object_key: no row but s's may hold k
KeyFreeFor(s, k) == GetByObjectKey(k) \subseteq {s}

CreatePending(s, k, x) == KeyFreeFor(s, k) /\ Insert(s, k, x)

CreateFromDiscovery(s, k) == KeyFreeFor(s, k) /\ Insert(s, k, Never)

SetStatus(s, status) ==
    tracks' = IF Exists(s) THEN [tracks EXCEPT ![s].status = status] ELSE tracks

\* mutant: MarkReady ... WHERE slug = ? AND status = 'pending'
MarkPendingReady(s) ==
    /\ IF Exists(s) /\ tracks[s].status = "pending" THEN SetStatus(s, "ready")
                                                   ELSE UNCHANGED tracks
    /\ UNCHANGED used

\* MarkReady does not look at RowsAffected: a vanished slug is a success
MarkReady(s)  == SetStatus(s, "ready")  /\ UNCHANGED used
MarkFailed(s) == SetStatus(s, "failed") /\ UNCHANGED used

UpdateTrack(s, x) ==
    /\ tracks' = [tracks EXCEPT ![s].expires = x]
    /\ UNCHANGED used

\* mutant: the row is repointed but keeps its status
BeginReplaceStayingReady(s, k) ==
    /\ tracks' = [tracks EXCEPT ![s].key = k]
    /\ UNCHANGED used

BeginReplace(s, k) ==
    /\ tracks' = [tracks EXCEPT ![s].key = k, ![s].status = "pending"]
    /\ UNCHANGED used

\* mutant: the rotated track is copied, and the old row stays
RotateByCopy(s, t) ==
    /\ tracks' = [tracks EXCEPT ![t] = tracks[s]]
    /\ used' = used \cup {t}

RotateSlug(s, t) ==
    /\ tracks' = [tracks EXCEPT ![t] = tracks[s], ![s] = NoRow]
    /\ used' = used \cup {t}

IncrementPlayCount(s) ==
    /\ tracks' = [tracks EXCEPT ![s].plays = @ + 1]
    /\ UNCHANGED used

Delete(s) ==
    /\ tracks' = [tracks EXCEPT ![s] = NoRow]
    /\ UNCHANGED used
=============================================================================
