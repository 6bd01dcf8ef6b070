------------------------------- MODULE Admin -------------------------------
(***************************************************************************)
(* The artist's side of the web server (internal/web/upload.go, replace.go *)
(* and admin.go).  A handler that makes one call that changes state is one *)
(* action; replace and delete make two, first to R2 and then to the table, *)
(* so each keeps what it read in a request between its steps.              *)
(*                                                                         *)
(* One request slot is an artist who waits for each answer; two are two    *)
(* tabs.  A handler that ends before its first write (404, a failed        *)
(* lookup, a bad form) changes nothing and is no action.                   *)
(***************************************************************************)
EXTENDS Cloud

CONSTANTS
    Reqs,       \* request slots
    NoReq,      \* a slot without a request
    Ops,        \* operations the artist uses in this instance
    Offered     \* expiries the artist may choose in this instance

Operations == {"upload", "replace", "delete", "rotate", "edit"}

Request == [op: {"replace", "delete"}, at: {"deleteObject", "writeRow"},
            slug: Slugs, key: ObjectKeys, newKey: ObjectKeys]

ASSUME AdminAssumption ==
    /\ NoReq \notin Request
    /\ Ops \subseteq Operations
    /\ Offered \subseteq Expiries

VARIABLES
    req,        \* slot -> request being served
    grants,     \* keys a presigned PUT URL has been handed out for
    promised,   \* history: keys a replacement has pointed a row at
    damaged,    \* history: keys whose object a two-step request has removed,
                \* or may have, without seeing to the row that points at it
    abandoned,  \* history: keys that two overlapping steps may have left in
                \* the bucket without a row or an event
    erased      \* history: plays of the rows deleted so far

adminVars == <<req, grants, promised, damaged, abandoned, erased>>

AdminTypeOK ==
    /\ req \in [Reqs -> Request \cup {NoReq}]
    /\ grants \subseteq ObjectKeys
    /\ promised \subseteq ObjectKeys
    /\ damaged \subseteq ObjectKeys
    /\ abandoned \subseteq ObjectKeys
    /\ erased \in Nat

AdminInit ==
    /\ req = [r \in Reqs |-> NoReq]
    /\ grants = {}
    /\ promised = {}
    /\ damaged = {}
    /\ abandoned = {}
    /\ erased = 0

\* keys whose object a request has deleted that has yet to write the row
HalfDone ==
    {req[r].key : r \in {x \in Reqs : req[x] # NoReq /\ req[x].at = "writeRow"}}

CanServe(op) == op \in Ops /\ \E r \in Reqs : req[r] = NoReq

Answered(r) == req' = [req EXCEPT ![r] = NoReq]

-----------------------------------------------------------------------------
(* Handlers with one write *)

\* handleUploadRequest
Upload(s, e, x) ==
    /\ CanServe("upload")
    /\ Fresh(s)
    /\ CreatePending(s, <<s, e>>, x)
    /\ grants' = grants \cup {<<s, e>>}
    /\ UNCHANGED <<req, promised, damaged, abandoned, erased, cloudVars>>

\* handleEditSubmit
Edit(s, x) ==
    /\ CanServe("edit")
    /\ Exists(s)
    /\ UpdateTrack(s, x)
    /\ UNCHANGED <<adminVars, cloudVars>>

\* handleRotateSlug
Rotate(s, t) ==
    /\ CanServe("rotate")
    /\ Exists(s) /\ Fresh(t)
    /\ RotateSlug(s, t)
    /\ UNCHANGED <<adminVars, cloudVars>>

-----------------------------------------------------------------------------
(* handleReplaceRequest and handleDelete: GetBySlug, then r2.Delete, then  *)
(* the statement on the row.                                               *)

Start(r, op, s, k) ==
    /\ op \in Ops
    /\ req[r] = NoReq
    /\ Exists(s)
    /\ req' = [req EXCEPT ![r] =
           [op |-> op, at |-> "deleteObject", slug |-> s,
            key |-> tracks[s].key, newKey |-> k]]
    /\ UNCHANGED <<grants, promised, damaged, abandoned, erased, storeVars, cloudVars>>

StartReplace(r, s, e) == Start(r, "replace", s, <<s, e>>)

StartDelete(r, s) == Start(r, "delete", s, tracks[s].key)

\* mutant: an error of r2.Delete is logged and the handler goes on
DeleteObjectIgnoringError(r) ==
    /\ req[r] # NoReq /\ req[r].at = "deleteObject"
    /\ req' = [req EXCEPT ![r].at = "writeRow"]
    /\ \/ objects' = objects \ {req[r].key} /\ UNCHANGED faults
       \/ Fault /\ UNCHANGED objects
    /\ UNCHANGED <<grants, promised, damaged, abandoned, erased, storeVars, queue, sent>>

\* r2.Delete.  After an error the handler answers 500 and stops; the object
\* may be gone all the same.
DeleteObject(r) ==
    /\ req[r] # NoReq /\ req[r].at = "deleteObject"
    /\ \/ /\ objects' = objects \ {req[r].key}
          /\ req' = [req EXCEPT ![r].at = "writeRow"]
          /\ UNCHANGED <<damaged, faults>>
       \/ /\ Fault
          /\ objects' \in {objects, objects \ {req[r].key}}
          /\ Answered(r)
          /\ damaged' = damaged \cup {req[r].key}
    /\ UNCHANGED <<grants, promised, abandoned, erased, storeVars, queue, sent>>

AtWrite(r, op) == req[r] # NoReq /\ req[r].at = "writeRow" /\ req[r].op = op

\* The second step comes too late: the row has been pointed at another key
\* since the handler looked it up.
Overtaken(q) == tracks[q.slug].key # q.key

\* It leaves the object behind that other key, and has removed one that may
\* belong to another row by now.
Confuse(q) ==
    /\ damaged'   = damaged   \cup (IF Overtaken(q) THEN {q.key} ELSE {})
    /\ abandoned' = abandoned \cup (IF Overtaken(q) THEN {tracks[q.slug].key} ELSE {})

\* 500: ErrNotFound, the UNIQUE constraint or SQLite; the object is gone
StopHalfway(r, refused) ==
    /\ \/ refused /\ UNCHANGED faults
       \/ Fault
    /\ damaged' = damaged \cup {req[r].key}
    /\ UNCHANGED <<storeVars, grants, promised, abandoned, erased>>

\* mutant: the replacement inserts the row when the slug has none
FinishReplaceUpserting(r) ==
    /\ AtWrite(r, "replace")
    /\ Answered(r)
    /\ LET q == req[r]
       IN  /\ KeyFreeFor(q.slug, q.newKey)
           /\ \/ Exists(q.slug) /\ BeginReplace(q.slug, q.newKey)
              \/ ~Exists(q.slug) /\ Insert(q.slug, q.newKey, Never)
           /\ grants' = grants \cup {q.newKey}
           /\ promised' = promised \cup {q.newKey}
    /\ UNCHANGED <<damaged, abandoned, erased, cloudVars>>

\* BeginReplace, then the PUT URL for the new key
FinishReplace(r) ==
    /\ AtWrite(r, "replace")
    /\ Answered(r)
    /\ LET q  == req[r]
           ok == Exists(q.slug) /\ KeyFreeFor(q.slug, q.newKey)
       IN  \/ /\ ok
              /\ BeginReplace(q.slug, q.newKey)
              /\ grants' = grants \cup {q.newKey}
              /\ promised' = promised \cup {q.newKey}
              /\ Confuse(q)
              /\ UNCHANGED <<erased, faults>>
           \/ StopHalfway(r, ~ok)
    /\ UNCHANGED <<objects, queue, sent>>

\* store.Delete
FinishDelete(r) ==
    /\ AtWrite(r, "delete")
    /\ Answered(r)
    /\ LET q == req[r]
       IN  \/ /\ Exists(q.slug)
              /\ Delete(q.slug)
              /\ erased' = erased + tracks[q.slug].plays
              /\ Confuse(q)
              /\ UNCHANGED <<grants, promised, faults>>
           \/ StopHalfway(r, ~Exists(q.slug))
    /\ UNCHANGED <<objects, queue, sent>>

AdminNext ==
    \/ \E s \in Slugs, e \in Exts, x \in Offered \ Past : Upload(s, e, x)
    \/ \E s \in Slugs, x \in Offered : Edit(s, x)
    \/ \E s \in Slugs, t \in Slugs : Rotate(s, t)
    \/ \E r \in Reqs, s \in Slugs, e \in Exts : StartReplace(r, s, e)
    \/ \E r \in Reqs, s \in Slugs : StartDelete(r, s)
    \/ \E r \in Reqs : DeleteObject(r) \/ FinishReplace(r) \/ FinishDelete(r)

\* An object is written again while a request that has deleted it has yet to
\* write the row.
Rewritten(k) ==
    /\ abandoned' = abandoned \cup (HalfDone \cap {k})
    /\ UNCHANGED <<req, grants, promised, damaged, erased>>

AdminCrash ==
    /\ req' = [r \in Reqs |-> NoReq]
    /\ damaged' = damaged \cup HalfDone
    /\ UNCHANGED <<grants, promised, abandoned, erased>>
=============================================================================
