------------------------------- MODULE Cloud -------------------------------
(***************************************************************************)
(* The services the program runs against, as it uses them: the R2 bucket   *)
(* (internal/r2/r2.go), the event rule that queues a message for every     *)
(* object created (infra/opentofu/queue.tf) and the Cloudflare queue the   *)
(* poller pulls from.  Calls may fail, at most MaxFaults times.            *)
(*                                                                         *)
(* The queue delivers at least once: a message is there until an ack for   *)
(* it gets through, and a pull returns any of them in any order.           *)
(***************************************************************************)
EXTENDS Store

CONSTANTS
    MaxPuts,    \* bound on the messages sent, hence on the objects written
    MaxFaults   \* bound on the calls to R2, the queue or SQLite that fail

ASSUME CloudAssumption == MaxPuts \in Nat /\ MaxFaults \in Nat

VARIABLES
    objects,    \* the keys that exist in the bucket
    queue,      \* the messages not acknowledged yet
    sent,       \* messages sent so far; the id of the next one
    faults      \* calls that have failed so far

cloudVars == <<objects, queue, sent, faults>>

\* "create" stands for PutObject, CopyObject and CompleteMultipartUpload
Actions == {"create", "other", "malformed"}
Message == [id: Nat, action: Actions, key: ObjectKeys]

CloudTypeOK ==
    /\ objects \subseteq ObjectKeys
    /\ queue \subseteq Message
    /\ sent \in Nat
    /\ faults \in Nat

CloudInit ==
    /\ objects = {}
    /\ queue = {}
    /\ sent = 0
    /\ faults = 0

Send(action, k) ==
    /\ sent < MaxPuts
    /\ sent' = sent + 1
    /\ queue' = queue \cup {[id |-> sent, action |-> action, key |-> k]}
    /\ UNCHANGED faults

PutObject(k) ==
    /\ Send("create", k)
    /\ objects' = objects \cup {k}

Fault ==
    /\ faults < MaxFaults
    /\ faults' = faults + 1

\* a create event for k is still to be handled
Announced(k) == \E m \in queue : m.action = "create" /\ m.key = k
=============================================================================
