----------------------------- MODULE ShareLinks -----------------------------
(***************************************************************************)
(* What the service promises the holder of a share link, with no poller,   *)
(* no queue and no two-step handlers in sight.  A link shows a page, and   *)
(* behind it is one file:                                                  *)
(*                                                                         *)
(*   - only one link leads to a file, at any time;                         *)
(*   - the file behind a link changes only by taking the link offline;     *)
(*   - a link that has been taken away never works again, and the links of *)
(*     other tracks are not disturbed by it;                               *)
(*   - a rotated track shows the same page with the same file at its new   *)
(*     link, in the very step in which the old one dies.                   *)
(***************************************************************************)
CONSTANTS Slugs, Files, NoFile

VARIABLE link   \* slug -> [page, file]

Pages == {"unissued", "offline", "player", "expired", "gone"}

Served == {"offline", "player", "expired"}

Unissued == [page |-> "unissued", file |-> NoFile]
Gone     == [page |-> "gone", file |-> NoFile]

Unlinked(f, s) == \A t \in Slugs \ {s} : link[t].file # f

Issue(s, f) ==
    /\ link[s] = Unissued
    /\ Unlinked(f, s)
    /\ link' = [link EXCEPT ![s] = [page |-> "offline", file |-> f]]

\* ingest, an edit or the passing of time changes the page, never the file
Show(s, p) ==
    /\ link[s].page \in Served
    /\ link' = [link EXCEPT ![s].page = p]

Swap(s, f) ==
    /\ link[s].page \in Served
    /\ Unlinked(f, s)
    /\ link' = [link EXCEPT ![s] = [page |-> "offline", file |-> f]]

Retire(s) ==
    /\ link[s].page \in Served
    /\ link' = [link EXCEPT ![s] = Gone]

Move(s, t) ==
    /\ link[s].page \in Served
    /\ link[t] = Unissued
    /\ link' = [link EXCEPT ![s] = Gone, ![t] = link[s]]

Init == link = [s \in Slugs |-> Unissued]

Next ==
    \/ \E s \in Slugs, f \in Files : Issue(s, f) \/ Swap(s, f)
    \/ \E s \in Slugs, p \in Served : Show(s, p)
    \/ \E s \in Slugs : Retire(s)
    \/ \E s \in Slugs, t \in Slugs : Move(s, t)

Spec == Init /\ [][Next]_link
=============================================================================
