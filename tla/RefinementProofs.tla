-------------------------- MODULE RefinementProofs --------------------------
(***************************************************************************)
(* Two refinements, and what the second is good for.  The service          *)
(* implements ShareLinks under the mapping of Transients, one lemma per    *)
(* effect of a step on the table.  The service with the artist's browser   *)
(* implements the service, so its scripts may rely on what is proved of    *)
(* the table when they report success.                                     *)
(***************************************************************************)
EXTENDS UploadPage, TransientsProofs

(***************************************************************************)
(* The share links, as Transients maps them.                               *)
(***************************************************************************)
LinkOf(t) == [page |-> Page(t), file |-> FileBehind(t)]

Link == [s \in Slugs |-> LinkOf(s)]

LEMMA PageOfRow ==
    ASSUME NEW t \in Slugs
    PROVE  /\ Page(t) \in {"unissued", "gone"} <=> ~Exists(t)
           /\ Page(t) \in Links!Served <=> Exists(t)
BY DEF Page, Links!Served

\* A link is a function of its row and of whether its slug has been drawn.
LEMMA LinkUnchanged ==
    ASSUME NEW t \in Slugs, tracks'[t] = tracks[t], t \in used' <=> t \in used
    PROVE  LinkOf(t)' = LinkOf(t)
BY DEF LinkOf, Page, FileBehind, Exists, Expired

\* A key that is free for s is behind no other link.
LEMMA FreeIsUnlinked ==
    ASSUME NEW s \in Slugs, NEW k \in ObjectKeys, KeyFreeFor(s, k)
    PROVE  \A t \in Slugs \ {s} : Link[t].file # k
BY NoFileAssumption DEF Link, LinkOf, FileBehind, KeyFreeFor, GetByObjectKey

LEMMA KeepsShows ==
    ASSUME StoreTypeOK, Keeps
    PROVE  UNCHANGED Link \/ \E s \in Slugs, p \in Links!Served : Links!Show(s, p)
<1>1. CASE \A t \in Slugs : tracks'[t] = tracks[t]
  <2>1. \A t \in Slugs : LinkOf(t)' = LinkOf(t)
    BY <1>1, LinkUnchanged DEF Keeps
  <2> QED
    BY <2>1 DEF Link
<1>2. ASSUME NEW s \in Slugs, tracks'[s] # tracks[s]
      PROVE  UNCHANGED Link \/ \E p \in Links!Served : Links!Show(s, p)
  <2>1. \A t \in Slugs \ {s} : LinkOf(t)' = LinkOf(t)
    BY <1>2, LinkUnchanged DEF Keeps
  <2>2. CASE Exists(s)
    <3>1. Exists(s)' /\ FileBehind(s)' = FileBehind(s)
      BY <2>2 DEF Keeps, FileBehind, Exists
    <3>2. Page(s) \in Links!Served /\ Page(s)' \in Links!Served
      BY <2>2, <3>1 DEF Page, Links!Served
    <3>3. Link' = [Link EXCEPT ![s].page = Page(s)']
      BY <2>1, <3>1 DEF Link, LinkOf
    <3>4. Links!Show(s, Page(s)')
      BY <3>2, <3>3 DEF Links!Show, Link, LinkOf
    <3> QED
      BY <3>2, <3>4
  <2>3. CASE ~Exists(s)
    BY <1>2, <2>3 DEF Keeps, Exists
  <2> QED
    BY <2>2, <2>3
<1> QED
  BY <1>1, <1>2

LEMMA InsertIssues ==
    ASSUME StoreTypeOK, RowsAreIssued, NEW s \in Slugs, NEW k \in ObjectKeys,
           Inserts(s, k)
    PROVE  Links!Issue(s, k)
<1>1. ~Exists(s) /\ Link[s] = Links!Unissued
  BY DEF Inserts, RowsAreIssued, Link, LinkOf, Page, FileBehind, Links!Unissued
<1>2. \A t \in Slugs \ {s} : LinkOf(t)' = LinkOf(t)
  BY LinkUnchanged DEF Inserts, Others
<1>3. LinkOf(s)' = [page |-> "offline", file |-> k]
  BY DEF Inserts, LinkOf, Page, FileBehind, Exists
<1>4. Link' = [Link EXCEPT ![s] = [page |-> "offline", file |-> k]]
  BY <1>2, <1>3 DEF Link
<1> QED
  BY <1>1, <1>4, FreeIsUnlinked DEF Links!Issue, Links!Unlinked, Inserts, Link, LinkOf

LEMMA RepointSwaps ==
    ASSUME StoreTypeOK, NEW s \in Slugs, NEW k \in ObjectKeys, Repoints(s, k)
    PROVE  Links!Swap(s, k)
<1>1. Link[s].page \in Links!Served
  BY PageOfRow DEF Repoints, Link, LinkOf
<1>2. \A t \in Slugs \ {s} : LinkOf(t)' = LinkOf(t)
  BY LinkUnchanged DEF Repoints, Others
<1>3. LinkOf(s)' = [page |-> "offline", file |-> k]
  BY DEF Repoints, LinkOf, Page, FileBehind, Exists
<1>4. Link' = [Link EXCEPT ![s] = [page |-> "offline", file |-> k]]
  BY <1>2, <1>3 DEF Link
<1> QED
  BY <1>1, <1>4, FreeIsUnlinked DEF Links!Swap, Links!Unlinked, Repoints, Link, LinkOf

LEMMA RotationMoves ==
    ASSUME StoreTypeOK, RowsAreIssued, NEW s \in Slugs, NEW t \in Slugs, Moves(s, t)
    PROVE  Links!Move(s, t)
<1>1. Link[s].page \in Links!Served
  BY PageOfRow DEF Moves, Link, LinkOf
<1>2. Link[t] = Links!Unissued
  BY DEF Moves, RowsAreIssued, Link, LinkOf, Page, FileBehind, Links!Unissued
<1>3. \A u \in Slugs \ {s, t} : LinkOf(u)' = LinkOf(u)
  BY LinkUnchanged DEF Moves, Others
<1>4. LinkOf(s)' = Links!Gone
  BY DEF Moves, RowsAreIssued, LinkOf, Page, FileBehind, Exists, Links!Gone
<1>5. LinkOf(t)' = LinkOf(s)
  BY DEF Moves, LinkOf, Page, FileBehind, Exists, Expired
<1>6. s # t
  BY DEF Moves
<1>7. Link' = [Link EXCEPT ![s] = Links!Gone, ![t] = Link[s]]
  BY <1>3, <1>4, <1>5, <1>6 DEF Link
<1> QED
  BY <1>1, <1>2, <1>7 DEF Links!Move, Link, LinkOf

LEMMA RemovalRetires ==
    ASSUME StoreTypeOK, RowsAreIssued, NEW s \in Slugs, Removes(s)
    PROVE  UNCHANGED Link \/ Links!Retire(s)
<1>1. \A t \in Slugs \ {s} : LinkOf(t)' = LinkOf(t)
  BY LinkUnchanged DEF Removes, Others
<1>2. CASE Exists(s)
  <2>1. Link[s].page \in Links!Served
    BY <1>2, PageOfRow DEF Link, LinkOf
  <2>2. LinkOf(s)' = Links!Gone
    BY <1>2 DEF Removes, RowsAreIssued, LinkOf, Page, FileBehind, Exists, Links!Gone
  <2>3. Link' = [Link EXCEPT ![s] = Links!Gone]
    BY <1>1, <2>2 DEF Link
  <2> QED
    BY <2>1, <2>3 DEF Links!Retire, Link, LinkOf
<1>3. CASE ~Exists(s)
  <2>1. LinkOf(s)' = LinkOf(s)
    BY <1>3, LinkUnchanged DEF Removes, Exists
  <2> QED
    BY <1>1, <2>1 DEF Link
<1> QED
  BY <1>2, <1>3

LEMMA LinkStep ==
    ASSUME StoreTypeOK, RowsAreIssued, TableStep
    PROVE  Links!Next \/ UNCHANGED Link
BY KeepsShows, InsertIssues, RepointSwaps, RotationMoves, RemovalRetires
   DEF TableStep, Links!Next

\* Whatever the poller, the artist, the listeners and restarts do to a track,
\* the holder of its share link sees what ShareLinks promises: the links keep
\* files of their own, a file is swapped only behind an offline page, a rotated
\* track is at its new link at once, and what was taken away stays away.
THEOREM ServiceImplementsShareLinks == Spec => ImplementsShareLinks
<1>1. Init => Links!Init
  BY DEF Init, StoreInit, Links!Init, Links!Unissued, Page, FileBehind, Exists
<1>2. TypeOK /\ TableInv /\ [Next]_vars => [Links!Next]_Link
  BY NextTable, LinkStep DEF TypeOK, TableInv
<1>3. Link = [s \in Slugs |-> [page |-> Page(s), file |-> FileBehind(s)]]
  BY DEF Link, LinkOf
<1> QED
  BY <1>1, <1>2, <1>3, TableInvariant, PTL DEF Spec, ImplementsShareLinks, Links!Spec, Link, LinkOf

(***************************************************************************)
(* The artist's browser takes only steps the service can take.             *)
(***************************************************************************)

\* A replacement is answered to the tab that asked for it.
OneTabPerRequest ==
    \A t, u \in Tabs : tab[t].at = "requesting" /\ tab[u] = tab[t] => t = u

PageInv == PageTypeOK /\ OneTabPerRequest

LEMMA TabStepIsServiceStep ==
    ASSUME PageTypeOK, NEW t \in Tabs, TabStep(t)
    PROVE  [Next]_vars
<1>1. CASE SubmitUpload(t)
  BY <1>1, UploadPageAssumption, ExpiryAssumption
     DEF SubmitUpload, Outside, pollerVars, listenerVars, Next, AdminNext
<1>2. CASE SubmitReplace(t)
  BY <1>2 DEF SubmitReplace, Outside, pollerVars, listenerVars, Next, AdminNext
<1>3. CASE ServeReplace(t)
  <2>1. tab[t].slot \in Reqs
    BY <1>3 DEF ServeReplace, PageTypeOK, TabStates, Idle, Requesting, Working
  <2> QED
    BY <1>3, <2>1 DEF ServeReplace, Outside, pollerVars, listenerVars, Next, AdminNext
<1>4. CASE Put(t)
  <2>1. grants \subseteq ObjectKeys
    BY DEF PageTypeOK, TypeOK, AdminTypeOK
  <2> QED
    BY <1>4, <2>1 DEF Put, BrowserPut, Next, World
<1>5. CASE Poll(t) \/ PollFails(t) \/ LeavePage(t)
  BY <1>5 DEF Poll, PollFails, LeavePage
<1> QED
  BY <1>1, <1>2, <1>3, <1>4, <1>5 DEF TabStep

LEMMA PageStepIsServiceStep ==
    ASSUME PageTypeOK, [PageNext]_allVars
    PROVE  [Next]_vars
<1>1. CASE Dashboard
  BY <1>1 DEF Dashboard, Outside, pollerVars, listenerVars, Next, AdminNext
<1>2. CASE PollerNext /\ UNCHANGED <<adminVars, listenerVars, crashes, pageVars>>
  BY <1>2 DEF Next
<1>3. CASE Restart
  BY <1>3 DEF Restart, Next, World
<1>4. CASE SessionNext /\ UNCHANGED <<vars, tab>>
  BY <1>4
<1>5. CASE UNCHANGED allVars
  BY <1>5 DEF allVars
<1> QED
  BY <1>1, <1>2, <1>3, <1>4, <1>5, TabStepIsServiceStep DEF PageNext

LEMMA TabStatesAre ==
    /\ Idle \in TabStates /\ Idle.at = "form"
    /\ \A r \in Reqs : /\ Requesting(r) \in TabStates
                      /\ Requesting(r).at = "requesting" /\ Requesting(r).slot = r
    /\ \A at \in {"putting", "processing", "done"}, s \in Slugs, k \in ObjectKeys :
           /\ Working(at, s, k) \in TabStates
           /\ Working(at, s, k).at = at
    /\ \A x \in TabStates :
           \/ x = Idle
           \/ \E r \in Reqs : x = Requesting(r)
           \/ \E at \in {"putting", "processing", "done"}, s \in Slugs, k \in ObjectKeys :
                  x = Working(at, s, k)
<1>1. Idle.at = "form"
  BY DEF Idle
<1>2. \A r : Requesting(r).at = "requesting" /\ Requesting(r).slot = r
  BY DEF Requesting
<1>3. \A at, s, k : Working(at, s, k).at = at
  BY DEF Working
<1> QED
  BY <1>1, <1>2, <1>3 DEF TabStates

\* A tab that waits for no answer concerns no slot.
TabGoes(t, x) ==
    /\ tab' = [tab EXCEPT ![t] = x]
    /\ x \in TabStates /\ x.at # "requesting"

\* requests that tabs wait for are served on, and no other is taken for one
RequestsKept(S) ==
    \A r \in Reqs \ S :
        req[r] # NoReq => req'[r] # NoReq /\ req'[r].op = req[r].op

LEMMA PageInvKept ==
    ASSUME PageInv, TypeOK', SessionTypeOK', NEW S,
           tab' = tab \/ \E t \in Tabs, x \in TabStates : TabGoes(t, x),
           RequestsKept(S),
           \A t \in Tabs : tab'[t].at = "requesting" => tab'[t].slot \notin S
    PROVE  PageInv'
<1> USE DEF PageInv, PageTypeOK
<1>1. tab' \in [Tabs -> TabStates]
  BY DEF TabGoes
<1>2. \A t \in Tabs : tab'[t].at = "requesting" => tab'[t] = tab[t]
  BY DEF TabGoes
<1>3. \A t \in Tabs : tab'[t].at = "requesting" => tab'[t].slot \in Reqs \ S
  BY <1>1, TabStatesAre
<1>4. \A t \in Tabs : tab'[t].at = "requesting" =>
          req'[tab'[t].slot] # NoReq /\ req'[tab'[t].slot].op = "replace"
  BY <1>2, <1>3 DEF RequestsKept
<1>5. OneTabPerRequest'
  BY <1>2 DEF OneTabPerRequest
<1> QED
  BY <1>1, <1>4, <1>5

\* What Start and DeleteObject do to the requests.
LEMMA StartRequests ==
    ASSUME AdminTypeOK, NEW r \in Reqs, NEW op, NEW s \in Slugs, NEW k, Start(r, op, s, k)
    PROVE  RequestsKept({})
BY DEF Start, RequestsKept, AdminTypeOK

LEMMA DeleteObjectRequests ==
    ASSUME AdminTypeOK, NEW r \in Reqs, DeleteObject(r)
    PROVE  /\ RequestsKept({r})
           /\ req'[r] = NoReq \/ RequestsKept({})
<1>1. req[r] \in Request /\ [req[r] EXCEPT !.at = "writeRow"] \in Request
  BY DEF DeleteObject, AdminTypeOK, Request
<1>2. [req[r] EXCEPT !.at = "writeRow"].op = req[r].op
  BY <1>1 DEF Request
<1>3. CASE Answered(r)
  BY <1>3 DEF Answered, RequestsKept, AdminTypeOK
<1>4. CASE req' = [req EXCEPT ![r] = [req[r] EXCEPT !.at = "writeRow"]]
  BY <1>1, <1>2, <1>4, AdminAssumption DEF RequestsKept, AdminTypeOK
<1> QED
  BY <1>3, <1>4 DEF DeleteObject

LEMMA AnsweredRequests ==
    ASSUME AdminTypeOK, NEW r \in Reqs, Answered(r)
    PROVE  RequestsKept({r})
BY DEF Answered, RequestsKept, AdminTypeOK

LEMMA UnchangedRequests == UNCHANGED req => RequestsKept({})
BY DEF RequestsKept

LEMMA RequestingTab ==
    ASSUME PageTypeOK, NEW t \in Tabs, tab[t].at = "requesting"
    PROVE  /\ tab[t].slot \in Reqs /\ tab[t] = Requesting(tab[t].slot)
           /\ req[tab[t].slot] # NoReq
<1>1. tab[t] \in TabStates
  BY DEF PageTypeOK
<1>2. PICK r \in Reqs : tab[t] = Requesting(r)
  BY <1>1, TabStatesAre
<1> QED
  BY <1>2, TabStatesAre DEF PageTypeOK

\* A working tab goes on to another stage of its work.
LEMMA WorkGoesOn ==
    ASSUME PageTypeOK, NEW t \in Tabs, tab[t].at \in {"putting", "processing"},
           NEW at \in {"processing", "done"}
    PROVE  LET x == [tab[t] EXCEPT !.at = at]
           IN  x \in TabStates /\ x.at # "requesting"
<1>1. tab[t] \in TabStates
  BY DEF PageTypeOK
<1>2. PICK a \in {"putting", "processing", "done"}, s \in Slugs, k \in ObjectKeys :
          tab[t] = Working(a, s, k)
  BY <1>1, TabStatesAre
<1>3. [Working(a, s, k) EXCEPT !.at = at] = Working(at, s, k)
  BY DEF Working
<1>4. Working(at, s, k) \in TabStates /\ Working(at, s, k).at = at
  BY TabStatesAre
<1> QED
  BY <1>2, <1>3, <1>4

LEMMA WorkOf ==
    ASSUME NEW t \in Tabs, tab[t] \in TabStates, tab[t].at \in {"putting", "processing"},
           NEW at
    PROVE  LET x == [tab[t] EXCEPT !.at = at]
           IN  x.at = at /\ x.slug = tab[t].slug /\ x.key = tab[t].key
<1>1. PICK a \in {"putting", "processing", "done"}, s \in Slugs, k \in ObjectKeys :
          tab[t] = Working(a, s, k)
  BY TabStatesAre
<1> QED
  BY <1>1 DEF Working

\* DeleteObject and FinishReplace are never both enabled
LEMMA FinishReplaceIsLater ==
    ASSUME NEW r \in Reqs, DeleteObject(r)
    PROVE  ~FinishReplace(r)
BY DEF DeleteObject, FinishReplace, AtWrite

LEMMA ServeReplaceInv ==
    ASSUME PageInv, TypeOK', NEW t \in Tabs, ServeReplace(t)
    PROVE  PageInv'
<1> DEFINE r == tab[t].slot
<1>1. AdminTypeOK /\ SessionTypeOK' /\ tab \in [Tabs -> TabStates]
  BY DEF PageInv, PageTypeOK, TypeOK, ServeReplace, Outside, SessionTypeOK
<1>2. r \in Reqs /\ tab[t] = Requesting(r)
  BY RequestingTab DEF PageInv, ServeReplace
<1>3. ASSUME NEW x \in TabStates, TabGoes(t, x), RequestsKept({r})
      PROVE  PageInv'
  <2>1. ASSUME NEW u \in Tabs, tab'[u].at = "requesting"
        PROVE  tab'[u].slot \notin {r}
    <3>1. u # t /\ tab'[u] = tab[u]
      BY <1>1, <1>3, <2>1 DEF TabGoes
    <3>2. tab[u] = Requesting(tab[u].slot)
      BY <2>1, <3>1, RequestingTab DEF PageInv
    <3>3. tab[u] # tab[t]
      BY <2>1, <3>1 DEF PageInv, OneTabPerRequest, ServeReplace
    <3> QED
      BY <1>2, <3>1, <3>2, <3>3
  <2> QED
    BY <1>1, <1>3, <2>1, PageInvKept
<1>4. CASE DeleteObject(r)
  <2>1. CASE req'[r] = NoReq
    <3>1. TabGoes(t, Idle)
      BY <1>2, <1>4, <2>1, TabStatesAre, FinishReplaceIsLater DEF ServeReplace, Throws, Goes, TabGoes
    <3> QED
      BY <1>1, <1>2, <1>3, <1>4, <3>1, TabStatesAre, DeleteObjectRequests
  <2>2. CASE req'[r] # NoReq
    <3>1. UNCHANGED tab
      BY <1>2, <1>4, <2>2, FinishReplaceIsLater DEF ServeReplace
    <3> QED
      BY <1>1, <1>2, <1>4, <2>2, <3>1, DeleteObjectRequests, PageInvKept
  <2> QED
    BY <2>1, <2>2
<1>5. CASE FinishReplace(r)
  <2>1. RequestsKept({r})
    BY <1>1, <1>2, <1>5, AnsweredRequests DEF FinishReplace
  <2>2. \/ TabGoes(t, Idle)
        \/ TabGoes(t, Working("putting", req[r].slug, req[r].newKey))
    <3>1. req[r].slug \in Slugs /\ req[r].newKey \in ObjectKeys
      BY <1>1, <1>2, <1>5 DEF FinishReplace, AtWrite, AdminTypeOK, Request
    <3>2. \/ Throws(t)
          \/ Goes(t, Working("putting", req[r].slug, req[r].newKey))
      BY <1>2, <1>5, FinishReplaceIsLater DEF ServeReplace
    <3>3. /\ Working("putting", req[r].slug, req[r].newKey) \in TabStates
          /\ Working("putting", req[r].slug, req[r].newKey).at # "requesting"
      BY <3>1, TabStatesAre
    <3> QED
      BY <3>2, <3>3, TabStatesAre DEF Throws, Goes, TabGoes
  <2> QED
    BY <1>3, <2>1, <2>2 DEF TabGoes
<1> QED
  BY <1>4, <1>5 DEF ServeReplace

LEMMA TabInvStep ==
    ASSUME PageInv, TypeOK', NEW t \in Tabs, TabStep(t)
    PROVE  PageInv'
<1> USE DEF PageInv
<1>1. AdminTypeOK /\ SessionTypeOK' /\ tab \in [Tabs -> TabStates]
  BY DEF PageTypeOK, TypeOK, SessionTypeOK, TabStep, SubmitUpload, SubmitReplace, ServeReplace,
         Put, Poll, PollFails, LeavePage, Outside
<1>2. ASSUME NEW x \in TabStates, TabGoes(t, x) \/ UNCHANGED tab, UNCHANGED req
      PROVE  PageInv'
  BY <1>1, <1>2, UnchangedRequests, PageInvKept
<1>3. TabGoes(t, Idle) <=> Throws(t)
  BY TabStatesAre DEF TabGoes, Throws, Goes
<1>4. CASE SubmitUpload(t)
  <2>1. PICK s \in Slugs, e \in Exts :
           /\ Upload(s, e, Never)
           /\ Goes(t, Working("putting", s, <<s, e>>)) \/ Throws(t)
    BY <1>4 DEF SubmitUpload
  <2>2. LET x == Working("putting", s, <<s, e>>)
        IN  x \in TabStates /\ x.at # "requesting"
    BY TabStatesAre DEF ObjectKeys
  <2> QED
    BY <1>2, <1>3, <2>1, <2>2, TabStatesAre DEF Upload, Goes, TabGoes
<1>5. CASE SubmitReplace(t)
  <2>1. PICK r \in Reqs, s \in Slugs, e \in Exts :
           StartReplace(r, s, e) /\ tab' = [tab EXCEPT ![t] = Requesting(r)]
    BY <1>5 DEF SubmitReplace, Goes
  <2>2. req[r] = NoReq /\ req'[r] # NoReq /\ req'[r].op = "replace"
    <3>1. tracks[s].key \in ObjectKeys /\ <<s, e>> \in ObjectKeys
      BY <2>1 DEF StartReplace, Start, Exists, PageTypeOK, TypeOK, StoreTypeOK, Row, ObjectKeys
    <3>2. [op |-> "replace", at |-> "deleteObject", slug |-> s,
           key |-> tracks[s].key, newKey |-> <<s, e>>] \in Request
      BY <3>1 DEF Request
    <3> QED
      BY <1>1, <2>1, <3>2, AdminAssumption DEF StartReplace, Start, AdminTypeOK
  <2>3. \A q \in Reqs \ {r} : req'[q] = req[q]
    BY <1>1, <2>1 DEF StartReplace, Start, AdminTypeOK
  <2>4. /\ tab' \in [Tabs -> TabStates] /\ tab'[t] = Requesting(r)
        /\ \A u \in Tabs \ {t} : tab'[u] = tab[u]
    BY <1>1, <2>1, TabStatesAre
  <2>5. ASSUME NEW u \in Tabs, u # t, tab'[u].at = "requesting"
        PROVE  /\ tab'[u].slot \in Reqs \ {r} /\ tab'[u] = Requesting(tab'[u].slot)
               /\ req'[tab'[u].slot] # NoReq /\ req'[tab'[u].slot].op = "replace"
    <3>1. tab'[u] = tab[u]
      BY <2>4, <2>5
    <3> QED
      BY <2>2, <2>3, <2>5, <3>1, RequestingTab DEF PageTypeOK
  <2>6. OneTabPerRequest'
    BY <2>4, <2>5, TabStatesAre DEF OneTabPerRequest
  <2> QED
    BY <1>1, <2>2, <2>4, <2>5, <2>6, TabStatesAre DEF PageTypeOK
<1>6. CASE ServeReplace(t)
  BY <1>6, ServeReplaceInv
<1>7. CASE Put(t)
  BY <1>2, <1>3, <1>7, WorkGoesOn, TabStatesAre
     DEF Put, BrowserPut, Rewritten, vars, adminVars, Goes, TabGoes
<1>8. CASE Poll(t)
  BY <1>2, <1>3, <1>8, WorkGoesOn, TabStatesAre DEF Poll, vars, adminVars, Goes, TabGoes
<1>9. CASE PollFails(t) \/ LeavePage(t)
  BY <1>2, <1>3, <1>9, TabStatesAre DEF PollFails, LeavePage, vars, adminVars, Throws
<1> QED
  BY <1>4, <1>5, <1>6, <1>7, <1>8, <1>9 DEF TabStep

LEMMA PageInvStep == PageInv /\ [PageNext]_allVars => PageInv'
<1> SUFFICES ASSUME PageInv, [PageNext]_allVars
             PROVE  PageInv'
  OBVIOUS
<1>1. TypeOK'
  BY PageStepIsServiceStep, TypeStep DEF PageInv, PageTypeOK
<1>2. ASSUME UNCHANGED tab, SessionTypeOK', RequestsKept({})
      PROVE  PageInv'
  BY <1>1, <1>2, PageInvKept
<1>3. CASE \E t \in Tabs : TabStep(t)
  BY <1>1, <1>3, TabInvStep
<1>4. CASE Dashboard
  <2>1. AdminTypeOK /\ SessionTypeOK' /\ UNCHANGED tab
    BY <1>4 DEF PageInv, PageTypeOK, TypeOK, SessionTypeOK, Dashboard, Outside
  <2>2. ASSUME NEW r \in Reqs, NEW s \in Slugs, StartDelete(r, s)
        PROVE  PageInv'
    BY <1>2, <2>1, <2>2, StartRequests DEF StartDelete
  <2>3. ASSUME NEW r \in Reqs, Unattended(r),
               DeleteObject(r) \/ FinishReplace(r) \/ FinishDelete(r)
        PROVE  PageInv'
    <3>1. RequestsKept({r})
      BY <2>1, <2>3, DeleteObjectRequests, AnsweredRequests DEF FinishReplace, FinishDelete
    <3>2. \A t \in Tabs : tab'[t].at = "requesting" => tab'[t].slot # r
      BY <2>1, <2>3, RequestingTab DEF Unattended, PageInv
    <3> QED
      BY <1>1, <2>1, <3>1, <3>2, PageInvKept
  <2> QED
    BY <1>4, <2>2, <2>3 DEF Dashboard
<1>5. CASE SessionNext /\ UNCHANGED <<vars, tab>>
  BY <1>2, <1>5, UnchangedRequests
     DEF SessionNext, Login, Logout, LapseSession, SessionTypeOK, PageInv, PageTypeOK,
         vars, adminVars
<1>6. CASE PollerNext /\ UNCHANGED <<adminVars, listenerVars, crashes, pageVars>>
  BY <1>2, <1>6, UnchangedRequests DEF SessionTypeOK, PageInv, PageTypeOK, pageVars, adminVars
<1>7. CASE Restart
  <2>1. /\ tab' \in [Tabs -> TabStates] /\ SessionTypeOK'
        /\ \A t \in Tabs : tab'[t].at # "requesting"
    BY <1>7, TabStatesAre DEF Restart, PageInv, PageTypeOK, SessionTypeOK
  <2> QED
    BY <1>1, <2>1 DEF PageInv, PageTypeOK, OneTabPerRequest
<1>8. CASE UNCHANGED allVars
  BY <1>2, <1>8, UnchangedRequests
     DEF SessionTypeOK, PageInv, PageTypeOK, allVars, vars, adminVars
<1> QED
  BY <1>3, <1>4, <1>5, <1>6, <1>7, <1>8 DEF PageNext

LEMMA PageInvInit == PageInit => PageInv
BY TypeInit, TabStatesAre DEF PageInit, SessionInit, SessionTypeOK, PageInv, PageTypeOK,
   OneTabPerRequest

\* A tab that waits for the answer of a replacement has its request in the
\* server, and the request is its own: whoever else asks, deletes or restarts,
\* no script waits for an answer that nobody owes it (replace.js:22-37).
THEOREM PageTypeCorrect == PageSpec => []PageTypeOK
<1>1. PageInv => PageTypeOK
  BY DEF PageInv
<1> QED
  BY <1>1, PageInvInit, PageInvStep, PTL DEF PageSpec

\* Everything the artist's browser does is something the service of Transients
\* does, so what is proved of the service holds of it with the scripts of
\* upload.js and replace.js running.
THEOREM PageImplementsService == PageSpec => Spec
<1>1. PageInit => Init
  BY DEF PageInit
<1>2. PageInv /\ [PageNext]_allVars => [Next]_vars
  BY PageStepIsServiceStep DEF PageInv
<1> QED
  BY <1>1, <1>2, PageInvInit, PageInvStep, PTL DEF PageSpec, Spec

(***************************************************************************)
(* Success, of one tab that asks for one thing at a time.  While its file  *)
(* is on the way no request points its track at a key anew, so what it has *)
(* put is what the track points at, until a delete takes it.               *)
(***************************************************************************)
OneAtATime ==
    /\ \A t, u \in Tabs : t = u
    /\ \A q, r \in Reqs : q = r

IsReplace(r) == req[r] # NoReq /\ req[r].op = "replace"

\* No request is under way that will point the track at a key anew.
NotReplaced(s) == s \in used /\ \A r \in Reqs : IsReplace(r) => req[r].slug # s

\* in the bucket, or a request is to blame that it is not
Accounted == objects \cup damaged \cup HalfDone

FileOf(t) ==
    LET s == tab[t].slug
        k == tab[t].key
    IN  /\ tab[t].at \in {"putting", "processing"} => NotReplaced(s)
        /\ tab[t].at = "processing" /\ Exists(s) /\ tracks[s].key = k => k \in Accounted

FileInv == \A t \in Tabs : FileOf(t)

RowKept(s) == Exists(s)' => Exists(s) /\ tracks'[s].key = tracks[s].key

\* The file of a tab that takes no step.
LEMMA FileKept ==
    ASSUME NEW t \in Tabs, FileOf(t), UNCHANGED tab, used \subseteq used',
           \A r \in Reqs : IsReplace(r)' => IsReplace(r) /\ req'[r].slug = req[r].slug,
           tab[t].at = "processing" /\ NotReplaced(tab[t].slug)
           => /\ RowKept(tab[t].slug)
              /\ Exists(tab[t].slug)' /\ tracks[tab[t].slug].key = tab[t].key
                 /\ tab[t].key \in Accounted
                 => tab[t].key \in Accounted'
    PROVE  FileOf(t)'
<1>1. NotReplaced(tab[t].slug) => NotReplaced(tab[t].slug)'
  BY DEF NotReplaced
<1> QED
  BY <1>1 DEF FileOf, RowKept

\* A tab at none of the stages that FileOf is about.
LEMMA FileElsewhere ==
    ASSUME NEW t \in Tabs, tab'[t].at \notin {"putting", "processing"}
    PROVE  FileOf(t)'
BY DEF FileOf

LEMMA RowsKept ==
    ASSUME NEW s \in Slugs, UNCHANGED tracks
    PROVE  RowKept(s)
BY DEF RowKept, Exists

\* The second step of a request spares the file of a tab that works on another
\* track: the key it gives up belongs to its own track, or is damaged.
LEMMA FinishKeepsFile ==
    ASSUME PageInv, TableInv, OneAtATime,
           NEW t \in Tabs, FileOf(t),
           NEW r \in Reqs, FinishReplace(r) \/ FinishDelete(r), UNCHANGED tab
    PROVE  FileOf(t)'
<1> DEFINE q == req[r]
           s == tab[t].slug
           k == tab[t].key
<1>1. StoreTypeOK /\ AdminTypeOK
  BY DEF PageInv, PageTypeOK, TypeOK
<1>2. q \in Request /\ q.slug \in Slugs /\ req' = [req EXCEPT ![r] = NoReq]
  BY <1>1 DEF FinishReplace, FinishDelete, AtWrite, Answered, AdminTypeOK, Request
<1>3. \A x \in Reqs : ~IsReplace(x)'
  BY <1>1, <1>2 DEF OneAtATime, IsReplace, AdminTypeOK
<1>4. used' = used /\ objects' = objects
  BY DEF FinishReplace, FinishDelete, StopHalfway, storeVars, BeginReplace, Delete
<1>5. damaged \subseteq damaged' /\ (q.key \in damaged' \/ (Exists(q.slug) /\ ~Overtaken(q)))
  BY DEF FinishReplace, FinishDelete, StopHalfway, Confuse
<1>6. HalfDone \subseteq {q.key}
  BY DEF HalfDone, OneAtATime
<1>7. ASSUME NotReplaced(s), s \in Slugs
      PROVE  RowKept(s) /\ (Exists(s)' /\ q.slug = s => UNCHANGED tracks)
  <2>1. CASE UNCHANGED tracks
    BY <2>1, <1>7, RowsKept
  <2>2. CASE FinishReplace(r) /\ ~UNCHANGED tracks
    <3>1. q.slug # s
      BY <1>7, <2>2 DEF NotReplaced, IsReplace, FinishReplace, AtWrite
    <3>2. tracks' = [tracks EXCEPT ![q.slug].key = q.newKey, ![q.slug].status = "pending"]
      BY <2>2 DEF FinishReplace, StopHalfway, storeVars, BeginReplace
    <3>3. tracks'[s] = tracks[s]
      BY <1>1, <1>2, <1>7, <3>1, <3>2 DEF StoreTypeOK
    <3> QED
      BY <3>1, <3>3 DEF RowKept, Exists
  <2>3. CASE FinishDelete(r) /\ ~UNCHANGED tracks
    <3>1. tracks' = [tracks EXCEPT ![q.slug] = NoRow]
      BY <2>3 DEF FinishDelete, StopHalfway, storeVars, Delete
    <3>2. /\ s = q.slug => tracks'[s] = NoRow
          /\ s # q.slug => tracks'[s] = tracks[s]
      BY <1>1, <1>2, <1>7, <3>1 DEF StoreTypeOK
    <3> QED
      BY <3>2 DEF RowKept, Exists
  <2> QED
    BY <2>1, <2>2, <2>3
<1>8. ASSUME NotReplaced(s)
      PROVE  s \in Slugs
  BY <1>1, <1>8 DEF NotReplaced, StoreTypeOK
<1>9. ASSUME NotReplaced(s), Exists(s)', tracks[s].key = k, k \in Accounted
      PROVE  k \in Accounted'
  <2>1. CASE k \in objects \cup damaged \/ q.key \in damaged'
    BY <1>4, <1>5, <1>6, <1>9, <2>1 DEF Accounted
  <2>2. CASE k = q.key /\ Exists(q.slug) /\ ~Overtaken(q)
    <3>1. Exists(s)
      BY <1>7, <1>8, <1>9 DEF RowKept
    <3>2. q.slug = s
      BY <1>2, <1>8, <1>9, <2>2, <3>1 DEF Overtaken, TableInv, UniqueKeys
    <3>3. UNCHANGED tracks
      BY <1>7, <1>8, <1>9, <3>2
    <3>4. q.key \in damaged'
      BY <1>1, <1>2, <1>9, <2>2, <3>2, <3>3
         DEF FinishReplace, FinishDelete, StopHalfway, Delete, NotReplaced, IsReplace, AtWrite,
             Exists, StoreTypeOK
    <3> QED
      BY <2>2, <3>4 DEF Accounted
  <2> QED
    BY <1>5, <1>6, <1>9, <2>1, <2>2 DEF Accounted
<1> QED
  BY <1>3, <1>4, <1>7, <1>8, <1>9, FileKept


LEMMA DeleteObjectKeepsFile ==
    ASSUME PageInv, OneAtATime, NEW t \in Tabs, FileOf(t), NEW r \in Reqs,
           DeleteObject(r), UNCHANGED tab
    PROVE  FileOf(t)'
<1>1. AdminTypeOK
  BY DEF PageInv, PageTypeOK, TypeOK
<1>2. req[r] \in Request /\ UNCHANGED storeVars
  BY <1>1 DEF DeleteObject, AdminTypeOK
<1>3. /\ HalfDone = {}
      /\ \/ req' = [req EXCEPT ![r] = [req[r] EXCEPT !.at = "writeRow"]]
            /\ UNCHANGED damaged
         \/ req' = [req EXCEPT ![r] = NoReq] /\ damaged' = damaged \cup {req[r].key}
      /\ objects \ {req[r].key} \subseteq objects'
  BY DEF DeleteObject, Answered, HalfDone, OneAtATime
<1>4. CASE req' = [req EXCEPT ![r] = NoReq] /\ damaged' = damaged \cup {req[r].key}
  <2>1. \A x \in Reqs : ~IsReplace(x)'
    BY <1>1, <1>4 DEF OneAtATime, IsReplace, AdminTypeOK
  <2>2. Accounted \subseteq Accounted'
    BY <1>3, <1>4 DEF Accounted
  <2> QED
    BY <1>2, <2>1, <2>2, FileKept DEF storeVars, RowKept, Exists
<1>5. CASE /\ req' = [req EXCEPT ![r] = [req[r] EXCEPT !.at = "writeRow"]]
           /\ UNCHANGED damaged
  <2>1. LET q == [req[r] EXCEPT !.at = "writeRow"]
        IN  /\ q \in Request /\ q.op = req[r].op /\ q.slug = req[r].slug
            /\ q.key = req[r].key /\ q.at = "writeRow"
    BY <1>2 DEF Request
  <2>2. req'[r] = [req[r] EXCEPT !.at = "writeRow"] /\ req'[r] # NoReq
    BY <1>1, <1>5, <2>1, AdminAssumption DEF AdminTypeOK
  <2>3. \A x \in Reqs : IsReplace(x)' => IsReplace(x) /\ req'[x].slug = req[x].slug
    BY <2>1, <2>2 DEF OneAtATime, IsReplace, DeleteObject
  <2>4. req[r].key \in HalfDone'
    BY <2>1, <2>2 DEF HalfDone
  <2>5. Accounted \subseteq Accounted'
    BY <1>3, <1>5, <2>4 DEF Accounted
  <2> QED
    BY <1>2, <2>3, <2>5, FileKept DEF storeVars, RowKept, Exists
<1> QED
  BY <1>3, <1>4, <1>5

LEMMA StartKeepsFile ==
    ASSUME PageInv, NEW t \in Tabs, FileOf(t), NEW r \in Reqs, NEW s \in Slugs,
           StartDelete(r, s), UNCHANGED tab
    PROVE  FileOf(t)'
<1>1. AdminTypeOK
  BY DEF PageInv, PageTypeOK, TypeOK
<1> DEFINE q == [op |-> "delete", at |-> "deleteObject", slug |-> s,
                 key |-> tracks[s].key, newKey |-> tracks[s].key]
<1>2. /\ req[r] = NoReq
      /\ req' = [req EXCEPT ![r] = q] /\ q.op = "delete"
      /\ UNCHANGED <<damaged, storeVars, objects>>
  BY DEF StartDelete, Start, cloudVars
<1> HIDE DEF q
<1>3. \A x \in Reqs : IsReplace(x)' => IsReplace(x) /\ req'[x].slug = req[x].slug
  BY <1>1, <1>2 DEF AdminTypeOK, IsReplace
<1>4. HalfDone \subseteq HalfDone'
  BY <1>1, <1>2 DEF AdminTypeOK, HalfDone
<1>5. Accounted \subseteq Accounted'
  BY <1>2, <1>4 DEF Accounted
<1> QED
  BY <1>2, <1>3, <1>5, FileKept DEF storeVars, RowKept, Exists

\* The poller leaves the files and the keys of the tracks that are there.
LEMMA PollerKeepsFile ==
    ASSUME PageInv, NEW t \in Tabs, FileOf(t), PollerNext,
           UNCHANGED <<adminVars, listenerVars, crashes, pageVars>>
    PROVE  FileOf(t)'
<1>1. StoreTypeOK /\ PollerTypeOK
  BY DEF PageInv, PageTypeOK, TypeOK
<1>2. UNCHANGED objects
  BY DEF PollerNext, PollerStep, PollEmpty, Pull, TakeMalformed, TakeOther, TakeCreate,
         CreateDiscovered, HeadObject, ConfirmReady, DropGone, FailForNow, Ack, Fault, cloudVars
<1>3. /\ used \subseteq used'
      /\ \A s \in Slugs : s \in used => RowKept(s)
  BY <1>1, PollerTable DEF Keeps, Inserts, Others, RowKept, Exists, Fresh, storeVars
<1>4. tab[t].slug \in used => tab[t].slug \in Slugs
  BY <1>1 DEF StoreTypeOK
<1>5. \A r \in Reqs : IsReplace(r)' => IsReplace(r) /\ req'[r].slug = req[r].slug
  BY DEF adminVars, IsReplace
<1>6. Accounted' = Accounted
  BY <1>2 DEF adminVars, Accounted, HalfDone
<1> QED
  BY <1>3, <1>4, <1>5, <1>6, FileKept DEF pageVars, NotReplaced

LEMMA RestartKeepsFile ==
    ASSUME PageInv, NEW t \in Tabs, FileOf(t), Restart
    PROVE  FileOf(t)'
<1>1. CASE tab[t].at = "requesting"
  BY <1>1, TabStatesAre, FileElsewhere DEF Restart
<1>2. CASE tab[t].at # "requesting"
  <2>1. tab'[t] = tab[t]
    BY <1>2 DEF Restart
  <2>2. \A r \in Reqs : ~IsReplace(r)'
    BY DEF Restart, Crash, AdminCrash, IsReplace
  <2>3. Accounted \subseteq Accounted'
    BY DEF Restart, Crash, AdminCrash, Accounted, cloudVars
  <2> QED
    BY <2>1, <2>2, <2>3
       DEF FileOf, NotReplaced, Restart, Crash, storeVars, Exists
<1> QED
  BY <1>1, <1>2

\* What neither the table, the bucket nor a request notices.
LEMMA NothingHappens ==
    ASSUME NEW t \in Tabs, FileOf(t), tab'[t] = tab[t], UNCHANGED vars
    PROVE  FileOf(t)'
<1>1. UNCHANGED <<tracks, used, objects, req, damaged>>
  BY DEF vars, storeVars, cloudVars, adminVars
<1> QED
  BY <1>1 DEF FileOf, NotReplaced, IsReplace, Exists, Accounted, HalfDone

\* The tab's own steps.
LEMMA TabFileStep ==
    ASSUME PageInv, TableInv, OneAtATime, NEW t \in Tabs, FileOf(t), TabStep(t)
    PROVE  FileOf(t)'
<1>1. StoreTypeOK /\ AdminTypeOK /\ tab \in [Tabs -> TabStates]
  BY DEF PageInv, PageTypeOK, TypeOK
<1>2. ASSUME Throws(t)
      PROVE  FileOf(t)'
  BY <1>1, <1>2, TabStatesAre, FileElsewhere DEF Throws, Goes
<1>3. CASE SubmitUpload(t)
  <2>1. PICK s \in Slugs, e \in Exts :
           /\ Upload(s, e, Never)
           /\ Goes(t, Working("putting", s, <<s, e>>)) \/ Throws(t)
    BY <1>3 DEF SubmitUpload
  <2>2. CASE Goes(t, Working("putting", s, <<s, e>>))
    <3>1. tab'[t] = Working("putting", s, <<s, e>>)
      BY <1>1, <2>2 DEF Goes
    <3>2. s \in used'
      BY <2>1 DEF Upload, CreatePending, Insert
    <3>3. \A r \in Reqs : ~IsReplace(r)'
      BY <2>1 DEF Upload, CanServe, OneAtATime, IsReplace
    <3> QED
      BY <3>1, <3>2, <3>3 DEF FileOf, NotReplaced, Working
  <2> QED
    BY <1>2, <2>1, <2>2
<1>4. CASE SubmitReplace(t)
  <2>1. PICK r \in Reqs : tab' = [tab EXCEPT ![t] = Requesting(r)]
    BY <1>4 DEF SubmitReplace, Goes
  <2> QED
    BY <1>1, <2>1, TabStatesAre, FileElsewhere
<1>5. CASE ServeReplace(t)
  <2> DEFINE r == tab[t].slot
             q == req[r]
  <2>1. r \in Reqs
    BY <1>5, RequestingTab DEF PageInv, ServeReplace
  <2>2. CASE UNCHANGED tab
    BY <1>5, <2>2, FileElsewhere DEF ServeReplace
  <2>3. CASE /\ FinishReplace(r) /\ Exists(q.slug)
             /\ Goes(t, Working("putting", q.slug, q.newKey))
    <3>1. tab'[t] = Working("putting", q.slug, q.newKey)
      BY <1>1, <2>3 DEF Goes
    <3>2. q.slug \in Slugs
      BY <1>1, <2>1, <2>3 DEF FinishReplace, AtWrite, AdminTypeOK, Request
    <3>3. q.slug \in used'
      BY <2>3, <3>2 DEF TableInv, RowsAreIssued, FinishReplace, StopHalfway, storeVars, BeginReplace
    <3>4. \A x \in Reqs : ~IsReplace(x)'
      BY <1>1, <2>1, <2>3 DEF FinishReplace, Answered, OneAtATime, AdminTypeOK, IsReplace
    <3> QED
      BY <3>1, <3>3, <3>4 DEF FileOf, NotReplaced, Working
  <2> QED
    BY <1>2, <1>5, <2>2, <2>3 DEF ServeReplace
<1>6. CASE Put(t)
  <2>1. CASE /\ BrowserPut(tab[t].key)
             /\ Goes(t, [tab[t] EXCEPT !.at = "processing"])
    <3>1. /\ tab'[t].at = "processing"
          /\ tab'[t].slug = tab[t].slug /\ tab'[t].key = tab[t].key
      BY <1>1, <1>6, <2>1, WorkOf DEF Put, Goes
    <3>2. tab'[t].key \in objects'
      BY <2>1, <3>1 DEF BrowserPut, PutObject
    <3>3. NotReplaced(tab[t].slug)'
      BY <1>6, <2>1, <3>1
         DEF Put, FileOf, NotReplaced, IsReplace, BrowserPut, Rewritten, storeVars
    <3> QED
      BY <3>1, <3>2, <3>3 DEF FileOf, Accounted, NotReplaced, IsReplace
  <2> QED
    BY <1>2, <1>6, <2>1 DEF Put
<1>7. CASE Poll(t)
  <2>1. CASE Goes(t, [tab[t] EXCEPT !.at = "done"])
    BY <1>1, <1>7, <2>1, WorkOf, FileElsewhere DEF Poll, Goes
  <2>2. CASE UNCHANGED tab
    BY <1>7, <2>2, NothingHappens DEF Poll
  <2> QED
    BY <1>2, <1>7, <2>1, <2>2 DEF Poll
<1>8. CASE PollFails(t) \/ LeavePage(t)
  BY <1>2, <1>8 DEF PollFails, LeavePage, Throws
<1> QED
  BY <1>3, <1>4, <1>5, <1>6, <1>7, <1>8 DEF TabStep

LEMMA FileStep ==
    ASSUME OneAtATime, PageInv, TableInv, FileInv, [PageNext]_allVars
    PROVE  FileInv'
<1> SUFFICES ASSUME NEW t \in Tabs
             PROVE  FileOf(t)'
  BY DEF FileInv
<1>1. FileOf(t)
  BY DEF FileInv
<1>2. CASE \E u \in Tabs : TabStep(u)
  BY <1>1, <1>2, TabFileStep DEF OneAtATime
<1>3. CASE Dashboard
  BY <1>1, <1>3, StartKeepsFile, DeleteObjectKeepsFile, FinishKeepsFile DEF Dashboard
<1>4. CASE SessionNext /\ UNCHANGED <<vars, tab>>
  BY <1>1, <1>4, NothingHappens
<1>5. CASE PollerNext /\ UNCHANGED <<adminVars, listenerVars, crashes, pageVars>>
  BY <1>1, <1>5, PollerKeepsFile
<1>6. CASE Restart
  BY <1>1, <1>6, RestartKeepsFile
<1>7. CASE UNCHANGED allVars
  BY <1>1, <1>7, NothingHappens DEF allVars
<1> QED
  BY <1>2, <1>3, <1>4, <1>5, <1>6, <1>7 DEF PageNext

\* A tab reports success only when the track it asked about was there.
LEMMA DoneByPoll ==
    ASSUME PageInv, [PageNext]_allVars, NEW t \in Tabs,
           tab[t].at = "processing", tab'[t].at = "done"
    PROVE  Exists(tab[t].slug)
<1>1. tab \in [Tabs -> TabStates]
  BY DEF PageInv, PageTypeOK
<1>2. tab'[t] # tab[t]
  OBVIOUS
<1>3. ASSUME NEW x, Goes(t, x)
      PROVE  tab'[t] = x
  BY <1>1, <1>3 DEF Goes
<1>4. PICK u \in Tabs : TabStep(u)
  BY <1>2 DEF PageNext, Dashboard, Restart, pageVars, allVars
<1>5. u = t
  BY <1>1, <1>2, <1>4
     DEF TabStep, SubmitUpload, SubmitReplace, ServeReplace, Put, Poll, PollFails, LeavePage,
         Throws, Goes
<1>6. ~Throws(t)
  BY <1>3, TabStatesAre DEF Throws
<1> QED
  BY <1>4, <1>5, <1>6, <1>2
     DEF TabStep, SubmitUpload, SubmitReplace, ServeReplace, Put, Poll, PollFails, LeavePage,
         Throws

\* An artist who does one thing at a time is told of success only when the file
\* is stored, whatever else runs: deletes from the dashboard, restarts, late
\* events of the file before (upload.js:79-95, replace.js:22-37).  Two tabs, or
\* a replacement that goes on in the server after its tab was closed, may
\* remove the file behind the report.
THEOREM SuccessIsHonest == OneAtATime => (PageSpec => SuccessIsStored)
<1> SUFFICES ASSUME OneAtATime
             PROVE  PageSpec => SuccessIsStored
  OBVIOUS
<1>1. PageInit => FileInv
  BY TabStatesAre DEF PageInit, FileInv, FileOf
<1>2. FileInv /\ PageInv /\ TypeOK /\ TableInv /\ [PageNext]_allVars => FileInv'
  BY FileStep
<1>3. FileInv /\ PageInv /\ [PageNext]_allVars
      => [\A t \in Tabs :
             tab[t].at = "processing" /\ tab'[t].at = "done"
             /\ tracks[tab[t].slug].key = tab[t].key
             => tab[t].key \in objects \cup damaged \cup HalfDone]_allVars
  BY DoneByPoll DEF FileInv, FileOf, Accounted
<1> QED
  BY <1>1, <1>2, <1>3, PageInvInit, PageInvStep, PageImplementsService, TableInvariant, PTL
     DEF PageSpec, SuccessIsStored
=============================================================================
