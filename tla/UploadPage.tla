----------------------------- MODULE UploadPage -----------------------------
(***************************************************************************)
(* The service together with the artist's browser: the upload page and the *)
(* replace controls (internal/web/static/upload.js and replace.js), whose  *)
(* scripts ask the server for a URL, PUT the file to R2 and poll the       *)
(* track's status until they can report an outcome, in a session that may  *)
(* end at any time.                                                        *)
(*                                                                         *)
(* The two scripts take the same steps and differ in their first request.  *)
(***************************************************************************)
EXTENDS Transients, Session

CONSTANT Tabs   \* browser tabs that upload or replace a file; one, unless several
                \* work on the same tracks at the same time

\* the expiry field of the upload form may be left empty
ASSUME UploadPageAssumption == Never \in Offered

VARIABLE tab    \* tab -> what its script is doing

pageVars == <<tab, cookie>>
allVars  == <<vars, tab, cookie>>

\* "form" also stands for the form with an error message, "requesting" for a
\* replace request that waits for its answer in slot r
Idle == [at |-> "form"]

Requesting(r) == [at |-> "requesting", slot |-> r]

Working(at, s, k) == [at |-> at, slug |-> s, key |-> k]

TabStates ==
    {Idle}
        \cup {Requesting(r) : r \in Reqs}
        \cup {Working(at, s, k) : at \in {"putting", "processing", "done"},
                                  s \in Slugs, k \in ObjectKeys}

PageTypeOK ==
    /\ TypeOK
    /\ SessionTypeOK
    /\ tab \in [Tabs -> TabStates]
    /\ \A t \in Tabs : tab[t].at = "requesting" =>
           LET q == req[tab[t].slot] IN q # NoReq /\ q.op = "replace"

PageInit ==
    /\ Init
    /\ SessionInit
    /\ tab = [t \in Tabs |-> Idle]

Goes(t, state) == tab' = [tab EXCEPT ![t] = state]

\* throw: the error is shown and the form comes back
Throws(t) == Goes(t, Idle)

Outside == <<pollerVars, listenerVars, crashes, cookie>>

-----------------------------------------------------------------------------
(* First request *)

\* The upload is prepared, or its answer is an error although the row was
\* inserted: PresignPut fails, or the connection breaks.
SubmitUpload(t) ==
    /\ tab[t].at = "form"
    /\ IsAuthenticated
    /\ \E s \in Slugs, e \in Exts :
           /\ Upload(s, e, Never)
           /\ Goes(t, Working("putting", s, <<s, e>>)) \/ Throws(t)
    /\ UNCHANGED Outside

SubmitReplace(t) ==
    /\ tab[t].at = "form"
    /\ IsAuthenticated
    /\ \E r \in Reqs, s \in Slugs, e \in Exts :
           StartReplace(r, s, e) /\ Goes(t, Requesting(r))
    /\ UNCHANGED Outside

\* handleReplaceRequest goes on, whatever has become of the session
ServeReplace(t) ==
    /\ tab[t].at = "requesting"
    /\ LET r  == tab[t].slot
           q  == req[r]
           ok == Exists(q.slug) /\ KeyFreeFor(q.slug, q.newKey)
       IN  \/ DeleteObject(r) /\ (IF req'[r] = NoReq THEN Throws(t) ELSE UNCHANGED tab)
           \/ /\ FinishReplace(r)
              /\ IF ok /\ UNCHANGED faults
                 THEN Goes(t, Working("putting", q.slug, q.newKey)) \/ Throws(t)
                 ELSE Throws(t)
    /\ UNCHANGED Outside

-----------------------------------------------------------------------------
(* The PUT to R2 *)

\* mutant: xhr.onload resolves whatever the status
PutWhateverStatus(t) ==
    /\ tab[t].at = "putting"
    /\ \/ BrowserPut(tab[t].key)
       \/ UNCHANGED vars
    /\ Goes(t, [tab[t] EXCEPT !.at = "processing"])
    /\ UNCHANGED cookie

\* only a 2xx answer counts; without one the file may have arrived or not
Put(t) ==
    /\ tab[t].at = "putting"
    /\ \/ BrowserPut(tab[t].key) /\ Goes(t, [tab[t] EXCEPT !.at = "processing"])
       \/ (BrowserPut(tab[t].key) \/ UNCHANGED vars) /\ Throws(t)
    /\ UNCHANGED cookie

-----------------------------------------------------------------------------
(* pollStatus *)

\* mutant: an answer that is not JSON is tried again
PollPatiently(t) ==
    /\ tab[t].at = "processing"
    /\ LET s == tab[t].slug
       IN  IF ~IsAuthenticated \/ ~Exists(s) THEN UNCHANGED tab
           ELSE \/ tracks[s].status = "ready"   /\ Goes(t, [tab[t] EXCEPT !.at = "done"])
                \/ tracks[s].status = "failed"  /\ Throws(t)
                \/ tracks[s].status = "pending" /\ UNCHANGED tab
    /\ UNCHANGED <<vars, cookie>>

\* The login page and the 404 are not JSON, so they end the loop as "failed"
\* does; "pending" is asked again two seconds later.
Poll(t) ==
    /\ tab[t].at = "processing"
    /\ LET s == tab[t].slug
       IN  IF ~IsAuthenticated \/ ~Exists(s) THEN Throws(t)
           ELSE \/ tracks[s].status = "ready"   /\ Goes(t, [tab[t] EXCEPT !.at = "done"])
                \/ tracks[s].status = "failed"  /\ Throws(t)
                \/ tracks[s].status = "pending" /\ UNCHANGED tab
    /\ UNCHANGED <<vars, cookie>>

\* fetch rejects, or the server answers 500
PollFails(t) ==
    /\ tab[t].at = "processing"
    /\ Throws(t)
    /\ UNCHANGED <<vars, cookie>>

\* result-reset and location.reload() bring the form back; closing the tab
\* ends any script
LeavePage(t) ==
    /\ tab[t].at # "form"
    /\ Goes(t, Idle)
    /\ UNCHANGED <<vars, cookie>>

TabStep(t) ==
    \/ SubmitUpload(t)
    \/ SubmitReplace(t)
    \/ ServeReplace(t)
    \/ Put(t)
    \/ Poll(t)
    \/ PollFails(t)
    \/ LeavePage(t)

-----------------------------------------------------------------------------
(* Everything else *)

\* Deletes, from the dashboard of another tab (a rotation takes the page its
\* slug away in the same way).  A replacement whose tab was closed is served to
\* its end like they are.
Unattended(r) == \A t \in Tabs : tab[t] # Requesting(r)

Dashboard ==
    /\ \/ IsAuthenticated /\ \E r \in Reqs, s \in Slugs : StartDelete(r, s)
       \/ \E r \in Reqs :
              Unattended(r) /\ (DeleteObject(r) \/ FinishReplace(r) \/ FinishDelete(r))
    /\ UNCHANGED <<Outside, tab>>

\* mutant: a request cut off by a restart is waited for all the same
RestartUnnoticed == Crash /\ UNCHANGED pageVars

\* A restart breaks the connection of the requests under way.
Restart ==
    /\ Crash
    /\ tab' = [t \in Tabs |-> IF tab[t].at = "requesting" THEN Idle ELSE tab[t]]
    /\ UNCHANGED cookie

PageNext ==
    \/ \E t \in Tabs : TabStep(t)
    \/ Dashboard
    \/ SessionNext /\ UNCHANGED <<vars, tab>>
    \/ PollerNext /\ UNCHANGED <<adminVars, listenerVars, crashes, pageVars>>
    \/ Restart

PageSpec == PageInit /\ [][PageNext]_allVars

\* The poller is as fair as in Transients, and a tab that is left open goes on
\* polling.  Nothing else has to happen.
PageFairSpec == PageSpec /\ Fairness /\ \A t \in Tabs : WF_allVars(Poll(t))

-----------------------------------------------------------------------------
(* Properties *)

\* A page that reports success has its file in the bucket, although the poller
\* may confirm a track by an event of the file it had before (see
\* ConfirmedKeyIsCurrent): the loop starts after the PUT has succeeded
\* (upload.js:79-95, replace.js:22-37).  A delete may have removed the file
\* since.  It takes an artist who does one thing at a time: a second tab that
\* replaces the same track, or a replacement that goes on in the server after
\* its tab was closed, removes the file behind the report.
SuccessIsStored ==
    [][\A t \in Tabs :
           tab[t].at = "processing" /\ tab'[t].at = "done"
           /\ tracks[tab[t].slug].key = tab[t].key
           => tab[t].key \in objects \cup damaged \cup HalfDone]_allVars

\* the track the page asks about has its file, or is gone
Decidable(t) ==
    LET s == tab[t].slug
    IN  tab[t].at = "processing"
        /\ (Exists(s) => tracks[s].key \in objects \ abandoned)

\* A page never shows "Processing..." for ever over a file that arrived or a
\* track that was deleted, also when the session ends or the server restarts
\* meanwhile (upload.js:107-122, replace.js:47-60).
PageSettles == \A t \in Tabs : Decidable(t) ~> ~Decidable(t)
=============================================================================
