---------------------------- MODULE VisitsProofs ----------------------------
(***************************************************************************)
(* What holds of Visits for every length of a day, of a track and of a     *)
(* URL's life, any number of tracks and pages, and however long it runs:   *)
(* the URLs a link has handed out end with it, an edit form saved          *)
(* unchanged keeps it, the button tells the truth once the events are      *)
(* handled, and a page load counts one play at most.                       *)
(***************************************************************************)
EXTENDS Visits, StoreProofs, SumProofs, SequenceTheorems

(***************************************************************************)
(* URLs.  The invariant: a link that shows the player is not dark.         *)
(***************************************************************************)

UrlInv ==
    /\ url \in [Slugs -> Nat]
    /\ dark \in [Slugs -> Nat]
    /\ \A s \in Slugs : Visible(s) => dark[s] = 0
    /\ UrlsDieWithLinks

\* At first no link shows the player and no URL has been minted.
LEMMA UrlInit == Init => UrlInv
<1> SUFFICES ASSUME Init PROVE UrlInv
  OBVIOUS
<1>1. \A s \in Slugs : ~Visible(s)
  BY DEF Init, StoreInit, Visible, Ready, Exists
<1> QED
  BY <1>1, VisitsAssumption DEF Init, UrlInv, UrlsDieWithLinks

\* A page that mints a URL has just found its link showing the player, and
\* leaves the table alone.
LEMMA MintedWhileVisible ==
    ASSUME UrlInv, TableStep \/ FormStep \/ VisitStep \/ BeaconStep, Darken(0)
    PROVE  /\ url' \in [Slugs -> Nat]
           /\ \A s \in Slugs : \/ url'[s] = url[s]
                               \/ url'[s] = TTL /\ Visible(s)'
<1>1. CASE UNCHANGED url
  BY <1>1 DEF UrlInv
<1>2. ASSUME NEW s \in Slugs, OpenPage(s)
      PROVE  /\ url' = [url EXCEPT ![s] = TTL]
             /\ Visible(s)'
  BY <1>2 DEF OpenPage, PresignGet, storeVars, Visible, Ready, Expired, Exists
<1>3. CASE \E s \in Slugs : OpenPage(s)
  BY <1>2, <1>3, VisitsAssumption DEF UrlInv
<1>4. UNCHANGED url \/ \E s \in Slugs : OpenPage(s)
  BY DEF TableStep, FormStep, OpenForm, SaveForm, VisitStep, OpenDeadLink, Watch, Hear,
         BeaconStep, visitVars
<1> QED
  BY <1>1, <1>3, <1>4

LEMMA UrlStep == UrlInv /\ [Next]_vars => UrlInv'
<1> SUFFICES ASSUME UrlInv, [Next]_vars PROVE UrlInv'
  OBVIOUS
<1>1. CASE (TableStep \/ FormStep \/ VisitStep \/ BeaconStep) /\ Darken(0)
  <2>1. /\ url' \in [Slugs -> Nat]
        /\ \A s \in Slugs : \/ url'[s] = url[s]
                            \/ url'[s] = TTL /\ Visible(s)'
    BY <1>1, MintedWhileVisible
  <2>2. /\ dark' \in [Slugs -> Nat]
        /\ \A s \in Slugs : /\ Visible(s)' => dark'[s] = 0
                            /\ ~Visible(s)' => dark'[s] = dark[s]
    BY <1>1, VisitsAssumption DEF UrlInv, UrlsDieWithLinks, Darken
  <2>3. ASSUME NEW s \in Slugs
        PROVE  dark'[s] + url'[s] <= TTL
    <3>1. url[s] \in Nat /\ dark[s] \in Nat /\ TTL \in Nat /\ dark[s] + url[s] <= TTL
      BY VisitsAssumption DEF UrlInv, UrlsDieWithLinks
    <3>2. CASE Visible(s)'
      BY <2>1, <2>2, <3>1, <3>2
    <3>3. CASE ~Visible(s)'
      BY <2>1, <2>2, <3>1, <3>3
    <3> QED
      BY <3>2, <3>3
  <2> QED
    BY <2>1, <2>2, <2>3 DEF UrlInv, UrlsDieWithLinks
<1>2. CASE Tick /\ Darken(1)
  <2>1. /\ url' \in [Slugs -> Nat]
        /\ \A s \in Slugs : url'[s] = IF url[s] = 0 THEN 0 ELSE url[s] - 1
    BY <1>2 DEF Tick, UrlInv
  <2>2. /\ dark' \in [Slugs -> Nat]
        /\ \A s \in Slugs : /\ Visible(s)' => dark'[s] = 0
                            /\ dark'[s] <= TTL
                            /\ dark'[s] <= dark[s] + 1
    BY <1>2, VisitsAssumption DEF UrlInv, Darken
  <2>3. ASSUME NEW s \in Slugs
        PROVE  dark'[s] + url'[s] <= TTL
    <3>1. url[s] \in Nat /\ dark[s] \in Nat /\ TTL \in Nat /\ dark[s] + url[s] <= TTL
      BY VisitsAssumption DEF UrlInv, UrlsDieWithLinks
    <3>2. dark'[s] \in Nat
      BY <2>2
    <3> QED
      BY <2>1, <2>2, <3>1, <3>2
  <2> QED
    BY <2>1, <2>2, <2>3 DEF UrlInv, UrlsDieWithLinks
<1>3. CASE UNCHANGED vars
  BY <1>3 DEF vars, storeVars, visitVars, UrlInv, UrlsDieWithLinks, Visible, Ready, Expired,
              Exists
<1> QED
  BY <1>1, <1>2, <1>3 DEF Next

\* No URL outlives its link by more than the life of a URL.
THEOREM UrlsEnd == Spec => []UrlsDieWithLinks
<1>1. UrlInv => UrlsDieWithLinks
  BY DEF UrlInv
<1> QED
  BY UrlInit, UrlStep, <1>1, PTL DEF Spec

(***************************************************************************)
(* The edit form.  While it is open the clock runs and the expiry, counted *)
(* from now, runs down with it, so the date it shows stays the one of the  *)
(* track's expiry.                                                         *)
(***************************************************************************)

FormIsCurrent ==
    form # Nowhere =>
        /\ form.slug \in used
        /\ form.date \in Nat \cup {NoDate}
        /\ Exists(form.slug) => form.date = ShownDate(form.slug)

ExpiresAfterStart ==
    \A s \in Slugs :
        Exists(s) /\ tracks[s].expires # Never => now + tracks[s].expires >= 0

FormInv ==
    /\ StoreTypeOK
    /\ now \in 0..Horizon
    /\ \A s \in Slugs : Exists(s) => s \in used
    /\ ExpiresAfterStart
    /\ FormIsCurrent

LEMMA FormInit == Init => FormInv
BY VisitsAssumption DEF Init, StoreInit, FormInv, StoreTypeOK, Exists, ExpiresAfterStart,
                        FormIsCurrent

\* The day of an instant begins at or before it and ends after it.
LEMMA DayBounds ==
    ASSUME NEW e \in Nat
    PROVE  /\ e \div Day \in Nat
           /\ ((e \div Day) + 1) * Day \in Int
           /\ e < ((e \div Day) + 1) * Day
           /\ ((e \div Day) + 1) * Day <= e + Day
<1>1. Day \in Nat \ {0}
  BY VisitsAssumption
<1>2. e \div Day \in Int /\ e % Day \in Int
  BY <1>1
<1>3. e = Day * (e \div Day) + (e % Day) /\ 0 <= e % Day /\ e % Day < Day
  BY <1>1
<1>4. ((e \div Day) + 1) * Day = Day * (e \div Day) + Day
  BY <1>1, <1>2
<1>5. Day * (e \div Day) \in Int
  BY <1>1, <1>2
<1>6. e \div Day >= 0
  BY <1>1
<1> QED
  BY <1>1, <1>2, <1>3, <1>4, <1>5, <1>6

LEMMA ExpiryTypes ==
    ASSUME FormInv, NEW s \in Slugs, Exists(s)
    PROVE  /\ tracks[s].expires \in (Int \cup {Never})
           /\ tracks[s].expires # Never => now + tracks[s].expires \in Nat
           /\ ShownDate(s) \in Nat \cup {NoDate}
<1>1. tracks[s].expires \in Expiries /\ now \in Int
  BY VisitsAssumption DEF FormInv, StoreTypeOK, Exists, Row
<1>2. tracks[s].expires \in Int \cup {Never}
  BY <1>1, VisitsAssumption
<1>3. tracks[s].expires # Never => now + tracks[s].expires \in Nat
  BY <1>1, <1>2 DEF FormInv, ExpiresAfterStart
<1>4. ShownDate(s) \in Nat \cup {NoDate}
  BY <1>3, DayBounds DEF ShownDate
<1> QED
  BY <1>2, <1>3, <1>4

\* A statement that keeps every expiry keeps the form current.
LEMMA FormKept ==
    ASSUME FormInv, StoreTypeOK', KeepsExpiry, UNCHANGED <<now, form>>
    PROVE  FormInv'
<1>1. \A s \in Slugs : Exists(s)' => Exists(s) /\ s \in used'
  BY DEF FormInv, KeepsExpiry
<1>2. ExpiresAfterStart'
  BY <1>1 DEF FormInv, KeepsExpiry, ExpiresAfterStart, Exists
<1>3. FormIsCurrent'
  BY <1>1 DEF FormInv, KeepsExpiry, FormIsCurrent, StoreTypeOK, ShownDate, Exists
<1> QED
  BY <1>1, <1>2, <1>3 DEF FormInv

LEMMA UploadKeepsForm ==
    ASSUME FormInv, NEW s \in Slugs, NEW days \in Lifetimes, Upload(s, days),
           UNCHANGED <<now, form>>
    PROVE  FormInv'
<1>1. ExpiryAfter(days) \in Expiries
      /\ (ExpiryAfter(days) # Never => ExpiryAfter(days) \in Nat)
  <2>1. CASE days > 0
    <3>1. days * Day \in Nat /\ days * Day <= Latest
      BY <2>1, VisitsAssumption
    <3> QED
      BY <2>1, <3>1, VisitsAssumption DEF ExpiryAfter
  <2>2. CASE ~(days > 0)
    BY <2>2, VisitsAssumption DEF ExpiryAfter
  <2> QED
    BY <2>1, <2>2
<1>2. PICK e \in Exts : Insert(s, <<s, e>>, ExpiryAfter(days))
  BY DEF Upload, CreatePending
<1>3. StoreTypeOK'
  BY <1>1, <1>2, InsertType DEF FormInv, ObjectKeys
<1>4. /\ used' = used \cup {s} /\ s \notin used
      /\ tracks'[s].expires = ExpiryAfter(days)
      /\ \A t \in Slugs \ {s} : tracks'[t] = tracks[t]
  BY <1>2 DEF Upload, Fresh, Insert, FormInv, StoreTypeOK
<1>5. ExpiresAfterStart'
  BY <1>1, <1>4, VisitsAssumption DEF FormInv, ExpiresAfterStart, Exists
<1>6. FormIsCurrent'
  BY <1>4 DEF FormInv, FormIsCurrent, StoreTypeOK, ShownDate, Exists
<1>7. \A t \in Slugs : Exists(t)' => t \in used'
  BY <1>4 DEF FormInv, Exists
<1> QED
  BY <1>3, <1>5, <1>6, <1>7 DEF FormInv

LEMMA OpenKeepsForm ==
    ASSUME FormInv, NEW s \in Slugs, OpenForm(s)
    PROVE  FormInv'
<1>1. form' = [slug |-> s, date |-> ShownDate(s)] /\ Exists(s) /\ s \in used
  BY DEF OpenForm, FormInv
<1>2. ShownDate(s) \in Nat \cup {NoDate}
  BY <1>1, ExpiryTypes
<1>3. UNCHANGED <<tracks, used, now>>
  BY DEF OpenForm, storeVars
<1>4. FormIsCurrent'
  BY <1>1, <1>2, <1>3 DEF FormIsCurrent, ShownDate, Exists
<1> QED
  BY <1>3, <1>4 DEF FormInv, StoreTypeOK, ExpiresAfterStart, Exists

\* UpdateTrack gives the row the new expiry and keeps all others.
LEMMA UpdateTrackEffect ==
    ASSUME StoreTypeOK, NEW s \in Slugs, NEW x \in Expiries, Exists(s), UpdateTrack(s, x)
    PROVE  /\ used' = used
           /\ Exists(s)' /\ tracks'[s].expires = x
           /\ \A t \in Slugs \ {s} : tracks'[t] = tracks[t]
<1>1. tracks' = [tracks EXCEPT ![s] = [tracks[s] EXCEPT !.expires = x]]
  BY DEF UpdateTrack
<1>2. [tracks[s] EXCEPT !.expires = x] \in Row /\ [tracks[s] EXCEPT !.expires = x].expires = x
  BY DEF StoreTypeOK, Exists, Row
<1> QED
  BY <1>1, <1>2, NoRowAssumption DEF UpdateTrack, StoreTypeOK, Exists

LEMMA SaveKeepsForm ==
    ASSUME FormInv, NEW date \in Dates \cup {NoDate, form.date}, SaveForm(date)
    PROVE  FormInv'
<1>1. PICK s \in Slugs : s = form.slug /\ form' = Nowhere /\ UNCHANGED now
  BY DEF SaveForm, FormInv, FormIsCurrent, StoreTypeOK
<1>2. CASE ~Exists(s)
  <2>1. UNCHANGED <<tracks, used>>
    BY <1>1, <1>2 DEF SaveForm, storeVars
  <2> QED
    BY <1>1, <2>1 DEF FormInv, StoreTypeOK, ExpiresAfterStart, FormIsCurrent, Exists
<1>3. CASE Exists(s)
  <2>1. EndOfDay(date) \in Expiries /\ UpdateTrack(s, EndOfDay(date))
    BY <1>1, <1>3 DEF SaveForm
  <2>2. EndOfDay(date) # Never => now + EndOfDay(date) >= 0
    <3>1. date \in Nat \cup {NoDate}
      BY VisitsAssumption DEF SaveForm, FormInv, FormIsCurrent
    <3>2. CASE date \in Nat
      <4>1. (date + 1) * Day \in Nat /\ now \in Int
        BY <3>2, VisitsAssumption DEF FormInv
      <4> QED
        BY <3>2, <4>1, VisitsAssumption DEF EndOfDay
    <3>3. CASE date = NoDate
      BY <3>3 DEF EndOfDay
    <3> QED
      BY <3>1, <3>2, <3>3
  <2>3. StoreTypeOK'
    BY <1>1, <1>3, <2>1, UpdateTrackType DEF FormInv
  <2>4. /\ used' = used
        /\ Exists(s)' /\ tracks'[s].expires = EndOfDay(date)
        /\ \A t \in Slugs \ {s} : tracks'[t] = tracks[t]
    BY <1>1, <1>3, <2>1, UpdateTrackEffect DEF FormInv
  <2>5. ExpiresAfterStart'
    BY <1>1, <2>2, <2>4 DEF FormInv, ExpiresAfterStart, Exists
  <2>6. \A t \in Slugs : Exists(t)' => t \in used'
    BY <1>1, <1>3, <2>4 DEF FormInv, Exists
  <2> QED
    BY <1>1, <2>3, <2>5, <2>6 DEF FormInv, FormIsCurrent
<1> QED
  BY <1>2, <1>3

\* A tick takes one from every expiry and adds one to the clock.
LEMMA TickKeepsForm ==
    ASSUME FormInv, Tick
    PROVE  FormInv'
<1>1. now' = now + 1 /\ now \in Nat /\ now' \in 0..Horizon /\ UNCHANGED <<used, form>>
  BY VisitsAssumption DEF Tick, FormInv
<1>2. ASSUME NEW s \in Slugs, Exists(s)
      PROVE  /\ tracks'[s] \in Row
             /\ tracks[s].expires = Never => tracks'[s].expires = Never
             /\ tracks[s].expires # Never => /\ tracks'[s].expires # Never
                                             /\ tracks'[s].expires = tracks[s].expires - 1
  <2>1. tracks'[s] = Aged(s) /\ tracks[s] \in Row /\ tracks[s].expires \in Expiries
    BY <1>2 DEF Tick, FormInv, StoreTypeOK, Exists, Row
  <2>2. CASE tracks[s].expires = Never
    BY <2>1, <2>2 DEF Aged
  <2>3. CASE tracks[s].expires # Never
    <3>1. tracks[s].expires \in Int /\ now + tracks[s].expires >= 0
      BY <1>2, <2>3, ExpiryTypes
    <3>2. tracks[s].expires - 1 \in Expiries /\ tracks[s].expires - 1 # Never
      BY <1>1, <2>1, <2>3, <3>1, VisitsAssumption DEF Tick
    <3>3. tracks'[s] = [tracks[s] EXCEPT !.expires = tracks[s].expires - 1]
      BY <1>2, <2>1, <2>3 DEF Aged
    <3>4. tracks'[s] \in Row /\ tracks'[s].expires = tracks[s].expires - 1
      BY <2>1, <3>2, <3>3 DEF Row
    <3> QED
      BY <2>3, <3>2, <3>4
  <2> QED
    BY <2>2, <2>3, <2>1
<1>3. \A s \in Slugs : ~Exists(s) => tracks'[s] = NoRow
  BY DEF Tick, Aged, Exists
<1>4. \A s \in Slugs : Exists(s)' => Exists(s)
  BY <1>3 DEF Exists
<1>5. StoreTypeOK'
  <2>1. DOMAIN tracks' = Slugs /\ tracks' = [s \in Slugs |-> Aged(s)]
    BY DEF Tick
  <2>2. \A s \in Slugs : tracks'[s] \in Row \cup {NoRow}
    BY <1>2, <1>3
  <2> QED
    BY <1>1, <2>1, <2>2 DEF StoreTypeOK, FormInv
<1>6. ASSUME NEW s \in Slugs, Exists(s), tracks[s].expires # Never
      PROVE  now' + tracks'[s].expires = now + tracks[s].expires
  BY <1>1, <1>2, <1>6, ExpiryTypes
<1>7. ExpiresAfterStart'
  BY <1>2, <1>4, <1>6 DEF FormInv, ExpiresAfterStart
<1>8. \A s \in Slugs : Exists(s) => ShownDate(s)' = ShownDate(s)
  BY <1>2, <1>6 DEF ShownDate
<1>9. FormIsCurrent'
  BY <1>1, <1>4, <1>8 DEF FormInv, FormIsCurrent, StoreTypeOK
<1> QED
  BY <1>1, <1>4, <1>5, <1>7, <1>9 DEF FormInv

LEMMA TableKeepsForm ==
    ASSUME FormInv, TableStep
    PROVE  FormInv'
<1>1. StoreTypeOK /\ UNCHANGED <<now, form>>
  BY DEF TableStep, FormInv
<1>2. CASE \E s \in Slugs, days \in Lifetimes : Upload(s, days)
  BY <1>1, <1>2, UploadKeepsForm
<1>3. ASSUME NEW s \in Slugs, Manage(s)
      PROVE  StoreTypeOK' /\ KeepsExpiry
  <2>1. Exists(s)
    BY <1>3 DEF Manage
  <2>2. CASE MarkReady(s)
    BY <1>1, <2>2, SetStatusType, SetStatusKeepsExpiry DEF MarkReady, Statuses
  <2>3. CASE BeginReplace(s, tracks[s].key)
    <3>1. tracks[s].key \in ObjectKeys
      BY <1>1, <2>1 DEF StoreTypeOK, Exists, Row
    <3> QED
      BY <1>1, <2>1, <2>3, <3>1, BeginReplaceType, BeginReplaceKeepsExpiry
  <2>4. CASE Delete(s)
    BY <1>1, <2>4, DeleteType, DeleteKeepsExpiry
  <2> QED
    BY <1>3, <2>2, <2>3, <2>4 DEF Manage
<1> QED
  BY <1>1, <1>2, <1>3, FormKept DEF TableStep

LEMMA BeaconKeepsForm ==
    ASSUME FormInv, ListenerTypeOK, BeaconStep
    PROVE  FormInv'
<1>1. StoreTypeOK /\ UNCHANGED <<now, form>>
  BY DEF BeaconStep, FormInv
<1>2. CASE UNCHANGED storeVars
  BY <1>1, <1>2, FormKept DEF storeVars, StoreTypeOK, KeepsExpiry, Exists
<1>3. ASSUME NEW s \in Slugs, Exists(s), IncrementPlayCount(s)
      PROVE  FormInv'
  BY <1>1, <1>3, IncrementType, IncrementKeepsExpiry, FormKept
<1>4. UNCHANGED storeVars \/ \E s \in Slugs : Exists(s) /\ IncrementPlayCount(s)
  BY ListenerAssumption DEF BeaconStep, LookupPlay, RecordPlay, ListenerTypeOK
<1> QED
  BY <1>2, <1>3, <1>4

LEMMA ListenerTypeInit == Init => ListenerTypeOK
BY DEF Init, ListenerInit, ListenerTypeOK

LEMMA ListenerTypeStep == ListenerTypeOK /\ [Next]_vars => ListenerTypeOK'
<1> SUFFICES ASSUME ListenerTypeOK, [Next]_vars PROVE ListenerTypeOK'
  OBVIOUS
<1>1. CASE BeaconStep
  BY <1>1 DEF BeaconStep, LookupPlay, RecordPlay, ListenerTypeOK, listenerVars
<1>2. CASE UNCHANGED listenerVars
  BY <1>2 DEF listenerVars, ListenerTypeOK
<1> QED
  BY <1>1, <1>2 DEF Next, vars, TableStep, FormStep, OpenForm, SaveForm, VisitStep, OpenPage,
     OpenDeadLink, Watch, Hear, Tick

LEMMA FormStepKept == FormInv /\ ListenerTypeOK /\ [Next]_vars => FormInv'
<1> SUFFICES ASSUME FormInv, ListenerTypeOK, [Next]_vars PROVE FormInv'
  OBVIOUS
<1>1. CASE FormStep
  BY <1>1, OpenKeepsForm, SaveKeepsForm DEF FormStep
<1>2. CASE UNCHANGED <<storeVars, now, form>>
  BY <1>2, FormKept DEF storeVars, FormInv, StoreTypeOK, KeepsExpiry, Exists
<1>3. VisitStep => UNCHANGED <<storeVars, now, form>>
  BY DEF VisitStep, OpenPage, OpenDeadLink, Watch, Hear
<1>4. UNCHANGED vars => UNCHANGED <<storeVars, now, form>>
  BY DEF vars
<1> QED
  BY <1>1, <1>2, <1>3, <1>4, TableKeepsForm, BeaconKeepsForm, TickKeepsForm DEF Next

\* The saved date is that of the expiry, and its end lies after the expiry, by
\* a day at most.
LEMMA UnchangedSave ==
    ASSUME FormInv, form # Nowhere, SaveForm(form.date), Exists(form.slug)
    PROVE  LET old == tracks[form.slug].expires
               new == tracks'[form.slug].expires
           IN  IF old = Never THEN new = Never ELSE new - old \in 0..Day
<1>1. PICK s \in Slugs : s = form.slug
  BY DEF FormInv, FormIsCurrent, StoreTypeOK
<1>2. form.date = ShownDate(s) /\ Exists(s) /\ StoreTypeOK
  BY <1>1 DEF FormInv, FormIsCurrent
<1>3. EndOfDay(form.date) \in Expiries /\ UpdateTrack(s, EndOfDay(form.date))
  BY <1>1, <1>2 DEF SaveForm
<1>4. tracks'[s].expires = EndOfDay(ShownDate(s))
  BY <1>2, <1>3, UpdateTrackEffect
<1>5. CASE tracks[s].expires = Never
  BY <1>1, <1>4, <1>5 DEF ShownDate, EndOfDay
<1>6. CASE tracks[s].expires # Never
  <2> DEFINE e == now + tracks[s].expires
  <2>1. e \in Nat /\ tracks[s].expires \in Int /\ now \in Int
    BY <1>2, <1>6, ExpiryTypes, VisitsAssumption DEF FormInv
  <2>2. ShownDate(s) = e \div Day /\ ShownDate(s) # NoDate
    <3>1. ShownDate(s) = e \div Day
      BY <1>6 DEF ShownDate
    <3>2. e \div Day \in Nat
      BY <2>1, DayBounds
    <3> QED
      BY <3>1, <3>2, VisitsAssumption
  <2>3. EndOfDay(ShownDate(s)) = ((e \div Day) + 1) * Day - now
    BY <2>2 DEF EndOfDay
  <2>4. /\ ((e \div Day) + 1) * Day \in Int
        /\ e < ((e \div Day) + 1) * Day
        /\ ((e \div Day) + 1) * Day <= e + Day
    BY <2>1, DayBounds
  <2>5. tracks'[s].expires - tracks[s].expires = ((e \div Day) + 1) * Day - e
    BY <1>4, <2>1, <2>3, <2>4
  <2>6. tracks'[s].expires - tracks[s].expires \in 0..Day
    <3>1. ASSUME NEW i \in Nat, NEW j \in Int, i < j, j <= i + Day
          PROVE  j - i \in 0..Day
      BY <3>1, VisitsAssumption
    <3> QED
      BY <2>1, <2>4, <2>5, <3>1
  <2> QED
    BY <1>1, <1>6, <2>6
<1> QED
  BY <1>5, <1>6

\* Saving the form unchanged never ends a link sooner, and later by a day at
\* most, whenever the form was opened and whatever happened since.
THEOREM SaveNeverShortens == Spec => SaveNeverCutsShort
<1>1. FormInv /\ [Next]_vars =>
        [form # Nowhere /\ SaveForm(form.date) /\ Exists(form.slug) =>
           LET old == tracks[form.slug].expires
               new == tracks'[form.slug].expires
           IN  IF old = Never THEN new = Never ELSE new - old \in 0..Day]_vars
  BY UnchangedSave
<1> QED
  BY FormInit, ListenerTypeInit, FormStepKept, ListenerTypeStep, <1>1, PTL
     DEF Spec, SaveNeverCutsShort

(***************************************************************************)
(* The player.  Its button is brought up to date by events that lag behind *)
(* the audio element, so the invariant is about the events still queued.   *)
(***************************************************************************)

\* A paused element has told the button so, or will do so last.
PauseIsHeard ==
    paused => IF tasks = <<>> THEN ~isPlaying ELSE tasks[Len(tasks)] # "play"

\* An element that has come to its end will be paused by a task that no click
\* on "Play" follows.
EndIsHeard ==
    ~paused /\ AtEnd =>
        \E i \in 1..Len(tasks) :
            tasks[i] = "end" /\ \A j \in (i + 1)..Len(tasks) : tasks[j] # "play"

\* An element that is not paused has had its last word about a play or an end.
LastWord == IF tasks = <<>> THEN heard ELSE tasks[Len(tasks)]

PlayIsHeard == ~paused => LastWord \in {"play", "end"}

\* The button shows what was heard last.
ButtonIsHeard == isPlaying <=> heard = "play"

PlayerInv == PlayerTypeOK /\ PauseIsHeard /\ EndIsHeard /\ PlayIsHeard /\ ButtonIsHeard

\* The last element of a sequence is the one appended last.
LEMMA LastOfAppend ==
    ASSUME NEW S, NEW q \in Seq(S), NEW e \in S
    PROVE  Append(q, e) # <<>> /\ Append(q, e)[Len(Append(q, e))] = e
<1>1. /\ Append(q, e) # <<>> /\ Len(Append(q, e)) = Len(q) + 1
      /\ Append(q, e)[Len(q) + 1] = e
  BY AppendProperties
<1> QED
  BY <1>1

LEMMA PlayInv ==
    ASSUME PlayerInv, Play
    PROVE  PlayerInv'
<1>1. tasks' = Append(tasks, "play") /\ tasks \in Seq({"play", "pause", "end"})
  BY DEF Play, PlayerInv, PlayerTypeOK
<1>2. PlayerTypeOK'
  <2>1. tasks' \in Seq({"play", "pause", "end"})
    BY <1>1, "play" \in {"play", "pause", "end"}, AppendProperties
  <2>2. position' \in 0..Length
    BY PlayerAssumption DEF Play, PlayerInv, PlayerTypeOK
  <2>3. /\ paused' = FALSE
        /\ source' = source /\ playRecorded' = playRecorded /\ isPlaying' = isPlaying
        /\ heard' = heard
    BY DEF Play
  <2> QED
    BY <2>1, <2>2, <2>3 DEF PlayerInv, PlayerTypeOK
<1>3. ~paused' /\ ~AtEnd'
  BY PlayerAssumption DEF Play, AtEnd, PlayerInv, PlayerTypeOK
<1>4. PlayIsHeard'
  <2>1. tasks' # <<>> /\ tasks'[Len(tasks')] = "play"
    BY <1>1, "play" \in {"play", "pause", "end"}, LastOfAppend
  <2> QED
    BY <2>1 DEF PlayIsHeard, LastWord
<1>5. ButtonIsHeard'
  BY DEF Play, PlayerInv, ButtonIsHeard
<1> QED
  BY <1>2, <1>3, <1>4, <1>5 DEF PlayerInv, PauseIsHeard, EndIsHeard

LEMMA PauseInv ==
    ASSUME PlayerInv, Pause
    PROVE  PlayerInv'
<1>1. tasks' = Append(tasks, "pause") /\ tasks \in Seq({"play", "pause", "end"})
  BY DEF Pause, PlayerInv, PlayerTypeOK
<1>2. PlayerTypeOK'
  BY <1>1 DEF Pause, PlayerInv, PlayerTypeOK
<1>3. tasks' # <<>> /\ tasks'[Len(tasks')] = "pause"
  BY <1>1, "pause" \in {"play", "pause", "end"}, LastOfAppend
<1>4. PauseIsHeard'
  BY <1>3 DEF PauseIsHeard
<1>5. EndIsHeard' /\ PlayIsHeard'
  BY DEF Pause, EndIsHeard, PlayIsHeard
<1>6. ButtonIsHeard'
  BY DEF Pause, PlayerInv, ButtonIsHeard
<1> QED
  BY <1>2, <1>4, <1>5, <1>6 DEF PlayerInv

LEMMA PlayheadInv ==
    ASSUME PlayerInv, NEW p \in 0..Length, PlayheadTo(p)
    PROVE  PlayerInv'
<1>1. tasks \in Seq({"play", "pause", "end"})
  BY DEF PlayerInv, PlayerTypeOK
<1>2. PlayerTypeOK'
  BY <1>1 DEF PlayheadTo, PlayerInv, PlayerTypeOK
<1>3. PauseIsHeard'
  BY DEF PlayheadTo, PlayerInv, PauseIsHeard
<1>4. EndIsHeard'
  <2>1. CASE p = Length /\ ~paused /\ ~AtEnd
    <3>1. tasks' = Append(tasks, "end")
      BY <2>1 DEF PlayheadTo
    <3>2. /\ Len(tasks') \in 1..Len(tasks') /\ tasks'[Len(tasks')] = "end"
          /\ (Len(tasks') + 1)..Len(tasks') = {}
      BY <1>1, <3>1
    <3> QED
      BY <3>2 DEF EndIsHeard
  <2>2. CASE tasks' = tasks /\ (p = Length /\ ~paused => AtEnd)
    BY <2>2 DEF PlayheadTo, PlayerInv, EndIsHeard, AtEnd
  <2> QED
    BY <2>1, <2>2 DEF PlayheadTo
<1>5. PlayIsHeard'
  <2>1. CASE tasks' = Append(tasks, "end")
    <3>1. tasks' # <<>> /\ tasks'[Len(tasks')] = "end"
      BY <1>1, <2>1, "end" \in {"play", "pause", "end"}, LastOfAppend
    <3> QED
      BY <3>1 DEF PlayIsHeard, LastWord
  <2>2. CASE tasks' = tasks
    BY <2>2 DEF PlayheadTo, PlayerInv, PlayIsHeard, LastWord
  <2> QED
    BY <2>1, <2>2 DEF PlayheadTo
<1>6. ButtonIsHeard'
  BY DEF PlayheadTo, PlayerInv, ButtonIsHeard
<1> QED
  BY <1>2, <1>3, <1>4, <1>5, <1>6 DEF PlayerInv

LEMMA VisitorInv ==
    ASSUME PlayerInv, VisitorActs \/ Advance
    PROVE  PlayerInv'
<1>1. position \in 0..Length /\ Length \in Nat
  BY PlayerAssumption DEF PlayerInv, PlayerTypeOK
<1>2. ASSUME NEW d \in {-1, 1}, Skip(d)
      PROVE  \E p \in 0..Length : PlayheadTo(p)
  <2>1. CASE position + d < 0
    BY <1>1, <1>2, <2>1 DEF Skip
  <2>2. CASE position + d > Length
    BY <1>1, <1>2, <2>2 DEF Skip
  <2>3. CASE position + d \in 0..Length
    BY <1>1, <1>2, <2>3 DEF Skip
  <2> QED
    BY <1>1, <2>1, <2>2, <2>3
<1>3. CASE Advance
  <2>1. position + 1 \in 0..Length
    BY <1>1, <1>3 DEF Advance, AtEnd
  <2> QED
    BY <1>3, <2>1, PlayheadInv DEF Advance
<1> QED
  BY <1>2, <1>3, PlayInv, PauseInv, PlayheadInv DEF VisitorActs, Toggle, Seek

LEMMA EventInv ==
    ASSUME PlayerInv, OnEvent
    PROVE  PlayerInv'
<1>1. /\ tasks \in Seq({"play", "pause", "end"}) /\ tasks # <<>>
      /\ tasks' = Tail(tasks) /\ UNCHANGED position
  BY DEF OnEvent, PlayerInv, PlayerTypeOK
<1>2. /\ Len(tasks) \in Nat \ {0} /\ Len(tasks') = Len(tasks) - 1
      /\ \A i \in 1..Len(tasks') : tasks'[i] = tasks[i + 1]
      /\ Head(tasks) = tasks[1]
      /\ tasks' = <<>> <=> Len(tasks) = 1
  <2>1. Len(tasks) \in Nat \ {0} /\ Head(tasks) = tasks[1]
    BY <1>1, EmptySeq
  <2>2. /\ tasks' \in Seq({"play", "pause", "end"}) /\ Len(tasks') = Len(tasks) - 1
        /\ \A i \in 1..Len(tasks') : tasks'[i] = tasks[i + 1]
    BY <1>1, HeadTailProperties
  <2>3. tasks' = <<>> <=> Len(tasks) = 1
    BY <2>1, <2>2, EmptySeq
  <2> QED
    BY <2>1, <2>2, <2>3
<1>3. PlayerTypeOK'
  <2>1. tasks' \in Seq({"play", "pause", "end"})
    BY <1>1
  <2>2. isPlaying' \in BOOLEAN /\ playRecorded' \in BOOLEAN /\ paused' \in BOOLEAN
    BY DEF OnEvent, NextEvent, PlayerInv, PlayerTypeOK, AtEnd
  <2>3. heard' \in {"none", "play", "pause", "end"}
    BY <1>1, <1>2 DEF OnEvent
  <2> QED
    BY <2>1, <2>2, <2>3 DEF OnEvent, PlayerInv, PlayerTypeOK
<1>4. PauseIsHeard'
  <2> SUFFICES ASSUME paused'
               PROVE  IF tasks' = <<>> THEN ~isPlaying' ELSE tasks'[Len(tasks')] # "play"
    BY DEF PauseIsHeard
  <2>1. tasks[Len(tasks)] # "play"
    <3>1. CASE paused
      BY <1>1, <3>1 DEF PlayerInv, PauseIsHeard
    <3>2. CASE ~paused
      <4>1. AtEnd
        BY <3>2 DEF OnEvent
      <4>2. PICK i \in 1..Len(tasks) :
               tasks[i] = "end" /\ \A j \in (i + 1)..Len(tasks) : tasks[j] # "play"
        BY <3>2, <4>1 DEF PlayerInv, EndIsHeard
      <4> QED
        BY <1>2, <4>2
    <3> QED
      BY <3>1, <3>2
  <2>2. CASE tasks' = <<>>
    BY <1>2, <2>1, <2>2 DEF OnEvent, NextEvent
  <2>3. CASE tasks' # <<>>
    BY <1>2, <2>1, <2>3
  <2> QED
    BY <2>2, <2>3
<1>5. EndIsHeard'
  <2> SUFFICES ASSUME ~paused', AtEnd
               PROVE  \E i \in 1..Len(tasks') :
                         tasks'[i] = "end" /\ \A j \in (i + 1)..Len(tasks') : tasks'[j] # "play"
    BY <1>1 DEF EndIsHeard, AtEnd
  <2>1. ~paused /\ tasks[1] # "end"
    BY <1>1, <1>2 DEF OnEvent, NextEvent
  <2>2. PICK i \in 1..Len(tasks) :
           tasks[i] = "end" /\ \A j \in (i + 1)..Len(tasks) : tasks[j] # "play"
    BY <2>1 DEF PlayerInv, EndIsHeard
  <2>3. i - 1 \in 1..Len(tasks') /\ tasks'[i - 1] = "end"
    BY <1>2, <2>1, <2>2
  <2>4. \A j \in ((i - 1) + 1)..Len(tasks') : tasks'[j] # "play"
    BY <1>2, <2>2
  <2> QED
    BY <2>3, <2>4
<1>6. PlayIsHeard'
  <2> SUFFICES ASSUME ~paused' PROVE LastWord' \in {"play", "end"}
    BY DEF PlayIsHeard
  <2>1. tasks[Len(tasks)] \in {"play", "end"}
    BY <1>1 DEF OnEvent, PlayerInv, PlayIsHeard, LastWord
  <2>2. LastWord' = tasks[Len(tasks)]
    <3>1. CASE tasks' = <<>>
      BY <1>2, <3>1 DEF OnEvent, LastWord
    <3>2. CASE tasks' # <<>>
      BY <1>2, <3>2 DEF LastWord
    <3> QED
      BY <3>1, <3>2
  <2> QED
    BY <2>1, <2>2
<1>7. ButtonIsHeard'
  BY <1>1 DEF OnEvent, NextEvent, ButtonIsHeard
<1> QED
  BY <1>3, <1>4, <1>5, <1>6, <1>7 DEF PlayerInv

LEMMA PlayerStep == PlayerInv /\ [Next]_vars => PlayerInv'
<1> SUFFICES ASSUME PlayerInv, [Next]_vars PROVE PlayerInv'
  OBVIOUS
<1>1. CASE UNCHANGED playerVars
  BY <1>1 DEF playerVars, PlayerInv, PlayerTypeOK, PauseIsHeard, EndIsHeard, PlayIsHeard,
              LastWord, ButtonIsHeard, AtEnd
<1>2. CASE PlayerReload
  <2>1. PlayerTypeOK'
    <3>1. tasks' \in Seq({"play", "pause", "end"})
      BY <1>2, EmptySeq DEF PlayerReload
    <3>2. position' \in 0..Length
      BY <1>2, PlayerAssumption DEF PlayerReload
    <3>3. /\ source' = "loading" /\ paused' = TRUE /\ playRecorded' = FALSE
          /\ isPlaying' = FALSE /\ heard' = "none"
      BY <1>2 DEF PlayerReload
    <3> QED
      BY <3>1, <3>2, <3>3 DEF PlayerTypeOK
  <2>2. PauseIsHeard' /\ EndIsHeard' /\ PlayIsHeard' /\ ButtonIsHeard'
    BY <1>2 DEF PlayerReload, PauseIsHeard, EndIsHeard, PlayIsHeard, ButtonIsHeard
  <2> QED
    BY <2>1, <2>2 DEF PlayerInv
<1>3. ASSUME NEW o \in {"loaded", "failed"}, Loaded(o)
      PROVE  PlayerInv'
  BY <1>3 DEF Loaded, PlayerInv, PlayerTypeOK, PauseIsHeard, EndIsHeard, PlayIsHeard,
              LastWord, ButtonIsHeard, AtEnd
<1>4. CASE VisitStep
  <2>1. CASE Watch
    BY <1>3, <2>1, VisitorInv DEF Watch
  <2>2. CASE Hear
    BY <2>2, EventInv DEF Hear
  <2>3. CASE \E s \in Slugs : OpenPage(s) \/ OpenDeadLink(s)
    BY <1>2, <2>3 DEF OpenPage, OpenDeadLink
  <2> QED
    BY <1>4, <2>1, <2>2, <2>3 DEF VisitStep
<1>5. CASE TableStep \/ FormStep \/ BeaconStep \/ Tick \/ UNCHANGED vars
  BY <1>1, <1>5 DEF TableStep, FormStep, OpenForm, SaveForm, BeaconStep, Tick, vars
<1> QED
  BY <1>4, <1>5 DEF Next

LEMMA PlayerStart == Init => PlayerInv
<1> SUFFICES ASSUME Init PROVE PlayerInv
  OBVIOUS
<1>1. PlayerTypeOK
  <2>1. tasks \in Seq({"play", "pause", "end"})
    BY EmptySeq DEF Init, PlayerInit
  <2>2. position \in 0..Length
    BY PlayerAssumption DEF Init, PlayerInit
  <2>3. /\ source = "loading" /\ paused = TRUE /\ playRecorded = FALSE
        /\ isPlaying = FALSE /\ heard = "none"
    BY DEF Init, PlayerInit
  <2> QED
    BY <2>1, <2>2, <2>3 DEF PlayerTypeOK
<1>2. PauseIsHeard /\ EndIsHeard /\ PlayIsHeard /\ ButtonIsHeard
  BY DEF Init, PlayerInit, PauseIsHeard, EndIsHeard, PlayIsHeard, ButtonIsHeard
<1> QED
  BY <1>1, <1>2 DEF PlayerInv

\* Once every event is handled, the button says what the next click will do,
\* but after an end sought away from: however the visitor's clicks and seeks
\* fall between the events, and for audio of any length.
THEOREM ButtonTellsTruth == Spec => []ButtonTellsClick
<1>1. ASSUME PlayerInv, tasks = <<>>
      PROVE  (isPlaying => ~paused) /\ (~isPlaying => paused \/ heard = "end")
  BY <1>1 DEF PlayerInv, PauseIsHeard, PlayIsHeard, LastWord, ButtonIsHeard
<1>2. ASSUME PlayerInv, tasks = <<>>
      PROVE  AtEnd => paused
  <2>1. Len(tasks) = 0
    BY <1>2
  <2> QED
    BY <1>2, <2>1 DEF PlayerInv, EndIsHeard
<1>3. PlayerInv => ButtonTellsClick
  BY <1>1, <1>2 DEF ButtonTellsClick
<1> QED
  BY PlayerStart, PlayerStep, <1>3, PTL DEF Spec

(***************************************************************************)
(* Types.  Those of the table, the form, the player and the URLs belong to *)
(* the invariants above; these are the others.                             *)
(***************************************************************************)

VisitTypeOK ==
    /\ page \in Slugs \cup {Nowhere}
    /\ loads \in 0..MaxLoads
    /\ inFlight \in [Slugs -> Nat]
    /\ form \in [slug: Slugs, date: Nat \cup {NoDate}] \cup {Nowhere}

LEMMA VisitTypeInit == Init => VisitTypeOK
BY VisitsAssumption DEF Init, VisitTypeOK

LEMMA VisitTypeStep == VisitTypeOK /\ FormInv /\ [Next]_vars => VisitTypeOK'
<1> SUFFICES ASSUME VisitTypeOK, FormInv, [Next]_vars PROVE VisitTypeOK'
  OBVIOUS
<1>1. CASE TableStep \/ Watch \/ Tick \/ UNCHANGED vars
  BY <1>1 DEF TableStep, Watch, Tick, vars, visitVars, VisitTypeOK
<1>2. CASE FormStep
  <2>1. ASSUME NEW s \in Slugs, OpenForm(s)
        PROVE  VisitTypeOK'
    <3>1. ShownDate(s) \in Nat \cup {NoDate}
      BY <2>1, ExpiryTypes DEF OpenForm
    <3> QED
      BY <2>1, <3>1 DEF OpenForm, visitVars, VisitTypeOK
  <2>2. ASSUME NEW date, SaveForm(date)
        PROVE  VisitTypeOK'
    BY <2>2 DEF SaveForm, visitVars, VisitTypeOK
  <2> QED
    BY <1>2, <2>1, <2>2 DEF FormStep
<1>3. ASSUME NEW s \in Slugs, OpenPage(s) \/ OpenDeadLink(s)
      PROVE  VisitTypeOK'
  BY <1>3, VisitsAssumption DEF OpenPage, OpenDeadLink, VisitTypeOK
<1>4. CASE Hear
  BY <1>4 DEF Hear, visitVars, VisitTypeOK
<1>5. CASE BeaconStep
  BY <1>5 DEF BeaconStep, Arrive, visitVars, VisitTypeOK
<1> QED
  BY <1>1, <1>2, <1>3, <1>4, <1>5 DEF Next, VisitStep

\* Every variable keeps to its type: a play count or a beacon counter never
\* goes below zero, the playhead stays on the track, and every expiry, however
\* it was written and however long ago, stays within its bounds.
THEOREM VisitsTypeCorrect == Spec => []TypeOK
<1>1. UrlInv => url \in [Slugs -> 0..TTL] /\ dark \in [Slugs -> 0..TTL]
  <2> SUFFICES ASSUME UrlInv, NEW s \in Slugs
               PROVE  url[s] \in 0..TTL /\ dark[s] \in 0..TTL
    BY DEF UrlInv
  <2>1. url[s] \in Nat /\ dark[s] \in Nat /\ TTL \in Nat /\ dark[s] + url[s] <= TTL
    BY VisitsAssumption DEF UrlInv, UrlsDieWithLinks
  <2> QED
    BY <2>1
<1>2. FormInv /\ ListenerTypeOK /\ PlayerInv /\ UrlInv /\ VisitTypeOK => TypeOK
  BY <1>1 DEF FormInv, PlayerInv, VisitTypeOK, TypeOK
<1> QED
  BY FormInit, ListenerTypeInit, PlayerStart, UrlInit, VisitTypeInit,
     FormStepKept, ListenerTypeStep, PlayerStep, UrlStep, VisitTypeStep, <1>2, PTL DEF Spec

(***************************************************************************)
(* Plays.  Every load may still bring one play: it is to come until the    *)
(* beacon is sent, then on the way, then being counted, then counted.      *)
(***************************************************************************)

Underway == Total(inFlight, Slugs)

ToCome == IF page # Nowhere /\ ~playRecorded THEN 1 ELSE 0

PlaysInv ==
    /\ IsFiniteSet(Serving)
    /\ recorded + Cardinality(Serving) + Underway + ToCome <= loads

PlayTypes == VisitTypeOK /\ ListenerTypeOK

LEMMA UnderwayIsFold ==
    ASSUME VisitTypeOK
    PROVE  FoldFunction(+, 0, [s \in Slugs |-> inFlight[s]]) = Underway
<1> DEFINE it == CHOOSE iter : Folds(iter, inFlight, Slugs)
<1>1. [s \in Slugs |-> inFlight[s]] = inFlight /\ DOMAIN inFlight = Slugs
  BY DEF VisitTypeOK
<1>2. FoldFunction(+, 0, inFlight) = it[Slugs]
  BY <1>1 DEF FoldFunction, FoldFunctionOnSet, MapThenFoldSet, Folds
<1>3. \A s \in Slugs : inFlight[s] \in Nat
  BY DEF VisitTypeOK
<1>4. Folds(it, inFlight, Slugs)
  BY <1>3, SlugsAssumption, FoldExists
<1>5. it[Slugs] = Total(inFlight, Slugs)
  <2> HIDE DEF it
  <2> QED
    BY <1>3, <1>4, SlugsAssumption, FoldIsTotal
<1> QED
  BY <1>1, <1>2, <1>5 DEF Underway

LEMMA UnderwayChange ==
    ASSUME VisitTypeOK, VisitTypeOK', NEW s \in Slugs,
           \A t \in Slugs \ {s} : inFlight[t] = inFlight'[t]
    PROVE  /\ Underway \in Nat /\ Underway' \in Nat
           /\ Underway' + inFlight[s] = Underway + inFlight'[s]
<1>1. \A t \in Slugs : inFlight[t] \in Nat /\ inFlight'[t] \in Nat
  BY DEF VisitTypeOK
<1>2. Total(inFlight', Slugs) + inFlight[s] = Total(inFlight, Slugs) + inFlight'[s]
  BY <1>1, SlugsAssumption, TotalChange
<1>3. Total(inFlight, Slugs) \in Nat /\ Total(inFlight', Slugs) \in Nat
  BY <1>1, SlugsAssumption, TotalNat
<1> QED
  BY <1>2, <1>3 DEF Underway

\* What is counted is a number, in this state and the next.
LEMMA PlayNumbers ==
    ASSUME PlayTypes, IsFiniteSet(Serving)
    PROVE  /\ recorded \in Nat /\ Cardinality(Serving) \in Nat
           /\ Underway \in Nat /\ ToCome \in 0..1 /\ loads \in Nat
<1>1. Underway \in Nat
  BY SlugsAssumption, TotalNat DEF PlayTypes, VisitTypeOK, Underway
<1> QED
  BY <1>1, FS_CardinalityType, VisitsAssumption
     DEF PlayTypes, VisitTypeOK, ListenerTypeOK, ToCome

LEMMA PageKeepsPlays ==
    ASSUME PlayTypes, PlaysInv, NEW s \in Slugs, OpenPage(s) \/ OpenDeadLink(s)
    PROVE  PlaysInv'
<1>1. UNCHANGED <<Serving, recorded, Underway>>
  BY DEF OpenPage, OpenDeadLink, listenerVars, Serving, Underway
<1>2. ToCome' \in 0..1 /\ loads' \in Nat /\ loads' - loads >= ToCome'
  BY VisitsAssumption
     DEF OpenPage, OpenDeadLink, PlayerReload, ToCome, PlayTypes, VisitTypeOK
<1> QED
  BY <1>1, <1>2, PlayNumbers DEF PlaysInv

\* The first "play" event turns the play to come into one on the way.
LEMMA HearKeepsPlays ==
    ASSUME PlayTypes, VisitTypeOK', PlaysInv, Hear
    PROVE  PlaysInv'
<1>1. UNCHANGED <<Serving, recorded, loads, page>> /\ page \in Slugs
  BY DEF Hear, listenerVars, visitVars, Serving, PlayTypes, VisitTypeOK
<1>2. CASE Beacons
  <2>1. inFlight' = [inFlight EXCEPT ![page] = inFlight[page] + 1]
    BY <1>2 DEF Hear
  <2>2. /\ inFlight[page] \in Nat /\ inFlight'[page] = inFlight[page] + 1
        /\ \A t \in Slugs \ {page} : inFlight[t] = inFlight'[t]
    BY <1>1, <2>1 DEF PlayTypes, VisitTypeOK
  <2>3. Underway' + inFlight[page] = Underway + inFlight'[page] /\ Underway' \in Nat
    BY <1>1, <2>2, UnderwayChange DEF PlayTypes
  <2>4. ToCome = 1 /\ ToCome' = 0
    BY <1>1, <1>2 DEF Hear, OnEvent, Beacons, ToCome, PlayTypes, VisitTypeOK
  <2> QED
    BY <1>1, <2>2, <2>3, <2>4, PlayNumbers DEF PlaysInv
<1>3. CASE ~Beacons
  <2>1. UNCHANGED Underway
    BY <1>3 DEF Hear, Underway
  <2>2. ToCome' \in {0, 1} /\ ToCome \in {0, 1}
    BY DEF ToCome
  <2>3. ToCome = 0 => ToCome' = 0
    <3>1. playRecorded => playRecorded'
      BY DEF Hear, OnEvent
    <3> QED
      BY <1>1, <3>1 DEF ToCome
  <2> QED
    BY <1>1, <2>1, <2>2, <2>3, PlayNumbers DEF PlaysInv
<1> QED
  BY <1>2, <1>3

LEMMA ArriveTakesOne ==
    ASSUME PlayTypes, VisitTypeOK', NEW s \in Slugs, Arrive(s)
    PROVE  Underway \in Nat /\ Underway' \in Nat /\ Underway' = Underway - 1
<1>1. /\ inFlight[s] \in Nat /\ inFlight'[s] = inFlight[s] - 1
      /\ \A t \in Slugs \ {s} : inFlight[t] = inFlight'[t]
  BY DEF Arrive, PlayTypes, VisitTypeOK
<1>2. /\ Underway \in Nat /\ Underway' \in Nat
      /\ Underway' + inFlight[s] = Underway + inFlight'[s]
  BY <1>1, UnderwayChange DEF PlayTypes
<1> QED
  BY <1>1, <1>2

\* A beacon leaves the way for the server, or is lost; served, it is counted
\* or answered with an error.
LEMMA BeaconKeepsPlays ==
    ASSUME PlayTypes, VisitTypeOK', PlaysInv, BeaconStep
    PROVE  PlaysInv'
<1>1. UNCHANGED <<loads, ToCome>>
  BY DEF BeaconStep, playerVars, visitVars, ToCome
<1>2. ASSUME NEW s \in Slugs, Arrive(s), UNCHANGED listenerVars
      PROVE  PlaysInv'
  <2>1. UNCHANGED <<Serving, recorded>>
    BY <1>2 DEF listenerVars, Serving
  <2> QED
    BY <1>1, <1>2, <2>1, ArriveTakesOne, PlayNumbers DEF PlaysInv
<1>3. ASSUME NEW s \in Slugs, Arrive(s), NEW l \in Listeners, LookupPlay(l, s)
      PROVE  PlaysInv'
  <2>1. Serving' = Serving \cup {l} /\ l \notin Serving /\ recorded' = recorded
    BY <1>3, ListenerAssumption DEF LookupPlay, Serving, PlayTypes, ListenerTypeOK
  <2>2. IsFiniteSet(Serving') /\ Cardinality(Serving') = Cardinality(Serving) + 1
    BY <2>1, FS_AddElement DEF PlaysInv
  <2> QED
    BY <1>1, <1>3, <2>1, <2>2, ArriveTakesOne, PlayNumbers DEF PlaysInv
<1>4. ASSUME UNCHANGED inFlight, NEW l \in Listeners, RecordPlay(l)
      PROVE  PlaysInv'
  <2>1. Serving' = Serving \ {l} /\ l \in Serving
    BY <1>4, ListenerAssumption DEF RecordPlay, Serving, PlayTypes, ListenerTypeOK
  <2>2. recorded' \in {recorded, recorded + 1}
    BY <1>4 DEF RecordPlay
  <2>3. IsFiniteSet(Serving') /\ Cardinality(Serving') = Cardinality(Serving) - 1
    BY <2>1, FS_RemoveElement DEF PlaysInv
  <2>4. UNCHANGED Underway
    BY <1>4 DEF Underway
  <2> QED
    BY <1>1, <2>2, <2>3, <2>4, PlayNumbers DEF PlaysInv
<1> QED
  BY <1>2, <1>3, <1>4 DEF BeaconStep

LEMMA PlaysStep ==
    ASSUME PlayTypes, VisitTypeOK', PlaysInv, [Next]_vars
    PROVE  PlaysInv'
<1>1. CASE UNCHANGED <<listenerVars, inFlight, page, loads, playRecorded>>
  BY <1>1 DEF listenerVars, PlaysInv, Serving, Underway, ToCome
<1>2. Watch => UNCHANGED <<listenerVars, inFlight, page, loads, playRecorded>>
  BY DEF Watch, VisitorActs, Toggle, Play, Pause, Seek, Skip, Advance, PlayheadTo, Loaded,
         visitVars
<1>3. CASE TableStep \/ FormStep \/ Tick \/ UNCHANGED vars
  BY <1>1, <1>3 DEF TableStep, FormStep, OpenForm, SaveForm, Tick, vars, visitVars, playerVars
<1> QED
  BY <1>1, <1>2, <1>3, PageKeepsPlays, HearKeepsPlays, BeaconKeepsPlays DEF Next, VisitStep

\* The beacon goes out at most once per load: however clicks, seeks and the
\* events of the audio element interleave, and whatever becomes of a beacon,
\* the plays counted never outnumber the pages loaded.
THEOREM PlaysBounded == Spec => []OnePlayPerLoad
<1>1. Init => PlaysInv
  <2> SUFFICES ASSUME Init PROVE PlaysInv
    OBVIOUS
  <2>1. Serving = {} /\ recorded = 0 /\ ToCome = 0 /\ loads = 0
    BY DEF Init, ListenerInit, Serving, ToCome
  <2>2. \A s \in Slugs : inFlight[s] = 0
    BY DEF Init
  <2>3. Underway = 0
    BY <2>2, SlugsAssumption, TotalZero DEF Underway
  <2> QED
    BY <2>1, <2>3, FS_EmptySet DEF PlaysInv
<1>2. VisitTypeOK /\ PlaysInv => OnePlayPerLoad
  BY UnderwayIsFold DEF PlaysInv, OnePlayPerLoad, ToCome
<1>3. /\ VisitTypeOK /\ FormInv /\ ListenerTypeOK /\ PlaysInv /\ [Next]_vars
      => PlaysInv'
  BY VisitTypeStep, PlaysStep DEF PlayTypes
<1> QED
  BY FormInit, ListenerTypeInit, VisitTypeInit, FormStepKept, ListenerTypeStep,
     VisitTypeStep, <1>1, <1>2, <1>3, PTL DEF Spec
=============================================================================
