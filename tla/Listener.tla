------------------------------ MODULE Listener ------------------------------
(***************************************************************************)
(* The play beacon of the share and embed pages (handleTrackPlay in        *)
(* internal/web/share.go): the track is looked up and must be ready and    *)
(* not expired, then its play count is incremented by a second statement.  *)
(***************************************************************************)
EXTENDS Store

CONSTANTS
    Listeners,  \* beacons that may be served at the same time
    Silent,     \* a listener whose beacon is not being served
    MaxPlays    \* bound on the plays recorded before the last beacons start

ASSUME ListenerAssumption == Silent \notin Slugs /\ MaxPlays \in Nat

VARIABLES
    hearing,    \* listener -> slug between the lookup and the increment
    recorded    \* history: increments reported as done (204)

listenerVars == <<hearing, recorded>>

ListenerTypeOK ==
    /\ hearing \in [Listeners -> Slugs \cup {Silent}]
    /\ recorded \in Nat

ListenerInit ==
    /\ hearing = [l \in Listeners |-> Silent]
    /\ recorded = 0

\* lookupReadyTrack and the Expired test
LookupPlay(l, s) ==
    /\ hearing[l] = Silent
    /\ recorded < MaxPlays
    /\ Ready(s) /\ ~Expired(s)
    /\ hearing' = [hearing EXCEPT ![l] = s]
    /\ UNCHANGED <<recorded, storeVars>>

\* mutant: IncrementPlayCount without its RowsAffected test
RecordPlayUnchecked(l) ==
    /\ hearing[l] # Silent
    /\ hearing' = [hearing EXCEPT ![l] = Silent]
    /\ recorded' = recorded + 1
    /\ IF Exists(hearing[l]) THEN IncrementPlayCount(hearing[l])
                             ELSE UNCHANGED storeVars

\* IncrementPlayCount; any error, ErrNotFound included, is answered with a
\* 500 and counts nothing
RecordPlay(l) ==
    /\ hearing[l] # Silent
    /\ hearing' = [hearing EXCEPT ![l] = Silent]
    /\ \/ /\ Exists(hearing[l])
          /\ IncrementPlayCount(hearing[l])
          /\ recorded' = recorded + 1
       \/ UNCHANGED <<recorded, storeVars>>

ListenerNext == \E l \in Listeners : RecordPlay(l) \/ \E s \in Slugs : LookupPlay(l, s)

ListenerCrash == hearing' = [l \in Listeners |-> Silent]
=============================================================================
