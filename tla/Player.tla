------------------------------- MODULE Player -------------------------------
(***************************************************************************)
(* One load of the player page (internal/web/static/player.js over the     *)
(* browser's audio element).  play() and pause() change the element at     *)
(* once, but the script learns of it from an event of a later task, so a   *)
(* visitor's next click may come before the event of the last one.         *)
(*                                                                         *)
(* Positions stand for multiples of SKIP_SECONDS.                          *)
(***************************************************************************)
EXTENDS Integers, Sequences

CONSTANTS
    Length,     \* the last position of the audio (audio.duration)
    MaxTasks    \* bound on the media events waiting when a visitor acts

ASSUME PlayerAssumption == Length \in Nat \ {0} /\ MaxTasks \in Nat \ {0}

VARIABLES
    source,         \* what became of the presigned URL in audio.src
    paused,         \* audio.paused
    position,       \* audio.currentTime
    tasks,          \* queued events of the audio element, oldest first
    playRecorded,   \* playRecorded: this load has sent its beacon
    isPlaying,      \* the button's is-playing class
    heard           \* history: the last event handled, "none" on a new page

playerVars == <<source, paused, position, tasks, playRecorded, isPlaying, heard>>

PlayerTypeOK ==
    /\ source \in {"loading", "loaded", "failed"}
    /\ paused \in BOOLEAN
    /\ position \in 0..Length
    /\ tasks \in Seq({"play", "pause", "end"})
    /\ playRecorded \in BOOLEAN
    /\ isPlaying \in BOOLEAN
    /\ heard \in {"none", "play", "pause", "end"}

PlayerInit ==
    /\ source = "loading"
    /\ paused = TRUE
    /\ position = 0
    /\ tasks = <<>>
    /\ playRecorded = FALSE
    /\ isPlaying = FALSE
    /\ heard = "none"

\* the script of a new page load starts from nothing
PlayerReload ==
    /\ source' = "loading"
    /\ paused' = TRUE
    /\ position' = 0
    /\ tasks' = <<>>
    /\ playRecorded' = FALSE
    /\ isPlaying' = FALSE
    /\ heard' = "none"

AtEnd == position = Length

-----------------------------------------------------------------------------
(* The audio element *)

\* the metadata arrive, or the request for the URL is refused
Loaded(outcome) ==
    /\ source = "loading"
    /\ source' = outcome
    /\ UNCHANGED <<paused, position, tasks, playRecorded, isPlaying, heard>>

\* the playhead comes to p; getting to the end while playing queues the
\* task that ends playback
PlayheadTo(p) ==
    /\ position' = p
    /\ tasks' = IF p = Length /\ ~paused /\ ~AtEnd THEN Append(tasks, "end") ELSE tasks
    /\ UNCHANGED <<source, paused, playRecorded, isPlaying, heard>>

Advance ==
    /\ source = "loaded" /\ ~paused /\ ~AtEnd
    /\ PlayheadTo(position + 1)

\* play() on a source that cannot be loaded only rejects its promise;
\* at the end it starts over
Play ==
    /\ paused
    /\ source # "failed"
    /\ paused' = FALSE
    /\ position' = IF AtEnd THEN 0 ELSE position
    /\ tasks' = Append(tasks, "play")
    /\ UNCHANGED <<source, playRecorded, isPlaying, heard>>

Pause ==
    /\ ~paused
    /\ paused' = TRUE
    /\ tasks' = Append(tasks, "pause")
    /\ UNCHANGED <<source, position, playRecorded, isPlaying, heard>>

-----------------------------------------------------------------------------
(* The visitor *)

CanAct == Len(tasks) < MaxTasks

\* the button, the space bar and k
Toggle == CanAct /\ (Play \/ Pause)

\* the seek bar, and the keys 0 to 9
Seek(p) ==
    /\ CanAct
    /\ source = "loaded"
    /\ PlayheadTo(p)

\* mutant: j and l without Math.max and Math.min
SkipUnclamped(d) ==
    /\ CanAct
    /\ source = "loaded"
    /\ PlayheadTo(position + d)

\* j and l
Skip(d) ==
    /\ CanAct
    /\ source = "loaded"
    /\ PlayheadTo(CASE position + d < 0      -> 0
                    [] position + d > Length -> Length
                    [] OTHER                 -> position + d)

VisitorActs ==
    \/ Toggle
    \/ \E p \in 0..Length : Seek(p)
    \/ \E d \in {-1, 1} : Skip(d)

-----------------------------------------------------------------------------
(* The listeners of player.js *)

NextEvent(e) == tasks # <<>> /\ Head(tasks) = e

\* The first "play" event of a load sends the beacon.
Beacons == NextEvent("play") /\ ~playRecorded

\* mutant: the flag is cleared when playback ends
OnEventForgetful ==
    /\ tasks # <<>>
    /\ tasks' = Tail(tasks)
    /\ heard' = Head(tasks)
    /\ isPlaying' = NextEvent("play")
    /\ playRecorded' = (NextEvent("play") \/ (playRecorded /\ ~NextEvent("end")))
    /\ paused' = (paused \/ (NextEvent("end") /\ AtEnd))
    /\ UNCHANGED <<source, position>>

\* mutant: no listener for "pause"
OnEventWithoutPause ==
    /\ tasks # <<>>
    /\ tasks' = Tail(tasks)
    /\ heard' = Head(tasks)
    /\ isPlaying' = (NextEvent("play") \/ (isPlaying /\ NextEvent("pause")))
    /\ playRecorded' = (playRecorded \/ NextEvent("play"))
    /\ paused' = (paused \/ (NextEvent("end") /\ AtEnd))
    /\ UNCHANGED <<source, position>>

\* The task that ends playback pauses the element, if it is still playing at
\* the end, and fires "ended" in any case.
OnEvent ==
    /\ tasks # <<>>
    /\ tasks' = Tail(tasks)
    /\ heard' = Head(tasks)
    /\ isPlaying' = NextEvent("play")
    /\ playRecorded' = (playRecorded \/ NextEvent("play"))
    /\ paused' = (paused \/ (NextEvent("end") /\ AtEnd))
    /\ UNCHANGED <<source, position>>
=============================================================================
