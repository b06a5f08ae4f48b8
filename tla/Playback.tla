------------------------------ MODULE Playback ------------------------------
(***************************************************************************)
(* Playing recordings back: the web handlers that load, play, pause, seek, *)
(* configure and stop a playback, and the task that each load spawns.  The *)
(* two sides share the atomics and locks of ActivePlayback; a task step is *)
(* the code between two points where the handlers' writes can be seen.     *)
(*                                                                         *)
(* Time is counted in units of max_wait (100 ms): timestamps of frames,    *)
(* seek positions and the elapsed time of a task.                          *)
(***************************************************************************)
EXTENDS MrrFile, Integers

CONSTANTS
    Recordings,     \* the names of the recordings on disk
    Takes,          \* [Recordings -> what write_frame has made of each]
    Speeds,         \* settings a client sends, 100 = 1.0x
    Positions,      \* positions a client seeks to
    MaxLoads,       \* bound: load requests that succeed
    MaxElapsed      \* bound: saturates the elapsed time of a task

ASSUME PlaybackAssumption ==
    /\ Recordings # {}
    /\ \A r \in Recordings : Written(Takes[r])
    /\ Speeds \subseteq Nat /\ Positions \subseteq Nat
    /\ MaxLoads \in Nat /\ MaxElapsed \in Nat

Loads == 1 .. MaxLoads
NoLoad == 0
NoTime == -1

VARIABLES
    present,        \* the recordings still on disk
    radars,         \* SharedRadars: the load registered under a recording's key
    active,         \* RecordingState.active_playback
    task            \* [Loads -> playback task with the flags it shares]

vars == <<present, radars, active, task>>

\* What finish left on disk for a recording.
File == [r \in Recordings |-> finish(Takes[r])]

NotLoaded ==
    [pc |-> "unborn", recording |-> CHOOSE r \in Recordings : TRUE,
     stop_flag |-> FALSE, pause_flag |-> TRUE, loop_playback |-> FALSE,
     speed |-> 100, seek_target |-> NoTime, state |-> "loaded",
     position_ms |-> 0, pos |-> FirstFrame, first_frame_ts |-> NoTime,
     elapsed |-> 0, late |-> 0, jumped |-> FALSE, skipped |-> FALSE, slow |-> FALSE]

Init ==
    /\ present = Recordings
    /\ radars = [r \in Recordings |-> NoLoad]
    /\ active = NoLoad
    /\ task = [l \in Loads |-> NotLoaded]

-----------------------------------------------------------------------------
\* The handlers.  late counts the frames sent since a stop or pause.

unregister_playback_radar(reg, l) ==
    [reg EXCEPT ![task[l].recording] = NoLoad]

StopFlag(t) == [t EXCEPT !.stop_flag = TRUE, !.late = IF t.stop_flag THEN @ ELSE 0]

\* Mutant: the previous playback is forgotten, not stopped.
Forgotten(l) ==
    IF l = NoLoad THEN [task |-> task, radars |-> radars]
    ELSE [task |-> task, radars |-> unregister_playback_radar(radars, l)]

\* active.take(), stop and unregister.
Taken(l) ==
    IF l = NoLoad THEN [task |-> task, radars |-> radars]
    ELSE [task |-> [task EXCEPT ![l] = StopFlag(@)],
          radars |-> unregister_playback_radar(radars, l)]

\* A load stops the playback before it, whether or not it succeeds itself.
load_playback_handler(r) ==
    LET t == Taken(active)
        fresh == {l \in Loads : task[l].pc = "unborn"}
        new == CHOOSE l \in fresh : \A m \in fresh : l <= m
    IN  /\ UNCHANGED present
        /\ \/ /\ r \in present
              /\ fresh # {}
              /\ task' = [t.task EXCEPT ![new] =
                             [NotLoaded EXCEPT !.pc = "top", !.recording = r]]
              /\ radars' = [t.radars EXCEPT ![r] = new]
              /\ active' = new
           \/ /\ r \notin present
              /\ active' = NoLoad
              /\ task' = t.task
              /\ radars' = t.radars

stop_playback_handler ==
    /\ active # NoLoad
    /\ active' = NoLoad
    /\ task' = Taken(active).task
    /\ radars' = Taken(active).radars
    /\ UNCHANGED present

\* The handlers that act on the playback in place.
WithPlayback(t) ==
    /\ active # NoLoad
    /\ task' = [task EXCEPT ![active] = t]
    /\ UNCHANGED <<present, radars, active>>

play_handler ==
    WithPlayback([task[active] EXCEPT !.pause_flag = FALSE])

pause_handler ==
    WithPlayback([task[active] EXCEPT !.pause_flag = TRUE,
        !.late = IF task[active].pause_flag \/ task[active].stop_flag THEN @ ELSE 0])

seek_handler(ms) == WithPlayback([task[active] EXCEPT !.seek_target = ms])

settings_handler(s, looped) ==
    WithPlayback([task[active] EXCEPT
        !.speed = IF s < 10 THEN 10 ELSE IF s > 1000 THEN 1000 ELSE s,
        !.loop_playback = looped,
        !.slow = @ \/ s < task[active].speed])

delete_recording_handler(r) ==
    /\ r \in present
    /\ present' = present \ {r}
    /\ UNCHANGED <<radars, active, task>>

-----------------------------------------------------------------------------
\* The task of load l.

Become(l, t) ==
    /\ task' = [task EXCEPT ![l] = t]
    /\ UNCHANGED <<present, radars, active>>

\* Mutant: a paused task does not look at the stop flag.
TopIgnoresStop(l) ==
    LET t == task[l] IN
    /\ t.pc = "top"
    /\ Become(l,
         IF t.pause_flag
         THEN [t EXCEPT !.state = IF @ = "playing" THEN "paused" ELSE @]
         ELSE [t EXCEPT !.pc = "open", !.state = "playing"])

\* The head of the outer loop: end, wait for a resume, or start playing.
Top(l) ==
    LET t == task[l] IN
    /\ t.pc = "top"
    /\ Become(l,
         IF t.stop_flag THEN [t EXCEPT !.pc = "exit"]
         ELSE IF t.pause_flag
              THEN [t EXCEPT !.state = IF @ = "playing" THEN "paused" ELSE @]
              ELSE [t EXCEPT !.pc = "open", !.state = "playing"])

\* Mutant: a resume starts from the beginning.
OpenAtStart(l) ==
    LET t == task[l] IN
    /\ t.pc = "open"
    /\ Become(l,
         IF t.recording \notin present THEN [t EXCEPT !.pc = "exit"]
         ELSE [t EXCEPT !.pc = "inner", !.seek_target = NoTime, !.pos = FirstFrame,
                        !.first_frame_ts = NoTime, !.elapsed = 0])

\* Open the file again and go to the sought or the last position.
Open(l) ==
    LET t == task[l]
        to == IF t.seek_target # NoTime THEN t.seek_target ELSE t.position_ms
    IN  /\ t.pc = "open"
        /\ Become(l,
             IF t.recording \notin present THEN [t EXCEPT !.pc = "exit"]
             ELSE [t EXCEPT !.pc = "inner", !.seek_target = NoTime,
                     !.pos = IF to > 0 THEN seek_to_timestamp(File[t.recording], to)
                             ELSE FirstFrame,
                     !.jumped = @ \/ t.seek_target # NoTime,
                     !.first_frame_ts = NoTime, !.elapsed = 0])

\* The flags end the inner loop.
Interrupt(l) ==
    /\ task[l].pc = "inner"
    /\ task[l].stop_flag \/ task[l].pause_flag
    /\ Become(l, [task[l] EXCEPT !.pc = "after"])

\* Past the checks: the reader's own steps.
Reading(l) == task[l].pc = "inner" /\ ~task[l].stop_flag

\* Mutant: the clock runs on over a seek.
SeekKeepsClock(l) ==
    /\ Reading(l)
    /\ ~task[l].pause_flag
    /\ task[l].seek_target # NoTime
    /\ Become(l, [task[l] EXCEPT
          !.pos = seek_to_timestamp(File[task[l].recording], task[l].seek_target),
          !.seek_target = NoTime, !.jumped = TRUE])

Seek(l) ==
    /\ Reading(l)
    /\ ~task[l].pause_flag
    /\ task[l].seek_target # NoTime
    /\ Become(l, [task[l] EXCEPT
          !.pos = seek_to_timestamp(File[task[l].recording], task[l].seek_target),
          !.seek_target = NoTime, !.jumped = TRUE,
          !.first_frame_ts = NoTime, !.elapsed = 0])

\* Mutant: a pause only ends the loop at the end of the file.
PollIgnoresPause(l) ==
    /\ Reading(l)
    /\ task[l].seek_target = NoTime
    /\ Become(l, [task[l] EXCEPT !.pc = "read"])

\* The checks are over, the seek target was empty: a pause that arrives now
\* is noticed at the next turn of the loop.
Poll(l) ==
    /\ Reading(l)
    /\ ~task[l].pause_flag
    /\ task[l].seek_target = NoTime
    /\ Become(l, [task[l] EXCEPT !.pc = "read"])

AtEnd(t) == t.pos >= EndOfFrames(File[t.recording])

\* Mutant: the end of the file is only left by a stop or a pause.
EndOfFileWaits(l) ==
    LET t == task[l] IN
    /\ t.pc = "read"
    /\ AtEnd(t)
    /\ Become(l, [t EXCEPT !.pc = "inner"])

\* Ok(None): rewind or leave.
EndOfFile(l) ==
    LET t == task[l] IN
    /\ t.pc = "read"
    /\ AtEnd(t)
    /\ Become(l, IF t.loop_playback
                 THEN [t EXCEPT !.pc = "inner", !.pos = FirstFrame, !.jumped = TRUE,
                                !.first_frame_ts = NoTime, !.elapsed = 0]
                 ELSE [t EXCEPT !.pc = "after"])

\* An I/O error while reading a frame.
ReadFails(l) ==
    /\ task[l].pc = "read"
    /\ ~AtEnd(task[l])
    /\ Become(l, [task[l] EXCEPT !.pc = "after"])

FrameTime(t, p) == File[t.recording].frames[p]

\* A frame that is due more than max_wait from now is given up: the task
\* sleeps max_wait and reads the next one.
ReadFrame(l) ==
    LET t == task[l]
        ts == FrameTime(t, t.pos)
        first == IF t.first_frame_ts = NoTime THEN ts ELSE t.first_frame_ts
        target_elapsed == ((ts - first) * 100) \div t.speed
    IN  /\ t.pc = "read"
        /\ ~AtEnd(t)
        /\ Become(l,
             IF target_elapsed > t.elapsed + 1
             THEN [t EXCEPT !.pc = "inner", !.first_frame_ts = first, !.pos = @ + 1,
                            !.elapsed = @ + 1, !.skipped = TRUE]
             ELSE [t EXCEPT !.pc = "send", !.first_frame_ts = first, !.pos = @ + 1,
                            !.elapsed = IF @ < target_elapsed THEN target_elapsed
                                        ELSE @])

\* The frame leaves and its time becomes the position.
Send(l) ==
    LET t == task[l] IN
    /\ t.pc = "send"
    /\ Become(l, [t EXCEPT !.pc = "inner", !.jumped = FALSE,
                           !.position_ms = FrameTime(t, t.pos - 1),
                           !.late = IF t.stop_flag \/ t.pause_flag THEN @ + 1 ELSE 0])

\* Behind the inner loop: a pause or the loop setting leads to another round.
After(l) ==
    LET t == task[l] IN
    /\ t.pc = "after"
    /\ Become(l, [t EXCEPT !.pc =
          IF t.stop_flag \/ (~t.pause_flag /\ ~t.loop_playback) THEN "exit" ELSE "top"])

Exit(l) ==
    /\ task[l].pc = "exit"
    /\ Become(l, [StopFlag(task[l]) EXCEPT !.pc = "done", !.state = "stopped"])

\* Anything the machine does besides takes time; enough of it and the task
\* is only ever late.
Delay(l) ==
    /\ task[l].pc \in {"inner", "send"}
    /\ task[l].elapsed < MaxElapsed
    /\ Become(l, [task[l] EXCEPT !.elapsed = @ + 1])

playback_task(l) ==
    \/ Top(l) \/ Open(l) \/ Interrupt(l) \/ Seek(l) \/ Poll(l) \/ EndOfFile(l)
    \/ ReadFails(l) \/ ReadFrame(l) \/ Send(l) \/ After(l) \/ Exit(l)

Handlers ==
    \/ \E r \in Recordings : load_playback_handler(r) \/ delete_recording_handler(r)
    \/ stop_playback_handler \/ play_handler \/ pause_handler
    \/ \E ms \in Positions : seek_handler(ms)
    \/ \E s \in Speeds, looped \in BOOLEAN : settings_handler(s, looped)

Next == Handlers \/ \E l \in Loads : playback_task(l) \/ Delay(l)

Spec == Init /\ [][Next]_vars

\* The runtime polls a spawned task until it ends, and every sleep is finite.
FairSpec == Spec /\ \A l \in Loads : WF_vars(playback_task(l))

-----------------------------------------------------------------------------
TypeOK ==
    /\ present \subseteq Recordings
    /\ radars \in [Recordings -> Loads \cup {NoLoad}]
    /\ active \in Loads \cup {NoLoad}
    /\ \A l \in Loads :
          /\ task[l].pos \in 1 .. EndOfFrames(File[task[l].recording])
          /\ task[l].state \in {"loaded", "playing", "paused", "stopped"}
          /\ task[l].position_ms >= 0

\* load_playback_handler and stop_playback_handler leave no playback behind:
\* every task but the active one has been told to stop, and SharedRadars
\* lists the playback radar of the active one and no other.  Once pause or stop
\* has been answered, at most the frame in hand still goes out.
OnlyActivePlays ==
    /\ TypeOK
    /\ \A l \in Loads \ {active} : task[l].pc # "unborn" => task[l].stop_flag
    /\ \A r \in Recordings : radars[r] # NoLoad => radars[r] = active
    /\ active # NoLoad => radars[task[active].recording] = active
    /\ \A l \in Loads : task[l].late <= 1

\* Unless a seek or a rewind came in between, the position never goes back,
\* over any number of pauses and resumes: Open seeks to the position again.
ForwardStep ==
    \A l \in Loads : task'[l].pc # "unborn" /\ task[l].pc # "unborn"
        => task'[l].position_ms >= task[l].position_ms \/ task[l].jumped
PlaysForward == [][ForwardStep]_vars

\* A recording whose frames are never more than max_wait apart loses no frame
\* as long as its speed is not lowered on the way: each seek, rewind and
\* resume restarts the clock.
Dense(f) == \A p \in 2 .. Len(f.frames) : f.frames[p] - f.frames[p - 1] <= 1
DenseIsComplete ==
    \A l \in Loads :
        Dense(File[task[l].recording]) /\ ~task[l].slow => ~task[l].skipped

\* A task that was told to stop ends, and playing without loop and without being
\* touched comes to an end.
PlaybackEnds ==
    \A l \in Loads :
        /\ task[l].stop_flag ~> task[l].pc = "done"
        /\ []<>(\/ task[l].pc \in {"unborn", "done"}
                \/ task[l].pause_flag
                \/ task[l].loop_playback
                \/ task[l].seek_target # NoTime)

=============================================================================
