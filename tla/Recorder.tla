------------------------------ MODULE Recorder ------------------------------
(***************************************************************************)
(* Recording to disk and the directory of recordings: the handlers that    *)
(* start and stop a recording, the task that writes it, and the handlers   *)
(* that upload, rename and delete files meanwhile.                         *)
(*                                                                         *)
(* A name in the directory leads to a file (an inode), which lives on      *)
(* while a task writes it even when its name is gone.  A step is the code  *)
(* between two awaits; the file system calls of one such section are one   *)
(* step.                                                                   *)
(***************************************************************************)
EXTENDS Naturals

CONSTANTS
    Names,          \* names of .mrr files in the recordings directory
    MaxFiles,       \* bound: files ever made
    MaxFrames,      \* bound: frames of a recording
    Uploaders,      \* clients that upload
    MayCrash        \* whether the server may be killed

ASSUME RecorderAssumption == MaxFiles \in Nat

Files == 1 .. MaxFiles
NoFile == 0

VARIABLES
    dir,            \* [Names -> file or NoFile]
    content,        \* [Files -> what the file holds]
    active,         \* RecordingState.active_recording: the file recorded to
    task,           \* [Files -> the recording task writing the file]
    upload,         \* [Uploaders -> the request being handled]
    tmp             \* names n for which n.upload exists

recorderVars == <<dir, content, active, task, upload, tmp>>

Unmade == [frames |-> 0, complete |-> FALSE, made |-> FALSE]
NoTask ==
    [pc |-> "none", stop_flag |-> FALSE, frame_count |-> 0]
NoUpload == [pc |-> "idle", name |-> CHOOSE n \in Names : TRUE]

RecorderInit ==
    /\ dir = [n \in Names |-> NoFile]
    /\ content = [f \in Files |-> Unmade]
    /\ active = NoFile
    /\ task = [f \in Files |-> NoTask]
    /\ upload = [u \in Uploaders |-> NoUpload]
    /\ tmp = {}

\* The next file to be made, if the bound allows one.
NextFile ==
    {f \in Files : ~content[f].made /\ \A g \in 1 .. f - 1 : content[g].made}

-----------------------------------------------------------------------------
\* Mutant: File::create without a look at what is there.
CreateOver(n) == IF dir[n] = NoFile THEN NextFile ELSE {dir[n]}

\* start_recording refuses a name that exists; a generated name never does.
Create(n) == IF dir[n] = NoFile THEN NextFile ELSE {}

\* The write lock on active_recording is held from the check to the end.
start_recording_handler(n) ==
    /\ active = NoFile
    /\ \E f \in Create(n) :
          /\ dir' = [dir EXCEPT ![n] = f]
          /\ content' = [content EXCEPT ![f] = [Unmade EXCEPT !.made = TRUE]]
          /\ task' = [task EXCEPT ![f] = [NoTask EXCEPT !.pc = "loop"]]
          /\ active' = f
    /\ UNCHANGED <<upload, tmp>>

\* Mutant: the handle is dropped, the flag is not set.
StopForgets ==
    /\ active # NoFile
    /\ active' = NoFile
    /\ UNCHANGED <<dir, content, task, upload, tmp>>

stop_recording_handler ==
    /\ active # NoFile
    /\ active' = NoFile
    /\ task' = [task EXCEPT ![active].stop_flag = TRUE]
    /\ UNCHANGED <<dir, content, upload, tmp>>

-----------------------------------------------------------------------------
\* The recording task.  What the radar's broadcast channel holds when the task
\* receives is any of: a message, the news that it lagged, nothing for 100 ms,
\* or the end of the channel.

CheckStop(f) ==
    /\ task[f].pc = "loop"
    /\ task' = [task EXCEPT ![f].pc = IF task[f].stop_flag THEN "finish" ELSE "recv"]
    /\ UNCHANGED <<dir, content, active, upload, tmp>>

\* A message is received and its frame written.  The shared counter follows
\* every tenth frame, every second one here.
WriteFrame(f) ==
    LET n == content[f].frames + 1
    IN  /\ task[f].pc = "recv"
        /\ n <= MaxFrames
        /\ content' = [content EXCEPT ![f].frames = n]
        /\ task' = [task EXCEPT ![f].pc = "loop",
                                ![f].frame_count = IF n % 2 = 0 THEN n ELSE @]
        /\ UNCHANGED <<dir, active, upload, tmp>>

\* RecvError::Lagged, and the timeout of 100 ms: back to the flag.
NothingReceived(f) ==
    /\ task[f].pc = "recv"
    /\ task' = [task EXCEPT ![f].pc = "loop"]
    /\ UNCHANGED <<dir, content, active, upload, tmp>>

\* The frame does not fit on the disk, or RecvError::Closed, as the radar went
\* away (a playback radar was stopped): the loop ends.
LoopEnds(f) ==
    /\ task[f].pc = "recv"
    /\ task' = [task EXCEPT ![f].pc = "finish"]
    /\ UNCHANGED <<dir, content, active, upload, tmp>>

\* The counters, the index and the footer, which may fail, then the flag.
FinishTask(f) ==
    /\ task[f].pc = "finish"
    /\ task' = [task EXCEPT ![f].pc = "done", ![f].stop_flag = TRUE,
                            ![f].frame_count = content[f].frames]
    /\ \E ok \in BOOLEAN : content' = [content EXCEPT ![f].complete = ok]
    /\ UNCHANGED <<dir, active, upload, tmp>>

recording_task(f) ==
    \/ CheckStop(f) \/ WriteFrame(f) \/ NothingReceived(f) \/ LoopEnds(f) \/ FinishTask(f)

-----------------------------------------------------------------------------
\* The directory's handlers.

delete_recording_handler(n) ==
    /\ dir[n] # NoFile
    /\ dir' = [dir EXCEPT ![n] = NoFile]
    /\ UNCHANGED <<content, active, task, upload, tmp>>

rename_recording_handler(n, m) ==
    /\ dir[n] # NoFile /\ dir[m] = NoFile
    /\ dir' = [dir EXCEPT ![n] = NoFile, ![m] = dir[n]]
    /\ UNCHANGED <<content, active, task, upload, tmp>>

\* The name is free now; the temporary file is made at the next await.
UploadCheck(u, n) ==
    /\ upload[u].pc = "idle"
    /\ dir[n] = NoFile
    /\ upload' = [upload EXCEPT ![u] = [pc |-> "checked", name |-> n]]
    /\ UNCHANGED <<dir, content, active, task, tmp>>

\* create_new: one of two uploads of a name is turned away.
UploadOpen(u) ==
    /\ upload[u].pc = "checked"
    /\ upload' = [upload EXCEPT ![u] =
          IF @.name \in tmp THEN NoUpload ELSE [@ EXCEPT !.pc = "body"]]
    /\ tmp' = tmp \cup {upload[u].name}
    /\ UNCHANGED <<dir, content, active, task>>

\* The body, too large, cut off or not writable: the temporary file goes.
UploadFails(u) ==
    /\ upload[u].pc = "body"
    /\ upload' = [upload EXCEPT ![u] = NoUpload]
    /\ tmp' = tmp \ {upload[u].name}
    /\ UNCHANGED <<dir, content, active, task>>

\* rename(2) replaces whatever has the name by now.
UploadRename(u) ==
    /\ upload[u].pc = "body"
    /\ upload' = [upload EXCEPT ![u] = NoUpload]
    /\ tmp' = tmp \ {upload[u].name}
    /\ \E f \in NextFile :
          /\ dir' = [dir EXCEPT ![upload[u].name] = f]
          /\ content' = [content EXCEPT ![f] = [Unmade EXCEPT !.made = TRUE,
                                                             !.complete = TRUE]]
    /\ UNCHANGED <<active, task>>

\* The server dies and comes back: the disk is all that is left.
ServerDies ==
    /\ MayCrash
    /\ active' = NoFile
    /\ task' = [f \in Files |-> NoTask]
    /\ upload' = [u \in Uploaders |-> NoUpload]
    /\ UNCHANGED <<dir, content, tmp>>

RecorderNext ==
    \/ \E n \in Names :
          \/ start_recording_handler(n) \/ delete_recording_handler(n)
          \/ \E m \in Names : rename_recording_handler(n, m)
          \/ \E u \in Uploaders : UploadCheck(u, n)
    \/ stop_recording_handler \/ ServerDies
    \/ \E f \in Files : recording_task(f)
    \/ \E u \in Uploaders : UploadOpen(u) \/ UploadFails(u) \/ UploadRename(u)

-----------------------------------------------------------------------------
\* The library's view: an upload is offered from the check of its name on.
Offered == {upload[u].name : u \in {v \in Uploaders : upload[v].pc # "idle"}}
Open == {f \in Files : task[f].pc \in {"loop", "recv", "finish"}}
Stopping == {f \in Open : task[f].stop_flag}
Volume == [f \in Files |-> [made |-> content[f].made, frames |-> content[f].frames,
                            sealed |-> content[f].complete]]

Lib == INSTANCE Library WITH
    Recordings <- Files, Nothing <- NoFile, shelf <- dir, volume <- Volume,
    open <- Open, stopping <- Stopping, offered <- Offered

\* The handlers and the tasks together keep the promises of a library: whatever
\* start, stop, rename, delete and upload are interleaved, and wherever the
\* server dies, a file with a footer is never written again, a name that is taken
\* is given away only by an upload that found it free, a recording starts only
\* when those before it have been told to stop, and one told to stop closes.
ImplementsLibrary == Lib!Spec
=============================================================================
