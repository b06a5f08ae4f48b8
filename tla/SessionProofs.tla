----------------------------- MODULE SessionProofs -----------------------------
(* Proofs about the tasks of a session, for any number of addresses, vessels,   *)
(* radars, settings, requests, faults, files and clients: the locator listens   *)
(* everywhere, positions are those of own ship, settings survive, and the       *)
(* recorder is a library.                                                       *)
EXTENDS Session, TLAPS

\* The recorder.  A file that has not been made is empty and has no task; at most one
\* task has not been told to stop, and it is the one stop_recording_handler will tell.
Tasks == [pc : {"none", "loop", "recv", "finish", "done"},
          stop_flag : BOOLEAN, frame_count : Nat]

RecorderTypes ==
    /\ dir \in [Names -> Files \cup {NoFile}]
    /\ content \in [Files -> [frames : Nat, complete : BOOLEAN, made : BOOLEAN]]
    /\ active \in Files \cup {NoFile}
    /\ task \in [Files -> Tasks]
    /\ upload \in [Uploaders -> {NoUpload} \cup [pc : {"checked", "body"}, name : Names]]

RecorderInv ==
    /\ RecorderTypes
    /\ \A f \in Files : ~content[f].made => content[f] = Unmade /\ f \notin Open
    /\ \A f \in Open : task[f].stop_flag \/ active = f

-------------------------------------------------------------------------------
\* The recorder implements the library.

\* Zero is not a file.
LEMMA FilesTyped == NoFile \notin Files /\ Files \subseteq Nat
  BY RecorderAssumption DEF Files, NoFile

\* What the library sees of a file.
VolumeOf(c) == [made |-> c.made, frames |-> c.frames, sealed |-> c.complete]

\* The volumes, file by file.
LEMMA VolumeIs == Volume = [f \in Files |-> VolumeOf(content[f])]
  BY Zenon DEF Volume, VolumeOf

\* Steps that change one of the fields.
LEMMA FramesChange ==
  ASSUME NEW c, NEW d, NEW x, d.made = c.made, d.frames = x, d.complete = c.complete
  PROVE  VolumeOf(d) = [VolumeOf(c) EXCEPT !.frames = x]
  BY DEF VolumeOf

\* A file that is completed.
LEMMA SealedChanges ==
  ASSUME NEW c, NEW d, NEW x, d.made = c.made, d.frames = c.frames, d.complete = x
  PROVE  VolumeOf(d) = [VolumeOf(c) EXCEPT !.sealed = x]
  BY DEF VolumeOf

\* A step that writes one file changes one volume.
LEMMA VolumeChanges ==
  ASSUME NEW f \in Files, NEW x, VolumeOf(content'[f]) = x,
         \A g \in Files \ {f} : content'[g] = content[g]
  PROVE  Volume' = [Volume EXCEPT ![f] = x]
  <1>1. Volume' = [g \in Files |-> VolumeOf(content'[g])]
    BY VolumeIs, Zenon DEF Volume, VolumeOf
  <1>2. \A g \in Files : VolumeOf(content'[g]) = IF g = f THEN x ELSE VolumeOf(content[g])
    BY Zenon
  <1>3. QED
    BY <1>1, <1>2, VolumeIs

\* At the start the library is empty.
LEMMA RecorderStarts == RecorderInit => RecorderInv /\ Lib!Init
  <1> SUFFICES ASSUME RecorderInit PROVE RecorderInv /\ Lib!Init
    OBVIOUS
  <1>1. RecorderTypes
    BY DEF RecorderInit, RecorderTypes, Unmade, NoTask, Tasks
  <1>2. Open = {} /\ \A f \in Files : content[f] = Unmade
    BY DEF RecorderInit, Open, NoTask
  <1>3. Offered = {} /\ Stopping = {}
    BY <1>2 DEF RecorderInit, Offered, NoUpload, Stopping
  <1>4. Volume = [f \in Files |-> Lib!Unmade]
    <2>1. \A f \in Files : VolumeOf(content[f]) = Lib!Unmade
      <3>1. VolumeOf(Unmade) = [made |-> FALSE, frames |-> 0, sealed |-> FALSE]
        BY DEF VolumeOf, Unmade
      <3>2. Lib!Unmade = [made |-> FALSE, frames |-> 0, sealed |-> FALSE]
        BY DEF Lib!Unmade
      <3>3. QED
        BY <1>2, <3>1, <3>2, Zenon
    <2>2. QED
      BY <2>1, VolumeIs, Zenon
  <1>5. QED
    BY <1>1, <1>2, <1>3, <1>4 DEF RecorderInv, Lib!Init, RecorderInit

\* The handlers that start and stop a recording.
LEMMA StartImplements ==
  ASSUME RecorderInv, NEW n \in Names, start_recording_handler(n)
  PROVE  RecorderInv' /\ Lib!Next
  <1>1. PICK f \in Create(n) :
          /\ dir' = [dir EXCEPT ![n] = f]
          /\ content' = [content EXCEPT ![f] = [Unmade EXCEPT !.made = TRUE]]
          /\ task' = [task EXCEPT ![f] = [NoTask EXCEPT !.pc = "loop"]]
          /\ active' = f
    BY Zenon DEF start_recording_handler
  <1>2. active = NoFile /\ UNCHANGED <<upload, tmp>>
    BY DEF start_recording_handler
  <1>3. dir[n] = NoFile /\ f \in Files /\ ~content[f].made
    BY <1>1 DEF Create, NextFile
  <1>4. content[f] = Unmade /\ f \notin Open
    BY <1>3 DEF RecorderInv
  <1>5. /\ \A g \in Files \ {f} : content'[g] = content[g] /\ task'[g] = task[g]
        /\ content'[f] = [frames |-> 0, complete |-> FALSE, made |-> TRUE]
        /\ task'[f] = [pc |-> "loop", stop_flag |-> FALSE, frame_count |-> 0]
    BY <1>1, <1>3, Zenon DEF RecorderInv, RecorderTypes, Unmade, NoTask
  <1>6. Open' = Open \cup {f}
    BY <1>3, <1>5 DEF Open
  <1>7. Open = Stopping
    BY <1>2, FilesTyped, Zenon DEF RecorderInv, Stopping, Open
  <1>8. Stopping' = Stopping
    BY <1>4, <1>5, <1>6 DEF Stopping, Open
  <1> DEFINE begun == [made |-> TRUE, frames |-> 0, sealed |-> FALSE]
  <1>9. Volume' = [Volume EXCEPT ![f] = begun]
    <2>1. VolumeOf([frames |-> 0, complete |-> FALSE, made |-> TRUE]) = begun
      BY DEF VolumeOf
    <2> HIDE DEF begun
    <2>2. VolumeOf(content'[f]) = begun
      BY <1>5, <2>1, Zenon
    <2>3. QED
      BY <1>3, <1>5, <2>2, VolumeChanges, ZenonT(40)
  <1>10. Offered' = Offered
    BY <1>2 DEF Offered
  <1>11. Lib!Begin(n, f)
    BY <1>1, <1>3, <1>6, <1>7, <1>8, <1>9, <1>10 DEF Lib!Begin, Volume
  <1>12. RecorderTypes'
    BY <1>1, <1>2, <1>3, <1>5, Zenon DEF RecorderInv, RecorderTypes, Unmade, NoTask, Tasks
  <1>13. RecorderInv'
    BY <1>1, <1>2, <1>5, <1>6, <1>7, <1>12 DEF RecorderInv, Stopping
  <1>14. QED
    BY <1>3, <1>11, <1>13 DEF Lib!Next

\* stop_recording_handler stops an open recording, or finds that its task is done.
LEMMA StopImplements ==
  ASSUME RecorderInv, stop_recording_handler
  PROVE  RecorderInv' /\ [Lib!Next]_(Lib!vars)
  <1>1. /\ active \in Files /\ active' = NoFile
        /\ task' = [task EXCEPT ![active].stop_flag = TRUE]
        /\ UNCHANGED <<dir, content, upload, tmp>>
    BY DEF stop_recording_handler, RecorderInv, RecorderTypes
  <1> DEFINE t == [task[active] EXCEPT !.stop_flag = TRUE]
  <1>a. task \in [Files -> Tasks] /\ task[active] \in Tasks
    BY <1>1, Zenon DEF RecorderInv, RecorderTypes
  <1>b. t \in Tasks /\ t.stop_flag /\ t.pc = task[active].pc
    BY <1>a, Zenon DEF Tasks
  <1>c. task' = [task EXCEPT ![active] = t]
    BY <1>1, <1>a, Zenon
  <1> HIDE DEF t
  <1>2. /\ \A g \in Files \ {active} : task'[g] = task[g]
        /\ task'[active].stop_flag /\ task'[active].pc = task[active].pc
    BY <1>1, <1>a, <1>b, <1>c, Zenon
  <1>3. Open' = Open
    BY <1>1, <1>2, Zenon DEF Open
  <1>4. Stopping' = IF active \in Open THEN Stopping \cup {active} ELSE Stopping
    BY <1>1, <1>2, <1>3, Zenon DEF Stopping, Open
  <1>5. Volume' = Volume /\ Offered' = Offered
    BY <1>1, Zenon DEF Volume, Offered
  <1>6. RecorderTypes'
    BY <1>1, <1>a, <1>b, <1>c, Zenon DEF RecorderInv, RecorderTypes
  <1>7. RecorderInv'
    BY <1>1, <1>2, <1>3, <1>6, Zenon DEF RecorderInv, Open
  <1>8. CASE active \in Open
    BY <1>1, <1>3, <1>4, <1>5, <1>7, <1>8, Zenon DEF Lib!Next, Lib!Stop
  <1>9. CASE active \notin Open
    BY <1>1, <1>3, <1>4, <1>5, <1>7, <1>9, Zenon DEF Lib!vars
  <1>10. QED
    BY <1>8, <1>9

\* The task's look at the flag, and its empty rounds, are not seen from outside.
LEMMA RoundIsHidden ==
  ASSUME RecorderInv, NEW f \in Files, f \in Open,
         NEW pc \in {"loop", "recv", "finish"},
         task' = [task EXCEPT ![f].pc = pc],
         UNCHANGED <<dir, content, active, upload, tmp>>
  PROVE  RecorderInv' /\ UNCHANGED Lib!vars
  <1> DEFINE t == [task[f] EXCEPT !.pc = pc]
  <1>a. task \in [Files -> Tasks] /\ task[f] \in Tasks
    BY Zenon DEF RecorderInv, RecorderTypes
  <1>b. t \in Tasks /\ t.stop_flag = task[f].stop_flag /\ t.pc = pc
    <2>1. pc \in {"none", "loop", "recv", "finish", "done"}
      OBVIOUS
    <2>2. QED
      BY <1>a, <2>1 DEF Tasks
  <1>c. task' = [task EXCEPT ![f] = t]
    BY <1>a, Zenon
  <1> HIDE DEF t
  <1>1. /\ \A g \in Files \ {f} : task'[g] = task[g]
        /\ task'[f].pc = pc /\ task'[f].stop_flag = task[f].stop_flag
    BY <1>a, <1>b, <1>c, Zenon
  <1>2. Open' = Open
    BY <1>1, Zenon DEF Open
  <1>3. Stopping' = Stopping
    BY <1>1, <1>2, Zenon DEF Stopping, Open
  <1>4. Volume' = Volume /\ Offered' = Offered
    BY Zenon DEF Volume, Offered
  <1>5. RecorderTypes'
    BY <1>a, <1>b, <1>c, ZenonT(40) DEF RecorderInv, RecorderTypes
  <1>6. RecorderInv'
    BY <1>1, <1>2, <1>5, Zenon DEF RecorderInv, Open
  <1>7. QED
    BY <1>2, <1>3, <1>4, <1>6, Zenon DEF Lib!vars

\* A frame is written to an open file.
LEMMA WriteImplements ==
  ASSUME RecorderInv, NEW f \in Files, WriteFrame(f)
  PROVE  RecorderInv' /\ Lib!Next
  <1> DEFINE n == content[f].frames + 1
  <1>1. /\ task[f].pc = "recv"
        /\ content' = [content EXCEPT ![f].frames = n]
        /\ task' = [task EXCEPT ![f].pc = "loop",
                                ![f].frame_count = IF n % 2 = 0 THEN n ELSE @]
        /\ UNCHANGED <<dir, active, upload, tmp>>
    BY Zenon DEF WriteFrame
  <1>2. n \in Nat /\ content[f].frames \in Nat /\ task[f].frame_count \in Nat
    BY DEF RecorderInv, RecorderTypes, Tasks
  <1>3. (IF n % 2 = 0 THEN n ELSE task[f].frame_count) \in Nat
    BY <1>2
  <1> HIDE DEF n
  <1>4. /\ \A g \in Files \ {f} : content'[g] = content[g] /\ task'[g] = task[g]
        /\ content'[f].frames = n /\ content'[f].made = content[f].made
        /\ content'[f].complete = content[f].complete
        /\ task'[f].pc = "loop" /\ task'[f].stop_flag = task[f].stop_flag
    BY <1>1 DEF RecorderInv, RecorderTypes
  <1>5. f \in Open /\ Open' = Open
    BY <1>1, <1>4, Zenon DEF Open
  <1>6. Stopping' = Stopping
    BY <1>4, <1>5, Zenon DEF Stopping, Open
  <1>7. Offered' = Offered
    BY <1>1, Zenon DEF Offered
  <1>8. Volume[f] = VolumeOf(content[f]) /\ Volume[f].frames = content[f].frames
    BY VolumeIs DEF VolumeOf
  <1>9. VolumeOf(content'[f]) = [Volume[f] EXCEPT !.frames = n]
    BY <1>4, <1>8, FramesChange
  <1>10. Volume' = [Volume EXCEPT ![f] = [Volume[f] EXCEPT !.frames = n]]
    BY <1>4, <1>9, VolumeChanges
  <1>11. Volume' = [Volume EXCEPT ![f].frames = @ + 1]
    BY <1>8, <1>10, Zenon DEF n
  <1>12. Lib!Grow(f)
    BY <1>1, <1>5, <1>6, <1>7, <1>11 DEF Lib!Grow
  <1>13. RecorderTypes'
    <2>1. content' \in [Files -> [frames : Nat, complete : BOOLEAN, made : BOOLEAN]]
      BY <1>1, <1>2 DEF RecorderInv, RecorderTypes
    <2>2. task' \in [Files -> Tasks]
      <3>1. PICK count \in Nat :
              task' = [task EXCEPT ![f].pc = "loop", ![f].frame_count = count]
        BY <1>1, <1>3, Zenon
      <3>2. task \in [Files -> Tasks] /\ task[f] \in Tasks
        BY Zenon DEF RecorderInv, RecorderTypes
      <3>3. [task[f] EXCEPT !.pc = "loop", !.frame_count = count] \in Tasks
        BY <3>2, Zenon DEF Tasks
      <3>4. task' = [task EXCEPT ![f] = [task[f] EXCEPT !.pc = "loop", !.frame_count = count]]
        BY <3>1, <3>2, Zenon
      <3>5. QED
        BY <3>2, <3>3, <3>4, Zenon
    <2>3. QED
      BY <1>1, <2>1, <2>2, Zenon DEF RecorderInv, RecorderTypes
  <1>14. content[f].made
    BY <1>5, Zenon DEF RecorderInv
  <1>15. RecorderInv'
    <2>1. \A g \in Files : ~content'[g].made => g # f
      BY <1>4, <1>14, Zenon
    <2>2. \A g \in Files : ~content'[g].made => content'[g] = Unmade /\ g \notin Open'
      BY <1>4, <1>5, <2>1, Zenon DEF RecorderInv
    <2>3. \A g \in Open' : task'[g].stop_flag \/ active' = g
      BY <1>1, <1>4, <1>5, Zenon DEF RecorderInv, Open
    <2>4. QED
      BY <1>13, <2>2, <2>3, Zenon DEF RecorderInv
  <1>16. QED
    BY <1>12, <1>15, Zenon DEF Lib!Next

\* The footer closes the file, whole or not.
LEMMA FinishImplements ==
  ASSUME RecorderInv, NEW f \in Files, FinishTask(f)
  PROVE  RecorderInv' /\ Lib!Next
  <1>1. PICK ok \in BOOLEAN : content' = [content EXCEPT ![f].complete = ok]
    BY Zenon DEF FinishTask
  <1>2. /\ task[f].pc = "finish"
        /\ task' = [task EXCEPT ![f].pc = "done", ![f].stop_flag = TRUE,
                                ![f].frame_count = content[f].frames]
        /\ UNCHANGED <<dir, active, upload, tmp>>
    BY Zenon DEF FinishTask
  <1>3. content[f].frames \in Nat
    BY Zenon DEF RecorderInv, RecorderTypes
  <1>4. /\ \A g \in Files \ {f} : content'[g] = content[g] /\ task'[g] = task[g]
        /\ content'[f].frames = content[f].frames /\ content'[f].made = content[f].made
        /\ content'[f].complete = ok
        /\ task'[f].pc = "done"
    BY <1>1, <1>2 DEF RecorderInv, RecorderTypes
  <1>5. f \in Open /\ Open' = Open \ {f}
    BY <1>2, <1>4, Zenon DEF Open
  <1>6. Stopping' = Stopping \ {f}
    BY <1>4, <1>5, Zenon DEF Stopping, Open
  <1>7. Offered' = Offered
    BY <1>2, Zenon DEF Offered
  <1>8. VolumeOf(content'[f]) = [VolumeOf(content[f]) EXCEPT !.sealed = ok]
    BY <1>4, SealedChanges
  <1>9. Volume' = [Volume EXCEPT ![f] = [VolumeOf(content[f]) EXCEPT !.sealed = ok]]
    BY <1>4, <1>8, VolumeChanges
  <1>10. Volume[f] = VolumeOf(content[f])
    BY VolumeIs, Zenon
  <1>11. Volume' = [Volume EXCEPT ![f].sealed = ok]
    BY <1>9, <1>10, Zenon
  <1>12. Lib!Close(f)
    BY <1>1, <1>2, <1>5, <1>6, <1>7, <1>11, Zenon DEF Lib!Close
  <1>13. RecorderTypes'
    <2> DEFINE t == [task[f] EXCEPT !.pc = "done", !.stop_flag = TRUE,
                                    !.frame_count = content[f].frames]
    <2>1. task \in [Files -> Tasks] /\ task[f] \in Tasks
      BY Zenon DEF RecorderInv, RecorderTypes
    <2>2. task' = [task EXCEPT ![f] = t]
      BY <1>2, <2>1, Zenon
    <2>3. t \in Tasks
      BY <1>3, <2>1, Zenon DEF Tasks
    <2>4. task' \in [Files -> Tasks]
      BY <2>1, <2>2, <2>3, Zenon
    <2>5. content' \in [Files -> [frames : Nat, complete : BOOLEAN, made : BOOLEAN]]
      BY <1>1 DEF RecorderInv, RecorderTypes
    <2>6. QED
      BY <1>2, <2>4, <2>5, Zenon DEF RecorderInv, RecorderTypes
  <1>14. content[f].made
    BY <1>5, Zenon DEF RecorderInv
  <1>15. RecorderInv'
    BY <1>2, <1>4, <1>5, <1>13, <1>14, ZenonT(40) DEF RecorderInv, Open
  <1>16. QED
    BY <1>12, <1>15, Zenon DEF Lib!Next

\* The task that writes a recording.
LEMMA TaskImplements ==
  ASSUME RecorderInv, NEW f \in Files, recording_task(f)
  PROVE  RecorderInv' /\ [Lib!Next]_(Lib!vars)
  <1>1. CASE WriteFrame(f)
    BY <1>1, WriteImplements, Zenon
  <1>2. CASE FinishTask(f)
    BY <1>2, FinishImplements, Zenon
  <1>3. CASE CheckStop(f)
    <2>1. f \in Open
      BY <1>3, Zenon DEF CheckStop, Open
    <2>2. PICK pc \in {"loop", "recv", "finish"} : task' = [task EXCEPT ![f].pc = pc]
      BY <1>3, Zenon DEF CheckStop
    <2>3. UNCHANGED <<dir, content, active, upload, tmp>>
      BY <1>3, Zenon DEF CheckStop
    <2>4. QED
      BY <2>1, <2>2, <2>3, RoundIsHidden, Zenon
  <1>4. CASE NothingReceived(f) \/ LoopEnds(f)
    <2>1. f \in Open
      BY <1>4, Zenon DEF NothingReceived, LoopEnds, Open
    <2>2. PICK pc \in {"loop", "recv", "finish"} : task' = [task EXCEPT ![f].pc = pc]
      BY <1>4, Zenon DEF NothingReceived, LoopEnds
    <2>3. UNCHANGED <<dir, content, active, upload, tmp>>
      BY <1>4, Zenon DEF NothingReceived, LoopEnds
    <2>4. QED
      BY <2>1, <2>2, <2>3, RoundIsHidden, Zenon
  <1>5. QED
    BY <1>1, <1>2, <1>3, <1>4, Zenon DEF recording_task

\* A step that leaves the tasks and the files alone.
LEMMA FilesRest ==
  ASSUME RecorderInv, UNCHANGED <<content, active, task>>,
         dir' \in [Names -> Files \cup {NoFile}],
         upload' \in [Uploaders -> {NoUpload} \cup [pc : {"checked", "body"}, name : Names]]
  PROVE  RecorderInv' /\ UNCHANGED <<Volume, Open, Stopping>>
  BY Zenon DEF RecorderInv, RecorderTypes, Volume, Open, Stopping

\* delete_recording_handler and rename_recording_handler.
LEMMA DirectoryImplements ==
  ASSUME RecorderInv, NEW n \in Names, NEW m \in Names,
         delete_recording_handler(n) \/ rename_recording_handler(n, m)
  PROVE  RecorderInv' /\ Lib!Next
  <1>1. /\ UNCHANGED <<content, active, task, upload, tmp>>
        /\ dir' \in [Names -> Files \cup {NoFile}]
    BY Zenon DEF delete_recording_handler, rename_recording_handler, RecorderInv, RecorderTypes
  <1>2. Offered' = Offered
    BY <1>1, Zenon DEF Offered
  <1>3. RecorderInv' /\ UNCHANGED <<Volume, Open, Stopping>>
    BY <1>1, FilesRest, Zenon DEF RecorderInv, RecorderTypes
  <1>4. Lib!Remove(n) \/ Lib!Move(n, m)
    BY <1>2, <1>3, Zenon
       DEF delete_recording_handler, rename_recording_handler, Lib!Remove, Lib!Move
  <1>5. QED
    BY <1>3, <1>4, Zenon DEF Lib!Next

\* The name of an upload under way is a name.
LEMMA UploadNamed ==
  ASSUME RecorderInv, NEW u \in Uploaders, upload[u].pc # "idle"
  PROVE  /\ upload[u] \in [pc : {"checked", "body"}, name : Names]
         /\ upload[u].name \in Names /\ upload[u].name \in Offered
  <1>1. upload[u] \in {NoUpload} \cup [pc : {"checked", "body"}, name : Names]
    BY Zenon DEF RecorderInv, RecorderTypes
  <1>2. upload[u] # NoUpload
    BY DEF NoUpload
  <1>3. QED
    BY <1>1, <1>2, Zenon DEF Offered

\* When one upload ends its name is no longer offered, unless another has it too.
LEMMA UploadEnds ==
  ASSUME RecorderInv, NEW u \in Uploaders, upload' = [upload EXCEPT ![u] = NoUpload]
  PROVE  Offered' \in {Offered, Offered \ {upload[u].name}}
  <1>1. /\ upload'[u].pc = "idle"
        /\ \A v \in Uploaders \ {u} : upload'[v] = upload[v]
    BY Zenon DEF RecorderInv, RecorderTypes, NoUpload
  <1>2. \A n : n \in Offered' <=>
                 \E v \in Uploaders \ {u} : upload[v].pc # "idle" /\ n = upload[v].name
    BY <1>1, Zenon DEF Offered
  <1>3. \A n : n \in Offered <=>
                 \/ \E v \in Uploaders \ {u} : upload[v].pc # "idle" /\ n = upload[v].name
                 \/ upload[u].pc # "idle" /\ n = upload[u].name
    BY Zenon DEF Offered
  <1>4. CASE \E v \in Uploaders \ {u} : upload[v].pc # "idle" /\ upload[u].name = upload[v].name
    <2>1. Offered' = Offered
      <3>1. \A n : n \in Offered' <=> n \in Offered
        BY <1>2, <1>3, <1>4, Zenon
      <3>2. QED
        BY <3>1
    <2>2. QED
      BY <2>1, Zenon
  <1>5. CASE ~\E v \in Uploaders \ {u} : upload[v].pc # "idle" /\ upload[u].name = upload[v].name
    <2>1. Offered' = Offered \ {upload[u].name}
      BY <1>2, <1>3, <1>5
    <2>2. QED
      BY <2>1, Zenon
  <1>6. QED
    BY <1>4, <1>5, Zenon

\* The steps of an upload.
LEMMA UploadCheckImplements ==
  ASSUME RecorderInv, NEW u \in Uploaders, NEW n \in Names, UploadCheck(u, n)
  PROVE  RecorderInv' /\ Lib!Next
  <1>1. /\ upload[u].pc = "idle" /\ dir[n] = NoFile
        /\ upload' = [upload EXCEPT ![u] = [pc |-> "checked", name |-> n]]
        /\ UNCHANGED <<dir, content, active, task>>
    BY Zenon DEF UploadCheck
  <1>2. /\ upload'[u] = [pc |-> "checked", name |-> n]
        /\ \A v \in Uploaders \ {u} : upload'[v] = upload[v]
    BY <1>1, Zenon DEF RecorderInv, RecorderTypes
  <1>3. upload'[u].pc # "idle" /\ upload'[u].name = n
    BY <1>2
  <1>4. Offered' = Offered \cup {n}
    <2>1. \A m : m \in Offered' <=>
                   \/ \E v \in Uploaders \ {u} : upload[v].pc # "idle" /\ m = upload[v].name
                   \/ m = n
      BY <1>2, <1>3, Zenon DEF Offered
    <2>2. \A m : m \in Offered <=>
                   \E v \in Uploaders \ {u} : upload[v].pc # "idle" /\ m = upload[v].name
      BY <1>1, Zenon DEF Offered
    <2>3. QED
      BY <2>1, <2>2
  <1>5. [pc |-> "checked", name |-> n] \in [pc : {"checked", "body"}, name : Names]
    OBVIOUS
  <1>6. RecorderInv' /\ UNCHANGED <<Volume, Open, Stopping>>
    BY <1>1, <1>5, FilesRest, Zenon DEF RecorderInv, RecorderTypes
  <1>7. Lib!Offer(n)
    BY <1>1, <1>4, <1>6, Zenon DEF Lib!Offer
  <1>8. QED
    BY <1>6, <1>7, Zenon DEF Lib!Next

\* An upload that ends, however it ends.
LEMMA UploadEndImplements ==
  ASSUME RecorderInv, NEW u \in Uploaders, upload[u].pc # "idle",
         upload' = [upload EXCEPT ![u] = NoUpload],
         UNCHANGED <<dir, content, active, task>>
  PROVE  RecorderInv' /\ [Lib!Next]_(Lib!vars)
  <1>1. RecorderInv' /\ UNCHANGED <<Volume, Open, Stopping>>
    BY FilesRest, Zenon DEF RecorderInv, RecorderTypes
  <1>2. Offered' = Offered \/ Offered' = Offered \ {upload[u].name}
    BY UploadEnds, Zenon
  <1>3. CASE Offered' = Offered
    BY <1>1, <1>3, Zenon DEF Lib!vars
  <1>4. CASE Offered' = Offered \ {upload[u].name}
    BY <1>1, <1>4, UploadNamed, Zenon DEF Lib!Next, Lib!Withdraw
  <1>5. QED
    BY <1>2, <1>3, <1>4, Zenon

\* An upload opens its temporary file, unless another has.
LEMMA UploadOpenImplements ==
  ASSUME RecorderInv, NEW u \in Uploaders, UploadOpen(u)
  PROVE  RecorderInv' /\ [Lib!Next]_(Lib!vars)
  <1>1. /\ upload[u].pc = "checked" /\ upload[u].pc # "idle"
        /\ UNCHANGED <<dir, content, active, task>>
    BY Zenon DEF UploadOpen
  <1>2. CASE upload[u].name \in tmp
    <2>1. upload' = [upload EXCEPT ![u] = NoUpload]
      BY <1>2 DEF UploadOpen
    <2>2. QED
      BY <1>1, <2>1, UploadEndImplements, Zenon
  <1>3. CASE upload[u].name \notin tmp
    <2> DEFINE body == [upload[u] EXCEPT !.pc = "body"]
    <2>1. upload' = [upload EXCEPT ![u] = body]
      BY <1>3 DEF UploadOpen
    <2>2. /\ body \in [pc : {"checked", "body"}, name : Names]
          /\ body.pc = "body" /\ body.name = upload[u].name
      BY <1>1, UploadNamed
    <2> HIDE DEF body
    <2>3. upload'[u] = body /\ \A v \in Uploaders \ {u} : upload'[v] = upload[v]
      BY <2>1, Zenon DEF RecorderInv, RecorderTypes
    <2>4. body.pc # "idle"
      BY <2>2
    <2>5. Offered' = Offered
      <3>1. \A v \in Uploaders : /\ upload'[v].name = upload[v].name
                                 /\ upload'[v].pc # "idle" <=> upload[v].pc # "idle"
        BY <1>1, <2>2, <2>3, <2>4, Zenon
      <3>2. \A m : m \in Offered' <=> m \in Offered
        BY <3>1, Zenon DEF Offered
      <3>3. QED
        BY <3>2
    <2>6. RecorderInv' /\ UNCHANGED <<Volume, Open, Stopping>>
      BY <1>1, <2>1, <2>2, FilesRest, Zenon DEF RecorderInv, RecorderTypes
    <2>7. QED
      BY <1>1, <2>5, <2>6, Zenon DEF Lib!vars
  <1>4. QED
    BY <1>2, <1>3

\* An upload that is complete gets its name, over what had it.
LEMMA UploadRenameImplements ==
  ASSUME RecorderInv, NEW u \in Uploaders, UploadRename(u)
  PROVE  RecorderInv' /\ Lib!Next
  <1> DEFINE n == upload[u].name
  <1>1. /\ upload[u].pc # "idle"
        /\ upload' = [upload EXCEPT ![u] = NoUpload]
        /\ UNCHANGED <<active, task>>
    BY Zenon DEF UploadRename
  <1>2. PICK f \in NextFile :
          /\ dir' = [dir EXCEPT ![n] = f]
          /\ content' = [content EXCEPT ![f] = [Unmade EXCEPT !.made = TRUE,
                                                             !.complete = TRUE]]
    BY Zenon DEF UploadRename
  <1>3. n \in Names /\ n \in Offered
    BY <1>1, UploadNamed, Zenon
  <1>4. f \in Files /\ ~content[f].made
    BY <1>2, Zenon DEF NextFile
  <1> DEFINE whole == [frames |-> 0, complete |-> TRUE, made |-> TRUE]
  <1>5. content'[f] = whole /\ \A g \in Files \ {f} : content'[g] = content[g]
    BY <1>2, <1>4, Zenon DEF RecorderInv, RecorderTypes, Unmade
  <1> DEFINE imported == [made |-> TRUE, frames |-> 0, sealed |-> TRUE]
  <1>6. VolumeOf(whole) = imported
    BY DEF VolumeOf
  <1>7. whole \in [frames : Nat, complete : BOOLEAN, made : BOOLEAN] /\ whole.made
    OBVIOUS
  <1> HIDE DEF whole, n
  <1>8. content' = [content EXCEPT ![f] = whole]
    BY <1>2, <1>5, ZenonT(40) DEF RecorderInv, RecorderTypes
  <1>9. Volume' = [Volume EXCEPT ![f] = imported]
    <2> HIDE DEF imported
    <2>1. QED
      BY <1>4, <1>5, <1>6, VolumeChanges, Zenon
  <1>10. UNCHANGED <<Open, Stopping>>
    BY <1>1, Zenon DEF Open, Stopping
  <1>11. Offered' \in {Offered, Offered \ {n}}
    BY <1>1, UploadEnds, Zenon DEF n
  <1>12. ~Volume[f].made
    BY <1>4, VolumeIs DEF VolumeOf
  <1>13. Lib!Import(n, f)
    BY <1>2, <1>3, <1>9, <1>10, <1>11, <1>12, Zenon DEF Lib!Import
  <1>14. RecorderTypes'
    <2>1. dir' \in [Names -> Files \cup {NoFile}]
      BY <1>2, <1>3, <1>4, Zenon DEF RecorderInv, RecorderTypes
    <2>2. content' \in [Files -> [frames : Nat, complete : BOOLEAN, made : BOOLEAN]]
      BY <1>4, <1>7, <1>8, Zenon DEF RecorderInv, RecorderTypes
    <2>3. QED
      BY <1>1, <2>1, <2>2, Zenon DEF RecorderInv, RecorderTypes
  <1>15. \A g \in Files : ~content'[g].made => content'[g] = Unmade /\ g \notin Open'
    BY <1>5, <1>7, <1>10, Zenon DEF RecorderInv
  <1>16. RecorderInv'
    BY <1>1, <1>10, <1>14, <1>15, Zenon DEF RecorderInv
  <1>17. QED
    BY <1>3, <1>4, <1>13, <1>16, Zenon DEF Lib!Next

\* A server that dies leaves the directory.
LEMMA DeathImplements ==
  ASSUME RecorderInv, ServerDies
  PROVE  RecorderInv' /\ Lib!Next
  <1>1. /\ active' = NoFile /\ task' = [f \in Files |-> NoTask]
        /\ upload' = [u \in Uploaders |-> NoUpload]
        /\ UNCHANGED <<dir, content, tmp>>
    BY Zenon DEF ServerDies
  <1>2. Open' = {} /\ Stopping' = {} /\ Offered' = {}
    BY <1>1 DEF Open, Stopping, Offered, NoTask, NoUpload
  <1>3. Volume' = Volume
    BY <1>1, Zenon DEF Volume
  <1>4. NoTask \in Tasks
    BY DEF NoTask, Tasks
  <1>5. RecorderTypes'
    BY <1>1, <1>4, Zenon DEF RecorderInv, RecorderTypes
  <1>6. RecorderInv'
    BY <1>1, <1>2, <1>5, Zenon DEF RecorderInv
  <1>7. QED
    BY <1>1, <1>2, <1>3, <1>6, Zenon DEF Lib!Next, Lib!Restart

\* Every step of the recorder is one of the library, or none.
LEMMA RecorderImplements ==
  ASSUME RecorderInv, RecorderNext
  PROVE  RecorderInv' /\ [Lib!Next]_(Lib!vars)
  <1>1. CASE \E n \in Names :
               \/ start_recording_handler(n) \/ delete_recording_handler(n)
               \/ \E m \in Names : rename_recording_handler(n, m)
               \/ \E u \in Uploaders : UploadCheck(u, n)
    BY <1>1, StartImplements, DirectoryImplements, UploadCheckImplements, Zenon
  <1>2. CASE stop_recording_handler \/ ServerDies
    BY <1>2, StopImplements, DeathImplements, Zenon
  <1>3. CASE \E f \in Files : recording_task(f)
    BY <1>3, TaskImplements, Zenon
  <1>4. CASE \E u \in Uploaders : UploadOpen(u) \/ UploadRename(u)
    BY <1>4, UploadOpenImplements, UploadRenameImplements, Zenon
  <1>5. CASE \E u \in Uploaders : UploadFails(u)
    <2>1. PICK u \in Uploaders : UploadFails(u)
      BY <1>5
    <2>2. /\ upload[u].pc # "idle" /\ upload' = [upload EXCEPT ![u] = NoUpload]
          /\ UNCHANGED <<dir, content, active, task>>
      BY <2>1, Zenon DEF UploadFails
    <2>3. QED
      BY <2>2, UploadEndImplements, Zenon
  <1>6. QED
    BY <1>1, <1>2, <1>3, <1>4, <1>5, Zenon DEF RecorderNext

-------------------------------------------------------------------------------
\* The locator.

\* From the moment the sockets are there, not only once the loop listens: a change that
\* has not reached the sockets is still on its way to the locator, or was missed.
LocatorInv ==
    /\ unannounced \in Nat
    /\ unread \in [Listeners -> 0 .. 2]
    /\ have_active \in BOOLEAN
    /\ focus # "locator" => stage = "enumerate"
    /\ (/\ stage \in {"subscribe", "listen"}
        /\ Searching
        /\ unannounced = 0
        /\ unread["locator"] = 0
        /\ ~missed) => sockets \cup broken = nics

\* The watcher, the system and the request to shut down.
LEMMA WatchKeeps ==
  ASSUME LocatorInv, Watch, UNCHANGED <<focus, locatorVars>>
  PROVE  LocatorInv'
  <1>1. CASE RequestShutdown
    BY <1>1 DEF RequestShutdown, LocatorInv, locatorVars, Searching
  <1>2. CASE \E now : AddressesChange(now)
    BY <1>2 DEF AddressesChange, LocatorInv, locatorVars, Searching
  <1>3. CASE wait_for_ip_addr_change({focus})
    <2>1. /\ unannounced > 0 /\ unannounced' = unannounced - 1 /\ nics' = nics
          /\ \A l \in Listeners : unread'[l] = IF l # focus \/ unread[l] = 2 THEN unread[l]
                                               ELSE unread[l] + 1
          /\ unread' = [l \in Listeners |-> unread'[l]]
      BY <1>3, Zenon DEF wait_for_ip_addr_change
    <2>2. \A l \in Listeners : unread[l] \in 0 .. 2
      BY DEF LocatorInv
    <2>3. unread' \in [Listeners -> 0 .. 2]
      <3>1. \A l \in Listeners : unread'[l] \in 0 .. 2
        BY <2>1, <2>2
      <3>2. QED
        BY <2>1, <3>1, Zenon
    <2>4. focus = "locator" => unread'["locator"] # 0
      BY <2>1, <2>2 DEF Listeners
    <2>5. UNCHANGED <<focus, args, stage, have_active>>
      BY DEF locatorVars
    <2>6. QED
      BY <2>1, <2>3, <2>4, <2>5 DEF LocatorInv
  <1>4. QED
    BY <1>1, <1>2, <1>3, Zenon DEF Watch

\* The steps of the locator's task.
LEMMA LocatorKeeps ==
  ASSUME LocatorInv, focus = "locator", LocatorNext, UNCHANGED focus
  PROVE  LocatorInv'
  <1> USE DEF LocatorInv, Searching
  <1>1. CASE create_listen_sockets
    BY <1>1 DEF create_listen_sockets, watchVars
  <1>2. CASE Subscribe
    <2>1. /\ stage = "subscribe" /\ unread' = [unread EXCEPT !["locator"] = 0]
          /\ UNCHANGED <<args, sockets, have_active, broken, nics, unannounced>>
      BY <1>2, Zenon DEF Subscribe
    <2>2. ~missed' => ~missed /\ ~(unread["locator"] > 0)
      BY <1>2, Zenon DEF Subscribe
    <2>3. unread["locator"] \in 0 .. 2 /\ unread' \in [Listeners -> 0 .. 2]
      BY <2>1 DEF Listeners
    <2>4. ~missed' => ~missed /\ unread["locator"] = 0
      BY <2>2, <2>3
    <2>5. QED
      BY <2>1, <2>3, <2>4
  <1>3. ASSUME NEW next \in {"enumerate", "ended"}, Leave(next)
        PROVE  /\ unannounced' = unannounced /\ stage' \notin {"subscribe", "listen"}
               /\ unread' \in [Listeners -> 0 .. 2]
    BY <1>3 DEF Leave, Listeners
  <1>4. CASE LocatorShutdown
    BY <1>3, <1>4 DEF LocatorShutdown
  <1>5. CASE IPAddressChanged
    BY <1>3, <1>5 DEF IPAddressChanged
  <1>6. CASE Timeout \/ get_interfaces
    BY <1>6 DEF Timeout, get_interfaces, watchVars
  <1>7. CASE LocatorPacket
    <2>1. /\ stage = "listen" /\ have_active' \in BOOLEAN /\ (have_active => have_active')
          /\ UNCHANGED <<args, sockets, broken, missed>>
      <3>1. have_active \in BOOLEAN
        OBVIOUS
      <3>2. have_active' \in {have_active, TRUE}
        BY <1>7, Zenon DEF LocatorPacket
      <3>3. have_active' \in BOOLEAN /\ (have_active => have_active')
        BY <3>1, <3>2, Zenon
      <3>4. QED
        BY <1>7, <3>3, Zenon DEF LocatorPacket
    <2>2. CASE args.multiple_radar \/ ~have_active'
      <3>1. UNCHANGED <<stage, watchVars>>
        BY <1>7, <2>2, Zenon DEF LocatorPacket
      <3>2. QED
        BY <2>1, <3>1 DEF watchVars
    <2>3. CASE ~(args.multiple_radar \/ ~have_active')
      <3>1. Leave("enumerate")
        BY <1>7, <2>3, Zenon DEF LocatorPacket
      <3>2. QED
        BY <1>3, <2>1, <3>1
    <2>4. QED
      BY <2>2, <2>3
  <1>8. CASE ReceiveError
    BY <1>8 DEF ReceiveError, watchVars
  <1>9. CASE InterfaceRequest
    BY <1>3, <1>9 DEF InterfaceRequest, watchVars
  <1>10. QED
    BY <1>1, <1>2, <1>4, <1>5, <1>6, <1>7, <1>8, <1>9, Zenon DEF LocatorNext

-------------------------------------------------------------------------------
\* The navigation data.

\* The fixes whose three stores are done.
Stored == IF writer = Idle THEN Len(fixes) ELSE Len(fixes) - 1

\* set_position stores fix after fix, one coordinate after the other.
WriterInv ==
    /\ fixes \in Seq(Vessels)
    /\ writer \in {Idle} \cup [stage : {"lat", "lon", "valid"}, fix : {Len(fixes)}]
    /\ writer # Idle => Len(fixes) >= 1
    /\ lat = IF writer.stage = "lat" THEN Len(fixes) - 1 ELSE Len(fixes)
    /\ lon = IF writer.stage \in {"lat", "lon"} THEN Len(fixes) - 1 ELSE Len(fixes)
    /\ valid => Stored >= 1

\* A reading begins with a fix that is stored, and finds that one or a later one.
Fresh(c) == c \in Nat /\ c >= reader.from /\ (reader.alone => c = reader.from)
ReaderInv ==
    /\ reader \in [stage : {"idle", "lat", "lon", "done"}, lat : Nat, lon : Nat,
                   from : Nat, alone : BOOLEAN]
    /\ reader.stage # "idle" => /\ reader.from >= 1 /\ reader.from <= Stored
                                /\ reader.alone => writer = Idle /\ reader.from = Len(fixes)
    /\ reader.stage \in {"lon", "done"} => Fresh(reader.lat)
    /\ reader.stage = "done" => Fresh(reader.lon)

\* Other vessels are asked for when own ship is known, and only then.
OwnShipInv ==
    source.how # "udp" =>
        /\ own_ship \in {Own, None}
        /\ "all" \in subs => own_ship = Own /\ source.pass_ais /\ ~source.nmea0183_mode
        /\ \A i \in 1 .. Len(fixes) : fixes[i] = Own
        /\ Own \notin ais

NavInv == WriterInv /\ ReaderInv /\ OwnShipInv

\* The states set_position goes through.
LEMMA WriterStates ==
  ASSUME WriterInv
  PROVE  /\ Len(fixes) \in Nat /\ lat \in Nat /\ lon \in Nat /\ Stored \in Nat
         /\ lat >= Stored /\ lon >= Stored
         /\ writer = Idle => lat = Len(fixes) /\ lon = Len(fixes)
         /\ writer # Idle => /\ writer \in [stage : {"lat", "lon", "valid"}, fix : {Len(fixes)}]
                             /\ writer.fix = Len(fixes) /\ Stored = Len(fixes) - 1
  <1>1. Len(fixes) \in Nat
    BY DEF WriterInv
  <1>2. writer = Idle => writer.stage \notin {"lat", "lon"}
    BY DEF Idle
  <1>3. writer # Idle => writer \in [stage : {"lat", "lon", "valid"}, fix : {Len(fixes)}]
    BY Zenon DEF WriterInv
  <1>4. QED
    BY <1>1, <1>2, <1>3 DEF WriterInv, Stored

\* A new fix.
LEMMA FixKeeps ==
  ASSUME NavInv, NEW v \in Vessels, writer = Idle, SetPosition(v),
         source.how # "udp" => v = Own, UNCHANGED <<source, ais>>
  PROVE  /\ WriterInv' /\ ReaderInv'
         /\ source.how # "udp" => \A i \in 1 .. Len(fixes)' : fixes'[i] = Own
  <1>1. Len(fixes) \in Nat /\ lat = Len(fixes) /\ lon = Len(fixes)
    BY WriterStates, Zenon DEF NavInv
  <1>2. CASE valid' = FALSE /\ UNCHANGED <<fixes, writer, lat, lon>>
    <2>1. WriterInv'
      BY <1>2, Zenon DEF NavInv, WriterInv, Stored
    <2>2. QED
      <3>1. reader' = [reader EXCEPT !.alone = FALSE]
        BY DEF SetPosition
      <3>2. QED
        BY <1>2, <2>1, <3>1, Zenon DEF NavInv, ReaderInv, OwnShipInv, Stored, Fresh
  <1>3. CASE /\ fixes' = Append(fixes, v)
             /\ writer' = [stage |-> "lat", fix |-> Len(fixes) + 1]
             /\ UNCHANGED <<lat, lon, valid>>
    <2>1. /\ fixes' \in Seq(Vessels) /\ Len(fixes') = Len(fixes) + 1
          /\ \A i \in 1 .. Len(fixes) : fixes'[i] = fixes[i]
          /\ fixes'[Len(fixes) + 1] = v
      BY <1>3 DEF NavInv, WriterInv
    <2>2. writer' # Idle /\ writer'.stage = "lat"
      BY <1>3 DEF Idle
    <2>3. Stored' = Stored /\ Stored = Len(fixes)
      BY <1>1, <2>1, <2>2 DEF Stored
    <2>4. writer' \in [stage : {"lat", "lon", "valid"}, fix : {Len(fixes')}]
      BY <1>3, <2>1
    <2>5. WriterInv'
      BY <1>1, <1>3, <2>1, <2>2, <2>3, <2>4, SMTT(30) DEF NavInv, WriterInv
    <2>6. ReaderInv'
      <3>1. reader' = [reader EXCEPT !.alone = FALSE]
        BY DEF SetPosition
      <3>2. QED
        BY <2>3, <3>1, Zenon DEF NavInv, ReaderInv, Fresh
    <2>7. QED
      BY <1>1, <2>1, <2>5, <2>6 DEF NavInv, OwnShipInv
  <1>4. QED
    BY <1>2, <1>3, Zenon DEF SetPosition

\* One store of set_position.
LEMMA StoreKeeps ==
  ASSUME NavInv, Store
  PROVE  NavInv'
  <1>1. /\ UNCHANGED <<fixes, reader, source, subs, own_ship, ais>>
        /\ writer # Idle /\ writer.fix = Len(fixes) /\ Len(fixes) \in Nat /\ Len(fixes) >= 1
        /\ writer \in [stage : {"lat", "lon", "valid"}, fix : {Len(fixes)}]
        /\ Stored = Len(fixes) - 1
    BY WriterStates DEF NavInv, Store, connVars, WriterInv
  <1>2. OwnShipInv'
    BY <1>1, Zenon DEF NavInv, OwnShipInv
  <1>3. WriterInv' /\ Stored' >= Stored
    <2>1. CASE writer.stage = "lat"
      <3>1. /\ lat' = Len(fixes) /\ writer' = [writer EXCEPT !.stage = "lon"]
            /\ UNCHANGED <<lon, valid>>
        BY <1>1, <2>1 DEF Store
      <3>2. /\ writer' \in [stage : {"lat", "lon", "valid"}, fix : {Len(fixes)}]
            /\ writer' # Idle /\ writer'.stage = "lon"
        BY <1>1, <3>1 DEF Idle
      <3>3. QED
        BY <1>1, <2>1, <3>1, <3>2 DEF NavInv, WriterInv, Stored
    <2>2. CASE writer.stage = "lon"
      <3>1. /\ lon' = Len(fixes) /\ writer' = [writer EXCEPT !.stage = "valid"]
            /\ UNCHANGED <<lat, valid>>
        BY <1>1, <2>2 DEF Store
      <3>2. /\ writer' \in [stage : {"lat", "lon", "valid"}, fix : {Len(fixes)}]
            /\ writer' # Idle /\ writer'.stage = "valid"
        BY <1>1, <3>1 DEF Idle
      <3>3. QED
        BY <1>1, <2>2, <3>1, <3>2 DEF NavInv, WriterInv, Stored
    <2>3. CASE writer.stage = "valid"
      <3>1. writer' = Idle /\ UNCHANGED <<lat, lon>>
        BY <1>1, <2>3 DEF Store
      <3>2. writer'.stage = "idle"
        BY <3>1 DEF Idle
      <3>3. QED
        BY <1>1, <2>3, <3>1, <3>2 DEF NavInv, WriterInv, Stored
    <2>4. QED
      BY <1>1, <2>1, <2>2, <2>3
  <1>4. ReaderInv'
    <2>1. Stored' \in Nat
      BY <1>1 DEF Stored
    <2>2. reader.stage # "idle" => ~reader.alone
      BY <1>1, Zenon DEF NavInv, ReaderInv
    <2>3. QED
      BY <1>1, <1>3, <2>1, <2>2 DEF NavInv, ReaderInv, Fresh
  <1>5. QED
    BY <1>2, <1>3, <1>4, Zenon DEF NavInv

\* One load of get_position.
LEMMA LoadKeeps ==
  ASSUME NavInv, Load
  PROVE  NavInv'
  <1>1. UNCHANGED <<fixes, writer, lat, lon, valid, source, subs, own_ship, ais>>
    BY Zenon DEF Load, connVars
  <1>2. WriterInv' /\ OwnShipInv' /\ Stored' = Stored
    BY <1>1, Zenon DEF NavInv, WriterInv, OwnShipInv, Stored
  <1>3. /\ Len(fixes) \in Nat /\ lat \in Nat /\ lon \in Nat /\ Stored \in Nat
        /\ lat >= Stored /\ lon >= Stored
        /\ writer = Idle => lat = Len(fixes) /\ lon = Len(fixes)
    BY WriterStates, Zenon DEF NavInv
  <1>4. ReaderInv'
    <2>1. CASE reader.stage \in {"idle", "done"}
      <3>1. PICK alone \in BOOLEAN :
              /\ reader' = [stage |-> "lat", lat |-> 0, lon |-> 0, from |-> Stored, alone |-> alone]
              /\ Stored >= 1 /\ (alone => writer = Idle)
        <4>1. reader' = [stage |-> "lat", lat |-> 0, lon |-> 0,
                         from |-> IF writer = Idle THEN Len(fixes) ELSE writer.fix - 1,
                         alone |-> writer = Idle]
          BY <2>1 DEF Load
        <4>2. Stored = IF writer = Idle THEN Len(fixes) ELSE writer.fix - 1
          BY WriterStates, Zenon DEF NavInv, Stored
        <4>3. Stored >= 1
          BY <2>1 DEF Load, NavInv, WriterInv
        <4>4. (writer = Idle) \in BOOLEAN
          OBVIOUS
        <4>5. QED
          BY <4>1, <4>2, <4>3, <4>4, Zenon
      <3>2. alone => Stored = Len(fixes)
        BY <1>3, <3>1 DEF Stored
      <3>3. /\ reader'.stage = "lat" /\ reader'.from = Stored /\ reader'.alone = alone
            /\ reader' \in [stage : {"idle", "lat", "lon", "done"}, lat : Nat, lon : Nat,
                            from : Nat, alone : BOOLEAN]
        BY <1>3, <3>1
      <3>4. QED
        BY <1>1, <1>2, <1>3, <3>1, <3>2, <3>3 DEF ReaderInv
    <2>2. CASE reader.stage = "lat"
      <3>1. reader' = [reader EXCEPT !.stage = "lon", !.lat = lat]
        BY <2>2 DEF Load
      <3>2. Fresh(lat)
        BY <1>3, <2>2 DEF NavInv, ReaderInv, Fresh
      <3>3. QED
        BY <1>1, <1>2, <2>2, <3>1, <3>2, Zenon DEF NavInv, ReaderInv, Fresh
    <2>3. CASE reader.stage = "lon"
      <3>1. reader' = [reader EXCEPT !.stage = "done", !.lon = lon]
        BY <2>3 DEF Load
      <3>2. Fresh(lon)
        BY <1>3, <2>3 DEF NavInv, ReaderInv, Fresh
      <3>3. QED
        BY <1>1, <1>2, <2>3, <3>1, <3>2, Zenon DEF NavInv, ReaderInv, Fresh
    <2>4. QED
      BY <2>1, <2>2, <2>3, Zenon DEF Load
  <1>5. QED
    BY <1>2, <1>4, Zenon DEF NavInv

\* A line of the connection: own ship's position, or another vessel.
LEMMA LineKeeps ==
  ASSUME NavInv, NEW v \in Vessels, Line(v)
  PROVE  NavInv'
  <1>1. writer = Idle /\ UNCHANGED source /\ Sends(v)
    BY Zenon DEF Line, Receiving
  <1>2. \/ /\ source.nmea0183_mode \/ ~IsAisTarget(v)
           /\ SetPosition(v) /\ UNCHANGED ais
        \/ /\ ~source.nmea0183_mode /\ IsAisTarget(v)
           /\ ais' = ais \cup {v} /\ UNCHANGED positionVars
    BY Zenon DEF Line
  <1>3. \/ /\ source.pass_ais /\ ~source.nmea0183_mode /\ own_ship = None
           /\ own_ship' = v
           /\ source.how # "udp" => subs' = subs \cup {"all"}
        \/ UNCHANGED <<own_ship, subs>>
    BY Zenon DEF Line
  <1>4. Own # None
    BY NavAssumption DEF Vessels
  <1>5. source.how # "udp" => \/ v = Own
                              \/ IsAisTarget(v) /\ ~source.nmea0183_mode /\ own_ship = Own
    BY <1>1, <1>4 DEF NavInv, OwnShipInv, Sends, IsAisTarget
  <1>6. source.how # "udp" => ~IsAisTarget(Own)
    BY Zenon DEF NavInv, OwnShipInv, IsAisTarget
  <1>7. CASE /\ source.nmea0183_mode \/ ~IsAisTarget(v)
             /\ SetPosition(v) /\ UNCHANGED ais
    <2>1. source.how # "udp" => v = Own
      BY <1>5, <1>7, Zenon
    <2>2. /\ WriterInv' /\ ReaderInv'
          /\ source.how # "udp" => \A i \in 1 .. Len(fixes)' : fixes'[i] = Own
      BY <1>1, <1>7, <2>1, FixKeeps, Zenon
    <2>3. source.how # "udp" =>
            /\ own_ship' \in {Own, None}
            /\ "all" \in subs' => own_ship' = Own /\ source.pass_ais /\ ~source.nmea0183_mode
      BY <1>3, <2>1 DEF NavInv, OwnShipInv
    <2>4. OwnShipInv'
      BY <1>1, <1>7, <2>2, <2>3, Zenon DEF NavInv, OwnShipInv
    <2>5. QED
      BY <2>2, <2>4, Zenon DEF NavInv
  <1>8. CASE /\ ~source.nmea0183_mode /\ IsAisTarget(v)
             /\ ais' = ais \cup {v} /\ UNCHANGED positionVars
    <2>1. source.how # "udp" => v # Own /\ UNCHANGED <<own_ship, subs>>
      BY <1>3, <1>4, <1>5, <1>6, <1>8, Zenon
    <2>2. UNCHANGED <<fixes, writer, lat, lon, valid, reader>>
      BY <1>8, Zenon DEF positionVars
    <2>3. OwnShipInv'
      BY <1>1, <1>8, <2>1, <2>2, Zenon DEF NavInv, OwnShipInv
    <2>4. WriterInv' /\ ReaderInv'
      BY <2>2, Zenon DEF NavInv, WriterInv, ReaderInv, Stored, Fresh
    <2>5. QED
      BY <2>3, <2>4, Zenon DEF NavInv
  <1>9. QED
    BY <1>2, <1>7, <1>8, Zenon

\* A step that receives nothing; a new connection has asked for nothing yet.
LEMMA ConnectionKeeps ==
  ASSUME NavInv, UNCHANGED <<source, own_ship, ais, positionVars>>,
         "all" \in subs' => "all" \in subs
  PROVE  NavInv'
  <1>1. UNCHANGED <<fixes, writer, lat, lon, valid, reader>>
    BY Zenon DEF positionVars
  <1>2. WriterInv' /\ ReaderInv'
    BY <1>1, Zenon DEF NavInv, WriterInv, ReaderInv, Stored, Fresh
  <1>3. OwnShipInv'
    BY <1>1, Zenon DEF NavInv, OwnShipInv
  <1>4. QED
    BY <1>2, <1>3, Zenon DEF NavInv

\* The steps of the navigation task, and of a reader in another thread.
LEMMA NavKeeps ==
  ASSUME NavInv, NavNext
  PROVE  NavInv'
  <1>1. CASE ServiceChanges \/ NoMdns \/ ConnectionCloses \/ NavShutdown
    BY <1>1, ConnectionKeeps, Zenon
       DEF ServiceChanges, NoMdns, ConnectionCloses, NavShutdown, Disconnect
  <1>2. CASE find_service \/ ServiceResolved
    BY <1>2, ConnectionKeeps, Zenon DEF find_service, ServiceResolved, Connect
  <1>3. CASE SearchAgain
    BY <1>3, ConnectionKeeps, Zenon DEF SearchAgain, navVars, connVars
  <1>4. CASE Greeting
    <2>1. "all" \notin subs'
      BY <1>4 DEF Greeting, subscription
    <2>2. QED
      BY <1>4, <2>1, ConnectionKeeps, Zenon DEF Greeting
  <1>5. QED
    BY <1>1, <1>2, <1>3, <1>4, LineKeeps, StoreKeeps, LoadKeeps, Zenon DEF NavNext

\* The navigation task reads its own changes of address, and no others.
LEMMA NavLeavesLocator ==
  ASSUME LocatorInv, focus = "navdata", NavNext, UNCHANGED <<focus, locatorVars>>
  PROVE  LocatorInv'
  <1>1. UNCHANGED watchVars \/ (ReadChange("navdata") /\ UNCHANGED unannounced)
    BY Zenon DEF NavNext, ServiceChanges, find_service, ServiceResolved, SearchAgain, NoMdns,
                 ConnectionCloses, Disconnect, NavShutdown, Greeting, Line, Store, Load
  <1>2. unannounced' = unannounced /\ unread' \in [Listeners -> 0 .. 2]
    <2>1. CASE UNCHANGED watchVars
      BY <2>1 DEF watchVars, LocatorInv
    <2>2. CASE ReadChange("navdata") /\ UNCHANGED unannounced
      <3>1. unread' = [unread EXCEPT !["navdata"] = IF unread["navdata"] = 2 THEN 1 ELSE 0]
        BY <2>2 DEF ReadChange
      <3>2. (IF unread["navdata"] = 2 THEN 1 ELSE 0) \in 0 .. 2
        OBVIOUS
      <3>3. QED
        BY <2>2, <3>1, <3>2, Zenon DEF LocatorInv
    <2>3. QED
      BY <1>1, <2>1, <2>2
  <1>3. QED
    BY <1>2 DEF LocatorInv, locatorVars

-------------------------------------------------------------------------------
\* The settings.

\* What the file holds of a radar: nothing, or a record, which is a record of itself.
Configs == {c \in [Keys -> Settings \cup {Absent}] :
               \A k \in Keys : c[k] # Absent => RecordOf(c[k]) = c[k]}
Updates == {u \in [id : SettingIds, value : Zone \cup {0, 1}] : u.value \in ValuesOf(u.id)}

SettingsTypes ==
    /\ up \in BOOLEAN /\ writing \in BOOLEAN /\ unsaved \in BOOLEAN /\ lagged \in BOOLEAN
    /\ file \in Configs \cup {Torn} /\ config \in Configs
    /\ controls \in [Keys -> Settings \cup {Absent}]
    /\ stored \in [Keys -> Settings \cup {Absent}]
    /\ asked \in [Keys -> Settings]
    /\ updates \in [Keys -> Seq(Updates)]

\* The records are those of the controls stored last, in memory while the process runs
\* and on disk while it does not.  When no write is under way and none has failed, the
\* file is what is in memory, or it was not readable and nothing has been stored since.
FileInv ==
    /\ up => \A k \in Keys : stored[k] # Absent => config[k] = RecordOf(stored[k])
    /\ ~up => \A k \in Keys : stored[k] # Absent => file # Torn /\ file[k] = RecordOf(stored[k])
    /\ up /\ ~writing /\ ~unsaved =>
          file = config \/ (file = Torn /\ config = Nowhere /\ stored = Nowhere)

\* A radar that is fresh has a record's settings, and nothing on its way; one that is not
\* and has nothing on its way is stored as it is.
ControlsInv ==
    /\ \A k \in Keys : updates[k] # <<>> => Registered(k) /\ k \notin fresh
    /\ \A k \in Keys : Registered(k) /\ k \notin fresh /\ updates[k] = <<>> =>
                          stored[k] = controls[k]
    /\ \A k \in fresh :
          /\ k \in Keys /\ Registered(k)
          /\ RecordOf(controls[k]) = controls[k]
          /\ stored[k] # Absent => controls[k] = RecordOf(stored[k])

\* The last of the updates us about a setting of value c carries the value a, or there is
\* none and c is a.
LastWord(us, id, c, a) ==
    \/ c = a /\ \A i \in 1 .. Len(us) : us[i].id # id
    \/ \E i \in 1 .. Len(us) :
          us[i].id = id /\ us[i].value = a /\ \A j \in i + 1 .. Len(us) : us[j].id # id

\* What was asked for last is there, or on its way behind everything else.
WasAsked(us, c, a) ==
    /\ \A id \in ZoneIds : c[id] = a[id]
    /\ \A id \in ListIds : LastWord(us, id, c[id], a[id])
AskedInv ==
    ~lagged => \A k \in Keys : Registered(k) => WasAsked(updates[k], controls[k], asked[k])

DownInv ==
    ~up => /\ ~writing /\ ~unsaved /\ fresh = {}
           /\ \A k \in Keys : controls[k] = Absent /\ updates[k] = <<>>

SettingsInv == SettingsTypes /\ FileInv /\ ControlsInv /\ AskedInv /\ DownInv

\* Settings and records.
WithValue(c, id, v) == [c EXCEPT ![id] = v]

\* One setting is changed.
LEMMA SettingsChange ==
  ASSUME NEW c \in Settings, NEW id \in SettingIds, NEW v \in ValuesOf(id)
  PROVE  /\ WithValue(c, id, v) \in Settings /\ WithValue(c, id, v)[id] = v
         /\ \A other \in SettingIds \ {id} : WithValue(c, id, v)[other] = c[other]
  <1>1. v \in Zone \cup {0, 1}
    BY DEF ValuesOf
  <1>2. QED
    BY <1>1, Zenon DEF Settings, WithValue

\* The default settings.
LEMMA DefaultTyped == Default \in Settings
  <1>1. [shape |-> 0, enabled |-> FALSE] \in Zone
    BY DEF Zone
  <1>2. \A id \in SettingIds : Default[id] \in ValuesOf(id) /\ Default[id] \in Zone \cup {0, 1}
    BY <1>1 DEF Default, ValuesOf
  <1>3. Default = [id \in SettingIds |-> Default[id]]
    BY DEF Default
  <1>4. QED
    BY <1>2, <1>3 DEF Settings

\* What is written for a radar is settings again.
LEMMA RecordTyped ==
  ASSUME NEW c \in Settings
  PROVE  RecordOf(c) \in Settings
  <1> DEFINE r(id) == IF id \in ExclusionIds /\ ~c[id].enabled THEN Default[id] ELSE c[id]
  <1>1. \A id \in SettingIds : r(id) \in ValuesOf(id) /\ r(id) \in Zone \cup {0, 1}
    BY DefaultTyped, Zenon DEF Settings
  <1>2. RecordOf(c) = [id \in SettingIds |-> r(id)]
    BY Zenon DEF RecordOf
  <1> HIDE DEF r
  <1>3. QED
    BY <1>1, <1>2 DEF Settings

\* A zone that is off by default.
LEMMA DefaultIsOff == \A id \in ExclusionIds : ~Default[id].enabled
  BY DEF Default, SettingIds, ZoneIds

\* What was read back is written as it was.
LEMMA RecordTwice ==
  ASSUME NEW c
  PROVE  RecordOf(RecordOf(c)) = RecordOf(c)
  <1> DEFINE r == RecordOf(c)
  <1>1. \A id \in SettingIds :
          r[id] = IF id \in ExclusionIds /\ ~c[id].enabled THEN Default[id] ELSE c[id]
    BY Zenon DEF RecordOf
  <1> HIDE DEF r
  <1>2. \A id \in SettingIds :
          (IF id \in ExclusionIds /\ ~r[id].enabled THEN Default[id] ELSE r[id]) = r[id]
    BY <1>1, DefaultIsOff, Zenon
  <1>3. RecordOf(r) = [id \in SettingIds |-> r[id]]
    BY <1>2, Zenon DEF RecordOf
  <1>4. r = [id \in SettingIds |-> r[id]]
    BY DEF r, RecordOf
  <1>5. QED
    BY <1>3, <1>4, Zenon DEF r

\* The defaults are written as they are.
LEMMA RecordOfDefault == RecordOf(Default) = Default
  BY Zenon DEF RecordOf, Default

\* The updates on their way.
LEMMA LastWordAppended ==
  ASSUME NEW us \in Seq(Updates), NEW u \in Updates, NEW id, NEW c, NEW a
  PROVE  /\ u.id = id => LastWord(Append(us, u), id, c, u.value)
         /\ u.id # id /\ LastWord(us, id, c, a) => LastWord(Append(us, u), id, c, a)
  <1> DEFINE ws == Append(us, u)
  <1>1. /\ Len(us) \in Nat /\ Len(ws) = Len(us) + 1 /\ ws[Len(us) + 1] = u
        /\ \A i \in 1 .. Len(us) : ws[i] = us[i]
    OBVIOUS
  <1> HIDE DEF ws
  <1>2. ASSUME u.id = id PROVE LastWord(ws, id, c, u.value)
    <2>1. Len(ws) \in 1 .. Len(ws) /\ Len(ws) + 1 .. Len(ws) = {}
      BY <1>1
    <2>2. ws[Len(ws)].id = id /\ ws[Len(ws)].value = u.value
      BY <1>1, <1>2
    <2>3. QED
      BY <2>1, <2>2 DEF LastWord
  <1>3. ASSUME u.id # id, LastWord(us, id, c, a) PROVE LastWord(ws, id, c, a)
    <2>1. CASE c = a /\ \A i \in 1 .. Len(us) : us[i].id # id
      <3>1. \A i \in 1 .. Len(ws) : ws[i].id # id
        BY <1>1, <1>3, <2>1
      <3>2. QED
        BY <2>1, <3>1, Zenon DEF LastWord
    <2>2. ASSUME NEW i \in 1 .. Len(us), us[i].id = id, us[i].value = a,
                 \A j \in i + 1 .. Len(us) : us[j].id # id
          PROVE  LastWord(ws, id, c, a)
      <3>1. i \in 1 .. Len(ws) /\ ws[i].id = id /\ ws[i].value = a
        BY <1>1, <2>2
      <3>2. \A j \in i + 1 .. Len(ws) : ws[j].id # id
        <4> SUFFICES ASSUME NEW j \in i + 1 .. Len(ws) PROVE ws[j].id # id
          OBVIOUS
        <4>1. CASE j \in i + 1 .. Len(us)
          BY <1>1, <2>2, <4>1
        <4>2. CASE j = Len(us) + 1
          BY <1>1, <1>3, <4>2
        <4>3. j \in i + 1 .. Len(us) \/ j = Len(us) + 1
          BY <1>1, <2>2
        <4>4. QED
          BY <4>1, <4>2, <4>3
      <3>3. QED
        BY <3>1, <3>2, Zenon DEF LastWord
    <2>3. QED
      BY <1>3, <2>1, <2>2, Zenon DEF LastWord
  <1>4. QED
    BY <1>2, <1>3, Zenon DEF ws

\* The first update on its way is taken.
LEMMA LastWordTaken ==
  ASSUME NEW us \in Seq(Updates), us # <<>>, NEW id, NEW c, NEW a, LastWord(us, id, c, a)
  PROVE  /\ Head(us).id = id => LastWord(Tail(us), id, Head(us).value, a)
         /\ Head(us).id # id => LastWord(Tail(us), id, c, a)
  <1> DEFINE ws == Tail(us)
             new == IF Head(us).id = id THEN Head(us).value ELSE c
  <1>1. /\ Len(us) \in Nat /\ Len(us) >= 1 /\ Len(ws) = Len(us) - 1 /\ Head(us) = us[1]
        /\ \A i \in 1 .. Len(ws) : ws[i] = us[i + 1]
    OBVIOUS
  <1>2. new = IF us[1].id = id THEN us[1].value ELSE c
    BY <1>1, Zenon
  <1> HIDE DEF ws, new
  <1>3. LastWord(ws, id, new, a)
    <2>1. CASE c = a /\ \A i \in 1 .. Len(us) : us[i].id # id
      <3>1. new = a
        BY <1>1, <1>2, <2>1
      <3>2. \A i \in 1 .. Len(ws) : ws[i].id # id
        BY <1>1, <2>1
      <3>3. QED
        BY <3>1, <3>2, Zenon DEF LastWord
    <2>2. ASSUME NEW i \in 1 .. Len(us), us[i].id = id, us[i].value = a,
                 \A j \in i + 1 .. Len(us) : us[j].id # id
          PROVE  LastWord(ws, id, new, a)
      <3>1. CASE i = 1
        <4>1. new = a
          BY <1>2, <2>2, <3>1
        <4>2. \A j \in 1 .. Len(ws) : ws[j].id # id
          BY <1>1, <2>2, <3>1
        <4>3. QED
          BY <4>1, <4>2, Zenon DEF LastWord
      <3>2. CASE i # 1
        <4>1. i - 1 \in 1 .. Len(ws) /\ ws[i - 1].id = id /\ ws[i - 1].value = a
          BY <1>1, <2>2, <3>2
        <4>2. \A j \in (i - 1) + 1 .. Len(ws) : ws[j].id # id
          BY <1>1, <2>2, <3>2
        <4>3. QED
          BY <4>1, <4>2, Zenon DEF LastWord
      <3>3. QED
        BY <3>1, <3>2, Zenon
    <2>3. QED
      BY <2>1, <2>2, Zenon DEF LastWord
  <1>4. QED
    BY <1>3, Zenon DEF ws, new

\* Persistence::store.
LEMMA StoredKeeps ==
  ASSUME SettingsTypes, FileInv, Free, NEW k \in Keys, NEW c \in Settings, store(k, c),
         UNCHANGED up
  PROVE  /\ config' \in Configs /\ file' \in Configs \cup {Torn}
         /\ stored' \in [Keys -> Settings \cup {Absent}]
         /\ writing' \in BOOLEAN /\ unsaved' \in BOOLEAN
         /\ stored'[k] = c /\ \A l \in Keys \ {k} : stored'[l] = stored[l]
         /\ FileInv'
  <1> DEFINE r == RecordOf(c)
  <1>1. r \in Settings /\ RecordOf(r) = r /\ r # Absent /\ c # Absent
    BY RecordTyped, RecordTwice, PersistenceAssumption, Zenon
  <1>2. /\ config' = [config EXCEPT ![k] = r] /\ stored' = [stored EXCEPT ![k] = c]
        /\ up /\ up' = up /\ ~writing
    BY Zenon DEF store, Free
  <1>3. \/ config[k] = r /\ UNCHANGED <<file, writing, unsaved>>
        \/ config[k] # r /\ file' = Torn /\ writing' = TRUE /\ UNCHANGED unsaved
        \/ config[k] # r /\ unsaved' = TRUE /\ UNCHANGED <<file, writing>>
    BY Zenon DEF store
  <1> HIDE DEF r
  <1>4. /\ config \in [Keys -> Settings \cup {Absent}]
        /\ \A l \in Keys : config[l] # Absent => RecordOf(config[l]) = config[l]
    BY Zenon DEF SettingsTypes, Configs
  <1>5. /\ config'[k] = r /\ \A l \in Keys \ {k} : config'[l] = config[l]
        /\ config' \in [Keys -> Settings \cup {Absent}]
    BY <1>1, <1>2, <1>4, Zenon
  <1>6. config' \in Configs
    BY <1>1, <1>4, <1>5, Zenon DEF Configs
  <1>7. /\ stored'[k] = c /\ \A l \in Keys \ {k} : stored'[l] = stored[l]
        /\ stored' \in [Keys -> Settings \cup {Absent}]
    BY <1>2, Zenon DEF SettingsTypes
  <1>8. \A l \in Keys : stored'[l] # Absent => config'[l] = RecordOf(stored'[l])
    BY <1>2, <1>5, <1>7, Zenon DEF FileInv, r
  <1>9. file' \in Configs \cup {Torn} /\ writing' \in BOOLEAN /\ unsaved' \in BOOLEAN
    BY <1>3, Zenon DEF SettingsTypes
  <1>10. ~writing' /\ ~unsaved' => file' = config'
    <2>1. SUFFICES ASSUME ~writing', ~unsaved' PROVE file' = config'
      OBVIOUS
    <2>2. config[k] = r /\ UNCHANGED <<file, writing, unsaved>>
      BY <1>3, <2>1, Zenon
    <2>3. config' = config
      BY <1>4, <1>5, <2>2
    <2>4. config # Nowhere
      BY <1>1, <2>2, Zenon DEF Nowhere
    <2>5. file = config
      BY <1>2, <2>1, <2>2, <2>4, Zenon DEF FileInv
    <2>6. QED
      BY <2>2, <2>3, <2>5, Zenon
  <1>11. FileInv'
    BY <1>2, <1>8, <1>10 DEF FileInv
  <1>12. QED
    BY <1>6, <1>7, <1>9, <1>11, Zenon

\* A step of one radar.
LEMMA OthersAsked ==
  ASSUME AskedInv, NEW k \in Keys, ~lagged' => ~lagged,
         \A l \in Keys \ {k} : /\ controls'[l] = controls[l] /\ asked'[l] = asked[l]
                               /\ updates'[l] = updates[l],
         ~lagged' /\ controls'[k] # Absent => WasAsked(updates'[k], controls'[k], asked'[k])
  PROVE  AskedInv'
  <1>1. SUFFICES ASSUME ~lagged', NEW l \in Keys, controls'[l] # Absent
                 PROVE  WasAsked(updates'[l], controls'[l], asked'[l])
    BY Zenon DEF AskedInv, Registered
  <1>2. CASE l = k
    BY <1>1, <1>2, Zenon
  <1>3. CASE l # k
    BY <1>1, <1>3, Zenon DEF AskedInv, Registered
  <1>4. QED
    BY <1>2, <1>3, ZenonT(40)

\* A radar is found.
LEMMA AddKeeps ==
  ASSUME SettingsInv, NEW k \in Keys, add(k)
  PROVE  SettingsInv'
  <1> DEFINE c == IF config[k] = Absent THEN Default ELSE config[k]
  <1>1. /\ up /\ ~Registered(k)
        /\ controls' = [controls EXCEPT ![k] = c]
        /\ asked' = [asked EXCEPT ![k] = controls'[k]]
        /\ updates' = [updates EXCEPT ![k] = <<>>]
        /\ fresh' = fresh \cup {k}
        /\ UNCHANGED <<up, file, config, writing, unsaved, stored, lagged>>
    BY Zenon DEF add, fileVars, Free
  <1>2. c \in Settings /\ RecordOf(c) = c
    BY DefaultTyped, RecordOfDefault, Zenon DEF SettingsInv, SettingsTypes, Configs
  <1>3. c # Absent
    BY <1>2, PersistenceAssumption, Zenon
  <1>4. stored[k] # Absent => c = RecordOf(stored[k])
    <2>1. SUFFICES ASSUME stored[k] # Absent PROVE c = RecordOf(stored[k])
      OBVIOUS
    <2>2. config[k] = RecordOf(stored[k]) /\ stored[k] \in Settings
      BY <1>1, <2>1, Zenon DEF SettingsInv, FileInv, SettingsTypes
    <2>3. config[k] # Absent
      BY <2>2, RecordTyped, PersistenceAssumption, Zenon
    <2>4. QED
      BY <2>2, <2>3, Zenon
  <1> HIDE DEF c
  <1>5. /\ controls'[k] = c /\ asked'[k] = c /\ updates'[k] = <<>>
        /\ \A l \in Keys \ {k} : /\ controls'[l] = controls[l] /\ asked'[l] = asked[l]
                                 /\ updates'[l] = updates[l]
    BY <1>1, Zenon DEF SettingsInv, SettingsTypes
  <1>6. SettingsTypes'
    <2>1. controls' \in [Keys -> Settings \cup {Absent}]
      BY <1>1, <1>2, Zenon DEF SettingsInv, SettingsTypes
    <2>2. asked' \in [Keys -> Settings]
      BY <1>1, <1>2, <1>5, Zenon DEF SettingsInv, SettingsTypes
    <2>3. <<>> \in Seq(Updates)
      OBVIOUS
    <2>4. updates' \in [Keys -> Seq(Updates)]
      BY <1>1, <2>3, Zenon DEF SettingsInv, SettingsTypes
    <2>5. QED
      BY <1>1, <2>1, <2>2, <2>4, Zenon DEF SettingsInv, SettingsTypes
  <1>7. FileInv' /\ DownInv'
    BY <1>1, Zenon DEF SettingsInv, FileInv, DownInv
  <1>8. ControlsInv'
    BY <1>1, <1>2, <1>3, <1>4, <1>5, ZenonT(40) DEF SettingsInv, ControlsInv, Registered
  <1>9. AskedInv'
    <2>1. \A id : LastWord(<<>>, id, c[id], c[id])
      BY DEF LastWord
    <2>2. QED
      BY <1>1, <1>5, <2>1, OthersAsked, Zenon DEF SettingsInv, WasAsked
  <1>10. QED
    BY <1>6, <1>7, <1>8, <1>9, Zenon DEF SettingsInv

\* A radar goes.
LEMMA RemoveKeeps ==
  ASSUME SettingsInv, NEW k \in Keys, remove(k)
  PROVE  SettingsInv'
  <1>1. /\ up /\ updates[k] = <<>>
        /\ controls' = [controls EXCEPT ![k] = Absent]
        /\ fresh' = fresh \ {k}
        /\ UNCHANGED <<up, file, config, writing, unsaved, stored, lagged, updates, asked>>
    BY Zenon DEF remove, fileVars, Free
  <1>2. controls'[k] = Absent /\ \A l \in Keys \ {k} : controls'[l] = controls[l]
    BY <1>1, Zenon DEF SettingsInv, SettingsTypes
  <1>3. SettingsTypes'
    BY <1>1, Zenon DEF SettingsInv, SettingsTypes
  <1>4. FileInv' /\ DownInv'
    BY <1>1, Zenon DEF SettingsInv, FileInv, DownInv
  <1>5. ControlsInv'
    BY <1>1, <1>2, Zenon DEF SettingsInv, ControlsInv, Registered
  <1>6. AskedInv'
    BY <1>1, <1>2, OthersAsked, Zenon DEF SettingsInv
  <1>7. QED
    BY <1>3, <1>4, <1>5, <1>6, Zenon DEF SettingsInv

\* A client's request.
LEMMA ClientRequestKeeps ==
  ASSUME SettingsInv, NEW k \in Keys, NEW id \in SettingIds, NEW v \in ValuesOf(id), NEW via,
         process_client_request(k, id, v, via)
  PROVE  SettingsInv'
  <1> DEFINE u == [id |-> id, value |-> v]
             full == Len(updates[k]) = MaxUpdates
             kept == IF full THEN Tail(updates[k]) ELSE updates[k]
             c == IF id \in ZoneIds THEN [controls[k] EXCEPT ![id] = v] ELSE controls[k]
             b == [asked[k] EXCEPT ![id] = v]
  <1>1. /\ up /\ Registered(k)
        /\ controls' = IF id \in ZoneIds THEN [controls EXCEPT ![k][id] = v] ELSE controls
        /\ updates' = [updates EXCEPT ![k] = Append(kept, u)]
        /\ lagged' = (lagged \/ full)
        /\ asked' = [asked EXCEPT ![k][id] = v]
        /\ fresh' = fresh \ {k}
        /\ UNCHANGED <<up, file, config, writing, unsaved, stored>>
    BY Zenon DEF process_client_request, fileVars, Free
  <1>2. /\ controls[k] \in Settings /\ asked[k] \in Settings /\ updates[k] \in Seq(Updates)
        /\ MaxUpdates \in Nat \ {0}
    BY <1>1, PersistenceAssumption, Zenon DEF SettingsInv, SettingsTypes, Registered
  <1>3. u \in Updates /\ u.id = id /\ u.value = v
    BY DEF Updates, ValuesOf
  <1>4. kept \in Seq(Updates) /\ Append(kept, u) \in Seq(Updates) /\ Append(kept, u) # <<>>
    <2> HIDE DEF u
    <2>1. kept \in Seq(Updates)
      BY <1>2
    <2>2. u \in Updates
      BY <1>3
    <2> HIDE DEF kept
    <2>3. ASSUME NEW s \in Seq(Updates), NEW w \in Updates
          PROVE  Append(s, w) \in Seq(Updates) /\ Append(s, w) # <<>>
      <3>1. Append(s, w) \in Seq(Updates) /\ Len(Append(s, w)) = Len(s) + 1 /\ Len(s) \in Nat
        OBVIOUS
      <3>2. QED
        BY <3>1
    <2>4. QED
      BY <2>1, <2>2, <2>3, Zenon
  <1>5. /\ c \in Settings /\ b \in Settings /\ b[id] = v
        /\ id \in ZoneIds => c[id] = v
        /\ \A other \in SettingIds \ {id} : c[other] = controls[k][other] /\ b[other] = asked[k][other]
        /\ id \notin ZoneIds => c = controls[k]
    <2>1. /\ b \in Settings /\ b[id] = v
          /\ \A other \in SettingIds \ {id} : b[other] = asked[k][other]
      <3>1. b = WithValue(asked[k], id, v)
        BY DEF WithValue
      <3> HIDE DEF b
      <3>2. QED
        BY <1>2, <3>1, SettingsChange, ZenonT(40)
    <2>2. CASE id \in ZoneIds
      <3>1. c = WithValue(controls[k], id, v)
        BY <2>2, Zenon DEF WithValue
      <3> HIDE DEF c
      <3>2. c \in Settings /\ c[id] = v /\ \A other \in SettingIds \ {id} : c[other] = controls[k][other]
        BY <1>2, <3>1, SettingsChange, ZenonT(40)
      <3>3. QED
        BY <2>1, <2>2, <3>2, Zenon
    <2>3. CASE id \notin ZoneIds
      <3>1. c = controls[k]
        BY <2>3, Zenon
      <3> HIDE DEF c, b
      <3>2. QED
        BY <1>2, <2>1, <2>3, <3>1, Zenon
    <2>4. QED
      BY <2>2, <2>3, Zenon
  <1>6. c # Absent
    BY <1>5, PersistenceAssumption, Zenon
  <1>7. /\ controls'[k] = c /\ asked'[k] = b /\ updates'[k] = Append(kept, u)
        /\ \A l \in Keys \ {k} : /\ controls'[l] = controls[l] /\ asked'[l] = asked[l]
                                 /\ updates'[l] = updates[l]
        /\ controls' = [controls EXCEPT ![k] = c] /\ asked' = [asked EXCEPT ![k] = b]
    <2>1. controls' = [controls EXCEPT ![k] = c] /\ asked' = [asked EXCEPT ![k] = b]
      BY <1>1, Zenon DEF SettingsInv, SettingsTypes
    <2> HIDE DEF c, b, u, kept
    <2>2. QED
      BY <1>1, <2>1, Zenon DEF SettingsInv, SettingsTypes
  <1> HIDE DEF c, b, u, kept
  <1>8. SettingsTypes'
    <2>1. full \in BOOLEAN
      OBVIOUS
    <2> HIDE DEF full
    <2>2. lagged' \in BOOLEAN
      BY <1>1, <2>1, Zenon DEF SettingsInv, SettingsTypes
    <2>3. controls' \in [Keys -> Settings \cup {Absent}]
      BY <1>5, <1>7, Zenon DEF SettingsInv, SettingsTypes
    <2>4. asked' \in [Keys -> Settings]
      BY <1>5, <1>7, Zenon DEF SettingsInv, SettingsTypes
    <2>5. updates' \in [Keys -> Seq(Updates)]
      BY <1>1, <1>4, Zenon DEF SettingsInv, SettingsTypes
    <2>6. QED
      BY <1>1, <2>2, <2>3, <2>4, <2>5, Zenon DEF SettingsInv, SettingsTypes
  <1>9. FileInv' /\ DownInv'
    BY <1>1, Zenon DEF SettingsInv, FileInv, DownInv
  <1>10. ControlsInv'
    BY <1>1, <1>4, <1>6, <1>7, ZenonT(40) DEF SettingsInv, ControlsInv, Registered
  <1>11. AskedInv'
    <2>1. ~lagged' => ~lagged /\ ~full
      BY <1>1, Zenon
    <2>2. ASSUME ~lagged /\ ~full PROVE WasAsked(Append(kept, u), c, b)
      <3>1. /\ \A z \in ZoneIds : controls[k][z] = asked[k][z]
            /\ \A z \in ListIds : LastWord(updates[k], z, controls[k][z], asked[k][z])
        BY <1>1, <2>2, Zenon DEF SettingsInv, AskedInv, WasAsked
      <3>2. kept = updates[k]
        BY <2>2, Zenon DEF kept
      <3>3. ZoneIds \subseteq SettingIds /\ ListIds \subseteq SettingIds
        BY DEF SettingIds
      <3>4. \A z \in ZoneIds : c[z] = b[z]
        BY <1>5, <3>1, <3>3, Zenon
      <3>5. ASSUME NEW z \in ListIds PROVE LastWord(Append(kept, u), z, c[z], b[z])
        <4>1. z \notin ZoneIds /\ c[z] = controls[k][z]
          BY <1>5, <3>3, <3>5, PersistenceAssumption, Zenon
        <4>2. CASE z = id
          BY <1>2, <1>3, <1>5, <3>2, <4>2, LastWordAppended, Zenon
        <4>3. CASE z # id
          BY <1>2, <1>3, <1>5, <3>1, <3>2, <3>3, <4>1, <4>3, LastWordAppended, Zenon
        <4>4. QED
          BY <4>2, <4>3, ZenonT(40)
      <3>6. QED
        BY <3>4, <3>5, Zenon DEF WasAsked
    <2>3. QED
      BY <1>7, <2>1, <2>2, OthersAsked, ZenonT(40) DEF SettingsInv
  <1>12. QED
    BY <1>8, <1>9, <1>10, <1>11, Zenon DEF SettingsInv

\* A web task saves.
LEMMA SaveKeeps ==
  ASSUME SettingsInv, NEW k \in Keys, save_persistence(k)
  PROVE  SettingsInv'
  <1>1. Free /\ UNCHANGED <<up, controls, updates, lagged, asked, fresh>>
    BY Zenon DEF save_persistence
  <1>2. CASE ~Registered(k)
    <2>1. UNCHANGED <<file, config, writing, unsaved, stored>>
      BY <1>2, Zenon DEF save_persistence, fileVars
    <2>2. QED
      BY <1>1, <2>1, Zenon DEF SettingsInv, SettingsTypes, FileInv, ControlsInv, AskedInv,
                               DownInv, Registered
  <1>3. CASE Registered(k)
    <2>1. store(k, controls[k]) /\ controls[k] \in Settings
      BY <1>3, Zenon DEF save_persistence, SettingsInv, SettingsTypes, Registered
    <2>2. /\ config' \in Configs /\ file' \in Configs \cup {Torn}
          /\ stored' \in [Keys -> Settings \cup {Absent}]
          /\ writing' \in BOOLEAN /\ unsaved' \in BOOLEAN
          /\ stored'[k] = controls[k] /\ \A l \in Keys \ {k} : stored'[l] = stored[l]
          /\ FileInv'
      BY <1>1, <2>1, StoredKeeps, Zenon DEF SettingsInv
    <2>3. SettingsTypes'
      BY <1>1, <2>2, Zenon DEF SettingsInv, SettingsTypes
    <2>4. ControlsInv'
      BY <1>1, <2>2, Zenon DEF SettingsInv, ControlsInv, Registered
    <2>5. AskedInv' /\ DownInv'
      BY <1>1, Zenon DEF SettingsInv, AskedInv, DownInv, Free, Registered
    <2>6. QED
      BY <2>2, <2>3, <2>4, <2>5, Zenon DEF SettingsInv
  <1>4. QED
    BY <1>2, <1>3

\* The radar's task takes an update.
LEMMA UpdateKeeps ==
  ASSUME SettingsInv, NEW k \in Keys, process_control_update(k)
  PROVE  SettingsInv'
  <1> DEFINE u == Head(updates[k])
             c == IF u.id \in ListIds THEN [controls[k] EXCEPT ![u.id] = u.value] ELSE controls[k]
  <1>1. /\ Free /\ updates[k] # <<>>
        /\ updates' = [updates EXCEPT ![k] = Tail(updates[k])]
        /\ controls' = [controls EXCEPT ![k] = c] /\ store(k, c)
        /\ UNCHANGED <<up, lagged, asked, fresh>>
    BY Zenon DEF process_control_update
  <1>2. Registered(k) /\ k \notin fresh
    BY <1>1, Zenon DEF SettingsInv, ControlsInv
  <1>3. controls[k] \in Settings /\ updates[k] \in Seq(Updates)
    BY <1>2, Zenon DEF SettingsInv, SettingsTypes, Registered
  <1>4. u \in Updates /\ Tail(updates[k]) \in Seq(Updates)
    BY <1>1, <1>3
  <1>5. u.id \in SettingIds /\ u.value \in ValuesOf(u.id)
    BY <1>4, Zenon DEF Updates
  <1>6. /\ c \in Settings
        /\ u.id \in ListIds => c[u.id] = u.value
        /\ \A id \in SettingIds : id # u.id \/ u.id \notin ListIds => c[id] = controls[k][id]
    <2> HIDE DEF u
    <2>1. CASE u.id \in ListIds
      <3>1. c = WithValue(controls[k], u.id, u.value)
        BY <2>1, Zenon DEF WithValue
      <3> HIDE DEF c
      <3>2. /\ c \in Settings /\ c[u.id] = u.value
            /\ \A id \in SettingIds \ {u.id} : c[id] = controls[k][id]
        BY <1>3, <1>5, <3>1, SettingsChange, ZenonT(40)
      <3>3. QED
        BY <2>1, <3>2, Zenon
    <2>2. CASE u.id \notin ListIds
      <3>1. c = controls[k]
        BY <2>2, Zenon
      <3> HIDE DEF c
      <3>2. QED
        BY <1>3, <2>2, <3>1, Zenon
    <2>3. QED
      BY <2>1, <2>2, ZenonT(40)
  <1>7. c # Absent
    BY <1>6, PersistenceAssumption, Zenon
  <1> HIDE DEF u, c
  <1>8. /\ config' \in Configs /\ file' \in Configs \cup {Torn}
        /\ stored' \in [Keys -> Settings \cup {Absent}]
        /\ writing' \in BOOLEAN /\ unsaved' \in BOOLEAN
        /\ stored'[k] = c /\ \A l \in Keys \ {k} : stored'[l] = stored[l]
        /\ FileInv'
    BY <1>1, <1>6, StoredKeeps, Zenon DEF SettingsInv
  <1>9. /\ controls'[k] = c /\ updates'[k] = Tail(updates[k])
        /\ \A l \in Keys \ {k} : controls'[l] = controls[l] /\ updates'[l] = updates[l]
    BY <1>1, Zenon DEF SettingsInv, SettingsTypes
  <1>10. SettingsTypes'
    <2>1. controls' \in [Keys -> Settings \cup {Absent}] /\ updates' \in [Keys -> Seq(Updates)]
      BY <1>1, <1>4, <1>6, Zenon DEF SettingsInv, SettingsTypes
    <2>2. QED
      BY <1>1, <1>8, <2>1, Zenon DEF SettingsInv, SettingsTypes
  <1>11. ControlsInv'
    <2>1. \A l \in fresh : l \in Keys \ {k}
      BY <1>2, Zenon DEF SettingsInv, ControlsInv
    <2>2. QED
      BY <1>1, <1>2, <1>7, <1>8, <1>9, <2>1, ZenonT(40) DEF SettingsInv, ControlsInv, Registered
  <1>12. AskedInv'
    <2>1. ASSUME ~lagged PROVE WasAsked(Tail(updates[k]), c, asked[k])
      <3>1. /\ \A z \in ZoneIds : controls[k][z] = asked[k][z]
            /\ \A z \in ListIds : LastWord(updates[k], z, controls[k][z], asked[k][z])
        BY <1>2, <2>1, Zenon DEF SettingsInv, AskedInv, WasAsked
      <3>2. ZoneIds \subseteq SettingIds /\ ListIds \subseteq SettingIds
        BY DEF SettingIds
      <3>3. \A z \in ZoneIds : c[z] = asked[k][z]
        BY <1>6, <3>1, <3>2, PersistenceAssumption, Zenon
      <3>4. ASSUME NEW z \in ListIds PROVE LastWord(Tail(updates[k]), z, c[z], asked[k][z])
        <4>1. CASE z = u.id
          BY <1>1, <1>3, <1>6, <3>1, <4>1, LastWordTaken, Zenon DEF u
        <4>2. CASE z # u.id
          BY <1>1, <1>3, <1>6, <3>1, <3>2, <4>2, LastWordTaken, Zenon DEF u
        <4>3. QED
          BY <4>1, <4>2
      <3>5. QED
        BY <3>3, <3>4, Zenon DEF WasAsked
    <2>2. QED
      BY <1>1, <1>9, <2>1, OthersAsked, Zenon DEF SettingsInv
  <1>13. DownInv'
    BY <1>1, Zenon DEF DownInv, Free
  <1>14. QED
    BY <1>8, <1>10, <1>11, <1>12, <1>13, Zenon DEF SettingsInv

\* The file is written.
LEMMA SaverKeeps ==
  ASSUME SettingsInv, saver
  PROVE  SettingsInv'
  <1>1. /\ up /\ up' = up /\ writing' = FALSE
        /\ UNCHANGED <<config, controls, updates, lagged, asked, stored, fresh>>
        /\ \/ file' = config /\ unsaved' = FALSE
           \/ unsaved' = TRUE /\ UNCHANGED file
    BY Zenon DEF saver
  <1>2. SettingsTypes'
    <2>1. file' \in Configs \cup {Torn} /\ writing' \in BOOLEAN /\ unsaved' \in BOOLEAN
      BY <1>1, Zenon DEF SettingsInv, SettingsTypes
    <2>2. QED
      BY <1>1, <2>1, Zenon DEF SettingsInv, SettingsTypes
  <1>3. FileInv'
    <2>1. ~unsaved' => file' = config'
      BY <1>1, Zenon
    <2>2. QED
      BY <1>1, <2>1, Zenon DEF SettingsInv, FileInv
  <1>4. ControlsInv' /\ AskedInv' /\ DownInv'
    BY <1>1, Zenon DEF SettingsInv, ControlsInv, AskedInv, DownInv, Registered
  <1>5. QED
    BY <1>2, <1>3, <1>4, Zenon DEF SettingsInv

\* A configuration without radars.
LEMMA NowhereTyped == Nowhere \in Configs /\ Nowhere \in [Keys -> Settings \cup {Absent}]
  BY Zenon DEF Nowhere, Configs

\* The process dies.
LEMMA CrashKeeps ==
  ASSUME SettingsInv, Crash
  PROVE  SettingsInv'
  <1>1. /\ up /\ up' = FALSE /\ config' = Nowhere /\ controls' = Nowhere
        /\ updates' = [k \in Keys |-> <<>>]
        /\ writing' = FALSE /\ unsaved' = FALSE /\ lagged' = FALSE /\ fresh' = {}
        /\ stored' = IF writing \/ unsaved THEN Nowhere ELSE stored
        /\ UNCHANGED <<file, asked>>
    BY Zenon DEF Crash
  <1>2. \A k \in Keys : controls'[k] = Absent /\ updates'[k] = <<>>
    BY <1>1, Zenon DEF Nowhere
  <1>3. SettingsTypes'
    <2>1. updates' \in [Keys -> Seq(Updates)]
      BY <1>1
    <2>2. stored' \in [Keys -> Settings \cup {Absent}]
      BY <1>1, NowhereTyped, Zenon DEF SettingsInv, SettingsTypes
    <2>3. QED
      BY <1>1, <2>1, <2>2, NowhereTyped, Zenon DEF SettingsInv, SettingsTypes
  <1>4. FileInv'
    <2>1. SUFFICES ASSUME NEW k \in Keys, stored'[k] # Absent
                   PROVE  file # Torn /\ file[k] = RecordOf(stored'[k])
      BY <1>1, Zenon DEF FileInv
    <2>2. stored' = stored /\ ~writing /\ ~unsaved
      BY <1>1, <2>1, Zenon DEF Nowhere
    <2>3. stored # Nowhere
      BY <2>1, <2>2, Zenon DEF Nowhere
    <2>4. file = config
      BY <1>1, <2>2, <2>3, Zenon DEF SettingsInv, FileInv
    <2>5. config[k] = RecordOf(stored[k])
      BY <1>1, <2>1, <2>2, Zenon DEF SettingsInv, FileInv
    <2>6. config # Torn
      BY PersistenceAssumption, Zenon DEF SettingsInv, SettingsTypes, Configs
    <2>7. QED
      BY <2>2, <2>4, <2>5, <2>6, Zenon
  <1>5. ControlsInv' /\ AskedInv' /\ DownInv'
    BY <1>1, <1>2, Zenon DEF ControlsInv, AskedInv, DownInv, Registered
  <1>6. QED
    BY <1>3, <1>4, <1>5, Zenon DEF SettingsInv

\* The process starts again.
LEMMA LoadedKeeps ==
  ASSUME SettingsInv, load
  PROVE  SettingsInv'
  <1>1. /\ ~up /\ up' = TRUE /\ config' = IF file = Torn THEN Nowhere ELSE file
        /\ UNCHANGED <<file, controls, updates, writing, unsaved, lagged, asked, stored, fresh>>
    BY Zenon DEF load
  <1>2. /\ fresh = {} /\ \A k \in Keys : controls[k] = Absent /\ updates[k] = <<>>
        /\ \A k \in Keys : stored[k] # Absent => file # Torn /\ file[k] = RecordOf(stored[k])
    BY <1>1, Zenon DEF SettingsInv, DownInv, FileInv
  <1>3. config' \in Configs
    BY <1>1, NowhereTyped, Zenon DEF SettingsInv, SettingsTypes
  <1>4. SettingsTypes'
    BY <1>1, <1>3, Zenon DEF SettingsInv, SettingsTypes
  <1>5. FileInv'
    <2>1. CASE file # Torn
      BY <1>1, <1>2, <2>1, Zenon DEF FileInv
    <2>2. CASE file = Torn
      <3>1. stored = Nowhere /\ \A k \in Keys : stored[k] = Absent
        BY <1>2, <2>2, Zenon DEF SettingsInv, SettingsTypes, Nowhere
      <3>2. config' = Nowhere
        BY <1>1, <2>2, Zenon
      <3>3. QED
        BY <1>1, <2>2, <3>1, <3>2, Zenon DEF FileInv
    <2>3. QED
      BY <2>1, <2>2
  <1>6. ControlsInv' /\ AskedInv' /\ DownInv'
    BY <1>1, <1>2, Zenon DEF ControlsInv, AskedInv, DownInv, Registered
  <1>7. QED
    BY <1>4, <1>5, <1>6, Zenon DEF SettingsInv

\* The steps of the tasks that keep the settings.
LEMMA SettingsKeep ==
  ASSUME SettingsInv, PersistenceNext
  PROVE  SettingsInv'
  <1>1. CASE \E k \in Keys, id \in SettingIds : \E v \in ValuesOf(id), via \in {"rest", "websocket"} :
               process_client_request(k, id, v, via)
    BY <1>1, ClientRequestKeeps, Zenon
  <1>2. QED
    BY <1>1, AddKeeps, RemoveKeeps, SaveKeeps, UpdateKeeps, SaverKeeps, CrashKeeps, LoadedKeeps,
       Zenon DEF PersistenceNext

\* Nothing is stored and no radar known.
LEMMA SettingsStart ==
  ASSUME PersistenceInit
  PROVE  SettingsInv
  <1>1. \A k \in Keys : controls[k] = Absent /\ updates[k] = <<>> /\ stored[k] = Absent
    BY Zenon DEF PersistenceInit, Nowhere
  <1>2. SettingsTypes
    <2>1. updates \in [Keys -> Seq(Updates)]
      BY DEF PersistenceInit
    <2>2. asked \in [Keys -> Settings]
      BY DefaultTyped, Zenon DEF PersistenceInit
    <2>3. QED
      BY <2>1, <2>2, NowhereTyped, Zenon DEF PersistenceInit, SettingsTypes
  <1>3. FileInv
    BY <1>1, Zenon DEF PersistenceInit, FileInv
  <1>4. ControlsInv /\ AskedInv /\ DownInv
    BY <1>1, Zenon DEF PersistenceInit, ControlsInv, AskedInv, DownInv, Registered
  <1>5. QED
    BY <1>2, <1>3, <1>4, Zenon DEF SettingsInv

-------------------------------------------------------------------------------
\* The session.

IInv == RecorderInv /\ LocatorInv /\ NavInv /\ SettingsInv

\* The process starts, with a library that is empty.
LEMMA InitIInv == Init => IInv /\ Lib!Init
  <1> SUFFICES ASSUME Init PROVE IInv /\ Lib!Init
    OBVIOUS
  <1>1. RecorderInv /\ Lib!Init
    BY RecorderStarts, Zenon DEF Init
  <1>2. LocatorInv
    <2>1. unread \in [Listeners -> 0 .. 2] /\ unannounced \in Nat
      BY DEF Init, WatchInit
    <2>2. QED
      BY <2>1, Zenon DEF Init, LocatorInit, LocatorInv
  <1>3. NavInv
    <2>1. fixes = <<>> /\ writer = Idle /\ lat = 0 /\ lon = 0 /\ valid = FALSE /\ reader = NotReading
      BY Zenon DEF Init, NavInit
    <2>2. WriterInv
      BY <2>1 DEF WriterInv, Idle
    <2>3. ReaderInv
      BY <2>1 DEF ReaderInv, NotReading
    <2>4. OwnShipInv
      BY <2>1 DEF Init, NavInit, OwnShipInv
    <2>5. QED
      BY <2>2, <2>3, <2>4, Zenon DEF NavInv
  <1>4. SettingsInv
    BY SettingsStart, Zenon DEF Init
  <1>5. QED
    BY <1>1, <1>2, <1>3, <1>4, Zenon DEF IInv

\* A task that rests keeps what it had.
LEMMA RecorderRests ==
  ASSUME RecorderInv, UNCHANGED recorderVars
  PROVE  RecorderInv' /\ UNCHANGED Lib!vars
  <1>1. UNCHANGED <<dir, content, active, task, upload>>
    BY Zenon DEF recorderVars
  <1>2. UNCHANGED <<Open, Stopping, Offered, Volume>>
    BY <1>1, Zenon DEF Open, Stopping, Offered, Volume
  <1>3. RecorderInv'
    BY <1>1, <1>2, Zenon DEF RecorderInv, RecorderTypes
  <1>4. QED
    BY <1>1, <1>2, <1>3, Zenon DEF Lib!vars

\* The locator while others work.
LEMMA LocatorRests ==
  ASSUME LocatorInv, UNCHANGED <<focus, watchVars, locatorVars>>
  PROVE  LocatorInv'
  BY Zenon DEF LocatorInv, watchVars, locatorVars, Searching

\* Navigation data while others work.
LEMMA NavRests ==
  ASSUME NavInv, UNCHANGED navVars
  PROVE  NavInv'
  BY ConnectionKeeps, Zenon DEF navVars, connVars

\* Settings while others work.
LEMMA SettingsRest ==
  ASSUME SettingsInv, UNCHANGED persistenceVars
  PROVE  SettingsInv'
  <1>1. UNCHANGED <<up, file, config, writing, unsaved, stored, controls, updates, lagged,
                    asked, fresh>>
    BY Zenon DEF persistenceVars, fileVars
  <1>2. QED
    BY <1>1, Zenon DEF SettingsInv, SettingsTypes, FileInv, ControlsInv, AskedInv, DownInv,
                       Registered

\* Every step keeps the invariant and is a step of the library.
LEMMA NextKeeps ==
  ASSUME IInv, [Next]_vars
  PROVE  IInv' /\ [Lib!Next]_(Lib!vars)
  <1> USE DEF IInv
  <1>1. CASE UNCHANGED vars
    BY <1>1, RecorderRests, LocatorRests, NavRests, SettingsRest, Zenon DEF vars
  <1>2. CASE Watch /\ UNCHANGED <<focus, locatorVars, navVars, persistenceVars, recorderVars>>
    BY <1>2, RecorderRests, WatchKeeps, NavRests, SettingsRest, Zenon
  <1>3. CASE /\ focus = "locator" /\ LocatorNext
             /\ UNCHANGED <<focus, navVars, persistenceVars, recorderVars>>
    BY <1>3, RecorderRests, LocatorKeeps, NavRests, SettingsRest, Zenon
  <1>4. CASE /\ focus = "navdata" /\ NavNext
             /\ UNCHANGED <<focus, locatorVars, persistenceVars, recorderVars>>
    BY <1>4, RecorderRests, NavLeavesLocator, NavKeeps, SettingsRest, Zenon
  <1>5. CASE /\ focus = "settings" /\ PersistenceNext
             /\ UNCHANGED <<focus, watchVars, locatorVars, navVars, recorderVars>>
    BY <1>5, RecorderRests, LocatorRests, NavRests, SettingsKeep, Zenon
  <1>6. CASE /\ focus = "recordings" /\ RecorderNext
             /\ UNCHANGED <<focus, watchVars, locatorVars, navVars, persistenceVars>>
    BY <1>6, RecorderImplements, LocatorRests, NavRests, SettingsRest, Zenon
  <1>7. QED
    BY <1>1, <1>2, <1>3, <1>4, <1>5, <1>6, Zenon DEF Next

\* The inductive invariant of the four tasks.
THEOREM SessionInvariant == Spec => []IInv
  <1>1. Init => IInv
    BY InitIInv, Zenon
  <1>2. IInv /\ [Next]_vars => IInv'
    BY NextKeeps, Zenon
  <1>3. QED
    BY <1>1, <1>2, PTL DEF Spec

\* While it searches, the locator has a socket, working or failed, on each address of the
\* machine once it has read every change, whatever changed while it enumerated, subscribed
\* or listened, apart from a change announced between the two (Locator::run).
THEOREM ListeningEverywhere == Spec => []ListensEverywhere
  <1>1. IInv => ListensEverywhere
    BY DEF IInv, LocatorInv, ListensEverywhere
  <1>2. QED
    BY <1>1, SessionInvariant, PTL

\* Readings of the position are not older than they may be and not of another vessel, for
\* every interleaving of the stores of set_position with the loads of get_position and any
\* number of connections.
THEOREM PositionsAreOurs == Spec => []PositionIsOurs
  <1>1. IInv => PositionIsOurs
    <2> SUFFICES ASSUME IInv PROVE PositionIsOurs
      OBVIOUS
    <2>1. reader.stage = "done" => /\ Fresh(reader.lat) /\ Fresh(reader.lon)
                                   /\ reader.from \in Nat /\ reader.from >= 1
      BY DEF IInv, NavInv, ReaderInv
    <2>2. reader.stage = "done" =>
            /\ reader.lat >= reader.from /\ reader.lon >= reader.from
            /\ reader.lat >= 1 /\ reader.lon >= 1
            /\ reader.alone => reader.lat = reader.from /\ reader.lon = reader.from
      BY <2>1 DEF Fresh
    <2>3. QED
      BY <2>2, Zenon DEF PositionIsOurs, IInv, NavInv, OwnShipInv
  <1>2. QED
    BY <1>1, SessionInvariant, PTL

\* A radar that is registered again has the settings stored last, wherever the process died
\* and whatever writes failed before (Persistence::store, saver and load).
THEOREM SettingsKept == Spec => []SettingsSurvive
  <1>1. IInv => SettingsSurvive
    BY Zenon DEF IInv, SettingsInv, ControlsInv, SettingsSurvive
  <1>2. QED
    BY <1>1, SessionInvariant, PTL

\* When nothing is under way the radar has, and the file holds, what was asked for last, in
\* whatever order web tasks and the radar's task stored (save_persistence and
\* process_control_update).
THEOREM RequestsKept == Spec => []RequestsAreKept
  <1>1. IInv => RequestsAreKept
    <2> SUFFICES ASSUME IInv, NEW k \in Keys, Free, ~unsaved, ~lagged,
                        Registered(k), k \notin fresh, updates[k] = <<>>
                 PROVE  /\ \A id \in SettingIds \ DopplerIds : controls[k][id] = asked[k][id]
                        /\ file[k] = RecordOf(controls[k])
      BY Zenon DEF RequestsAreKept
    <2>1. \A id \in ZoneIds : controls[k][id] = asked[k][id]
      BY Zenon DEF IInv, SettingsInv, AskedInv, WasAsked
    <2>2. \A id \in ListIds : controls[k][id] = asked[k][id]
      <3>1. \A id \in ListIds : LastWord(<<>>, id, controls[k][id], asked[k][id])
        BY Zenon DEF IInv, SettingsInv, AskedInv, WasAsked
      <3>a. 1 .. Len(<<>>) = {}
        OBVIOUS
      <3>2. ASSUME NEW c, NEW a, NEW id, LastWord(<<>>, id, c, a) PROVE c = a
        BY <3>2, <3>a, Zenon DEF LastWord
      <3>3. QED
        BY <3>1, <3>2, Zenon
    <2>3. stored[k] = controls[k] /\ controls[k] # Absent /\ controls[k] \in Settings
      BY Zenon DEF IInv, SettingsInv, SettingsTypes, ControlsInv, Registered
    <2>4. config[k] = RecordOf(controls[k])
      BY <2>3, Zenon DEF IInv, SettingsInv, FileInv, Free
    <2>5. config # Nowhere
      BY <2>3, <2>4, RecordTyped, PersistenceAssumption, Zenon DEF Nowhere
    <2>6. file = config
      BY <2>5, Zenon DEF IInv, SettingsInv, FileInv, Free
    <2>7. QED
      BY <2>1, <2>2, <2>4, <2>6, Zenon DEF SettingIds
  <1>2. QED
    BY <1>1, SessionInvariant, PTL

\* The recorder's handlers and tasks take the steps of a library and no others, for any
\* number of names, files and uploads: the safety half of ImplementsLibrary.
THEOREM RecorderIsLibrary == Spec => Lib!Safety
  <1>1. Init => Lib!Init
    BY InitIInv, Zenon
  <1>2. IInv /\ [Next]_vars => [Lib!Next]_(Lib!vars)
    BY NextKeeps, Zenon
  <1>3. QED
    BY <1>1, <1>2, SessionInvariant, PTL DEF Spec, Lib!Safety
===============================================================================
