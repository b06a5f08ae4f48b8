---------------------------- MODULE RecordedFile ----------------------------
(***************************************************************************)
(* A recording as a recorder writes it, frame by frame, and what a seek by *)
(* its index is to find.                                                   *)
(***************************************************************************)
EXTENDS MrrFile

CONSTANTS
    MaxFrames,      \* bound: frames in a file
    MaxTime         \* bound: timestamps

ASSUME BoundsAssumption == MaxFrames \in Nat /\ MaxTime \in Nat

Times == 0 .. MaxTime

VARIABLE file       \* a recording

RecordedFileInit == file = EmptyFile

\* A recorder's clock, start.elapsed(), never runs backwards, but two messages
\* may share a millisecond.
Record ==
    /\ ~file.finished
    /\ Len(file.frames) < MaxFrames
    /\ \E ts \in Times :
          /\ file.frames # <<>> => ts >= file.frames[Len(file.frames)]
          /\ file' = write_frame(file, ts)

Finish ==
    /\ ~file.finished
    /\ file' = finish(file)

RecordedFileNext == Record \/ Finish

RecordedFileSpec == RecordedFileInit /\ [][RecordedFileNext]_file

\* A file is at all times as Written says, its index entries name the frames
\* they were made for (write_frame), and once it is finished every seek by the
\* index is exact (seek_to_timestamp).  That a seek to the time of a frame finds
\* one of that very time is what the player relies on when it resumes at
\* position_ms.
SeekIsExact ==
    /\ Written(file)
    /\ CanOpen(file) => \A target \in Times : SeekIsExactAt(file, target)
=============================================================================
