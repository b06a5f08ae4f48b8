------------------------------ MODULE MrrFile ------------------------------
(***************************************************************************)
(* The .mrr recording file: what MrrWriter appends, what its finish leaves *)
(* behind and where MrrReader's seek lands.  A frame is its timestamp; a   *)
(* file offset is the number of the frame that starts there, so that the   *)
(* first frame is at 1 and the index at Len(frames) + 1.                   *)
(***************************************************************************)
EXTENDS Naturals, Sequences, FiniteSets

CONSTANTS
    IndexInterval   \* index_interval, 100 in the code

ASSUME IntervalAssumption == IndexInterval \in Nat \ {0}

\* MrrWriter::new: the header is on disk, the footer is not.
EmptyFile ==
    [frames |-> <<>>, index |-> <<>>, frames_since_index |-> 0, finished |-> FALSE]

\* An index entry precedes every IndexInterval-th frame but the first.
write_frame(w, ts) ==
    [w EXCEPT !.frames = Append(@, ts),
              !.index = IF w.frames_since_index >= IndexInterval
                        THEN Append(@, [timestamp_ms |-> ts,
                                        file_offset |-> Len(w.frames) + 1])
                        ELSE @,
              !.frames_since_index = IF @ >= IndexInterval THEN 1 ELSE @ + 1]

\* The index, the footer and the header again.
finish(w) == [w EXCEPT !.finished = TRUE]

\* MrrReader::open: MrrFooter::read fails on a file without a footer.
CanOpen(f) == f.finished

FirstFrame == 1
EndOfFrames(f) == Len(f.frames) + 1

\* What a recorder leaves, whose clock never runs backwards: frames in the order
\* of their times, and an index whose entries name the frames they stand for.
Written(f) ==
    /\ f \in [frames : Seq(Nat), index : Seq([timestamp_ms : Nat, file_offset : Nat]),
              frames_since_index : Nat, finished : BOOLEAN]
    /\ \A p, q \in DOMAIN f.frames : p <= q => f.frames[p] <= f.frames[q]
    /\ \A i \in DOMAIN f.index :
          /\ f.index[i].file_offset \in DOMAIN f.frames
          /\ f.index[i].timestamp_ms = f.frames[f.index[i].file_offset]

\* The first entry later than the target ends the scan of the index.
EntriesUpTo(f, target) ==
    {i \in DOMAIN f.index : \A j \in 1 .. i : f.index[j].timestamp_ms <= target}

IndexedStart(f, target) ==
    LET hits == EntriesUpTo(f, target)
    IN  IF hits = {} THEN FirstFrame ELSE f.index[Cardinality(hits)].file_offset

\* Mutant: frames of exactly the target are passed over.
SeekStrictlyAfter(f, target) ==
    LET ahead == {p \in IndexedStart(f, target) .. Len(f.frames) :
                     f.frames[p] > target}
    IN  IF ahead = {} THEN EndOfFrames(f)
        ELSE CHOOSE p \in ahead : \A q \in ahead : p <= q

\* From the best index entry on, the first frame not before the target.
seek_to_timestamp(f, target) ==
    LET ahead == {p \in IndexedStart(f, target) .. Len(f.frames) :
                     f.frames[p] >= target}
    IN  IF ahead = {} THEN EndOfFrames(f)
        ELSE CHOOSE p \in ahead : \A q \in ahead : p <= q

\* A seek by the index loses nothing: what it skips is not later than the target,
\* what it lands on is not earlier, it runs to the end only when no frame is at or
\* after the target, and it finds a frame of exactly the target if there is one.
SeekIsExactAt(f, target) ==
    LET p == seek_to_timestamp(f, target)
    IN  /\ p \in 1 .. EndOfFrames(f)
        /\ \A q \in 1 .. p - 1 : f.frames[q] <= target
        /\ p \in DOMAIN f.frames => f.frames[p] >= target
        /\ p = EndOfFrames(f) => \A q \in DOMAIN f.frames : f.frames[q] < target
        /\ (\E q \in DOMAIN f.frames : f.frames[q] = target)
             => p \in DOMAIN f.frames /\ f.frames[p] = target
=============================================================================
