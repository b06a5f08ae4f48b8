----------------------------- MODULE MCPlayback -----------------------------
(***************************************************************************)
(* Instances of Playback: a dense recording and one with a pause in it.    *)
(***************************************************************************)
EXTENDS Playback, SequencesExt

CONSTANTS dense, sparse

Take(timestamps) == FoldLeft(write_frame, EmptyFile, timestamps)

DenseAndSparse == dense :> Take(<<0, 1, 1, 2>>) @@ sparse :> Take(<<0, 3, 3>>)
=============================================================================
