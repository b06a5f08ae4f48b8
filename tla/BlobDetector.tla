---------------------------- MODULE BlobDetector ----------------------------
(***************************************************************************)
(* Grouping the strong pixels of successive spokes into blobs.             *)
(*                                                                         *)
(* process_spoke is one call of the radar's own task: nothing comes        *)
(* between Begin, the AddPixels of the spoke in increasing pixel order and *)
(* Complete.  Spokes may be missing, repeated or out of order, as the      *)
(* datagrams that carry them may be.  Whether the size of a blob is that   *)
(* of a ship is left open; an intensity is strong, doppler or neither.     *)
(***************************************************************************)
EXTENDS Circle, FiniteSets

CONSTANTS
    SpokeLen,       \* pixels of a spoke
    MinPixels,      \* MIN_TARGET_PIXELS
    MaxBlobs,       \* bound: blobs ever begun
    MaxCount        \* bound: pixels added to one blob

ASSUME DetectorAssumption ==
    /\ SpokeLen \in Nat
    /\ MinPixels \in Nat
    /\ MaxBlobs \in Nat
    /\ MaxCount \in Nat

Pixels == 0 .. SpokeLen - 1
Cells == Spokes \X Pixels
NoBlob == -1

VARIABLES
    active_blobs,   \* [ids -> blob]
    pixel_index,    \* [Cells -> id or NoBlob]
    next_blob_id,
    spoke,          \* angle of the spoke being processed
    todo,           \* its strong pixels that are still to be added
    idle,           \* between two calls of process_spoke
    completed       \* what the last call returned

vars == <<active_blobs, pixel_index, next_blob_id, spoke, todo, idle, completed>>

Ids == DOMAIN active_blobs

Prev(s) == IF s = 0 THEN SpokesPerRevolution - 1 ELSE s - 1
NextSpoke(s) == IF s + 1 = SpokesPerRevolution THEN 0 ELSE s + 1

Init ==
    /\ active_blobs = [i \in {} |-> {}]
    /\ pixel_index = [c \in Cells |-> NoBlob]
    /\ next_blob_id = 0
    /\ spoke = 0
    /\ todo = {}
    /\ idle = TRUE
    /\ completed = {}

-----------------------------------------------------------------------------
\* Mutant: the pixel's own spoke and the one before.
NeighboursBehind(c) ==
    {d \in Cells : /\ d[1] \in {Prev(c[1]), c[1]}
                   /\ d[2] \in {c[2] - 1, c[2], c[2] + 1}}

\* The cell and its eight neighbours, around the circle of spokes.
Neighbours(c) ==
    {d \in Cells : /\ d[1] \in {Prev(c[1]), c[1], NextSpoke(c[1])}
                   /\ d[2] \in {c[2] - 1, c[2], c[2] + 1}}

\* The four neighbours of a cell; some may lie outside of the picture.
Edges(c) == {<<c[1], c[2] - 1>>, <<c[1], c[2] + 1>>,
             <<Prev(c[1]), c[2]>>, <<NextSpoke(c[1]), c[2]>>}

\* Mutant: any blob of the neighbouring spokes.
AdjacentSpokes(c) ==
    {pixel_index[d] : d \in {d \in Cells : d[1] \in {Prev(c[1]), c[1]}}} \ {NoBlob}

adjacent_blob_ids(c) ==
    {pixel_index[d] : d \in Neighbours(c)} \ {NoBlob}

Begin(angle, strong) ==
    /\ idle
    /\ idle' = FALSE
    /\ spoke' = angle
    /\ todo' = strong
    /\ completed' = {}
    /\ UNCHANGED <<active_blobs, pixel_index, next_blob_id>>

NextPixel(p) == p \in todo /\ \A q \in todo : p <= q

\* No neighbour: a blob of its own.
NewBlob(p, doppler) ==
    LET c == <<spoke, p>> IN
    /\ ~idle
    /\ NextPixel(p)
    /\ adjacent_blob_ids(c) = {}
    /\ next_blob_id < MaxBlobs
    /\ active_blobs' = [i \in Ids \cup {next_blob_id} |->
          IF i = next_blob_id
          THEN [pixels |-> {c}, count |-> 1, last |-> spoke, doppler |-> doppler]
          ELSE active_blobs[i]]
    /\ pixel_index' = [pixel_index EXCEPT ![c] = next_blob_id]
    /\ next_blob_id' = next_blob_id + 1
    /\ todo' = todo \ {p}
    /\ UNCHANGED <<spoke, idle, completed>>

IndexOfSurvivor(survivor, other) ==
    [d \in Cells |-> IF d \in active_blobs[other].pixels
                     THEN survivor ELSE pixel_index[d]]

absorb(survivor, other) ==
    [pixels |-> active_blobs[survivor].pixels \cup active_blobs[other].pixels,
     count |-> active_blobs[survivor].count + active_blobs[other].count,
     last |-> spoke,
     doppler |-> active_blobs[survivor].doppler \/ active_blobs[other].doppler]

\* Several neighbours: the one of the lowest id absorbs the others, one by one.
Merge(p, survivor, other) ==
    LET adj == adjacent_blob_ids(<<spoke, p>>) IN
    /\ ~idle
    /\ NextPixel(p)
    /\ survivor \in adj
    /\ \A i \in adj : survivor <= i
    /\ other \in adj \ {survivor}
    /\ active_blobs' = [i \in Ids \ {other} |->
          IF i = survivor THEN absorb(survivor, other) ELSE active_blobs[i]]
    /\ pixel_index' = IndexOfSurvivor(survivor, other)
    /\ UNCHANGED <<next_blob_id, spoke, todo, idle, completed>>

\* One neighbour, or the survivor of several.
AddPixel(p, target, doppler) ==
    LET c == <<spoke, p>> IN
    /\ ~idle
    /\ NextPixel(p)
    /\ adjacent_blob_ids(c) = {target}
    /\ active_blobs[target].count < MaxCount
    /\ active_blobs' = [active_blobs EXCEPT ![target] =
          [pixels |-> @.pixels \cup {c}, count |-> @.count + 1,
           last |-> spoke, doppler |-> @.doppler \/ doppler]]
    /\ pixel_index' = [pixel_index EXCEPT ![c] = target]
    /\ todo' = todo \ {p}
    /\ UNCHANGED <<next_blob_id, spoke, idle, completed>>

\* Neither this spoke nor the one before extended the blob.
Finished == {i \in Ids : active_blobs[i].last \notin {spoke, Prev(spoke)}}

\* Mutant: the index keeps the pixels of finished blobs.
IndexWithFinished(done) == pixel_index

IndexWithout(done) ==
    [c \in Cells |-> IF \E i \in done : c \in active_blobs[i].pixels
                     THEN NoBlob ELSE pixel_index[c]]

\* Mutant: only the neighbours on the other spokes are looked at.
ContourAcross(i) ==
    {c \in active_blobs[i].pixels :
        \E d \in {<<Prev(c[1]), c[2]>>, <<NextSpoke(c[1]), c[2]>>} : pixel_index[d] # i}

\* One of the four neighbours is not the blob's, by the index.
calculate_contour(i) ==
    {c \in active_blobs[i].pixels :
        \E d \in Edges(c) : d \notin Cells \/ pixel_index[d] # i}

\* Of the finished blobs, large are those whose size is that of a ship.
Complete(large) ==
    /\ ~idle
    /\ todo = {}
    /\ large \subseteq Finished
    /\ completed' = {[blob |-> active_blobs[i], contour |-> calculate_contour(i)] :
                        i \in {j \in large : active_blobs[j].count >= MinPixels}}
    /\ active_blobs' = [i \in Ids \ Finished |-> active_blobs[i]]
    /\ pixel_index' = IndexWithout(Finished)
    /\ idle' = TRUE
    /\ UNCHANGED <<next_blob_id, spoke, todo>>

process_spoke ==
    \/ \E angle \in Spokes, strong \in SUBSET Pixels : Begin(angle, strong)
    \/ \E p \in Pixels, doppler \in BOOLEAN :
          \/ NewBlob(p, doppler)
          \/ \E target \in Ids : AddPixel(p, target, doppler)
    \/ \E p \in Pixels, survivor, other \in Ids : Merge(p, survivor, other)
    \/ \E large \in SUBSET Finished : Complete(large)

Spec == Init /\ [][process_spoke]_vars

-----------------------------------------------------------------------------
Blob == [pixels : SUBSET Cells, count : Nat, last : Spokes, doppler : BOOLEAN]

TypeOK ==
    /\ next_blob_id \in Nat
    /\ Ids \subseteq 0 .. next_blob_id - 1
    /\ active_blobs \in [Ids -> Blob]
    /\ pixel_index \in [Cells -> Nat \cup {NoBlob}]
    /\ spoke \in Spokes
    /\ todo \subseteq Pixels
    /\ idle \in BOOLEAN
    /\ completed \subseteq [blob : Blob, contour : SUBSET Cells]

\* The index names for every cell the active blob that has it, and no other:
\* so the expect()s of process_spoke on blobs found through the index never
\* fail, and no two blobs share a pixel.
IndexIsExact ==
    \A c \in Cells :
        /\ pixel_index[c] # NoBlob =>
              /\ pixel_index[c] \in Ids
              /\ c \in active_blobs[pixel_index[c]].pixels
        /\ \A i \in Ids : c \in active_blobs[i].pixels => pixel_index[c] = i

\* Two blobs are never neighbours: whatever order the spokes come in, strong
\* pixels of blobs in progress that touch are in the same blob.
BlobsAreApart ==
    \A i, j \in Ids : i # j =>
        \A c \in active_blobs[i].pixels :
            active_blobs[j].pixels \cap Neighbours(c) = {}

\* Pixels that hang together: however they are cut in two, the parts touch.
HangTogether(P) ==
    \A S \in SUBSET P : S # {} /\ S # P =>
        \E c \in S : Neighbours(c) \cap (P \ S) # {}

\* Between two spokes every blob hangs together: merging joins only what the
\* new pixel touches.
BlobsAreConnected ==
    idle => \A i \in Ids :
        active_blobs[i].pixels # {} /\ HangTogether(active_blobs[i].pixels)

\* The contour that is reported with a blob is the edge of the blob's own
\* pixels, although it is read off the index all blobs share.
ContourIsTheEdge ==
    \A r \in completed :
        r.contour = {c \in r.blob.pixels : ~(Edges(c) \subseteq r.blob.pixels)}
=============================================================================
