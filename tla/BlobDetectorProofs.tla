------------------------- MODULE BlobDetectorProofs -------------------------
(***************************************************************************)
(* The blob detector's index is exact and its blobs are apart, for every   *)
(* number of spokes and pixels and for spokes that come in any order.      *)
(***************************************************************************)
EXTENDS BlobDetector, TLAPS

\* BlobsAreApart needs the exact index: an adjacent blob is found through it.
DetectorInv == TypeOK /\ IndexIsExact /\ BlobsAreApart

USE DEF Ids

-----------------------------------------------------------------------------
\* Prev and NextSpoke stay on the circle and undo each other.
LEMMA CircleOfSpokes ==
    ASSUME NEW s \in Spokes
    PROVE  /\ Prev(s) \in Spokes
           /\ NextSpoke(s) \in Spokes
           /\ NextSpoke(Prev(s)) = s
           /\ Prev(NextSpoke(s)) = s
    BY CircleAssumption, DetectorAssumption DEF Spokes, Prev, NextSpoke

\* Of two cells each is the other's neighbour or neither is.
LEMMA NeighboursAreMutual ==
    ASSUME NEW c \in Cells, NEW d \in Neighbours(c)
    PROVE  c \in Neighbours(d)
<1>1. /\ c[1] \in Spokes /\ c[2] \in Int
      /\ d[1] \in Spokes /\ d[2] \in Int
      /\ d \in Cells
    BY DEF Cells, Pixels, Neighbours
<1>2. d[2] \in {c[2] - 1, c[2], c[2] + 1} /\ d[1] \in {Prev(c[1]), c[1], NextSpoke(c[1])}
    BY DEF Neighbours
<1>3. c[2] \in {d[2] - 1, d[2], d[2] + 1}
    BY <1>1, <1>2
<1>4. c[1] \in {Prev(d[1]), d[1], NextSpoke(d[1])}
    BY <1>1, <1>2, CircleOfSpokes
<1> QED
    BY <1>3, <1>4 DEF Neighbours

\* A neighbour that belongs to a blob puts the blob among the adjacent ones.
LEMMA AdjacentIsFound ==
    ASSUME DetectorInv, NEW c \in Cells, NEW i \in Ids,
           NEW d \in Neighbours(c), d \in active_blobs[i].pixels
    PROVE  i \in adjacent_blob_ids(c)
<1>1. d \in Cells
    BY DEF Neighbours
<1>2. pixel_index[d] = i
    BY <1>1 DEF DetectorInv, IndexIsExact
<1>3. i # NoBlob
    BY DEF DetectorInv, TypeOK, NoBlob
<1> QED
    BY <1>2, <1>3 DEF adjacent_blob_ids

\* What adjacent_blob_ids returns are blobs in progress.
LEMMA AdjacentIsActive ==
    ASSUME DetectorInv, NEW c \in Cells
    PROVE  adjacent_blob_ids(c) \subseteq Ids
    BY DEF DetectorInv, IndexIsExact, adjacent_blob_ids, Neighbours

-----------------------------------------------------------------------------
\* No spoke has been read.
LEMMA InitEstablishes == Init => DetectorInv
<1> SUFFICES ASSUME Init PROVE DetectorInv
    OBVIOUS
<1> USE DEF Init
<1>1. Ids = {}
    OBVIOUS
<1>2. 0 \in Spokes
    BY CircleAssumption, DetectorAssumption DEF Spokes
<1>3. TypeOK
    BY <1>1, <1>2 DEF TypeOK, NoBlob
<1>4. IndexIsExact /\ BlobsAreApart
    BY <1>1 DEF IndexIsExact, BlobsAreApart
<1> QED
    BY <1>3, <1>4 DEF DetectorInv

\* A spoke begins.
LEMMA BeginPreserves ==
    ASSUME DetectorInv, NEW angle \in Spokes, NEW strong \in SUBSET Pixels,
           Begin(angle, strong)
    PROVE  DetectorInv'
<1> USE DEF Begin
<1>1. TypeOK'
    BY Zenon DEF DetectorInv, TypeOK
<1>2. IndexIsExact' /\ BlobsAreApart'
    BY DEF DetectorInv, IndexIsExact, BlobsAreApart
<1> QED
    BY <1>1, <1>2 DEF DetectorInv

\* A strong pixel with no neighbour starts a blob.
LEMMA NewBlobPreserves ==
    ASSUME DetectorInv, NEW p \in Pixels, NEW doppler \in BOOLEAN, NewBlob(p, doppler)
    PROVE  DetectorInv'
<1> DEFINE c == <<spoke, p>>
           n == next_blob_id
           b == [pixels |-> {c}, count |-> 1, last |-> spoke, doppler |-> doppler]
<1> USE DEF DetectorInv
<1>1. c \in Cells /\ b \in Blob /\ n \in Nat /\ n \notin Ids /\ n # NoBlob
    BY DEF TypeOK, Cells, Blob, NoBlob
<1>2. /\ Ids' = Ids \cup {n}
      /\ active_blobs'[n] = b
      /\ \A i \in Ids : active_blobs'[i] = active_blobs[i]
      /\ active_blobs' = [i \in Ids' |-> active_blobs'[i]]
    BY <1>1 DEF NewBlob
<1>3. pixel_index' = [pixel_index EXCEPT ![c] = n] /\ n' = n + 1
    BY DEF NewBlob
<1>4. \A i \in Ids : active_blobs[i].pixels \cap Neighbours(c) = {}
    BY <1>1, AdjacentIsFound DEF NewBlob
<1>5. c \in Neighbours(c)
    BY <1>1 DEF Neighbours
<1>6. TypeOK'
  <2>1. active_blobs' \in [Ids' -> Blob]
      BY <1>1, <1>2, Zenon DEF TypeOK
  <2>2. Ids' \subseteq 0 .. n' - 1
      BY <1>1, <1>2, <1>3 DEF TypeOK
  <2> QED
      BY <1>1, <1>3, <2>1, <2>2 DEF TypeOK, NewBlob
<1>7. IndexIsExact'
  <2> SUFFICES ASSUME NEW d \in Cells
               PROVE /\ pixel_index'[d] # NoBlob =>
                          /\ pixel_index'[d] \in Ids'
                          /\ d \in active_blobs'[pixel_index'[d]].pixels
                     /\ \A i \in Ids' : d \in active_blobs'[i].pixels
                                            => pixel_index'[d] = i
      BY DEF IndexIsExact
  <2>1. CASE d = c
      BY <2>1, <1>1, <1>2, <1>3, <1>4, <1>5 DEF TypeOK
  <2>2. CASE d # c
    <3>1. pixel_index'[d] = pixel_index[d]
        BY <2>2, <1>1, <1>3 DEF TypeOK
    <3> QED
        BY <2>2, <3>1, <1>1, <1>2 DEF IndexIsExact
  <2> QED
      BY <2>1, <2>2
<1>8. BlobsAreApart'
  <2> SUFFICES ASSUME NEW i \in Ids', NEW j \in Ids', i # j,
                      NEW d \in active_blobs'[i].pixels,
                      NEW e \in active_blobs'[j].pixels \cap Neighbours(d)
               PROVE FALSE
      BY DEF BlobsAreApart
  <2>1. CASE i \in Ids /\ j \in Ids
      BY <2>1, <1>2 DEF BlobsAreApart
  <2>2. CASE i = n
      BY <2>2, <1>1, <1>2, <1>4
  <2>3. CASE j = n
    <3>1. e = c /\ i \in Ids /\ d \in active_blobs[i].pixels
        BY <2>3, <1>1, <1>2
    <3>2. d \in Cells
        BY <3>1 DEF TypeOK, Blob
    <3> QED
        BY <3>1, <3>2, <1>4, NeighboursAreMutual
  <2> QED
      BY <2>1, <2>2, <2>3, <1>2
<1> QED
    BY <1>6, <1>7, <1>8

\* A strong pixel joins two blobs: one absorbs the other.
LEMMA MergePreserves ==
    ASSUME DetectorInv, NEW p \in Pixels, NEW survivor \in Ids, NEW other \in Ids,
           Merge(p, survivor, other)
    PROVE  DetectorInv'
<1> DEFINE b == absorb(survivor, other)
<1> USE DEF DetectorInv
<1>1. /\ survivor # other /\ survivor \in Nat /\ survivor # NoBlob
      /\ active_blobs[survivor] \in Blob /\ active_blobs[other] \in Blob
      /\ spoke \in Spokes
    BY DEF Merge, TypeOK, NoBlob
<1>2. b \in Blob /\ b.pixels = active_blobs[survivor].pixels \cup active_blobs[other].pixels
    BY <1>1 DEF absorb, Blob
<1> HIDE DEF b
<1>3. /\ Ids' = Ids \ {other}
      /\ active_blobs'[survivor] = b
      /\ \A i \in Ids' : i # survivor => active_blobs'[i] = active_blobs[i]
      /\ active_blobs' = [i \in Ids' |-> active_blobs'[i]]
    BY <1>1 DEF Merge, b
<1>4. /\ pixel_index' = IndexOfSurvivor(survivor, other)
      /\ UNCHANGED <<next_blob_id, spoke, todo, idle, completed>>
    BY DEF Merge
<1>5. TypeOK'
  <2>1. active_blobs' \in [Ids' -> Blob]
      BY <1>1, <1>2, <1>3 DEF TypeOK
  <2>2. pixel_index' \in [Cells -> Nat \cup {NoBlob}]
      BY <1>1, <1>4 DEF TypeOK, IndexOfSurvivor
  <2> QED
      BY <1>3, <1>4, <2>1, <2>2 DEF TypeOK
<1>6. IndexIsExact'
  <2> SUFFICES ASSUME NEW d \in Cells
               PROVE /\ pixel_index'[d] # NoBlob =>
                          /\ pixel_index'[d] \in Ids'
                          /\ d \in active_blobs'[pixel_index'[d]].pixels
                     /\ \A i \in Ids' : d \in active_blobs'[i].pixels
                                            => pixel_index'[d] = i
      BY DEF IndexIsExact
  <2>1. CASE d \in active_blobs[other].pixels
    <3>1. pixel_index[d] = other /\ pixel_index'[d] = survivor
        BY <2>1, <1>4 DEF IndexIsExact, IndexOfSurvivor
    <3>2. \A i \in Ids : d \in active_blobs[i].pixels => i = other
        BY <3>1 DEF IndexIsExact
    <3> QED
        BY <2>1, <3>1, <3>2, <1>1, <1>2, <1>3
  <2>2. CASE d \notin active_blobs[other].pixels
    <3>1. pixel_index'[d] = pixel_index[d]
        BY <2>2, <1>4 DEF IndexOfSurvivor
    <3>2. pixel_index[d] # other
        BY <2>2, <1>1 DEF IndexIsExact, TypeOK, NoBlob
    <3>3. d \in b.pixels <=> d \in active_blobs[survivor].pixels
        BY <2>2, <1>2
    <3> QED
        BY <3>1, <3>2, <3>3, <1>1, <1>3 DEF IndexIsExact
  <2> QED
      BY <2>1, <2>2
<1>7. BlobsAreApart'
  <2> SUFFICES ASSUME NEW i \in Ids', NEW j \in Ids', i # j,
                      NEW d \in active_blobs'[i].pixels,
                      NEW e \in active_blobs'[j].pixels \cap Neighbours(d)
               PROVE FALSE
      BY DEF BlobsAreApart
  <2>1. PICK k \in Ids : d \in active_blobs[k].pixels /\ (k = i \/ (i = survivor /\ k = other))
      BY <1>1, <1>2, <1>3
  <2>2. PICK m \in Ids : e \in active_blobs[m].pixels /\ (m = j \/ (j = survivor /\ m = other))
      BY <1>1, <1>2, <1>3
  <2>3. k # m
      BY <2>1, <2>2, <1>3
  <2> QED
      BY <2>1, <2>2, <2>3 DEF BlobsAreApart
<1> QED
    BY <1>5, <1>6, <1>7

\* A strong pixel is added to a blob.
LEMMA AddPixelPreserves ==
    ASSUME DetectorInv, NEW p \in Pixels, NEW target \in Ids, NEW doppler \in BOOLEAN,
           AddPixel(p, target, doppler)
    PROVE  DetectorInv'
<1> DEFINE c == <<spoke, p>>
           b == active_blobs'[target]
<1> USE DEF DetectorInv
<1>1. /\ c \in Cells /\ spoke \in Spokes /\ target \in Nat /\ target # NoBlob
      /\ active_blobs[target] \in Blob
    BY DEF TypeOK, Cells, NoBlob
<1>2. /\ b = [pixels |-> active_blobs[target].pixels \cup {c},
              count |-> active_blobs[target].count + 1,
              last |-> spoke,
              doppler |-> active_blobs[target].doppler \/ doppler]
      /\ Ids' = Ids
      /\ \A i \in Ids : i # target => active_blobs'[i] = active_blobs[i]
      /\ active_blobs' = [i \in Ids |-> active_blobs'[i]]
    BY Zenon DEF AddPixel, TypeOK
<1>3. b \in Blob /\ b.pixels = active_blobs[target].pixels \cup {c}
    BY <1>1, <1>2 DEF Blob
<1> HIDE DEF b
<1>4. /\ pixel_index' = [pixel_index EXCEPT ![c] = target]
      /\ UNCHANGED <<next_blob_id, spoke, idle, completed>>
      /\ todo' \subseteq todo
    BY DEF AddPixel
<1>5. \A i \in Ids : i # target => active_blobs[i].pixels \cap Neighbours(c) = {}
    BY <1>1, AdjacentIsFound DEF AddPixel
<1>6. c \in Neighbours(c)
    BY <1>1 DEF Neighbours
<1>7. TypeOK'
  <2>1. active_blobs' \in [Ids' -> Blob]
      BY <1>2, <1>3 DEF TypeOK, b
  <2>2. pixel_index' \in [Cells -> Nat \cup {NoBlob}]
      BY <1>1, <1>4 DEF TypeOK
  <2> QED
      BY <1>2, <1>4, <2>1, <2>2 DEF TypeOK
<1>8. IndexIsExact'
  <2> SUFFICES ASSUME NEW d \in Cells
               PROVE /\ pixel_index'[d] # NoBlob =>
                          /\ pixel_index'[d] \in Ids'
                          /\ d \in active_blobs'[pixel_index'[d]].pixels
                     /\ \A i \in Ids' : d \in active_blobs'[i].pixels
                                            => pixel_index'[d] = i
      BY DEF IndexIsExact
  <2>1. CASE d = c
    <3>1. pixel_index'[d] = target
        BY <2>1, <1>1, <1>4 DEF TypeOK
    <3> QED
        BY <2>1, <3>1, <1>2, <1>3, <1>5, <1>6 DEF b
  <2>2. CASE d # c
    <3>1. pixel_index'[d] = pixel_index[d]
        BY <2>2, <1>1, <1>4 DEF TypeOK
    <3>2. d \in b.pixels <=> d \in active_blobs[target].pixels
        BY <2>2, <1>3
    <3> QED
        BY <3>1, <3>2, <1>2 DEF IndexIsExact, b
  <2> QED
      BY <2>1, <2>2
<1>9. BlobsAreApart'
  <2> SUFFICES ASSUME NEW i \in Ids', NEW j \in Ids', i # j,
                      NEW d \in active_blobs'[i].pixels,
                      NEW e \in active_blobs'[j].pixels \cap Neighbours(d)
               PROVE FALSE
      BY DEF BlobsAreApart
  <2>1. d \in active_blobs[i].pixels \/ (i = target /\ d = c)
      BY <1>2, <1>3 DEF b
  <2>2. e \in active_blobs[j].pixels \/ (j = target /\ e = c)
      BY <1>2, <1>3 DEF b
  <2>3. CASE d \in active_blobs[i].pixels /\ e \in active_blobs[j].pixels
      BY <2>3, <1>2 DEF BlobsAreApart
  <2>4. CASE i = target /\ d = c
      BY <2>2, <2>4, <1>2, <1>5
  <2>5. CASE d \in active_blobs[i].pixels /\ j = target /\ e = c
    <3>1. d \in Cells
        BY <2>5, <1>2 DEF TypeOK, Blob
    <3>2. d \in Neighbours(c)
        BY <2>5, <3>1, NeighboursAreMutual
    <3> QED
        BY <2>5, <3>2, <1>2, <1>5
  <2> QED
      BY <2>1, <2>2, <2>3, <2>4, <2>5
<1> QED
    BY <1>7, <1>8, <1>9

\* Blobs that are finished are taken out.
LEMMA CompletePreserves ==
    ASSUME DetectorInv, NEW large \in SUBSET Finished, Complete(large)
    PROVE  DetectorInv'
<1> USE DEF DetectorInv
<1>1. /\ Ids' = Ids \ Finished
      /\ \A i \in Ids' : active_blobs'[i] = active_blobs[i]
      /\ active_blobs' = [i \in Ids' |-> active_blobs'[i]]
    BY DEF Complete
<1>2. pixel_index' = IndexWithout(Finished)
    BY DEF Complete
<1>3. Finished \subseteq Ids
    BY DEF Finished
<1>4. TypeOK'
  <2>1. active_blobs' \in [Ids' -> Blob]
      BY <1>1 DEF TypeOK
  <2>2. pixel_index' \in [Cells -> Nat \cup {NoBlob}]
      BY <1>2 DEF TypeOK, IndexWithout
  <2>3. \A i \in Ids : /\ active_blobs[i] \in Blob
                       /\ calculate_contour(i) \in SUBSET Cells
      BY DEF TypeOK, Blob, calculate_contour
  <2>4. completed' \subseteq [blob : Blob, contour : SUBSET Cells]
      BY <1>3, <2>3 DEF Complete
  <2> QED
      BY <1>1, <2>1, <2>2, <2>4 DEF TypeOK, Complete
<1>5. IndexIsExact'
  <2> SUFFICES ASSUME NEW d \in Cells
               PROVE /\ pixel_index'[d] # NoBlob =>
                          /\ pixel_index'[d] \in Ids'
                          /\ d \in active_blobs'[pixel_index'[d]].pixels
                     /\ \A i \in Ids' : d \in active_blobs'[i].pixels
                                            => pixel_index'[d] = i
      BY DEF IndexIsExact
  <2>1. CASE \E i \in Finished : d \in active_blobs[i].pixels
    <3>1. PICK i \in Finished : d \in active_blobs[i].pixels
        BY <2>1
    <3>2. pixel_index'[d] = NoBlob
        BY <2>1, <1>2 DEF IndexWithout
    <3>3. pixel_index[d] = i
        BY <3>1, <1>3 DEF IndexIsExact
    <3> QED
        BY <3>1, <3>2, <3>3, <1>1 DEF IndexIsExact
  <2>2. CASE ~ \E i \in Finished : d \in active_blobs[i].pixels
    <3>1. pixel_index'[d] = pixel_index[d]
        BY <2>2, <1>2 DEF IndexWithout
    <3> QED
        BY <2>2, <3>1, <1>1 DEF IndexIsExact
  <2> QED
      BY <2>1, <2>2
<1>6. BlobsAreApart'
    BY <1>1 DEF BlobsAreApart
<1> QED
    BY <1>4, <1>5, <1>6

-----------------------------------------------------------------------------
\* Every call of process_spoke keeps the invariant.
THEOREM DetectorInvariance == Spec => []DetectorInv
<1>1. Init => DetectorInv
    BY InitEstablishes
<1>2. DetectorInv /\ [process_spoke]_vars => DetectorInv'
  <2> SUFFICES ASSUME DetectorInv, [process_spoke]_vars PROVE DetectorInv'
      OBVIOUS
  <2>1. CASE UNCHANGED vars
    <3>1. TypeOK'
        BY <2>1 DEF DetectorInv, TypeOK, vars
    <3>2. IndexIsExact' /\ BlobsAreApart'
        BY <2>1 DEF DetectorInv, IndexIsExact, BlobsAreApart, vars
    <3> QED
        BY <3>1, <3>2 DEF DetectorInv
  <2>2. CASE \E angle \in Spokes, strong \in SUBSET Pixels : Begin(angle, strong)
      BY <2>2, BeginPreserves
  <2>3. CASE \E p \in Pixels, doppler \in BOOLEAN : NewBlob(p, doppler)
      BY <2>3, NewBlobPreserves
  <2>4. CASE \E p \in Pixels, doppler \in BOOLEAN :
                \E target \in Ids : AddPixel(p, target, doppler)
      BY <2>4, AddPixelPreserves
  <2>5. CASE \E p \in Pixels, survivor, other \in Ids : Merge(p, survivor, other)
      BY <2>5, MergePreserves
  <2>6. CASE \E large \in SUBSET Finished : Complete(large)
      BY <2>6, CompletePreserves
  <2> QED
      BY <2>1, <2>2, <2>3, <2>4, <2>5, <2>6 DEF process_spoke
<1> QED
    BY <1>1, <1>2, PTL DEF Spec

\* The index names the blob that has the pixel, so that no expect() of
\* process_spoke on a blob found through it can fail.
THEOREM IndexExact == Spec => []IndexIsExact
<1>1. DetectorInv => IndexIsExact
    BY DEF DetectorInv
<1> QED
    BY <1>1, DetectorInvariance, PTL

\* Touching strong pixels are in the same blob, in whatever order the spokes
\* were processed.
THEOREM BlobsApart == Spec => []BlobsAreApart
<1>1. DetectorInv => BlobsAreApart
    BY DEF DetectorInv
<1> QED
    BY <1>1, DetectorInvariance, PTL

\* With an exact index, a cell that is not the blob's by the index is not in it.
LEMMA CompleteReportsTheEdge ==
    ASSUME DetectorInv, NEW large \in SUBSET Finished, Complete(large)
    PROVE  ContourIsTheEdge'
<1>1. \A i \in Ids : active_blobs[i].pixels \subseteq Cells
    BY DEF DetectorInv, TypeOK, Blob
<1>2. ASSUME NEW i \in Ids
      PROVE  calculate_contour(i) =
                {c \in active_blobs[i].pixels : ~(Edges(c) \subseteq active_blobs[i].pixels)}
  <2>1. \A d \in Cells : pixel_index[d] = i <=> d \in active_blobs[i].pixels
      BY DEF DetectorInv, TypeOK, IndexIsExact, NoBlob
  <2> QED
      BY <1>1, <2>1 DEF calculate_contour
<1>3. Finished \subseteq Ids
    BY DEF Finished
<1>4. \A r \in completed' : \E i \in Ids :
          r = [blob |-> active_blobs[i], contour |-> calculate_contour(i)]
    BY <1>3 DEF Complete
<1>5. ASSUME NEW r \in completed'
      PROVE  r.contour = {c \in r.blob.pixels : ~(Edges(c) \subseteq r.blob.pixels)}
  <2>1. PICK i \in Ids : r = [blob |-> active_blobs[i], contour |-> calculate_contour(i)]
      BY <1>4
  <2>2. r.blob = active_blobs[i] /\ r.contour = calculate_contour(i)
      BY <2>1
  <2> QED
      BY <2>2, <1>2
<1> QED
    BY <1>5 DEF ContourIsTheEdge

\* The contour reported with a blob is the edge of its pixels: reading the
\* shared index before the blob leaves it is the same as looking at the blob.
THEOREM ContourExact == Spec => []ContourIsTheEdge
<1>1. Init => ContourIsTheEdge
    BY DEF Init, ContourIsTheEdge
<1>2. DetectorInv /\ ContourIsTheEdge /\ [process_spoke]_vars => ContourIsTheEdge'
  <2> SUFFICES ASSUME DetectorInv, ContourIsTheEdge, [process_spoke]_vars
               PROVE  ContourIsTheEdge'
      OBVIOUS
  <2>1. CASE completed' = completed
      BY <2>1 DEF ContourIsTheEdge
  <2>2. CASE completed' = {}
      BY <2>2 DEF ContourIsTheEdge
  <2>3. CASE \E large \in SUBSET Finished : Complete(large)
      BY <2>3, CompleteReportsTheEdge
  <2> QED
      BY <2>1, <2>2, <2>3, Zenon
      DEF process_spoke, vars, Begin, NewBlob, AddPixel, Merge
<1> QED
    BY <1>1, <1>2, DetectorInvariance, PTL DEF Spec

-----------------------------------------------------------------------------
\* Two sets of pixels that share one.
LEMMA UnionHangsTogether ==
    ASSUME NEW A, NEW B, HangTogether(A), HangTogether(B), NEW x \in A, x \in B
    PROVE  HangTogether(A \cup B)
<1> SUFFICES ASSUME NEW S \in SUBSET (A \cup B), S # {}, S # A \cup B
             PROVE  \E c \in S : Neighbours(c) \cap ((A \cup B) \ S) # {}
    BY DEF HangTogether
<1>1. ASSUME NEW C, C \in {A, B}, HangTogether(C), S \cap C # {}, S \cap C # C
      PROVE  \E c \in S : Neighbours(c) \cap ((A \cup B) \ S) # {}
  <2>1. PICK c \in S \cap C : Neighbours(c) \cap (C \ (S \cap C)) # {}
      BY <1>1, Zenon DEF HangTogether
  <2>2. C \ (S \cap C) \subseteq (A \cup B) \ S
      BY <1>1
  <2> QED
      BY <2>1, <2>2
<1>2. CASE x \in S
  <2>1. S \cap A # {} /\ S \cap B # {} /\ (S \cap A # A \/ S \cap B # B)
      BY <1>2
  <2> QED
      BY <1>1, <2>1
<1>3. CASE x \notin S
  <2>1. S \cap A # A /\ S \cap B # B /\ (S \cap A # {} \/ S \cap B # {})
      BY <1>3
  <2> QED
      BY <1>1, <2>1
<1> QED
    BY <1>2, <1>3

\* A pixel that touches what hangs together.
LEMMA TouchingHangsTogether ==
    ASSUME NEW A \in SUBSET Cells, HangTogether(A), NEW c \in Cells,
           A \cap Neighbours(c) # {}
    PROVE  HangTogether(A \cup {c})
<1>1. PICK d \in A : d \in Neighbours(c)
    OBVIOUS
<1>2. c \in Neighbours(d)
    BY <1>1, NeighboursAreMutual
<1>3. HangTogether({c, d})
  <2> SUFFICES ASSUME NEW S \in SUBSET {c, d}, S # {}, S # {c, d}
               PROVE  \E e \in S : Neighbours(e) \cap ({c, d} \ S) # {}
      BY DEF HangTogether
  <2>1. CASE c \in S /\ d \notin S
      BY <2>1, <1>1
  <2>2. CASE d \in S /\ c \notin S
      BY <2>2, <1>2
  <2> QED
      BY <2>1, <2>2
<1>4. A \cup {c} = A \cup {c, d}
    BY <1>1
<1>5. HangTogether(A \cup {c, d})
    BY <1>1, <1>3, UnionHangsTogether
<1> QED
    BY <1>4, <1>5

\* During a call a blob that absorbed others hangs together once it has the
\* pixel that is being added.
HeldBy(i, p) ==
    ~idle /\ NextPixel(p) /\ HangTogether(active_blobs[i].pixels \cup {<<spoke, p>>})

BlobsWillConnect ==
    \A i \in Ids :
        /\ active_blobs[i].pixels # {}
        /\ \/ HangTogether(active_blobs[i].pixels)
           \/ \E p \in todo : HeldBy(i, p)

\* A blob that waits for a pixel touches it.
LEMMA WaitingIsAdjacent ==
    ASSUME DetectorInv, BlobsWillConnect, NEW i \in Ids, NEW p \in Pixels, NextPixel(p),
           ~HangTogether(active_blobs[i].pixels)
    PROVE  i \in adjacent_blob_ids(<<spoke, p>>)
<1> DEFINE c == <<spoke, p>>
           P == active_blobs[i].pixels
<1>1. HangTogether(P \cup {c}) /\ P # {} /\ c \in Cells
  <2>1. PICK q \in todo : HeldBy(i, q)
      BY DEF BlobsWillConnect
  <2>2. q = p
      BY <2>1 DEF HeldBy, NextPixel, DetectorInv, TypeOK, Pixels
  <2> QED
      BY <2>1, <2>2 DEF HeldBy, BlobsWillConnect, DetectorInv, TypeOK, Cells
<1> HIDE DEF c, P
<1>2. c \notin P
  <2>1. c \in P => P \cup {c} = P
      OBVIOUS
  <2> QED
      BY <1>1, <2>1 DEF P
<1>3. PICK e \in {c} : Neighbours(e) \cap ((P \cup {c}) \ {c}) # {}
  <2>1. {c} \in SUBSET (P \cup {c}) /\ {c} # {} /\ {c} # P \cup {c}
      BY <1>1, <1>2
  <2> QED
      BY <1>1, <2>1, Zenon DEF HangTogether
<1>4. PICK d \in P : d \in Neighbours(c)
    BY <1>3
<1> QED
    BY <1>1, <1>4, AdjacentIsFound DEF c, P

\* With the pixel being added, each blob that touches it hangs together.
LEMMA AdjacentHangsTogether ==
    ASSUME DetectorInv, BlobsWillConnect, NEW p \in Pixels, NextPixel(p),
           NEW i \in adjacent_blob_ids(<<spoke, p>>)
    PROVE  HangTogether(active_blobs[i].pixels \cup {<<spoke, p>>})
<1> DEFINE c == <<spoke, p>>
           P == active_blobs[i].pixels
<1>1. c \in Cells /\ i \in Ids
    BY AdjacentIsActive DEF DetectorInv, TypeOK, Cells
<1>2. P \in SUBSET Cells
    BY <1>1 DEF DetectorInv, TypeOK, Blob
<1>3. P \cap Neighbours(c) # {}
  <2>1. PICK d \in Neighbours(c) : pixel_index[d] = i /\ i # NoBlob
      BY DEF adjacent_blob_ids
  <2>2. d \in Cells
      BY <2>1 DEF Neighbours
  <2> QED
      BY <2>1, <2>2 DEF DetectorInv, IndexIsExact
<1>4. CASE HangTogether(P)
  <2> HIDE DEF c, P
  <2>1. HangTogether(P \cup {c})
      BY <1>1, <1>2, <1>3, <1>4, TouchingHangsTogether
  <2> QED
      BY <2>1 DEF c, P
<1>5. CASE ~HangTogether(P)
  <2>1. PICK q \in todo : HeldBy(i, q)
      BY <1>1, <1>5 DEF BlobsWillConnect
  <2>2. q = p
      BY <2>1 DEF HeldBy, NextPixel, DetectorInv, TypeOK, Pixels
  <2> QED
      BY <2>1, <2>2 DEF HeldBy
<1> QED
    BY <1>4, <1>5

\* Between two calls every blob hangs together.
LEMMA IdleHangsTogether ==
    ASSUME BlobsWillConnect, idle \/ todo = {}
    PROVE  \A i \in Ids : active_blobs[i].pixels # {} /\ HangTogether(active_blobs[i].pixels)
    BY Zenon DEF BlobsWillConnect, HeldBy

\* A strong pixel with no neighbour is a blob that hangs together.
LEMMA NewBlobConnects ==
    ASSUME DetectorInv, BlobsWillConnect, NEW p \in Pixels, NEW doppler \in BOOLEAN,
           NewBlob(p, doppler)
    PROVE  BlobsWillConnect'
<1> DEFINE c == <<spoke, p>>
<1>1. \A i \in Ids : active_blobs[i].pixels # {} /\ HangTogether(active_blobs[i].pixels)
    BY WaitingIsAdjacent DEF NewBlob, BlobsWillConnect
<1>2. /\ Ids' = Ids \cup {next_blob_id}
      /\ next_blob_id \notin Ids
      /\ active_blobs'[next_blob_id].pixels = {c}
      /\ \A i \in Ids : active_blobs'[i] = active_blobs[i]
    BY DEF NewBlob, DetectorInv, TypeOK
<1> HIDE DEF c
<1>3. HangTogether({c})
    BY DEF HangTogether
<1>4. \A i \in Ids' : active_blobs'[i].pixels # {} /\ HangTogether(active_blobs'[i].pixels)
    BY <1>1, <1>2, <1>3, Zenon
<1> QED
    BY <1>4, Zenon DEF BlobsWillConnect

\* The pixel that two blobs touch holds them together.
LEMMA MergeConnects ==
    ASSUME DetectorInv, BlobsWillConnect, NEW p \in Pixels, NEW survivor \in Ids,
           NEW other \in Ids, Merge(p, survivor, other)
    PROVE  BlobsWillConnect'
<1> DEFINE c == <<spoke, p>>
           P == active_blobs[survivor].pixels
           Q == active_blobs[other].pixels
<1>1. HangTogether(P \cup {c}) /\ HangTogether(Q \cup {c})
    BY AdjacentHangsTogether DEF Merge
<1>2. /\ Ids' = Ids \ {other} /\ survivor \in Ids'
      /\ active_blobs'[survivor].pixels = P \cup Q
      /\ \A i \in Ids' : i # survivor => active_blobs'[i] = active_blobs[i]
    BY DEF Merge, absorb
<1>3. /\ UNCHANGED <<spoke, todo, idle>> /\ ~idle
      /\ p \in todo /\ NextPixel(p)
    BY DEF Merge, NextPixel
<1>4. \A q \in todo : NextPixel(q)' <=> NextPixel(q)
    BY <1>3 DEF NextPixel
<1>5. P # {}
    BY DEF BlobsWillConnect
<1> HIDE DEF P, Q
<1>6. HangTogether((P \cup Q) \cup {c})
  <2>1. HangTogether((P \cup {c}) \cup (Q \cup {c}))
    <3> HIDE DEF c
    <3> QED
        BY <1>1, UnionHangsTogether
  <2>2. (P \cup {c}) \cup (Q \cup {c}) = (P \cup Q) \cup {c}
      OBVIOUS
  <2> QED
      BY <2>1, <2>2
<1>7. ASSUME NEW i \in Ids'
      PROVE  /\ active_blobs'[i].pixels # {}
             /\ \/ HangTogether(active_blobs'[i].pixels)
                \/ \E q \in todo' : HeldBy(i, q)'
  <2>1. CASE i = survivor
    <3>1. HeldBy(survivor, p)'
        BY <1>2, <1>3, <1>4, <1>6, Zenon DEF HeldBy
    <3> QED
        BY <2>1, <3>1, <1>2, <1>3, <1>5
  <2>2. CASE i # survivor
    <3>1. i \in Ids /\ active_blobs'[i] = active_blobs[i]
        BY <2>2, <1>2
    <3>2. \A q \in todo : HeldBy(i, q)' <=> HeldBy(i, q)
        BY <3>1, <1>3, <1>4, Zenon DEF HeldBy
    <3> QED
        BY <3>1, <3>2, <1>3 DEF BlobsWillConnect
  <2> QED
      BY <2>1, <2>2
<1> QED
    BY <1>7, Zenon DEF BlobsWillConnect

\* The pixel is added to the one blob that touches it.
LEMMA AddPixelConnects ==
    ASSUME DetectorInv, BlobsWillConnect, NEW p \in Pixels, NEW target \in Ids,
           NEW doppler \in BOOLEAN, AddPixel(p, target, doppler)
    PROVE  BlobsWillConnect'
<1> DEFINE c == <<spoke, p>>
<1>1. HangTogether(active_blobs[target].pixels \cup {c})
    BY AdjacentHangsTogether DEF AddPixel
<1>2. \A i \in Ids : i # target => HangTogether(active_blobs[i].pixels)
    BY WaitingIsAdjacent DEF AddPixel
<1>3. /\ Ids' = Ids
      /\ active_blobs'[target].pixels = active_blobs[target].pixels \cup {c}
      /\ \A i \in Ids : i # target => active_blobs'[i] = active_blobs[i]
    BY DEF AddPixel, DetectorInv, TypeOK
<1> HIDE DEF c
<1>4. \A i \in Ids' : active_blobs'[i].pixels # {} /\ HangTogether(active_blobs'[i].pixels)
    BY <1>1, <1>2, <1>3, Zenon DEF BlobsWillConnect
<1> QED
    BY <1>4, Zenon DEF BlobsWillConnect

\* Between two spokes every blob hangs together, whatever the order of spokes and
\* however many blobs a pixel joins: a merge never puts into one blob what the
\* pixel does not connect.
THEOREM BlobsConnected == Spec => []BlobsAreConnected
<1>1. Init => BlobsWillConnect
    BY DEF Init, BlobsWillConnect
<1>2. DetectorInv /\ BlobsWillConnect /\ [process_spoke]_vars => BlobsWillConnect'
  <2> SUFFICES ASSUME DetectorInv, BlobsWillConnect, [process_spoke]_vars
               PROVE  BlobsWillConnect'
      OBVIOUS
  <2>1. CASE UNCHANGED vars
      BY <2>1 DEF vars, BlobsWillConnect, HeldBy, NextPixel
  <2>2. CASE \E angle \in Spokes, strong \in SUBSET Pixels : Begin(angle, strong)
    <3>1. idle /\ active_blobs' = active_blobs
        BY <2>2, Zenon DEF Begin
    <3> QED
        BY <3>1, IdleHangsTogether DEF BlobsWillConnect
  <2>3. CASE \E p \in Pixels, doppler \in BOOLEAN : NewBlob(p, doppler)
      BY <2>3, NewBlobConnects
  <2>4. CASE \E p \in Pixels, doppler \in BOOLEAN :
                \E target \in Ids : AddPixel(p, target, doppler)
      BY <2>4, AddPixelConnects
  <2>5. CASE \E p \in Pixels, survivor, other \in Ids : Merge(p, survivor, other)
      BY <2>5, MergeConnects
  <2>6. CASE \E large \in SUBSET Finished : Complete(large)
    <3>1. /\ todo = {} /\ Ids' = Ids \ Finished
          /\ \A i \in Ids' : active_blobs'[i] = active_blobs[i]
        BY <2>6 DEF Complete
    <3> QED
        BY <3>1, IdleHangsTogether DEF BlobsWillConnect
  <2> QED
      BY <2>1, <2>2, <2>3, <2>4, <2>5, <2>6 DEF process_spoke
<1>3. BlobsWillConnect => BlobsAreConnected
    BY IdleHangsTogether DEF BlobsAreConnected
<1> QED
    BY <1>1, <1>2, <1>3, DetectorInvariance, PTL DEF Spec
=============================================================================
