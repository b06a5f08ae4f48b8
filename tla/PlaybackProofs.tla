---------------------------- MODULE PlaybackProofs ----------------------------
(* Proofs about Playback, for any recordings, speeds, positions and number of   *)
(* loads: the playback that is active is the only one that plays, it plays      *)
(* forward and, of a dense recording, every frame.  They rest on what MrrFile   *)
(* promises, which is proved first: a file stays Written frame by frame, and a  *)
(* seek in a file that is Written is exact, so in every file of RecordedFile.   *)
EXTENDS Playback, RecordedFile, WellFoundedInduction, FiniteSetTheorems, TLAPS

-------------------------------------------------------------------------------
\* Least and greatest.

\* A set of naturals has a least one.
LEMMA LeastExists ==
  ASSUME NEW S \in SUBSET Nat, S # {}
  PROVE  \E n \in S : \A m \in S : n <= m
  <1> DEFINE R == OpToRel(<, Nat)
  <1>1. IsWellFoundedOn(R, Nat)
    BY NatLessThanWellFounded, Zenon
  <1>2. \A x, y \in Nat : <<x, y>> \in R <=> x < y
    BY DEF OpToRel
  <1> HIDE DEF R
  <1>3. PICK n \in S : \A y \in S : <<y, n>> \notin R
    BY <1>1, WFMin, Zenon
  <1>4. n \in Nat /\ S \subseteq Nat
    OBVIOUS
  <1>5. \A m \in S : ~(m < n)
    BY <1>2, <1>3, <1>4, Zenon
  <1>6. \A m \in S : n <= m
    BY <1>4, <1>5
  <1>7. QED
    BY <1>6

\* A set of positions that holds with each one all before it counts up to its
\* last one.
LEMMA PrefixIsCounted ==
  ASSUME NEW n \in Nat, NEW S \in SUBSET (1 .. n), S # {},
         \A i \in S : \A j \in 1 .. i : j \in S
  PROVE  Cardinality(S) \in S
  <1> DEFINE Beyond == {m \in Nat : m + 1 \notin S}
  <1>1. Beyond \in SUBSET Nat /\ n \in Beyond
    OBVIOUS
  <1> HIDE DEF Beyond
  <1>2. PICK k \in Beyond : \A m \in Beyond : k <= m
    BY <1>1, LeastExists, Zenon
  <1>3. k \in Nat /\ k + 1 \notin S /\ \A m \in Nat : m < k => m + 1 \in S
    BY <1>1, <1>2 DEF Beyond
  <1>4. k # 0
    <2>1. PICK i \in S : TRUE
      BY Zenon
    <2>2. 1 \in S
      BY <2>1
    <2>3. QED
      BY <1>3, <2>2
  <1>5. \A j \in 1 .. k : j \in S
    <2> SUFFICES ASSUME NEW j \in 1 .. k PROVE j \in S
      OBVIOUS
    <2>1. j - 1 \in Nat /\ j - 1 < k /\ (j - 1) + 1 = j
      BY <1>3
    <2> QED
      BY <1>3, <2>1
  <1>6. ASSUME NEW j \in S PROVE j \in 1 .. k
    BY <1>3, <1>6
  <1>7. S = 1 .. k
    BY <1>5, <1>6, Zenon
  <1>8. Cardinality(1 .. k) = k
    BY <1>3, <1>4, FS_Interval
  <1>9. QED
    BY <1>3, <1>4, <1>7, <1>8

-------------------------------------------------------------------------------
\* The recording file.

\* The header alone is a file as Written says.
LEMMA EmptyFileIsWritten ==
  Written(EmptyFile)
  <1> DEFINE f == EmptyFile
  <1>1. f \in [frames : Seq(Nat), index : Seq([timestamp_ms : Nat, file_offset : Nat]),
               frames_since_index : Nat, finished : BOOLEAN]
    BY DEF EmptyFile
  <1>2. f.frames = <<>> /\ f.index = <<>>
    BY DEF EmptyFile
  <1> HIDE DEF f
  <1>3. Written(f)
    BY <1>1, <1>2 DEF Written
  <1>4. QED
    BY <1>3 DEF f

\* write_frame keeps it so, as long as the recorder's clock does not run backwards.
LEMMA FrameIsWritten ==
  ASSUME NEW w, Written(w), NEW ts \in Nat, \A p \in DOMAIN w.frames : w.frames[p] <= ts
  PROVE  Written(write_frame(w, ts))
  <1> DEFINE g == Append(w.frames, ts)
  <1> DEFINE entry == [timestamp_ms |-> ts, file_offset |-> Len(w.frames) + 1]
  <1> DEFINE j == IF w.frames_since_index >= IndexInterval THEN Append(w.index, entry) ELSE w.index
  <1> DEFINE n == IF w.frames_since_index >= IndexInterval THEN 1 ELSE w.frames_since_index + 1
  <1> DEFINE Entries == [timestamp_ms : Nat, file_offset : Nat]
  <1>1. /\ w \in [frames : Seq(Nat), index : Seq(Entries),
                  frames_since_index : Nat, finished : BOOLEAN]
        /\ \A p, q \in DOMAIN w.frames : p <= q => w.frames[p] <= w.frames[q]
        /\ \A i \in DOMAIN w.index :
              /\ w.index[i].file_offset \in DOMAIN w.frames
              /\ w.index[i].timestamp_ms = w.frames[w.index[i].file_offset]
    BY Zenon DEF Written
  <1>2. /\ w.frames \in Seq(Nat) /\ w.index \in Seq(Entries) /\ w.frames_since_index \in Nat
        /\ w.finished \in BOOLEAN
    BY <1>1
  <1>3. /\ g \in Seq(Nat) /\ DOMAIN g = DOMAIN w.frames \cup {Len(w.frames) + 1}
        /\ g[Len(w.frames) + 1] = ts /\ Len(w.frames) \in Nat
    BY <1>2
  <1>4. /\ \A p \in DOMAIN w.frames : g[p] = w.frames[p]
        /\ DOMAIN w.frames = 1 .. Len(w.frames)
    BY <1>2
  <1> HIDE DEF g
  <1>5. \A p, q \in DOMAIN g : p <= q => g[p] <= g[q]
    <2> SUFFICES ASSUME NEW p \in DOMAIN g, NEW q \in DOMAIN g, p <= q
                 PROVE  g[p] <= g[q]
      OBVIOUS
    <2>1. CASE q = Len(w.frames) + 1
      BY <1>3, <1>4, <2>1
    <2>2. CASE q # Len(w.frames) + 1
      <3>1. q \in DOMAIN w.frames /\ p \in DOMAIN w.frames
        BY <1>3, <1>4, <2>2
      <3>2. QED
        BY <1>1, <1>4, <3>1, Zenon
    <2>3. QED
      BY <2>1, <2>2
  <1>6. entry \in Entries /\ entry.file_offset \in DOMAIN g /\ entry.timestamp_ms = g[entry.file_offset]
    BY <1>3
  <1>7. \A i \in DOMAIN w.index :
           w.index[i].file_offset \in DOMAIN g /\ w.index[i].timestamp_ms = g[w.index[i].file_offset]
    BY <1>1, <1>3, <1>4, Zenon
  <1> HIDE DEF entry, Entries
  <1>8. /\ j \in Seq(Entries)
        /\ \A i \in DOMAIN j : j[i].file_offset \in DOMAIN g /\ j[i].timestamp_ms = g[j[i].file_offset]
    <2>1. CASE w.frames_since_index >= IndexInterval
      <3> DEFINE a == Append(w.index, entry)
      <3>1. /\ a \in Seq(Entries) /\ Len(w.index) \in Nat
            /\ DOMAIN w.index = 1 .. Len(w.index) /\ DOMAIN a = 1 .. Len(w.index) + 1
            /\ \A i \in 1 .. Len(w.index) : a[i] = w.index[i]
            /\ a[Len(w.index) + 1] = entry
        BY <1>2, <1>6
      <3>2. j = a
        BY <2>1, Zenon
      <3> HIDE DEF a, j
      <3>3. ASSUME NEW i \in DOMAIN a
            PROVE  a[i].file_offset \in DOMAIN g /\ a[i].timestamp_ms = g[a[i].file_offset]
        <4>1. CASE i = Len(w.index) + 1
          BY <1>6, <3>1, <4>1, Zenon
        <4>2. CASE i # Len(w.index) + 1
          <5>1. i \in 1 .. Len(w.index)
            BY <3>1, <4>2
          <5>2. QED
            BY <1>7, <3>1, <5>1, Zenon
        <4>3. QED
          BY <4>1, <4>2
      <3>4. QED
        BY <3>1, <3>2, <3>3, Zenon
    <2>2. CASE ~(w.frames_since_index >= IndexInterval)
      BY <1>2, <1>7, <2>2, Zenon
    <2>3. QED
      BY <2>1, <2>2
  <1>9. n \in Nat
    BY <1>2
  <1> HIDE DEF j, n
  <1> DEFINE f == write_frame(w, ts)
  <1>10. /\ f \in [frames : Seq(Nat), index : Seq(Entries),
                   frames_since_index : Nat, finished : BOOLEAN]
         /\ f.frames = g /\ f.index = j
    <2>1. f = [w EXCEPT !.frames = g, !.index = j, !.frames_since_index = n]
      BY Zenon DEF write_frame, g, j, n, entry
    <2>2. QED
      BY <1>1, <1>3, <1>8, <1>9, <2>1, Zenon
  <1> HIDE DEF f
  <1>11. Written(f)
    BY <1>5, <1>8, <1>10, Zenon DEF Written, Entries
  <1>12. QED
    BY <1>11 DEF f

\* finish changes neither frames nor index.
LEMMA FinishedIsWritten ==
  ASSUME NEW f, Written(f)
  PROVE  Written(finish(f))
  <1> DEFINE g == finish(f)
  <1>1. PICK done \in BOOLEAN : done
    BY Zenon
  <1>2. g = [f EXCEPT !.finished = done]
    BY <1>1 DEF finish
  <1>3. /\ g \in [frames : Seq(Nat), index : Seq([timestamp_ms : Nat, file_offset : Nat]),
                  frames_since_index : Nat, finished : BOOLEAN]
        /\ g.frames = f.frames /\ g.index = f.index
    BY <1>2, Zenon DEF Written
  <1> HIDE DEF g
  <1>4. Written(g)
    BY <1>3, Zenon DEF Written
  <1>5. QED
    BY <1>4 DEF g

\* Where a seek starts: at the first frame, or at a frame of the index that is
\* not later than the target.
LEMMA StartIsBefore ==
  ASSUME NEW f, Written(f), NEW target \in Nat
  PROVE  LET start == IndexedStart(f, target)
         IN  \/ start = 1
             \/ start \in DOMAIN f.frames /\ f.frames[start] <= target
  <1> DEFINE hits == EntriesUpTo(f, target)
  <1>1. /\ f.index \in Seq([timestamp_ms : Nat, file_offset : Nat])
        /\ \A i \in DOMAIN f.index :
              /\ f.index[i].file_offset \in DOMAIN f.frames
              /\ f.index[i].timestamp_ms = f.frames[f.index[i].file_offset]
    BY Zenon DEF Written
  <1>2. Len(f.index) \in Nat /\ DOMAIN f.index = 1 .. Len(f.index)
    BY <1>1
  <1>3. hits \in SUBSET (1 .. Len(f.index))
    BY <1>2, Zenon DEF EntriesUpTo
  <1>4. ASSUME NEW i \in hits, NEW j \in 1 .. i PROVE j \in hits
    BY <1>2, <1>3, SMTT(30) DEF EntriesUpTo
  <1>5. \A i \in hits : f.index[i].timestamp_ms <= target
    <2> SUFFICES ASSUME NEW i \in hits PROVE f.index[i].timestamp_ms <= target
      OBVIOUS
    <2>1. i \in 1 .. i
      BY <1>2, <1>3
    <2>2. QED
      BY <2>1, Zenon DEF EntriesUpTo
  <1>6. CASE hits = {}
    BY <1>6, Zenon DEF IndexedStart, FirstFrame
  <1>7. CASE hits # {}
    <2> HIDE DEF hits
    <2>1. Cardinality(hits) \in hits
      BY <1>2, <1>3, <1>4, <1>7, PrefixIsCounted, Zenon
    <2>2. IndexedStart(f, target) = f.index[Cardinality(hits)].file_offset
      BY <1>7, Zenon DEF IndexedStart, hits
    <2>3. Cardinality(hits) \in DOMAIN f.index
      BY <1>2, <1>3, <2>1, Zenon
    <2>4. QED
      BY <1>1, <1>5, <2>1, <2>2, <2>3, SMTT(30)
  <1>8. QED
    BY <1>6, <1>7

\* seek_to_timestamp is exact in every file that is Written, whatever its index
\* interval and its frames.
THEOREM SeekIsAlwaysExact ==
  ASSUME NEW f, Written(f), NEW target \in Nat
  PROVE  SeekIsExactAt(f, target)
  <1> DEFINE start == IndexedStart(f, target)
  <1> DEFINE ahead == {p \in start .. Len(f.frames) : f.frames[p] >= target}
  <1> DEFINE p == seek_to_timestamp(f, target)
  <1>1. /\ f.frames \in Seq(Nat)
        /\ \A i, j \in DOMAIN f.frames : i <= j => f.frames[i] <= f.frames[j]
    BY Zenon DEF Written
  <1>2. /\ Len(f.frames) \in Nat /\ DOMAIN f.frames = 1 .. Len(f.frames)
        /\ \A i \in DOMAIN f.frames : f.frames[i] \in Nat
        /\ EndOfFrames(f) = Len(f.frames) + 1
    BY <1>1 DEF EndOfFrames
  <1>3. start = 1 \/ (start \in DOMAIN f.frames /\ f.frames[start] <= target)
    BY StartIsBefore, Zenon
  <1> HIDE DEF start
  <1>4. start \in Nat /\ start >= 1
    BY <1>2, <1>3
  <1>5. \A i \in DOMAIN f.frames : i < start => f.frames[i] <= target /\ f.frames[i] <= f.frames[start]
    <2> SUFFICES ASSUME NEW i \in DOMAIN f.frames, i < start
                 PROVE  f.frames[i] <= target /\ f.frames[i] <= f.frames[start]
      OBVIOUS
    <2>1. start \in DOMAIN f.frames /\ f.frames[start] <= target
      BY <1>2, <1>3
    <2>a. i <= start
      BY <1>2, <1>4
    <2>2. f.frames[i] <= f.frames[start]
      BY <1>1, <2>1, <2>a, Zenon
    <2>3. f.frames[i] \in Nat /\ f.frames[start] \in Nat
      BY <1>2, <2>1, Zenon
    <2>4. QED
      BY <2>1, <2>2, <2>3
  <1>6. CASE ahead = {}
    <2>1. p = Len(f.frames) + 1
      BY <1>2, <1>6, Zenon DEF seek_to_timestamp, start
    <2>2. ASSUME NEW i \in DOMAIN f.frames PROVE f.frames[i] < target
      <3>1. \A k \in DOMAIN f.frames : k >= start => f.frames[k] < target
        BY <1>2, <1>4, <1>6
      <3>2. QED
        BY <1>2, <1>3, <1>4, <1>5, <3>1
    <2> HIDE DEF p
    <2>3. QED
      BY <1>2, <2>1, <2>2 DEF SeekIsExactAt, p
  <1>7. CASE ahead # {}
    <2>1. p = CHOOSE q \in ahead : \A r \in ahead : q <= r
      BY <1>7, Zenon DEF seek_to_timestamp, start
    <2>2. ahead \in SUBSET Nat
      BY <1>2, <1>4
    <2>3. p \in ahead /\ \A r \in ahead : p <= r
      <3> HIDE DEF ahead, p
      <3>1. \E q \in ahead : \A r \in ahead : q <= r
        BY <1>7, <2>2, LeastExists, Zenon
      <3>2. QED
        BY <2>1, <3>1, Zenon
    <2> HIDE DEF p
    <2>4. p \in DOMAIN f.frames /\ p >= start /\ p \in Nat /\ f.frames[p] >= target
      BY <1>2, <1>4, <2>3
    <2>5. \A q \in DOMAIN f.frames : q >= start /\ f.frames[q] >= target => p <= q
      BY <1>2, <1>4, <2>3
    <2>6. ASSUME NEW q \in 1 .. p - 1 PROVE f.frames[q] <= target
      <3>1. q \in DOMAIN f.frames /\ ~(p <= q) /\ q \in Nat
        BY <1>2, <2>4
      <3>2. CASE q < start
        BY <1>5, <3>1, <3>2
      <3>3. CASE q >= start
        BY <1>2, <2>5, <3>1, <3>3
      <3>4. QED
        BY <1>4, <3>1, <3>2, <3>3
    <2>7. ASSUME NEW q \in DOMAIN f.frames, f.frames[q] = target PROVE f.frames[p] = target
      <3>1. CASE q < start
        <4>1. start \in DOMAIN f.frames /\ f.frames[start] = target
          BY <1>2, <1>3, <1>4, <1>5, <2>7, <3>1
        <4>2. p = start
          BY <1>2, <1>4, <2>4, <2>5, <4>1
        <4>3. QED
          BY <4>1, <4>2
      <3>2. CASE q >= start
        <4>1. p <= q
          BY <1>2, <2>5, <2>7, <3>2
        <4>2. f.frames[p] <= f.frames[q]
          BY <1>1, <2>4, <4>1, Zenon
        <4>3. QED
          BY <1>2, <2>4, <2>7, <4>2
      <3>3. QED
        BY <1>2, <1>4, <3>1, <3>2
    <2>8. p \in 1 .. EndOfFrames(f) /\ p # EndOfFrames(f)
      BY <1>2, <2>4
    <2>9. QED
      BY <2>4, <2>6, <2>7, <2>8, Zenon DEF SeekIsExactAt, p
  <1>8. QED
    BY <1>6, <1>7

\* A file is Written after every frame of a recorder and after its finish, and then
\* every seek in it is exact (write_frame, finish, seek_to_timestamp), for any
\* number of frames, any times and any index interval.
THEOREM SeeksStayExact ==
  RecordedFileSpec => []SeekIsExact
  <1>1. RecordedFileInit => Written(file)
    BY EmptyFileIsWritten, Zenon DEF RecordedFileInit
  <1>2. Written(file) /\ [RecordedFileNext]_file => Written(file)'
    <2> SUFFICES ASSUME Written(file), [RecordedFileNext]_file
                 PROVE  Written(file')
      BY DEF Written
    <2>1. CASE Record
      <3>1. PICK ts \in Times : /\ file.frames # <<>> => ts >= file.frames[Len(file.frames)]
                                /\ file' = write_frame(file, ts)
        BY <2>1, Zenon DEF Record
      <3>2. ts \in Nat
        BY BoundsAssumption DEF Times
      <3>3. /\ file.frames \in Seq(Nat)
            /\ \A p, q \in DOMAIN file.frames : p <= q => file.frames[p] <= file.frames[q]
        BY Zenon DEF Written
      <3>4. ASSUME NEW p \in DOMAIN file.frames
            PROVE  file.frames[p] <= ts
        <4> DEFINE last == Len(file.frames)
        <4>1. /\ last \in DOMAIN file.frames /\ p <= last /\ file.frames # <<>>
              /\ file.frames[p] \in Nat /\ file.frames[last] \in Nat
          BY <3>3
        <4>2. file.frames[p] <= file.frames[last] /\ ts >= file.frames[last]
          BY <3>1, <3>3, <4>1, Zenon
        <4>3. QED
          BY <3>2, <4>1, <4>2
      <3>5. Written(write_frame(file, ts))
        BY <3>2, <3>4, FrameIsWritten, Zenon
      <3>6. QED
        BY <3>1, <3>5, Zenon
    <2>2. CASE Finish
      BY <2>2, FinishedIsWritten, Zenon DEF Finish
    <2>3. CASE file' = file
      BY <2>3
    <2>4. QED
      BY <2>1, <2>2, <2>3, Zenon DEF RecordedFileNext
  <1>3. Written(file) => SeekIsExact
    <2> SUFFICES ASSUME Written(file) PROVE SeekIsExact
      OBVIOUS
    <2>1. \A target \in Times : target \in Nat
      BY BoundsAssumption DEF Times
    <2>2. \A target \in Times : SeekIsExactAt(file, target)
      BY <2>1, SeekIsAlwaysExact, Zenon
    <2>3. QED
      BY <2>2, Zenon DEF SeekIsExact
  <1>4. QED
    BY <1>1, <1>2, <1>3, PTL DEF RecordedFileSpec

-------------------------------------------------------------------------------
\* The clock of a task.

\* At 1.0x or faster a frame that is one unit later is due at most one unit later.
LEMMA DueNextUnit ==
  ASSUME NEW x \in Nat, NEW y \in Nat, y <= x + 1, NEW s \in Nat, s >= 100
  PROVE  (y * 100) \div s <= (x * 100) \div s + 1
  OBVIOUS

\* A higher speed makes no frame due later.
LEMMA DueEarlier ==
  ASSUME NEW x \in Nat, NEW s \in Nat, s > 0, NEW t \in Nat, s <= t
  PROVE  (x * 100) \div t <= (x * 100) \div s
  OBVIOUS

-------------------------------------------------------------------------------
\* The inductive invariant.

\* What settings_handler clamps a speed to.
Rates == 10 .. 1000

Tasks ==
    [pc : {"unborn", "top", "open", "inner", "read", "send", "after", "exit", "done"},
     recording : Recordings, stop_flag : BOOLEAN, pause_flag : BOOLEAN,
     loop_playback : BOOLEAN, speed : Rates, seek_target : Nat \cup {NoTime},
     state : {"loaded", "playing", "paused", "stopped"}, position_ms : Nat, pos : Nat,
     first_frame_ts : Nat \cup {NoTime}, elapsed : Nat, late : Nat, jumped : BOOLEAN,
     skipped : BOOLEAN, slow : BOOLEAN]

Frames(t) == File[t.recording].frames

\* The reader is within the file, and has read a frame that is to be sent.
InFile(t) ==
    /\ t.pos \in 1 .. Len(Frames(t)) + 1
    /\ t.pc = "send" => t.pos > 1

\* A frame that was sent after a stop or a pause was the one in hand: the task
\* has then left the part of the loop that leads to another.
Halts(t) ==
    /\ t.late <= 1
    /\ t.late = 1 /\ (t.stop_flag \/ t.pause_flag) => t.pc \notin {"read", "send"}

\* Unless the task has jumped, the frame it comes to is not before its position.
Forward(t) ==
    ~t.jumped =>
        /\ t.pc \in {"inner", "read"} /\ t.pos <= Len(Frames(t))
              => Frames(t)[t.pos] >= t.position_ms
        /\ t.pc = "send" => Frames(t)[t.pos - 1] >= t.position_ms

\* In a dense recording that was not slowed down the last frame read is not due
\* later than now, so that the next one is due at most one unit from now.
OnTime(t) ==
    Dense(File[t.recording]) /\ ~t.slow =>
        /\ ~t.skipped
        /\ t.speed >= 100
        /\ t.pc \in {"inner", "read", "send"} /\ t.first_frame_ts # NoTime =>
              /\ t.pos > 1
              /\ t.first_frame_ts <= Frames(t)[t.pos - 1]
              /\ ((Frames(t)[t.pos - 1] - t.first_frame_ts) * 100) \div t.speed <= t.elapsed

TaskInv(t) == t \in Tasks /\ InFile(t) /\ Halts(t) /\ Forward(t) /\ OnTime(t)

\* One step of a task or of a handler on it, from t to u.
StepOf(t, u) ==
    /\ TaskInv(u)
    /\ u.recording = t.recording /\ u.pc # "unborn"
    /\ t.stop_flag => u.stop_flag
    /\ u.position_ms >= t.position_ms \/ t.jumped

\* What a player opens.
LEMMA FilesAreWritten ==
  ASSUME NEW r \in Recordings
  PROVE  Written(File[r])
  BY PlaybackAssumption, FinishedIsWritten, Zenon DEF File

\* The fields of a task.
LEMMA TaskFields ==
  ASSUME NEW t \in Tasks
  PROVE  /\ t.recording \in Recordings /\ t.stop_flag \in BOOLEAN /\ t.pause_flag \in BOOLEAN
         /\ t.loop_playback \in BOOLEAN /\ t.speed \in Rates /\ t.speed \in Nat
         /\ t.seek_target \in Nat \cup {NoTime} /\ t.position_ms \in Nat /\ t.pos \in Nat
         /\ t.first_frame_ts \in Nat \cup {NoTime} /\ t.elapsed \in Nat /\ t.late \in Nat
         /\ t.jumped \in BOOLEAN /\ t.skipped \in BOOLEAN /\ t.slow \in BOOLEAN
  <1>1. \A v \in Rates : v \in Nat
    BY DEF Rates
  <1>2. t.speed \in Rates
    BY Zenon DEF Tasks
  <1>3. QED
    BY <1>1, <1>2, Zenon DEF Tasks

\* The frames of a recording are naturals in order.
LEMMA FramesTyped ==
  ASSUME NEW t \in Tasks
  PROVE  /\ Frames(t) \in Seq(Nat) /\ Len(Frames(t)) \in Nat
         /\ DOMAIN Frames(t) = 1 .. Len(Frames(t))
         /\ \A p \in 1 .. Len(Frames(t)) : Frames(t)[p] \in Nat
         /\ \A p, q \in 1 .. Len(Frames(t)) : p <= q => Frames(t)[p] <= Frames(t)[q]
         /\ EndOfFrames(File[t.recording]) = Len(Frames(t)) + 1
  <1>1. t.recording \in Recordings
    BY DEF Tasks, Rates
  <1>2. Written(File[t.recording])
    BY <1>1, FilesAreWritten, Zenon
  <1>3. Frames(t) \in Seq(Nat) /\ \A p, q \in DOMAIN Frames(t) : p <= q => Frames(t)[p] <= Frames(t)[q]
    BY <1>2, Zenon DEF Written, Frames
  <1>4. EndOfFrames(File[t.recording]) = Len(Frames(t)) + 1
    BY Zenon DEF EndOfFrames, Frames
  <1>5. QED
    BY <1>3, <1>4

\* The fields of a task, each with its type.
LEMMA FieldsTyped ==
  ASSUME NEW t \in Tasks
  PROVE  /\ t.position_ms \in Nat /\ t.pos \in Nat /\ t.elapsed \in Nat /\ t.late \in Nat
         /\ t.speed \in Rates /\ t.speed \in Nat \ {0}
         /\ t.first_frame_ts # NoTime => t.first_frame_ts \in Nat
  <1>1. t.speed \in Rates
    BY DEF Tasks
  <1>2. t.speed \in Nat \ {0}
    <2>1. \A s \in Rates : s \in Nat \ {0}
      BY DEF Rates
    <2>2. QED
      BY <1>1, <2>1, Zenon
  <1>3. QED
    BY <1>1, <1>2 DEF Tasks

\* Only where the reader is, the clock and the flags matter: a step to a part of
\* the task outside the inner loop keeps the invariant.
LEMMA OutsideKeeps ==
  ASSUME NEW t, TaskInv(t), NEW u \in Tasks,
         u.pc \in {"top", "open", "after", "exit", "done"},
         u.recording = t.recording, u.pos = t.pos, u.position_ms = t.position_ms,
         u.late <= 1, u.skipped = t.skipped, u.speed = t.speed, u.slow = t.slow,
         t.stop_flag => u.stop_flag
  PROVE  StepOf(t, u)
  <1>1. Frames(u) = Frames(t) /\ File[u.recording] = File[t.recording]
    BY DEF Frames
  <1>2. InFile(u)
    BY <1>1 DEF TaskInv, InFile
  <1>3. Halts(u)
    BY DEF Halts
  <1>4. Forward(u)
    BY DEF Forward
  <1>5. OnTime(u)
    BY <1>1 DEF TaskInv, OnTime
  <1>6. u.position_ms >= t.position_ms
    BY TaskFields DEF TaskInv
  <1>7. QED
    BY <1>2, <1>3, <1>4, <1>5, <1>6 DEF StepOf, TaskInv

\* The head of the outer loop.
LEMMA TopKeeps ==
  ASSUME NEW l \in Loads, TaskInv(task[l]), Top(l)
  PROVE  \E u : Become(l, u) /\ StepOf(task[l], u)
  <1> DEFINE t == task[l]
  <1> DEFINE u == IF t.stop_flag THEN [t EXCEPT !.pc = "exit"]
                  ELSE IF t.pause_flag
                       THEN [t EXCEPT !.state = IF @ = "playing" THEN "paused" ELSE @]
                       ELSE [t EXCEPT !.pc = "open", !.state = "playing"]
  <1>1. Become(l, u) /\ t.pc = "top"
    BY Zenon DEF Top
  <1>2. t \in Tasks /\ t.late <= 1
    BY DEF TaskInv, Halts
  <1> HIDE DEF t
  <1>3. /\ u \in Tasks /\ u.pc \in {"top", "open", "exit"}
        /\ u.recording = t.recording /\ u.pos = t.pos /\ u.position_ms = t.position_ms
        /\ u.late = t.late /\ u.skipped = t.skipped /\ u.speed = t.speed /\ u.slow = t.slow
        /\ u.stop_flag = t.stop_flag
    BY <1>1, <1>2, ZenonT(40) DEF Tasks
  <1> HIDE DEF u
  <1>4. StepOf(t, u)
    BY <1>2, <1>3, OutsideKeeps DEF t
  <1>5. QED
    BY <1>1, <1>4 DEF t

\* The steps that leave the inner loop or the task: flags, end of file, error.
LEMMA LeaveKeeps ==
  ASSUME NEW l \in Loads, TaskInv(task[l]), NEW place \in {"top", "after", "exit"},
         NEW u, u = [task[l] EXCEPT !.pc = place]
  PROVE  StepOf(task[l], u)
  <1> DEFINE t == task[l]
  <1>1. t \in Tasks /\ t.late <= 1
    BY DEF TaskInv, Halts
  <1>2. u = [t EXCEPT !.pc = place]
    OBVIOUS
  <1> HIDE DEF t
  <1>3. /\ u \in Tasks /\ u.pc = place
        /\ u.recording = t.recording /\ u.pos = t.pos /\ u.position_ms = t.position_ms
        /\ u.late = t.late /\ u.skipped = t.skipped /\ u.speed = t.speed /\ u.slow = t.slow
        /\ u.stop_flag = t.stop_flag
    BY <1>1, <1>2, Zenon DEF Tasks
  <1>4. StepOf(t, u)
    BY <1>1, <1>3, OutsideKeeps, ZenonT(40) DEF t
  <1>5. QED
    BY <1>4 DEF t

\* The frame loop is left for a stop, a pause or a seek, or by a read that fails.
LEMMA InterruptKeeps ==
  ASSUME NEW l \in Loads, TaskInv(task[l]), Interrupt(l) \/ ReadFails(l)
  PROVE  \E u : Become(l, u) /\ StepOf(task[l], u)
  BY LeaveKeeps, Zenon DEF Interrupt, ReadFails

\* After the frame loop: the task ends, or starts over.
LEMMA AfterKeeps ==
  ASSUME NEW l \in Loads, TaskInv(task[l]), After(l)
  PROVE  \E u : Become(l, u) /\ StepOf(task[l], u)
  <1> DEFINE t == task[l]
  <1> DEFINE place == IF t.stop_flag \/ (~t.pause_flag /\ ~t.loop_playback) THEN "exit" ELSE "top"
  <1>1. Become(l, [t EXCEPT !.pc = place]) /\ place \in {"top", "after", "exit"}
    BY Zenon DEF After
  <1>2. QED
    BY <1>1, LeaveKeeps, Zenon

\* The end of the task: its flag says so too.
LEMMA ExitKeeps ==
  ASSUME NEW l \in Loads, TaskInv(task[l]), Exit(l)
  PROVE  \E u : Become(l, u) /\ StepOf(task[l], u)
  <1> DEFINE t == task[l]
  <1> DEFINE s == StopFlag(t)
  <1> DEFINE u == [s EXCEPT !.pc = "done", !.state = "stopped"]
  <1>1. Become(l, u)
    BY Zenon DEF Exit
  <1>2. t \in Tasks /\ t.late <= 1 /\ t.late \in Nat
    BY TaskFields DEF TaskInv, Halts
  <1> HIDE DEF t
  <1> DEFINE n == IF t.stop_flag THEN t.late ELSE 0
  <1>3. PICK yes \in BOOLEAN : yes
    BY Zenon
  <1>4. s = [t EXCEPT !.stop_flag = yes, !.late = n]
    BY <1>3, Zenon DEF StopFlag
  <1>5. n \in Nat /\ n <= 1
    BY <1>2
  <1> HIDE DEF s, n
  <1>6. /\ u \in Tasks /\ u.pc = "done"
        /\ u.recording = t.recording /\ u.pos = t.pos /\ u.position_ms = t.position_ms
        /\ u.late = n /\ u.skipped = t.skipped /\ u.speed = t.speed /\ u.slow = t.slow
        /\ u.stop_flag = yes
    <2>1. /\ s \in Tasks
          /\ s.recording = t.recording /\ s.pos = t.pos /\ s.position_ms = t.position_ms
          /\ s.late = n /\ s.skipped = t.skipped /\ s.speed = t.speed /\ s.slow = t.slow
          /\ s.stop_flag = yes
      BY <1>2, <1>3, <1>4, <1>5, Zenon DEF Tasks
    <2>2. QED
      BY <2>1, Zenon DEF Tasks
  <1> HIDE DEF u
  <1>7. StepOf(t, u)
    BY <1>2, <1>3, <1>5, <1>6, OutsideKeeps, Zenon DEF t
  <1>8. QED
    BY <1>1, <1>7 DEF t

\* A task that goes on in the inner loop with its clock restarted keeps the
\* invariant when it has jumped, or when the frame ahead is not before its position.
LEMMA RestartKeeps ==
  ASSUME NEW t, TaskInv(t), NEW u \in Tasks,
         u.pc = "inner", u.first_frame_ts = NoTime,
         u.recording = t.recording, u.position_ms = t.position_ms,
         u.pos \in 1 .. Len(Frames(t)) + 1,
         ~u.jumped /\ u.pos <= Len(Frames(t)) => Frames(t)[u.pos] >= t.position_ms,
         u.late = t.late, u.skipped = t.skipped, u.speed = t.speed, u.slow = t.slow,
         u.stop_flag = t.stop_flag
  PROVE  StepOf(t, u)
  <1>1. Frames(u) = Frames(t) /\ File[u.recording] = File[t.recording]
    BY DEF Frames
  <1>2. InFile(u)
    BY <1>1 DEF InFile
  <1>3. Halts(u)
    BY DEF Halts, TaskInv
  <1>4. Forward(u)
    BY <1>1 DEF Forward
  <1>5. OnTime(u)
    BY <1>1 DEF TaskInv, OnTime
  <1>6. u.position_ms >= t.position_ms
    BY TaskFields DEF TaskInv
  <1>7. QED
    BY <1>2, <1>3, <1>4, <1>5, <1>6 DEF StepOf, TaskInv

\* Where seek_to_timestamp puts the reader.
LEMMA SeekLands ==
  ASSUME NEW t \in Tasks, NEW target \in Nat
  PROVE  LET p == seek_to_timestamp(File[t.recording], target)
         IN  /\ p \in 1 .. Len(Frames(t)) + 1
             /\ p <= Len(Frames(t)) => Frames(t)[p] >= target
  <1> DEFINE p == seek_to_timestamp(File[t.recording], target)
  <1>1. t.recording \in Recordings
    BY TaskFields
  <1>2. SeekIsExactAt(File[t.recording], target)
    BY <1>1, FilesAreWritten, SeekIsAlwaysExact, Zenon
  <1>3. /\ p \in 1 .. EndOfFrames(File[t.recording])
        /\ p \in DOMAIN Frames(t) => Frames(t)[p] >= target
    BY <1>2, Zenon DEF SeekIsExactAt, Frames
  <1> HIDE DEF p
  <1>4. QED
    BY <1>3, FramesTyped DEF p

\* A resume goes on at the position, unless a seek was asked for meanwhile.
LEMMA OpenKeeps ==
  ASSUME NEW l \in Loads, TaskInv(task[l]), Open(l)
  PROVE  \E u : Become(l, u) /\ StepOf(task[l], u)
  <1> DEFINE t == task[l]
  <1> DEFINE to == IF t.seek_target # NoTime THEN t.seek_target ELSE t.position_ms
  <1> DEFINE place == IF to > 0 THEN seek_to_timestamp(File[t.recording], to) ELSE FirstFrame
  <1> DEFINE jump == (t.jumped \/ t.seek_target # NoTime)
  <1> DEFINE v == [t EXCEPT !.pc = "inner", !.seek_target = NoTime, !.pos = place,
                            !.jumped = jump, !.first_frame_ts = NoTime, !.elapsed = 0]
  <1>1. CASE t.recording \notin present
    BY <1>1, LeaveKeeps, Zenon DEF Open
  <1>2. CASE t.recording \in present
    <2>1. Become(l, v)
      BY <1>2, Zenon DEF Open
    <2>2. t \in Tasks /\ TaskInv(t)
      BY DEF TaskInv
    <2> HIDE DEF t
    <2>3. to \in Nat /\ jump \in BOOLEAN /\ (~jump => to = t.position_ms)
      BY <2>2, TaskFields
    <2> HIDE DEF to, jump
    <2>4. /\ place \in 1 .. Len(Frames(t)) + 1 /\ place \in Nat
          /\ place <= Len(Frames(t)) => Frames(t)[place] >= to
      <3>1. CASE to > 0
        <4>1. place = seek_to_timestamp(File[t.recording], to)
          BY <3>1, Zenon
        <4>2. /\ place \in 1 .. Len(Frames(t)) + 1
              /\ place <= Len(Frames(t)) => Frames(t)[place] >= to
          BY <2>2, <2>3, <4>1, SeekLands, Zenon
        <4> HIDE DEF place
        <4>3. Len(Frames(t)) \in Nat
          BY <2>2, FramesTyped, Zenon
        <4>4. place \in Nat
          BY <4>2, <4>3
        <4>5. QED
          BY <4>2, <4>4
      <3>2. CASE ~(to > 0)
        BY <2>2, <2>3, <3>2, FramesTyped DEF FirstFrame
      <3>3. QED
        BY <3>1, <3>2
    <2> HIDE DEF place
    <2>5. /\ v \in Tasks /\ v.pc = "inner" /\ v.first_frame_ts = NoTime
          /\ v.recording = t.recording /\ v.position_ms = t.position_ms
          /\ v.pos = place /\ v.jumped = jump /\ v.late = t.late /\ v.skipped = t.skipped
          /\ v.speed = t.speed /\ v.slow = t.slow /\ v.stop_flag = t.stop_flag
      BY <2>2, <2>3, <2>4, Zenon DEF Tasks
    <2> HIDE DEF v
    <2>6. ~v.jumped /\ v.pos <= Len(Frames(t)) => Frames(t)[v.pos] >= t.position_ms
      BY <2>3, <2>4, <2>5
    <2>7. StepOf(t, v)
      BY <2>2, <2>4, <2>5, <2>6, RestartKeeps, Zenon
    <2>8. QED
      BY <2>1, <2>7 DEF t
  <1>3. QED
    BY <1>1, <1>2

\* A seek, or the rewind of a looped playback: the task jumps.
LEMMA JumpKeeps ==
  ASSUME NEW t, TaskInv(t), NEW place \in 1 .. Len(Frames(t)) + 1,
         NEW target \in Nat \cup {NoTime}, NEW yes \in BOOLEAN, yes
  PROVE  StepOf(t, [t EXCEPT !.pc = "inner", !.pos = place, !.seek_target = target,
                             !.jumped = yes, !.first_frame_ts = NoTime, !.elapsed = 0])
  <1> DEFINE v == [t EXCEPT !.pc = "inner", !.pos = place, !.seek_target = target,
                            !.jumped = yes, !.first_frame_ts = NoTime, !.elapsed = 0]
  <1>1. t \in Tasks /\ place \in Nat
    BY FramesTyped DEF TaskInv
  <1>2. /\ v \in Tasks /\ v.pc = "inner" /\ v.first_frame_ts = NoTime
        /\ v.recording = t.recording /\ v.position_ms = t.position_ms
        /\ v.pos = place /\ v.jumped = yes /\ v.late = t.late /\ v.skipped = t.skipped
        /\ v.speed = t.speed /\ v.slow = t.slow /\ v.stop_flag = t.stop_flag
    BY <1>1, Zenon DEF Tasks
  <1> HIDE DEF v
  <1>3. StepOf(t, v)
    BY <1>2, RestartKeeps, Zenon
  <1>4. QED
    BY <1>3 DEF v

\* A seek goes to a frame boundary and starts the clock again.
LEMMA SeekKeeps ==
  ASSUME NEW l \in Loads, TaskInv(task[l]), Seek(l)
  PROVE  \E u : Become(l, u) /\ StepOf(task[l], u)
  <1> DEFINE t == task[l]
  <1> DEFINE place == seek_to_timestamp(File[t.recording], t.seek_target)
  <1>1. PICK yes \in BOOLEAN : yes
    BY Zenon
  <1>2. t.seek_target # NoTime /\ t.pc = "inner"
    BY DEF Seek, Reading
  <1>3. t \in Tasks /\ TaskInv(t)
    BY DEF TaskInv
  <1> DEFINE v == [t EXCEPT !.pc = "inner", !.pos = place, !.seek_target = NoTime,
                            !.jumped = yes, !.first_frame_ts = NoTime, !.elapsed = 0]
  <1>4. Become(l, v)
    <2>1. v = [t EXCEPT !.pos = place, !.seek_target = NoTime,
                        !.jumped = TRUE, !.first_frame_ts = NoTime, !.elapsed = 0]
      BY <1>1, <1>2, <1>3, Zenon DEF Tasks
    <2>2. QED
      BY <2>1, Zenon DEF Seek
  <1> HIDE DEF t
  <1>5. t.seek_target \in Nat
    BY <1>2, <1>3, TaskFields
  <1>6. place \in 1 .. Len(Frames(t)) + 1
    BY <1>3, <1>5, SeekLands, Zenon
  <1> HIDE DEF place
  <1>7. StepOf(t, v)
    BY <1>1, <1>3, <1>6, JumpKeeps, Zenon
  <1>8. QED
    BY <1>4, <1>7 DEF t

\* The end of the file: the task leaves the loop, or rewinds.
LEMMA EndOfFileKeeps ==
  ASSUME NEW l \in Loads, TaskInv(task[l]), EndOfFile(l)
  PROVE  \E u : Become(l, u) /\ StepOf(task[l], u)
  <1> DEFINE t == task[l]
  <1>1. CASE ~t.loop_playback
    BY <1>1, LeaveKeeps, Zenon DEF EndOfFile
  <1>2. CASE t.loop_playback
    <2>1. PICK yes \in BOOLEAN : yes
      BY Zenon
    <2>2. t \in Tasks /\ TaskInv(t)
      BY DEF TaskInv
    <2> DEFINE v == [t EXCEPT !.pc = "inner", !.pos = FirstFrame, !.seek_target = t.seek_target,
                              !.jumped = yes, !.first_frame_ts = NoTime, !.elapsed = 0]
    <2>3. Become(l, v)
      <3>1. v = [t EXCEPT !.pc = "inner", !.pos = FirstFrame,
                          !.jumped = TRUE, !.first_frame_ts = NoTime, !.elapsed = 0]
        BY <2>1, <2>2, Zenon DEF Tasks
      <3>2. QED
        BY <1>2, <3>1, Zenon DEF EndOfFile
    <2> HIDE DEF t
    <2>4. t.seek_target \in Nat \cup {NoTime} /\ FirstFrame \in 1 .. Len(Frames(t)) + 1
      BY <2>2, FramesTyped, TaskFields DEF FirstFrame
    <2>5. StepOf(t, v)
      BY <2>1, <2>2, <2>4, JumpKeeps, Zenon
    <2>6. QED
      BY <2>3, <2>5 DEF t
  <1>3. QED
    BY <1>1, <1>2

\* Between the checks and the read the flags were seen to be down.
LEMMA PollKeeps ==
  ASSUME NEW l \in Loads, TaskInv(task[l]), Poll(l)
  PROVE  \E u : Become(l, u) /\ StepOf(task[l], u)
  <1> DEFINE t == task[l]
  <1> DEFINE u == [t EXCEPT !.pc = "read"]
  <1>1. Become(l, u) /\ t.pc = "inner" /\ ~t.stop_flag /\ ~t.pause_flag
    BY Zenon DEF Poll, Reading
  <1>2. t \in Tasks /\ TaskInv(t)
    BY DEF TaskInv
  <1> HIDE DEF t
  <1>3. /\ u \in Tasks /\ u.pc = "read" /\ u.first_frame_ts = t.first_frame_ts
        /\ u.recording = t.recording /\ u.position_ms = t.position_ms
        /\ u.pos = t.pos /\ u.jumped = t.jumped /\ u.late = t.late /\ u.skipped = t.skipped
        /\ u.speed = t.speed /\ u.slow = t.slow /\ u.stop_flag = t.stop_flag
        /\ u.pause_flag = t.pause_flag /\ u.elapsed = t.elapsed
    BY <1>2, Zenon DEF Tasks
  <1> HIDE DEF u
  <1>4. Frames(u) = Frames(t) /\ File[u.recording] = File[t.recording]
    BY <1>3 DEF Frames
  <1>5. InFile(u)
    BY <1>2, <1>3, <1>4 DEF TaskInv, InFile
  <1>6. Halts(u)
    BY <1>1, <1>2, <1>3 DEF TaskInv, Halts
  <1>7. Forward(u)
    BY <1>1, <1>2, <1>3, <1>4 DEF TaskInv, Forward
  <1>8. OnTime(u)
    BY <1>1, <1>2, <1>3, <1>4 DEF TaskInv, OnTime
  <1>9. u.position_ms >= t.position_ms
    BY <1>2, <1>3, TaskFields
  <1>10. StepOf(t, u)
    BY <1>3, <1>5, <1>6, <1>7, <1>8, <1>9 DEF StepOf, TaskInv
  <1>11. QED
    BY <1>1, <1>10 DEF t

\* In a dense recording that was not slowed down a frame is due soon when it is
\* read: ReadFrame gives none up.
LEMMA DueSoon ==
  ASSUME NEW t, TaskInv(t), t.pc = "read", t.pos <= Len(Frames(t)),
         Dense(File[t.recording]), ~t.slow,
         NEW first, first = IF t.first_frame_ts = NoTime THEN Frames(t)[t.pos] ELSE t.first_frame_ts
  PROVE  ((Frames(t)[t.pos] - first) * 100) \div t.speed <= t.elapsed + 1
  <1>1. /\ t \in Tasks /\ t.pos \in Nat /\ t.pos >= 1 /\ t.elapsed \in Nat /\ t.speed \in Nat
        /\ Len(Frames(t)) \in Nat
    <2>1. t \in Tasks /\ t.pos \in 1 .. Len(Frames(t)) + 1
      BY Zenon DEF TaskInv, InFile
    <2>2. Len(Frames(t)) \in Nat
      BY <2>1, FramesTyped, Zenon
    <2>3. t.pos \in Nat /\ t.elapsed \in Nat /\ t.speed \in Nat
      BY <2>1, FieldsTyped
    <2>4. QED
      BY <2>1, <2>2, <2>3
  <1>2. t.speed >= 100
    BY DEF TaskInv, OnTime
  <1>3. CASE t.first_frame_ts = NoTime
    <2>1. Frames(t)[t.pos] - first = 0
      BY <1>1, <1>3, FramesTyped
    <2>2. (0 * 100) \div t.speed = 0
      BY <1>1, <1>2
    <2>3. QED
      BY <1>1, <2>1, <2>2
  <1>4. CASE t.first_frame_ts # NoTime
    <2> DEFINE last == Frames(t)[t.pos - 1]
    <2> DEFINE next == Frames(t)[t.pos]
    <2>1. ((last - first) * 100) \div t.speed <= t.elapsed
      BY <1>4 DEF TaskInv, OnTime
    <2>a. t.pos > 1 /\ first <= last
      BY <1>4 DEF TaskInv, OnTime
    <2>2. first \in Nat
      BY <1>1, <1>4, TaskFields
    <2>3. last \in Nat /\ next \in Nat /\ last <= next
      <3>1. t.pos - 1 \in 1 .. Len(Frames(t)) /\ t.pos \in 1 .. Len(Frames(t)) /\ t.pos - 1 <= t.pos
        BY <1>1, <2>a
      <3>2. QED
        BY <1>1, <3>1, FramesTyped, Zenon
    <2>4. next - last <= 1
      <3>1. t.pos \in 2 .. Len(Frames(t))
        BY <1>1, <2>a
      <3>2. QED
        BY <3>1, Zenon DEF Dense, Frames
    <2> HIDE DEF last, next
    <2>5. last - first \in Nat /\ next - first \in Nat /\ next - first <= (last - first) + 1
      BY <2>a, <2>2, <2>3, <2>4
    <2>6. ((next - first) * 100) \div t.speed <= ((last - first) * 100) \div t.speed + 1
      BY <1>1, <1>2, <2>5, DueNextUnit, Zenon
    <2>7. /\ ((last - first) * 100) \div t.speed \in Int
          /\ ((next - first) * 100) \div t.speed \in Int
      <3>1. \A x \in Nat : (x * 100) \div t.speed \in Int
        BY <1>1, <1>2
      <3>2. QED
        BY <2>5, <3>1, Zenon
    <2>8. ((next - first) * 100) \div t.speed <= t.elapsed + 1
      BY <1>1, <2>1, <2>6, <2>7
    <2>9. QED
      BY <2>8 DEF next
  <1>5. QED
    BY <1>3, <1>4

\* A frame is read: to be given up, or to be sent.
LEMMA ReadFrameKeeps ==
  ASSUME NEW l \in Loads, TaskInv(task[l]), ReadFrame(l)
  PROVE  \E u : Become(l, u) /\ StepOf(task[l], u)
  <1> DEFINE t == task[l]
  <1> DEFINE ts == Frames(t)[t.pos]
  <1> DEFINE first == IF t.first_frame_ts = NoTime THEN ts ELSE t.first_frame_ts
  <1> DEFINE due == ((ts - first) * 100) \div t.speed
  <1> DEFINE later == IF t.elapsed < due THEN due ELSE t.elapsed
  <1>1. PICK yes \in BOOLEAN : yes
    BY Zenon
  <1> DEFINE v == [t EXCEPT !.pc = "inner", !.first_frame_ts = first, !.pos = t.pos + 1,
                            !.elapsed = t.elapsed + 1, !.skipped = yes]
  <1> DEFINE w == [t EXCEPT !.pc = "send", !.first_frame_ts = first, !.pos = t.pos + 1,
                            !.elapsed = later]
  <1>2. /\ t.pc = "read" /\ ~(t.pos >= EndOfFrames(File[t.recording]))
        /\ Become(l, IF due > t.elapsed + 1 THEN v ELSE w)
    <2>1. v = [t EXCEPT !.pc = "inner", !.first_frame_ts = first, !.pos = t.pos + 1,
                        !.elapsed = t.elapsed + 1, !.skipped = TRUE]
      BY <1>1, Zenon
    <2>2. QED
      BY <2>1, Zenon DEF ReadFrame, AtEnd, FrameTime, Frames
  <1>3. t \in Tasks /\ TaskInv(t)
    BY DEF TaskInv
  <1> HIDE DEF t
  <1>4. /\ t.pos \in Nat /\ t.pos \in 1 .. Len(Frames(t)) /\ t.elapsed \in Nat /\ t.speed \in Nat \ {0}
        /\ Len(Frames(t)) \in Nat /\ t.position_ms \in Nat
    <2>1. t.pos \in 1 .. Len(Frames(t)) + 1
      BY <1>3, Zenon DEF TaskInv, InFile
    <2>2. Len(Frames(t)) \in Nat /\ ~(t.pos >= Len(Frames(t)) + 1)
      BY <1>2, <1>3, FramesTyped, Zenon
    <2>3. /\ t.pos \in Nat /\ t.elapsed \in Nat /\ t.speed \in Nat \ {0}
          /\ t.position_ms \in Nat
      BY <1>3, FieldsTyped, Zenon
    <2>4. QED
      BY <2>1, <2>2, <2>3
  <1>5. ts \in Nat
    BY <1>3, <1>4, FramesTyped, Zenon
  <1>6. first \in Nat
    BY <1>3, <1>5, TaskFields
  <1>7. Dense(File[t.recording]) /\ ~t.slow => due <= t.elapsed + 1 /\ t.speed >= 100 /\ ~t.skipped
    <2> SUFFICES ASSUME Dense(File[t.recording]), ~t.slow
                 PROVE  due <= t.elapsed + 1 /\ t.speed >= 100 /\ ~t.skipped
      OBVIOUS
    <2>1. t.pos <= Len(Frames(t))
      BY <1>4
    <2>2. due <= t.elapsed + 1
      BY <1>2, <1>3, <2>1, DueSoon, Zenon
    <2>3. t.speed >= 100 /\ ~t.skipped
      BY <1>3, Zenon DEF TaskInv, OnTime
    <2>4. QED
      BY <2>2, <2>3
  <1>8. due \in Int
    <2>1. ts - first \in Int
      BY <1>5, <1>6
    <2> HIDE DEF first, ts
    <2>2. QED
      BY <1>4, <2>1
  <1>9. ASSUME Dense(File[t.recording]), ~t.slow PROVE first <= ts
    <2>1. CASE t.first_frame_ts = NoTime
      BY <1>5, <2>1
    <2>2. CASE t.first_frame_ts # NoTime
      <3>1. t.pos > 1 /\ t.first_frame_ts <= Frames(t)[t.pos - 1]
        BY <1>2, <1>3, <1>9, <2>2, Zenon DEF TaskInv, OnTime
      <3>2. t.pos - 1 \in 1 .. Len(Frames(t)) /\ t.pos - 1 <= t.pos
        BY <1>4, <3>1
      <3>3. Frames(t)[t.pos - 1] <= ts /\ Frames(t)[t.pos - 1] \in Nat
        BY <1>3, <1>4, <3>2, FramesTyped, Zenon
      <3> HIDE DEF ts
      <3>4. QED
        BY <1>5, <1>6, <2>2, <3>1, <3>3
    <2>3. QED
      BY <2>1, <2>2
  <1>10. ~t.jumped => ts >= t.position_ms
    BY <1>2, <1>3, <1>4 DEF TaskInv, Forward
  <1>11. (t.late = 1 => ~t.stop_flag /\ ~t.pause_flag) /\ t.late <= 1
    BY <1>2, <1>3 DEF TaskInv, Halts
  <1>12. CASE due > t.elapsed + 1
    <2>1. Become(l, v)
      BY <1>2, <1>12, Zenon
    <2> HIDE DEF first, due, ts
    <2>2. /\ v \in Tasks /\ v.pc = "inner" /\ v.first_frame_ts = first
          /\ v.recording = t.recording /\ v.position_ms = t.position_ms
          /\ v.pos = t.pos + 1 /\ v.jumped = t.jumped /\ v.late = t.late
          /\ v.slow = t.slow /\ v.stop_flag = t.stop_flag
      <3>1. t.pos + 1 \in Nat /\ t.elapsed + 1 \in Nat
        BY <1>4
      <3>2. QED
        BY <1>3, <1>6, <3>1, Zenon DEF Tasks
    <2> HIDE DEF v
    <2>3. Frames(v) = Frames(t) /\ File[v.recording] = File[t.recording]
      BY <2>2 DEF Frames
    <2>4. InFile(v)
      BY <1>4, <2>2, <2>3 DEF InFile
    <2>5. Halts(v)
      BY <1>11, <2>2 DEF Halts
    <2>6. Forward(v)
      <3>1. ASSUME t.pos + 1 <= Len(Frames(t)) PROVE ts <= Frames(t)[t.pos + 1] /\ Frames(t)[t.pos + 1] \in Nat
        <4>1. t.pos + 1 \in 1 .. Len(Frames(t)) /\ t.pos <= t.pos + 1
          BY <1>4, <3>1
        <4>2. QED
          BY <1>3, <1>4, <4>1, FramesTyped, Zenon DEF ts
      <3>2. QED
        BY <1>4, <1>5, <1>10, <2>2, <2>3, <3>1 DEF Forward
    <2>7. ~(Dense(File[t.recording]) /\ ~t.slow)
      BY <1>4, <1>7, <1>8, <1>12
    <2>8. OnTime(v)
      BY <2>2, <2>3, <2>7, Zenon DEF OnTime
    <2>9. v.position_ms >= t.position_ms
      BY <1>4, <2>2
    <2>10. StepOf(t, v)
      BY <2>2, <2>4, <2>5, <2>6, <2>8, <2>9 DEF StepOf, TaskInv
    <2>11. QED
      BY <2>1, <2>10 DEF t
  <1>13. CASE ~(due > t.elapsed + 1)
    <2>1. Become(l, w)
      BY <1>2, <1>13, Zenon
    <2> HIDE DEF first, due, ts
    <2>2. later \in Nat /\ due <= later
      BY <1>4, <1>8
    <2> HIDE DEF later
    <2>3. /\ w \in Tasks /\ w.pc = "send" /\ w.first_frame_ts = first
          /\ w.recording = t.recording /\ w.position_ms = t.position_ms
          /\ w.pos = t.pos + 1 /\ w.jumped = t.jumped /\ w.late = t.late
          /\ w.slow = t.slow /\ w.stop_flag = t.stop_flag /\ w.pause_flag = t.pause_flag
          /\ w.skipped = t.skipped /\ w.speed = t.speed /\ w.elapsed = later
      <3>1. t.pos + 1 \in Nat
        BY <1>4
      <3>2. QED
        BY <1>3, <1>6, <2>2, <3>1, Zenon DEF Tasks
    <2> HIDE DEF w
    <2>4. Frames(w) = Frames(t) /\ File[w.recording] = File[t.recording]
      BY <2>3 DEF Frames
    <2>5. InFile(w)
      BY <1>4, <2>3, <2>4 DEF InFile
    <2>6. Halts(w)
      BY <1>11, <2>3 DEF Halts
    <2>7. w.pos - 1 = t.pos /\ w.pos > 1
      BY <1>4, <2>3
    <2>8. Forward(w)
      BY <1>10, <2>3, <2>4, <2>7, Zenon DEF Forward, ts
    <2>9. OnTime(w)
      <3> SUFFICES ASSUME Dense(File[t.recording]), ~t.slow
                   PROVE  /\ ~w.skipped /\ w.speed >= 100
                          /\ w.first_frame_ts <= Frames(w)[w.pos - 1]
                          /\ ((Frames(w)[w.pos - 1] - w.first_frame_ts) * 100) \div w.speed <= w.elapsed
        BY <2>3, <2>4, <2>7, Zenon DEF OnTime
      <3>1. Frames(w)[w.pos - 1] = ts
        BY <2>4, <2>7, Zenon DEF ts
      <3>2. ((Frames(w)[w.pos - 1] - w.first_frame_ts) * 100) \div w.speed = due
        BY <2>3, <3>1, Zenon DEF due
      <3>3. QED
        BY <1>7, <1>9, <2>2, <2>3, <3>1, <3>2, Zenon
    <2>10. w.position_ms >= t.position_ms
      BY <1>4, <2>3
    <2>11. StepOf(t, w)
      BY <2>3, <2>5, <2>6, <2>8, <2>9, <2>10 DEF StepOf, TaskInv
    <2>12. QED
      BY <2>1, <2>11 DEF t
  <1>14. QED
    BY <1>12, <1>13

\* The frame leaves, the one in hand if the flags have gone up meanwhile.
LEMMA SendKeeps ==
  ASSUME NEW l \in Loads, TaskInv(task[l]), Send(l)
  PROVE  \E u : Become(l, u) /\ StepOf(task[l], u)
  <1> DEFINE t == task[l]
  <1> DEFINE ts == Frames(t)[t.pos - 1]
  <1> DEFINE n == IF t.stop_flag \/ t.pause_flag THEN t.late + 1 ELSE 0
  <1>1. PICK no \in BOOLEAN : ~no
    BY Zenon
  <1> DEFINE u == [t EXCEPT !.pc = "inner", !.jumped = no, !.position_ms = ts, !.late = n]
  <1>2. Become(l, u) /\ t.pc = "send"
    <2>1. u = [t EXCEPT !.pc = "inner", !.jumped = FALSE, !.position_ms = ts, !.late = n]
      BY <1>1, Zenon
    <2>2. QED
      BY <2>1, Zenon DEF Send, FrameTime, Frames
  <1>3. t \in Tasks /\ TaskInv(t)
    BY DEF TaskInv
  <1> HIDE DEF t
  <1>4. /\ t.pos \in Nat /\ t.pos > 1 /\ t.pos <= Len(Frames(t)) + 1 /\ Len(Frames(t)) \in Nat
        /\ t.position_ms \in Nat /\ t.late \in Nat
    BY <1>2, <1>3, FramesTyped, TaskFields DEF TaskInv, InFile
  <1>5. t.pos - 1 \in 1 .. Len(Frames(t))
    BY <1>4
  <1>6. ts \in Nat
    BY <1>3, <1>5, FramesTyped, Zenon
  <1>7. ts >= t.position_ms \/ t.jumped
    BY <1>2, <1>3 DEF TaskInv, Forward
  <1>8. n \in Nat /\ n <= 1
    <2>1. t.late <= 1 /\ (t.late = 1 => ~t.stop_flag /\ ~t.pause_flag)
      BY <1>2, <1>3 DEF TaskInv, Halts
    <2>2. CASE t.stop_flag \/ t.pause_flag
      BY <1>4, <2>1, <2>2
    <2>3. CASE ~(t.stop_flag \/ t.pause_flag)
      BY <2>3
    <2>4. QED
      BY <2>2, <2>3
  <1> HIDE DEF n, ts
  <1>9. /\ u \in Tasks /\ u.pc = "inner" /\ u.first_frame_ts = t.first_frame_ts
        /\ u.recording = t.recording /\ u.position_ms = ts
        /\ u.pos = t.pos /\ u.late = n /\ u.skipped = t.skipped
        /\ u.speed = t.speed /\ u.slow = t.slow /\ u.stop_flag = t.stop_flag
        /\ u.elapsed = t.elapsed
    BY <1>1, <1>3, <1>6, <1>8, Zenon DEF Tasks
  <1> HIDE DEF u
  <1>10. Frames(u) = Frames(t) /\ File[u.recording] = File[t.recording]
    BY <1>9 DEF Frames
  <1>11. InFile(u)
    BY <1>3, <1>9, <1>10 DEF TaskInv, InFile
  <1>12. Halts(u)
    BY <1>8, <1>9 DEF Halts
  <1>13. Forward(u)
    <2>1. ASSUME t.pos <= Len(Frames(t)) PROVE Frames(t)[t.pos] >= ts
      <3>1. t.pos \in 1 .. Len(Frames(t)) /\ t.pos - 1 <= t.pos
        BY <1>4, <2>1
      <3>2. ts <= Frames(t)[t.pos] /\ Frames(t)[t.pos] \in Nat
        BY <1>3, <1>5, <3>1, FramesTyped, Zenon DEF ts
      <3>3. QED
        BY <1>6, <3>2
    <2>2. QED
      BY <1>9, <1>10, <2>1 DEF Forward
  <1>14. OnTime(u)
    BY <1>2, <1>3, <1>9, <1>10, Zenon DEF TaskInv, OnTime
  <1>15. StepOf(t, u)
    BY <1>7, <1>9, <1>11, <1>12, <1>13, <1>14 DEF StepOf, TaskInv
  <1>16. QED
    BY <1>2, <1>15 DEF t

\* Time passes.
LEMMA DelayKeeps ==
  ASSUME NEW l \in Loads, TaskInv(task[l]), Delay(l)
  PROVE  \E u : Become(l, u) /\ StepOf(task[l], u)
  <1> DEFINE t == task[l]
  <1> DEFINE u == [t EXCEPT !.elapsed = t.elapsed + 1]
  <1>1. Become(l, u) /\ t.pc \in {"inner", "send"}
    BY Zenon DEF Delay
  <1>2. t \in Tasks /\ TaskInv(t)
    BY DEF TaskInv
  <1> HIDE DEF t
  <1>3. t.elapsed \in Nat /\ t.elapsed + 1 \in Nat /\ t.position_ms \in Nat
    BY <1>2, TaskFields
  <1>4. /\ u \in Tasks /\ u.pc = t.pc /\ u.first_frame_ts = t.first_frame_ts
        /\ u.recording = t.recording /\ u.position_ms = t.position_ms
        /\ u.pos = t.pos /\ u.jumped = t.jumped /\ u.late = t.late /\ u.skipped = t.skipped
        /\ u.speed = t.speed /\ u.slow = t.slow /\ u.stop_flag = t.stop_flag
        /\ u.pause_flag = t.pause_flag /\ u.elapsed = t.elapsed + 1
    BY <1>2, <1>3, Zenon DEF Tasks
  <1> HIDE DEF u
  <1>5. Frames(u) = Frames(t) /\ File[u.recording] = File[t.recording]
    BY <1>4 DEF Frames
  <1>6. InFile(u) /\ Halts(u) /\ Forward(u)
    BY <1>2, <1>4, <1>5, Zenon DEF TaskInv, InFile, Halts, Forward
  <1>7. OnTime(u)
    <2>1. Dense(File[t.recording]) /\ ~t.slow /\ t.first_frame_ts # NoTime
            => ((Frames(t)[t.pos - 1] - t.first_frame_ts) * 100) \div t.speed <= t.elapsed + 1
      <3> SUFFICES ASSUME Dense(File[t.recording]), ~t.slow, t.first_frame_ts # NoTime
                   PROVE  ((Frames(t)[t.pos - 1] - t.first_frame_ts) * 100) \div t.speed <= t.elapsed + 1
        OBVIOUS
      <3> DEFINE x == Frames(t)[t.pos - 1]
      <3> DEFINE due == ((x - t.first_frame_ts) * 100) \div t.speed
      <3>1. /\ t.pos > 1 /\ due <= t.elapsed
        BY <1>1, <1>2, Zenon DEF TaskInv, OnTime
      <3>2. due \in Int
        <4>1. t.pos - 1 \in 1 .. Len(Frames(t)) /\ t.first_frame_ts \in Nat /\ t.speed \in Nat \ {0}
          <5>1. /\ t.first_frame_ts \in Nat /\ t.speed \in Nat \ {0} /\ t.pos \in Nat
                /\ Len(Frames(t)) \in Nat
            BY <1>2, FramesTyped, FieldsTyped, Zenon
          <5>2. t.pos \in 1 .. Len(Frames(t)) + 1 /\ t.pos > 1
            BY <1>2, <3>1, Zenon DEF TaskInv, InFile
          <5>3. QED
            BY <5>1, <5>2
        <4>2. x \in Nat
          BY <1>2, <4>1, FramesTyped, Zenon
        <4> HIDE DEF x
        <4>3. x - t.first_frame_ts \in Int
          BY <4>1, <4>2
        <4>4. \A y \in Int : (y * 100) \div t.speed \in Int
          BY <4>1
        <4>5. QED
          BY <4>3, <4>4, Zenon
      <3> HIDE DEF due
      <3>3. due <= t.elapsed + 1
        BY <1>3, <3>1, <3>2
      <3>4. QED
        BY <3>3 DEF due
    <2>2. QED
      BY <1>1, <1>2, <1>4, <1>5, <2>1, Zenon DEF TaskInv, OnTime
  <1>8. u.position_ms >= t.position_ms
    BY <1>3, <1>4
  <1>9. StepOf(t, u)
    BY <1>1, <1>4, <1>6, <1>7, <1>8 DEF StepOf, TaskInv
  <1>10. QED
    BY <1>1, <1>9 DEF t

-------------------------------------------------------------------------------
\* The handlers, each on the playback it acts on.

\* A handler leaves the reader and the clock alone, and only a lower speed, which
\* is remembered, can make frames due later.
LEMMA HandlerKeeps ==
  ASSUME NEW t, TaskInv(t), t.pc # "unborn", NEW u \in Tasks,
         u.pc = t.pc, u.recording = t.recording, u.pos = t.pos,
         u.position_ms = t.position_ms, u.jumped = t.jumped,
         u.first_frame_ts = t.first_frame_ts, u.elapsed = t.elapsed, u.skipped = t.skipped,
         t.stop_flag => u.stop_flag, Halts(u),
         ~u.slow => ~t.slow /\ t.speed <= u.speed
  PROVE  StepOf(t, u)
  <1>1. Frames(u) = Frames(t) /\ File[u.recording] = File[t.recording]
    BY DEF Frames
  <1>2. InFile(u) /\ Forward(u)
    BY <1>1, Zenon DEF TaskInv, InFile, Forward
  <1>3. t \in Tasks
    BY DEF TaskInv
  <1>4. u.position_ms >= t.position_ms
    BY <1>3, TaskFields
  <1>5. t.speed \in Nat /\ u.speed \in Nat /\ t.elapsed \in Nat
    BY <1>3, TaskFields
  <1>6. OnTime(u)
    <2> SUFFICES ASSUME Dense(File[t.recording]), ~u.slow
                 PROVE  /\ ~u.skipped /\ u.speed >= 100
                        /\ u.pc \in {"inner", "read", "send"} /\ u.first_frame_ts # NoTime =>
                              /\ u.pos > 1
                              /\ u.first_frame_ts <= Frames(u)[u.pos - 1]
                              /\ ((Frames(u)[u.pos - 1] - u.first_frame_ts) * 100) \div u.speed
                                    <= u.elapsed
      BY <1>1, Zenon DEF OnTime
    <2>1. ~t.skipped /\ t.speed >= 100
      BY Zenon DEF TaskInv, OnTime
    <2>2. u.speed >= 100
      BY <1>5, <2>1
    <2>3. ASSUME u.pc \in {"inner", "read", "send"}, u.first_frame_ts # NoTime
          PROVE  /\ u.pos > 1
                 /\ u.first_frame_ts <= Frames(u)[u.pos - 1]
                 /\ ((Frames(u)[u.pos - 1] - u.first_frame_ts) * 100) \div u.speed <= u.elapsed
      <3> DEFINE last == Frames(t)[t.pos - 1]
      <3> DEFINE x == last - t.first_frame_ts
      <3>1. t.pos > 1 /\ t.first_frame_ts <= last /\ (x * 100) \div t.speed <= t.elapsed
        BY <2>3, Zenon DEF TaskInv, OnTime
      <3>2. t.first_frame_ts \in Nat /\ t.pos \in Nat /\ Len(Frames(t)) \in Nat
        BY <1>3, <2>3, FramesTyped, TaskFields
      <3>3. t.pos \in 1 .. Len(Frames(t)) + 1
        BY Zenon DEF TaskInv, InFile
      <3>4. t.pos - 1 \in 1 .. Len(Frames(t))
        <4>1. t.pos > 1
          BY <3>1
        <4>2. QED
          BY <3>2, <3>3, <4>1
      <3>5. last \in Nat
        BY <1>3, <3>4, FramesTyped, Zenon
      <3>6. x \in Nat
        <4> HIDE DEF last
        <4>1. t.first_frame_ts <= last
          BY <3>1
        <4>2. QED
          BY <3>2, <3>5, <4>1
      <3> HIDE DEF x
      <3>7. (x * 100) \div u.speed <= (x * 100) \div t.speed
        BY <1>5, <2>1, <3>6, DueEarlier
      <3>8. (x * 100) \div u.speed \in Int /\ (x * 100) \div t.speed \in Int
        BY <1>5, <2>1, <2>2, <3>6
      <3>9. (x * 100) \div u.speed <= t.elapsed
        <4> DEFINE a == (x * 100) \div u.speed
        <4> DEFINE b == (x * 100) \div t.speed
        <4>1. a <= b /\ b <= t.elapsed /\ a \in Int /\ b \in Int
          BY <3>1, <3>7, <3>8, Zenon
        <4> HIDE DEF a, b
        <4>2. a <= t.elapsed
          BY <1>5, <4>1
        <4>3. QED
          BY <4>2 DEF a
      <3>10. QED
        BY <1>1, <3>1, <3>9, Zenon DEF x
    <2>4. QED
      BY <2>1, <2>2, <2>3
  <1>7. QED
    BY <1>2, <1>4, <1>6, Zenon DEF StepOf, TaskInv

\* play_handler, pause_handler, seek_handler.
LEMMA PlayKeeps ==
  ASSUME NEW t, TaskInv(t), t.pc # "unborn"
  PROVE  StepOf(t, [t EXCEPT !.pause_flag = FALSE])
  <1>1. PICK no \in BOOLEAN : ~no
    BY Zenon
  <1> DEFINE u == [t EXCEPT !.pause_flag = no]
  <1>2. t \in Tasks
    BY DEF TaskInv
  <1>3. /\ u \in Tasks /\ u.pc = t.pc /\ u.recording = t.recording /\ u.pos = t.pos
        /\ u.position_ms = t.position_ms /\ u.jumped = t.jumped
        /\ u.first_frame_ts = t.first_frame_ts /\ u.elapsed = t.elapsed
        /\ u.skipped = t.skipped /\ u.stop_flag = t.stop_flag /\ u.slow = t.slow
        /\ u.speed = t.speed /\ u.late = t.late /\ u.pause_flag = no
    BY <1>1, <1>2, Zenon DEF Tasks
  <1>4. u = [t EXCEPT !.pause_flag = FALSE]
    BY <1>1, Zenon
  <1> HIDE DEF u
  <1>5. Halts(u)
    BY <1>1, <1>3, Zenon DEF TaskInv, Halts
  <1>6. t.speed <= u.speed
    BY <1>2, <1>3, TaskFields
  <1>7. StepOf(t, u)
    BY <1>3, <1>5, <1>6, HandlerKeeps, Zenon
  <1>8. QED
    BY <1>4, <1>7, Zenon

\* pause sets its flag; frames late so far are forgotten.
LEMMA PauseKeeps ==
  ASSUME NEW t, TaskInv(t), t.pc # "unborn"
  PROVE  StepOf(t, [t EXCEPT !.pause_flag = TRUE,
                        !.late = IF t.pause_flag \/ t.stop_flag THEN @ ELSE 0])
  <1>1. PICK yes \in BOOLEAN : yes
    BY Zenon
  <1> DEFINE n == IF t.pause_flag \/ t.stop_flag THEN t.late ELSE 0
  <1> DEFINE u == [t EXCEPT !.pause_flag = yes, !.late = n]
  <1>2. t \in Tasks /\ t.late \in Nat
    BY TaskFields DEF TaskInv
  <1>3. u = [t EXCEPT !.pause_flag = TRUE,
                      !.late = IF t.pause_flag \/ t.stop_flag THEN @ ELSE 0]
    BY <1>1, Zenon
  <1>4. n \in Nat /\ n <= 1 /\ (n = 1 => t.pc \notin {"read", "send"})
    <2>1. CASE t.pause_flag \/ t.stop_flag
      <3>1. n = t.late
        BY <2>1, Zenon
      <3>2. QED
        BY <1>2, <2>1, <3>1, Zenon DEF TaskInv, Halts
    <2>2. CASE ~(t.pause_flag \/ t.stop_flag)
      BY <2>2
    <2>3. QED
      BY <2>1, <2>2
  <1> HIDE DEF n
  <1>5. /\ u \in Tasks /\ u.pc = t.pc /\ u.recording = t.recording /\ u.pos = t.pos
        /\ u.position_ms = t.position_ms /\ u.jumped = t.jumped
        /\ u.first_frame_ts = t.first_frame_ts /\ u.elapsed = t.elapsed
        /\ u.skipped = t.skipped /\ u.stop_flag = t.stop_flag /\ u.slow = t.slow
        /\ u.speed = t.speed /\ u.late = n
    BY <1>1, <1>2, <1>4, Zenon DEF Tasks
  <1> HIDE DEF u
  <1>6. Halts(u)
    BY <1>4, <1>5, Zenon DEF Halts
  <1>7. t.speed <= u.speed
    BY <1>2, <1>5, TaskFields
  <1>8. StepOf(t, u)
    BY <1>5, <1>6, <1>7, HandlerKeeps, Zenon
  <1>9. QED
    BY <1>3, <1>8, Zenon

\* seek leaves its target for the task to find.
LEMMA AskSeekKeeps ==
  ASSUME NEW t, TaskInv(t), t.pc # "unborn", NEW ms \in Nat
  PROVE  StepOf(t, [t EXCEPT !.seek_target = ms])
  <1> DEFINE u == [t EXCEPT !.seek_target = ms]
  <1>1. t \in Tasks
    BY DEF TaskInv
  <1>2. /\ u \in Tasks /\ u.pc = t.pc /\ u.recording = t.recording /\ u.pos = t.pos
        /\ u.position_ms = t.position_ms /\ u.jumped = t.jumped
        /\ u.first_frame_ts = t.first_frame_ts /\ u.elapsed = t.elapsed
        /\ u.skipped = t.skipped /\ u.stop_flag = t.stop_flag /\ u.slow = t.slow
        /\ u.speed = t.speed /\ u.late = t.late /\ u.pause_flag = t.pause_flag
    BY <1>1, Zenon DEF Tasks
  <1> HIDE DEF u
  <1>3. Halts(u)
    BY <1>2, Zenon DEF TaskInv, Halts
  <1>4. t.speed <= u.speed
    BY <1>1, <1>2, TaskFields
  <1>5. StepOf(t, u)
    BY <1>2, <1>3, <1>4, HandlerKeeps, Zenon
  <1>6. QED
    BY <1>5 DEF u

\* settings_handler clamps the speed; slow remembers that it was lowered.
WithSettings(t, s, looped) ==
    [t EXCEPT !.speed = IF s < 10 THEN 10 ELSE IF s > 1000 THEN 1000 ELSE s,
              !.loop_playback = looped, !.slow = @ \/ s < t.speed]

\* New settings, with the speed kept between its limits.
LEMMA SettingsKeep ==
  ASSUME NEW t, TaskInv(t), t.pc # "unborn", NEW s \in Nat, NEW looped \in BOOLEAN
  PROVE  StepOf(t, WithSettings(t, s, looped))
  <1> DEFINE rate == IF s < 10 THEN 10 ELSE IF s > 1000 THEN 1000 ELSE s
  <1> DEFINE slowed == (t.slow \/ s < t.speed)
  <1> DEFINE u == [t EXCEPT !.speed = rate, !.loop_playback = looped, !.slow = slowed]
  <1>1. t \in Tasks /\ t.speed \in Rates
    BY TaskFields DEF TaskInv
  <1>2. rate \in Rates
    BY DEF Rates
  <1>a. slowed \in BOOLEAN
    BY Zenon
  <1>3. ASSUME ~slowed PROVE ~t.slow /\ t.speed <= rate
    <2>1. ~t.slow /\ ~(s < t.speed)
      BY <1>3, Zenon
    <2>2. ASSUME NEW v \in Rates, ~(s < v)
          PROVE  v <= IF s < 10 THEN 10 ELSE IF s > 1000 THEN 1000 ELSE s
      BY <2>2 DEF Rates
    <2>3. t.speed <= rate
      BY <1>1, <2>1, <2>2, ZenonT(40)
    <2>4. QED
      BY <2>1, <2>3
  <1>4. StepOf(t, u)
    <2> HIDE DEF rate, slowed
    <2>a. u \in Tasks
      <3>1. [t EXCEPT !.speed = rate] \in Tasks
        BY <1>1, <1>2, Zenon DEF Tasks
      <3>2. [[t EXCEPT !.speed = rate] EXCEPT !.loop_playback = looped] \in Tasks
        BY <3>1, Zenon DEF Tasks
      <3>3. [[[t EXCEPT !.speed = rate] EXCEPT !.loop_playback = looped] EXCEPT !.slow = slowed]
               \in Tasks
        BY <1>a, <3>2, Zenon DEF Tasks
      <3>4. QED
        BY <3>3, Zenon
    <2>1. /\ u.pc = t.pc /\ u.recording = t.recording /\ u.pos = t.pos
          /\ u.position_ms = t.position_ms /\ u.jumped = t.jumped
          /\ u.first_frame_ts = t.first_frame_ts /\ u.elapsed = t.elapsed
          /\ u.skipped = t.skipped /\ u.stop_flag = t.stop_flag /\ u.slow = slowed
          /\ u.speed = rate /\ u.late = t.late /\ u.pause_flag = t.pause_flag
      BY <1>1, Zenon DEF Tasks
    <2> HIDE DEF u
    <2>2. Halts(u)
      BY <2>1, Zenon DEF TaskInv, Halts
    <2>3. QED
      BY <1>3, <2>a, <2>1, <2>2, HandlerKeeps, Zenon
  <1>5. QED
    BY <1>4, Zenon DEF WithSettings

\* ActivePlayback::stop.
LEMMA StopKeeps ==
  ASSUME NEW t, TaskInv(t), t.pc # "unborn"
  PROVE  StepOf(t, StopFlag(t)) /\ StopFlag(t).stop_flag
  <1>1. PICK yes \in BOOLEAN : yes
    BY Zenon
  <1> DEFINE n == IF t.stop_flag THEN t.late ELSE 0
  <1> DEFINE u == [t EXCEPT !.stop_flag = yes, !.late = n]
  <1>2. t \in Tasks /\ t.late \in Nat
    BY TaskFields DEF TaskInv
  <1>3. u = StopFlag(t)
    BY <1>1, Zenon DEF StopFlag
  <1>4. n \in Nat /\ n <= 1 /\ (n = 1 => t.pc \notin {"read", "send"})
    <2>1. CASE t.stop_flag
      <3>1. n = t.late
        BY <2>1, Zenon
      <3>2. QED
        BY <1>2, <2>1, <3>1, Zenon DEF TaskInv, Halts
    <2>2. CASE ~t.stop_flag
      BY <2>2
    <2>3. QED
      BY <2>1, <2>2
  <1> HIDE DEF n
  <1>a. u \in Tasks
    BY <1>1, <1>2, <1>4, Zenon DEF Tasks
  <1>5. /\ u.pc = t.pc /\ u.recording = t.recording /\ u.pos = t.pos
        /\ u.position_ms = t.position_ms /\ u.jumped = t.jumped
        /\ u.first_frame_ts = t.first_frame_ts /\ u.elapsed = t.elapsed
        /\ u.skipped = t.skipped /\ u.stop_flag = yes /\ u.slow = t.slow
        /\ u.speed = t.speed /\ u.late = n
    BY <1>2, Zenon DEF Tasks
  <1> HIDE DEF u
  <1>6. Halts(u)
    BY <1>4, <1>5, Zenon DEF Halts
  <1>7. t.speed <= u.speed
    BY <1>2, <1>5, TaskFields
  <1>8. StepOf(t, u)
    BY <1>1, <1>a, <1>5, <1>6, <1>7, HandlerKeeps, Zenon
  <1>9. QED
    BY <1>1, <1>3, <1>5, <1>8, Zenon

-------------------------------------------------------------------------------
\* All playbacks together.

\* SharedRadars has the playback radar of the active playback and no other, and
\* every playback but the active one has been told to stop.
IInv ==
    /\ present \subseteq Recordings
    /\ active \in Loads \cup {NoLoad}
    /\ task \in [Loads -> Tasks]
    /\ \A l \in Loads : TaskInv(task[l])
    /\ active # NoLoad => task[active].pc # "unborn"
    /\ radars = [r \in Recordings |->
                    IF active # NoLoad /\ r = task[active].recording THEN active ELSE NoLoad]
    /\ \A l \in Loads \ {active} : task[l].pc # "unborn" => task[l].stop_flag

\* No load has the number of none.
LEMMA NoLoadIsNone ==
  NoLoad \notin Loads
  BY DEF NoLoad, Loads

\* A task that has read nothing.
LEMMA BornKeeps ==
  ASSUME NEW t \in Tasks, t.pc \in {"unborn", "top"}, t.pos = 1, t.late = 0, ~t.skipped,
         t.speed = 100
  PROVE  TaskInv(t)
  <1>1. InFile(t)
    BY FramesTyped DEF InFile
  <1>2. Halts(t) /\ Forward(t)
    BY DEF Halts, Forward
  <1>3. OnTime(t)
    BY DEF OnTime
  <1>4. QED
    BY <1>1, <1>2, <1>3 DEF TaskInv

\* A playback that has not been loaded, and one that just has been.
LEMMA NotLoadedKeeps ==
  /\ TaskInv(NotLoaded) /\ NotLoaded.pc = "unborn"
  /\ \A r \in Recordings : LET t == [NotLoaded EXCEPT !.pc = "top", !.recording = r]
                           IN  TaskInv(t) /\ t.pc = "top" /\ t.recording = r
  <1> DEFINE n == NotLoaded
  <1>1. n \in Tasks
    <2>1. 100 \in Rates /\ 0 \in Nat /\ 1 \in Nat
      BY DEF Rates
    <2>2. (CHOOSE r \in Recordings : TRUE) \in Recordings
      BY PlaybackAssumption, Zenon
    <2>3. QED
      BY <2>1, <2>2, Zenon DEF Tasks, NotLoaded, FirstFrame
  <1>2. n.pc = "unborn" /\ n.pos = 1 /\ n.late = 0 /\ ~n.skipped /\ n.speed = 100
    BY Zenon DEF NotLoaded, FirstFrame
  <1> HIDE DEF n
  <1>3. TaskInv(n)
    BY <1>1, <1>2, BornKeeps, Zenon
  <1>4. ASSUME NEW r \in Recordings
        PROVE  LET t == [n EXCEPT !.pc = "top", !.recording = r]
               IN  TaskInv(t) /\ t.pc = "top" /\ t.recording = r
    <2> DEFINE t == [n EXCEPT !.pc = "top", !.recording = r]
    <2>1. t \in Tasks
      BY <1>1, Zenon DEF Tasks
    <2>2. /\ t.pc = "top" /\ t.recording = r /\ t.pos = n.pos /\ t.late = n.late
          /\ t.skipped = n.skipped /\ t.speed = n.speed
      BY <1>1, Zenon DEF Tasks
    <2> HIDE DEF t
    <2>3. TaskInv(t)
      BY <1>2, <2>1, <2>2, BornKeeps, Zenon
    <2>4. QED
      BY <2>2, <2>3 DEF t
  <1>5. QED
    BY <1>2, <1>3, <1>4, Zenon DEF n

\* Nothing is loaded.
LEMMA InitIInv ==
  ASSUME Init
  PROVE  IInv
  <1>1. active = NoLoad /\ present \subseteq Recordings /\ active \in Loads \cup {NoLoad}
    BY Zenon DEF Init
  <1>2. NotLoaded \in Tasks /\ TaskInv(NotLoaded) /\ NotLoaded.pc = "unborn"
    BY NotLoadedKeeps, Zenon DEF TaskInv
  <1>3. task \in [Loads -> Tasks] /\ \A l \in Loads : task[l] = NotLoaded
    BY <1>2, Zenon DEF Init
  <1>4. radars = [r \in Recordings |->
                    IF active # NoLoad /\ r = task[active].recording THEN active ELSE NoLoad]
    BY <1>1, Zenon DEF Init
  <1>5. QED
    BY <1>1, <1>2, <1>3, <1>4, Zenon DEF IInv

\* A step of one playback, be it the task's or a handler's on the active one.
LEMMA BecomeKeeps ==
  ASSUME IInv, NEW l \in Loads, task[l].pc # "unborn", NEW u, Become(l, u), StepOf(task[l], u)
  PROVE  IInv' /\ ForwardStep
  <1>1. /\ task \in [Loads -> Tasks] /\ \A m \in Loads : TaskInv(task[m])
        /\ active \in Loads \cup {NoLoad} /\ present \subseteq Recordings
    BY Zenon DEF IInv
  <1>2. /\ u \in Tasks /\ TaskInv(u) /\ u.recording = task[l].recording /\ u.pc # "unborn"
        /\ task[l].stop_flag => u.stop_flag
    BY Zenon DEF StepOf, TaskInv
  <1>3. /\ task' = [task EXCEPT ![l] = u]
        /\ present' = present /\ radars' = radars /\ active' = active
    BY Zenon DEF Become
  <1>4. /\ task' \in [Loads -> Tasks] /\ task'[l] = u
        /\ \A m \in Loads : m # l => task'[m] = task[m]
    BY <1>1, <1>2, <1>3, Zenon
  <1>5. \A m \in Loads :
           /\ TaskInv(task'[m]) /\ task'[m].recording = task[m].recording
           /\ task[m].pc # "unborn" => task'[m].pc # "unborn"
           /\ task'[m].pc # "unborn" => task[m].pc # "unborn"
           /\ task[m].stop_flag => task'[m].stop_flag
    BY <1>1, <1>2, <1>4, Zenon
  <1>6. active # NoLoad => active \in Loads /\ task'[active].recording = task[active].recording
    BY <1>1, <1>5, Zenon
  <1>7. radars' = [r \in Recordings |->
                     IF active # NoLoad /\ r = task'[active].recording THEN active ELSE NoLoad]
    <2>1. radars = [r \in Recordings |->
                      IF active # NoLoad /\ r = task[active].recording THEN active ELSE NoLoad]
      BY Zenon DEF IInv
    <2>2. QED
      BY <1>3, <1>6, <2>1, Zenon
  <1>8. active # NoLoad => task'[active].pc # "unborn"
    BY <1>5, <1>6, Zenon DEF IInv
  <1>9. \A m \in Loads \ {active} : task'[m].pc # "unborn" => task'[m].stop_flag
    BY <1>5, Zenon DEF IInv
  <1>10. IInv'
    BY <1>1, <1>3, <1>4, <1>5, <1>7, <1>8, <1>9, ZenonT(40) DEF IInv
  <1>11. ForwardStep
    <2>1. \A m \in Loads : task[m].position_ms \in Nat
      BY <1>1, FieldsTyped, Zenon
    <2>2. \A n \in Nat : n >= n
      OBVIOUS
    <2>3. u.position_ms >= task[l].position_ms \/ task[l].jumped
      BY Zenon DEF StepOf
    <2>4. QED
      BY <1>4, <2>1, <2>2, <2>3, Zenon DEF ForwardStep
  <1>12. QED
    BY <1>10, <1>11

\* A step of a task.
LEMMA TaskKeeps ==
  ASSUME IInv, NEW l \in Loads, playback_task(l) \/ Delay(l)
  PROVE  IInv' /\ ForwardStep
  <1>1. TaskInv(task[l])
    BY Zenon DEF IInv
  <1>2. task[l].pc # "unborn"
    BY DEF playback_task, Top, Open, Interrupt, Seek, Poll, EndOfFile, ReadFails, ReadFrame, Send,
           After, Exit, Delay, Reading
  <1>3. \E u : Become(l, u) /\ StepOf(task[l], u)
    BY <1>1, TopKeeps, OpenKeeps, InterruptKeeps, SeekKeeps, PollKeeps, EndOfFileKeeps,
       ReadFrameKeeps, SendKeeps, AfterKeeps, ExitKeeps, DelayKeeps, Zenon DEF playback_task
  <1>4. QED
    BY <1>2, <1>3, BecomeKeeps, Zenon

\* A handler on the active playback.
LEMMA ActiveKeeps ==
  ASSUME IInv, NEW u, WithPlayback(u),
         active # NoLoad /\ TaskInv(task[active]) /\ task[active].pc # "unborn"
            => StepOf(task[active], u)
  PROVE  IInv' /\ ForwardStep
  <1>1. active # NoLoad /\ active \in Loads /\ Become(active, u)
    BY Zenon DEF WithPlayback, Become, IInv
  <1>2. TaskInv(task[active]) /\ task[active].pc # "unborn"
    BY <1>1, Zenon DEF IInv
  <1>3. QED
    BY <1>1, <1>2, BecomeKeeps, Zenon

\* What a load or a stop makes of the playback before it.
LEMMA TakenStops ==
  ASSUME IInv
  PROVE  LET k == Taken(active)
         IN  /\ k.task \in [Loads -> Tasks]
             /\ k.radars = [r \in Recordings |-> NoLoad]
             /\ \A l \in Loads :
                   /\ TaskInv(k.task[l])
                   /\ k.task[l].pc = "unborn" <=> task[l].pc = "unborn"
                   /\ k.task[l].pc # "unborn" => k.task[l].stop_flag
                   /\ k.task[l].position_ms >= task[l].position_ms \/ task[l].jumped
  <1> DEFINE k == Taken(active)
  <1>1. /\ task \in [Loads -> Tasks] /\ \A m \in Loads : TaskInv(task[m])
        /\ active \in Loads \cup {NoLoad}
        /\ active # NoLoad => task[active].pc # "unborn"
        /\ radars = [r \in Recordings |->
                       IF active # NoLoad /\ r = task[active].recording THEN active ELSE NoLoad]
        /\ \A l \in Loads \ {active} : task[l].pc # "unborn" => task[l].stop_flag
    BY Zenon DEF IInv
  <1>2. \A m \in Loads : task[m].position_ms >= task[m].position_ms
    <2>1. \A m \in Loads : task[m].position_ms \in Nat
      BY <1>1, FieldsTyped, Zenon
    <2>2. \A n \in Nat : n >= n
      OBVIOUS
    <2>3. QED
      BY <2>1, <2>2, Zenon
  <1>3. CASE active = NoLoad
    <2>1. k.task = task /\ k.radars = radars
      BY <1>3, Zenon DEF Taken
    <2>2. radars = [r \in Recordings |-> NoLoad]
      BY <1>1, <1>3, Zenon
    <2>3. \A l \in Loads : l \in Loads \ {active}
      BY <1>3, NoLoadIsNone, Zenon
    <2> HIDE DEF k
    <2>4. QED
      BY <1>1, <1>2, <2>1, <2>2, <2>3, Zenon DEF k
  <1>4. CASE active # NoLoad
    <2> DEFINE s == StopFlag(task[active])
    <2>1. active \in Loads /\ StepOf(task[active], s) /\ s.stop_flag
      BY <1>1, <1>4, StopKeeps, Zenon
    <2>2. /\ k.task = [task EXCEPT ![active] = s]
          /\ k.radars = [radars EXCEPT ![task[active].recording] = NoLoad]
      BY <1>4, Zenon DEF Taken, unregister_playback_radar
    <2> HIDE DEF s, k
    <2>3. s \in Tasks /\ TaskInv(s) /\ s.pc # "unborn"
          /\ (s.position_ms >= task[active].position_ms \/ task[active].jumped)
      BY <2>1, Zenon DEF StepOf, TaskInv
    <2>4. /\ k.task \in [Loads -> Tasks] /\ k.task[active] = s
          /\ \A m \in Loads : m # active => k.task[m] = task[m]
      <3>1. task \in [Loads -> Tasks]
        BY <1>1
      <3>2. QED
        BY <2>1, <2>2, <2>3, <3>1, Zenon
    <2>5. k.radars = [r \in Recordings |-> NoLoad]
      BY <1>1, <1>4, <2>2, Zenon
    <2>6. \A l \in Loads :
             /\ TaskInv(k.task[l])
             /\ k.task[l].pc = "unborn" <=> task[l].pc = "unborn"
             /\ k.task[l].pc # "unborn" => k.task[l].stop_flag
             /\ k.task[l].position_ms >= task[l].position_ms \/ task[l].jumped
      <3> SUFFICES ASSUME NEW l \in Loads
                   PROVE  /\ TaskInv(k.task[l])
                          /\ k.task[l].pc = "unborn" <=> task[l].pc = "unborn"
                          /\ k.task[l].pc # "unborn" => k.task[l].stop_flag
                          /\ k.task[l].position_ms >= task[l].position_ms \/ task[l].jumped
        OBVIOUS
      <3>1. CASE l = active
        BY <1>1, <1>4, <2>1, <2>3, <2>4, <3>1, Zenon
      <3>2. CASE l # active
        BY <1>1, <1>2, <2>4, <3>2, Zenon
      <3>3. QED
        BY <3>1, <3>2
    <2>7. QED
      BY <2>4, <2>5, <2>6 DEF k
  <1>5. QED
    BY <1>3, <1>4

\* No playback but the new one, if there is one, is active after a load or a stop.
LEMMA LoadKeeps ==
  ASSUME IInv, NEW r \in Recordings, load_playback_handler(r)
  PROVE  IInv' /\ ForwardStep
  <1> DEFINE k == Taken(active)
  <1> DEFINE fresh == {l \in Loads : task[l].pc = "unborn"}
  <1> DEFINE new == CHOOSE l \in fresh : \A m \in fresh : l <= m
  <1> DEFINE n == [NotLoaded EXCEPT !.pc = "top", !.recording = r]
  <1>1. present' = present /\ present \subseteq Recordings
    BY Zenon DEF IInv, load_playback_handler
  <1>2. /\ k.task \in [Loads -> Tasks]
        /\ k.radars = [q \in Recordings |-> NoLoad]
        /\ \A l \in Loads :
              /\ TaskInv(k.task[l])
              /\ k.task[l].pc = "unborn" <=> task[l].pc = "unborn"
              /\ k.task[l].pc # "unborn" => k.task[l].stop_flag
              /\ k.task[l].position_ms >= task[l].position_ms \/ task[l].jumped
    BY TakenStops, Zenon
  <1>3. \/ /\ fresh # {}
           /\ task' = [k.task EXCEPT ![new] = n]
           /\ radars' = [k.radars EXCEPT ![r] = new]
           /\ active' = new
        \/ active' = NoLoad /\ task' = k.task /\ radars' = k.radars
    BY Zenon DEF load_playback_handler
  <1>4. n \in Tasks /\ TaskInv(n) /\ n.pc = "top" /\ n.recording = r
    BY NotLoadedKeeps, Zenon DEF TaskInv
  <1> HIDE DEF k, n
  <1>5. CASE /\ fresh # {}
             /\ task' = [k.task EXCEPT ![new] = n]
             /\ radars' = [k.radars EXCEPT ![r] = new]
             /\ active' = new
    <2>1. fresh \in SUBSET Nat
      BY DEF Loads
    <2>2. new \in fresh
      <3> HIDE DEF fresh
      <3>1. \E l \in fresh : \A m \in fresh : l <= m
        BY <1>5, <2>1, LeastExists, Zenon
      <3>2. QED
        BY <3>1, Zenon
    <2> HIDE DEF new
    <2>3. new \in Loads /\ task[new].pc = "unborn" /\ new # NoLoad
      BY <2>2, NoLoadIsNone, Zenon
    <2>4. /\ task' \in [Loads -> Tasks] /\ task'[new] = n
          /\ \A l \in Loads : l # new => task'[l] = k.task[l]
      BY <1>2, <1>4, <1>5, <2>3, Zenon
    <2>5. radars' = [q \in Recordings |->
                       IF new # NoLoad /\ q = task'[new].recording THEN new ELSE NoLoad]
      BY <1>2, <1>4, <1>5, <2>3, <2>4, Zenon
    <2>6. \A l \in Loads : TaskInv(task'[l])
      BY <1>2, <1>4, <2>4, Zenon
    <2>7. \A l \in Loads \ {new} : task'[l].pc # "unborn" => task'[l].stop_flag
      BY <1>2, <2>4, Zenon
    <2>8. task'[new].pc # "unborn"
      BY <1>4, <2>4
    <2>9. IInv'
      BY <1>1, <1>5, <2>3, <2>4, <2>5, <2>6, <2>7, <2>8, Zenon DEF IInv
    <2>10. ForwardStep
      BY <1>2, <2>3, <2>4, Zenon DEF ForwardStep
    <2>11. QED
      BY <2>9, <2>10
  <1>6. CASE active' = NoLoad /\ task' = k.task /\ radars' = k.radars
    <2>1. radars' = [q \in Recordings |->
                       IF active' # NoLoad /\ q = task'[active'].recording THEN active' ELSE NoLoad]
      BY <1>2, <1>6, Zenon
    <2>2. IInv'
      BY <1>1, <1>2, <1>6, <2>1, Zenon DEF IInv
    <2>3. ForwardStep
      BY <1>2, <1>6, Zenon DEF ForwardStep
    <2>4. QED
      BY <2>2, <2>3
  <1>7. QED
    BY <1>3, <1>5, <1>6, Zenon

\* stop takes the active playback.
LEMMA StopHandlerKeeps ==
  ASSUME IInv, stop_playback_handler
  PROVE  IInv' /\ ForwardStep
  <1> DEFINE k == Taken(active)
  <1>1. /\ present' = present /\ present \subseteq Recordings
        /\ active' = NoLoad /\ task' = k.task /\ radars' = k.radars
    BY Zenon DEF IInv, stop_playback_handler
  <1>2. /\ k.task \in [Loads -> Tasks]
        /\ k.radars = [q \in Recordings |-> NoLoad]
        /\ \A l \in Loads :
              /\ TaskInv(k.task[l])
              /\ k.task[l].pc # "unborn" => k.task[l].stop_flag
              /\ k.task[l].position_ms >= task[l].position_ms \/ task[l].jumped
    BY TakenStops, Zenon
  <1> HIDE DEF k
  <1>3. radars' = [q \in Recordings |->
                     IF active' # NoLoad /\ q = task'[active'].recording THEN active' ELSE NoLoad]
    BY <1>1, <1>2, Zenon
  <1>4. IInv'
    BY <1>1, <1>2, <1>3, Zenon DEF IInv
  <1>5. ForwardStep
    BY <1>1, <1>2, Zenon DEF ForwardStep
  <1>6. QED
    BY <1>4, <1>5

\* A step that leaves radars, active and task alone.
LEMMA OthersKeep ==
  ASSUME IInv, present' \subseteq present, UNCHANGED <<radars, active, task>>
  PROVE  IInv' /\ ForwardStep
  <1>1. present' \subseteq Recordings
    BY Zenon DEF IInv
  <1>2. IInv'
    BY <1>1, Zenon DEF IInv
  <1>3. \A l \in Loads : task[l].position_ms \in Nat
    BY FieldsTyped, Zenon DEF IInv
  <1>4. \A n \in Nat : n >= n
    OBVIOUS
  <1>5. ForwardStep
    BY <1>3, <1>4, Zenon DEF ForwardStep
  <1>6. QED
    BY <1>2, <1>5

\* Every step keeps the invariant and plays forward.
LEMMA NextKeeps ==
  ASSUME IInv, [Next]_vars
  PROVE  IInv' /\ ForwardStep
  <1>1. CASE \E r \in Recordings : load_playback_handler(r)
    BY <1>1, LoadKeeps, Zenon
  <1>2. CASE \E r \in Recordings : delete_recording_handler(r)
    <2>1. present' \subseteq present /\ UNCHANGED <<radars, active, task>>
      BY <1>2, Zenon DEF delete_recording_handler
    <2>2. QED
      BY <2>1, OthersKeep, Zenon
  <1>3. CASE stop_playback_handler
    BY <1>3, StopHandlerKeeps, Zenon
  <1>4. CASE play_handler
    BY <1>4, PlayKeeps, ActiveKeeps, Zenon DEF play_handler
  <1>5. CASE pause_handler
    BY <1>5, PauseKeeps, ActiveKeeps, Zenon DEF pause_handler
  <1>6. CASE \E ms \in Positions : seek_handler(ms)
    BY <1>6, AskSeekKeeps, ActiveKeeps, PlaybackAssumption, Zenon DEF seek_handler
  <1>7. CASE \E s \in Speeds, looped \in BOOLEAN : settings_handler(s, looped)
    <2>1. PICK s \in Speeds, looped \in BOOLEAN : settings_handler(s, looped)
      BY <1>7, Zenon
    <2>2. s \in Nat
      BY PlaybackAssumption, Zenon
    <2>3. WithPlayback(WithSettings(task[active], s, looped))
      BY <2>1, Zenon DEF settings_handler, WithSettings
    <2>4. QED
      BY <2>2, <2>3, SettingsKeep, ActiveKeeps, Zenon
  <1>8. CASE \E l \in Loads : playback_task(l) \/ Delay(l)
    BY <1>8, TaskKeeps, Zenon
  <1>9. CASE UNCHANGED vars
    BY <1>9, OthersKeep, Zenon DEF vars
  <1>10. QED
    BY <1>1, <1>2, <1>3, <1>4, <1>5, <1>6, <1>7, <1>8, <1>9, Zenon DEF Next, Handlers

-------------------------------------------------------------------------------
\* The theorems.

\* The invariant holds whatever the handlers and the tasks do, in any order.
THEOREM PlaybackInvariant ==
  Spec => []IInv
  <1>1. Init => IInv
    BY InitIInv
  <1>2. IInv /\ [Next]_vars => IInv'
    BY NextKeeps
  <1>3. QED
    BY <1>1, <1>2, PTL DEF Spec

\* load_playback_handler and stop_playback_handler leave no playback behind, and
\* after a pause or a stop at most the frame in hand goes out (playback_task).
THEOREM OnlyTheActivePlays ==
  Spec => []OnlyActivePlays
  <1>1. IInv => OnlyActivePlays
    <2> SUFFICES ASSUME IInv PROVE OnlyActivePlays
      OBVIOUS
    <2>1. /\ task \in [Loads -> Tasks] /\ \A m \in Loads : TaskInv(task[m])
          /\ active \in Loads \cup {NoLoad} /\ present \subseteq Recordings
          /\ \A l \in Loads \ {active} : task[l].pc # "unborn" => task[l].stop_flag
      BY Zenon DEF IInv
    <2>2. radars = [r \in Recordings |->
                      IF active # NoLoad /\ r = task[active].recording THEN active ELSE NoLoad]
      BY Zenon DEF IInv
    <2>3. /\ radars \in [Recordings -> Loads \cup {NoLoad}]
          /\ \A r \in Recordings : radars[r] # NoLoad => radars[r] = active
      BY <2>1, <2>2, Zenon
    <2>4. active # NoLoad => radars[task[active].recording] = active
      <3> SUFFICES ASSUME active # NoLoad PROVE radars[task[active].recording] = active
        OBVIOUS
      <3>1. task[active] \in Tasks
        BY <2>1, Zenon
      <3>2. task[active].recording \in Recordings
        BY <3>1, TaskFields
      <3>3. QED
        BY <2>2, <3>2, Zenon
    <2>5. ASSUME NEW l \in Loads
          PROVE  /\ task[l].pos \in 1 .. EndOfFrames(File[task[l].recording])
                 /\ task[l].state \in {"loaded", "playing", "paused", "stopped"}
                 /\ task[l].position_ms >= 0
                 /\ task[l].late <= 1
      <3> DEFINE t == task[l]
      <3>1. t \in Tasks /\ TaskInv(t)
        BY <2>1, Zenon
      <3> HIDE DEF t
      <3>a. t.state \in {"loaded", "playing", "paused", "stopped"} /\ t.position_ms \in Nat
        BY <3>1, Zenon DEF Tasks
      <3>2. t.state \in {"loaded", "playing", "paused", "stopped"} /\ t.position_ms >= 0
        BY <3>a
      <3>3. t.pos \in 1 .. EndOfFrames(File[t.recording]) /\ t.late <= 1
        BY <3>1, FramesTyped, Zenon DEF TaskInv, InFile, Halts
      <3>4. QED
        BY <3>2, <3>3 DEF t
    <2>6. QED
      BY <2>1, <2>3, <2>4, <2>5, Zenon DEF OnlyActivePlays, TypeOK
  <1>2. QED
    BY <1>1, PlaybackInvariant, PTL

\* The position of a playback goes back only over a seek or a rewind: a resume
\* opens the file again and seeks to where it was (playback_task).
THEOREM PlayedForward ==
  Spec => PlaysForward
  <1>1. IInv /\ [Next]_vars => [ForwardStep]_vars
    BY NextKeeps
  <1>2. QED
    BY <1>1, PlaybackInvariant, PTL DEF Spec, PlaysForward

\* No frame of a dense recording is given up by playback_task, for any speeds of
\* 1.0x and more and any seeks, pauses and delays.
THEOREM DensePlaysComplete ==
  Spec => []DenseIsComplete
  <1>1. IInv => DenseIsComplete
    BY Zenon DEF IInv, TaskInv, OnTime, DenseIsComplete
  <1>2. QED
    BY <1>1, PlaybackInvariant, PTL

===============================================================================
