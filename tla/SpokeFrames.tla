----------------------------- MODULE SpokeFrames -----------------------------
(***************************************************************************)
(* The pictures on the wire: a radar encodes its spokes, a datagram holds  *)
(* some of them, and the receiver of the brand decodes it.  Furuno codes a *)
(* sweep relative to the one before, so its decoder has a memory for each  *)
(* range that a lost datagram leaves behind.                               *)
(*                                                                         *)
(* The radar is external.  It emits a sweep token by token, any encoding   *)
(* of it; what a token stands for is what the picture is.  Bytes are       *)
(* numbers and their arithmetic is that of the decoders.  A header counts  *)
(* as the numbers the decoder's walk through the datagram depends on.      *)
(***************************************************************************)
EXTENDS Integers, Sequences, SequencesExt

CONSTANTS
    SweepLen,       \* samples of a sweep
    SpokeLen,       \* SPOKE_LEN, samples of a spoke as clients get it
    RepeatDefault,  \* what a repeat count of zero stands for
    Formats,        \* of a datagram
    MaxSweeps,      \* bound: sweeps of a datagram; the last datagram has one
    MaxDatagrams    \* bound: datagrams

ASSUME FramesAssumption ==
    /\ SweepLen \in 2 .. SpokeLen /\ RepeatDefault \in 2 .. 64
    /\ Formats \subseteq {"imo0", "imo1", "imo2", "imo3", "tile", "quantum", "rd",
                          "navico", "hd"}
    /\ MaxSweeps \in Nat /\ MaxDatagrams \in Nat

VARIABLES
    datagram,       \* the datagram the radar fills
    sweep,          \* the sweep it encodes: its bytes, and the samples they mean
    radar_spoke,    \* the sweep before, as the radar has it, per range (Furuno)
    prev_spoke,     \* the sweep before, as the receiver has it
    behind,         \* ghost: whether they differ for the loss of a datagram
    shown,          \* the spokes of the last datagram delivered
    datagrams       \* how many there were

frameVars == <<datagram, sweep, radar_spoke, prev_spoke, behind, shown, datagrams>>

FurunoRanges == {"A", "B"}
Furuno(format) == format \in {"imo0", "imo1", "imo2", "imo3", "tile"}
NoSweep == [bytes |-> <<>>, samples |-> <<>>, copies |-> FALSE]
NoDatagram == [at |-> "none", format |-> "imo0", range |-> "A", scale |-> 1, data |-> <<>>, spokes |-> <<>>,
               alone |-> TRUE, closed |-> FALSE]

Copies(v, n) == [i \in 1 .. n |-> v]
SampleAt(spoke, i) == IF i <= Len(spoke) THEN spoke[i] ELSE 0

\* Vec::resize and truncate
Resize(spoke, n) == [i \in 1 .. n |-> SampleAt(spoke, i)]
Truncate(spoke, n) == SubSeq(spoke, 1, IF n < Len(spoke) THEN n ELSE Len(spoke))

Repeat(count) == IF count = 0 THEN RepeatDefault ELSE count

-----------------------------------------------------------------------------
(* Furuno *)

\* used = (used + 3) & SPOKE_ALIGNMENT_MASK
Aligned(used) == ((used + 3) \div 4) * 4

Push(acc, v) == [acc EXCEPT !.spoke = Append(@, v), !.strength = v]
Run(acc, n) == [acc EXCEPT !.spoke = @ \o Copies(acc.strength, n)]
CopyPrev(acc, prev, n) ==
    LET samples == [i \in 1 .. n |-> SampleAt(prev, Len(acc.spoke) + i)]
    IN  [acc EXCEPT !.spoke = @ \o samples, !.strength = samples[n]]

\* Bytes are taken until the sweep is complete or there are none left.
Decode(Byte(_, _), data, sweep_len) ==
    LET step(acc, b) == IF Len(acc.spoke) < sweep_len
                        THEN [Byte(acc, b) EXCEPT !.used = @ + 1] ELSE acc
        end == FoldLeft(step, [spoke |-> <<>>, strength |-> 0, used |-> 0], data)
    IN  [spoke |-> end.spoke, used |-> Aligned(end.used)]

decode_sweep_encoding_0(data) == [spoke |-> data, used |-> Len(data)]

decode_sweep_encoding_1(data, sweep_len) ==
    LET byte(acc, b) == IF b % 2 = 0 THEN Push(acc, b) ELSE Run(acc, Repeat(b \div 2))
    IN  Decode(byte, data, sweep_len)

decode_sweep_encoding_2(data, prev, sweep_len) ==
    LET byte(acc, b) ==
            IF b % 2 = 0 THEN Push(acc, b) ELSE CopyPrev(acc, prev, Repeat(b \div 2))
    IN  Decode(byte, data, sweep_len)

decode_sweep_encoding_3(data, prev, sweep_len) ==
    LET byte(acc, b) ==
            IF b % 4 = 0 THEN Push(acc, b)
            ELSE IF b % 2 = 0 THEN CopyPrev(acc, prev, Repeat(b \div 4))
            ELSE Run(acc, Repeat(b \div 4))
    IN  Decode(byte, data, sweep_len)

\* The first effective samples cover the range, and are stretched to dst_len.
stretch_spoke(src, src_effective, dst_len) ==
    IF src = <<>> THEN Copies(0, dst_len)
    ELSE LET less == IF src_effective < Len(src) THEN src_effective ELSE Len(src)
             effective == IF less < 1 THEN 1 ELSE less
         IN  IF effective >= dst_len THEN SubSeq(src, 1, dst_len)
             ELSE [i \in 1 .. dst_len |-> src[(((i - 1) * effective) \div dst_len) + 1]]

\* Mutant: the first sweep of a datagram is coded against the one before, too.
DecodeSweepAllDelta(format, index, data, prev) ==
    CASE format = "imo0" -> decode_sweep_encoding_0(data)
      [] format = "imo1" -> decode_sweep_encoding_1(data, SweepLen)
      [] format = "imo2" -> decode_sweep_encoding_2(data, prev, SweepLen)
      [] format = "imo3" -> decode_sweep_encoding_3(data, prev, SweepLen)

DecodeSweep(format, index, data, prev) ==
    CASE format = "imo0" -> decode_sweep_encoding_0(data)
      [] format = "imo1" \/ (format = "imo2" /\ index = 1) ->
            decode_sweep_encoding_1(data, SweepLen)
      [] format = "imo2" /\ index > 1 -> decode_sweep_encoding_2(data, prev, SweepLen)
      [] format = "imo3" -> decode_sweep_encoding_3(data, prev, SweepLen)

\* process_frame: sweep by sweep, each after a header of four bytes, while
\* there is data left.  A short sweep is filled with zeros.
process_frame(frame, prev) ==
    LET one(acc, index) ==
            IF Len(acc.data) < 5 THEN acc
            ELSE LET body == SubSeq(acc.data, 5, Len(acc.data))
                     result == DecodeSweep(frame.format, index, body, acc.prev)
                     spoke == IF Len(result.spoke) < SweepLen
                              THEN Resize(result.spoke, SweepLen) ELSE result.spoke
                 IN  [data |-> SubSeq(body, result.used + 1, Len(body)),
                      prev |-> spoke,
                      spokes |-> Append(acc.spokes,
                                        stretch_spoke(spoke, frame.scale, SpokeLen))]
        sweeps == [i \in 1 .. Len(frame.spokes) |-> i]
    IN  FoldLeft(one, [data |-> frame.data, prev |-> prev, spokes |-> <<>>], sweeps)

\* (byte & 0x7F) >> 1 | (byte & 1) << 7
tile_literal(byte) == ((byte % 128) \div 2) + (byte % 2) * 128

\* The strips of a tile datagram: a header of four bytes, a flag for the length
\* of the strip that is its first pixel, then literals and runs that end with
\* the strip.  The sweep before is forgotten.
StripLen(flag) == IF flag >= 128 THEN SweepLen ELSE SweepLen - 1

TileStrip(data) ==
    LET count == StripLen(data[5])
        step(acc, b) ==
            IF Len(acc.spoke) >= count THEN acc
            ELSE [used |-> acc.used + 1,
                  spoke |-> IF b < 128 THEN Append(acc.spoke, tile_literal(b))
                            ELSE Truncate(acc.spoke
                                    \o Copies(Last(acc.spoke), Repeat(b % 128)), count)]
    IN  FoldLeft(step, [used |-> 5, spoke |-> <<tile_literal(data[5])>>],
                 SubSeq(data, 6, Len(data)))

process_tile_frame(frame) ==
    LET one(acc, index) ==
            IF Len(acc.data) < 5 THEN acc
            ELSE LET strip == TileStrip(acc.data)
                 IN  [data |-> SubSeq(acc.data, strip.used + 1, Len(acc.data)),
                      spokes |-> Append(acc.spokes, stretch_spoke(
                                    Resize(strip.spoke, SweepLen), SweepLen, SpokeLen))]
    IN  FoldLeft(one, [data |-> frame.data, spokes |-> <<>>],
                 [i \in 1 .. Len(frame.data) |-> i])

-----------------------------------------------------------------------------
(* Raymarine, Navico and Garmin HD *)

\* 0x5c, a count and a value stand for a run.
Marker == 92

RunLength(data, Samples(_), returns_per_line) ==
    LET step(acc, b) ==
            CASE acc.marker = 0 /\ b # Marker -> [acc EXCEPT !.spoke = @ \o Samples(b)]
              [] acc.marker = 0 /\ b = Marker -> [acc EXCEPT !.marker = 1]
              [] acc.marker = 1 -> [acc EXCEPT !.marker = 2, !.count = b]
              [] acc.marker = 2 -> [acc EXCEPT !.marker = 0,
                    !.spoke = @ \o FlattenSeq(Copies(Samples(b), acc.count))]
    IN  Truncate(FoldLeft(step, [spoke |-> <<>>, marker |-> 0, count |-> 0], data).spoke,
                 returns_per_line)

\* process_spoke of a Quantum, before the lookup.
quantum_spoke(data) == LET same(b) == <<b>> IN RunLength(data, same, SweepLen)

\* process_spoke of an RD: seven bits of an HD sample; or two of four bits, the
\* low one first, "so they match HD legend".
rd_spoke(hd_type, data) ==
    LET high(b) == <<b \div 2>>
        nibbles(b) == <<(b % 16) * 8, (b \div 16) * 8>>
    IN  IF hd_type THEN RunLength(data, high, SweepLen)
        ELSE RunLength(data, nibbles, SweepLen)

\* process_frame of an RD: spokes up to the first header it does not know.
\* A header is its type, 1 for HD and 0 for not, and the length of the data.
rd_frame(frame) ==
    LET one(acc, index) ==
            IF acc.data = <<>> \/ acc.data[1] \notin {0, 1} THEN [acc EXCEPT !.data = <<>>]
            ELSE LET end == 2 + acc.data[2]
                 IN  [data |-> SubSeq(acc.data, end + 1, Len(acc.data)),
                      spokes |-> Append(acc.spokes,
                            rd_spoke(acc.data[1] = 1, SubSeq(acc.data, 3, end)))]
    IN  FoldLeft(one, [data |-> frame.data, spokes |-> <<>>],
                 [i \in 1 .. Len(frame.data) |-> i]).spokes

\* process_spoke of Navico: two samples a byte, the low nibble first.
navico_spoke(data) == FlattenSeq([i \in DOMAIN data |-> <<data[i] % 16, data[i] \div 16>>])

\* Lines of one length each; what is left over is no line, and a line with a
\* header that validate_header refuses is left out.
navico_frame(frame) ==
    LET length == 1 + SweepLen
        lines == [n \in 1 .. Len(frame.data) \div length |->
                    SubSeq(frame.data, (n - 1) * length + 1, n * length)]
        valid(line) == line[1] = 9
        legible == SelectSeq(lines, valid)
    IN  [n \in DOMAIN legible |-> navico_spoke(Tail(legible[n]))]

\* unpack_hd_spoke: eight samples a byte, the low bit first.
unpack_hd_spoke(data) ==
    FlattenSeq([i \in DOMAIN data |->
        [bit \in 1 .. 8 |-> IF (data[i] \div 2 ^ (bit - 1)) % 2 = 1 THEN 255 ELSE 0]])

\* process_hd_spoke: the spokes of a packet have the same length.
process_hd_spoke(frame) ==
    LET bytes_per_spoke == Len(frame.data) \div Len(frame.spokes)
    IN  [n \in 1 .. Len(frame.spokes) |-> unpack_hd_spoke(
            SubSeq(frame.data, (n - 1) * bytes_per_spoke + 1, n * bytes_per_spoke))]

-----------------------------------------------------------------------------
(* The radar *)

Room == SweepLen - Len(sweep.samples)
LastSample == IF sweep.samples = <<>> THEN 0 ELSE Last(sweep.samples)

Token(bytes, adds, copies) == [bytes |-> bytes, adds |-> adds, copies |-> copies]

\* The counts of a run that fits; a zero is the default.
Counts == {c \in 0 .. RepeatDefault - 1 : Repeat(c) <= Room}

Literals(values) == {Token(<<v>>, <<v>>, FALSE) : v \in values}
Runs(factor, low) ==
    {Token(<<c * factor + low>>, Copies(LastSample, Repeat(c)), FALSE) : c \in Counts}
Deltas(factor, low) ==
    {Token(<<c * factor + low>>,
           [i \in 1 .. Repeat(c) |-> SampleAt(radar_spoke[datagram.range],
                                              Len(sweep.samples) + i)], TRUE) : c \in Counts}

\* A value of an RD that is not HD is two samples, as is a byte of Navico.
Pair(b) == <<(b % 16) * 8, (b \div 16) * 8>>
Marked(values, Samples(_)) ==
    {Token(<<v>>, Samples(v), FALSE) : v \in values \ {Marker}}
        \cup {Token(<<Marker, n, v>>, FlattenSeq(Copies(Samples(v), n)), FALSE) :
                n \in 1 .. 2, v \in values}

FirstSweep == datagram.spokes = <<>>

Tokens ==
    LET same(b) == <<b>>
        half(b) == <<b \div 2>>
    IN  CASE datagram.format = "imo0" -> Literals({0, 4})
          [] datagram.format = "imo1" \/ (datagram.format = "imo2" /\ FirstSweep) ->
                Literals({0, 4}) \cup Runs(2, 1)
          [] datagram.format = "imo2" /\ ~FirstSweep -> Literals({0, 4}) \cup Deltas(2, 1)
          [] datagram.format = "imo3" -> Literals({0, 4}) \cup Runs(4, 1) \cup Deltas(4, 2)
          [] datagram.format = "tile" /\ sweep.bytes = <<>> ->
                {Token(<<128 + v>>, <<tile_literal(v)>>, FALSE) : v \in {1, 6}}
          [] datagram.format = "tile" /\ sweep.bytes # <<>> ->
                {Token(<<v>>, <<tile_literal(v)>>, FALSE) : v \in {1, 6}}
                    \cup {Token(<<128 + c>>, Copies(LastSample, Repeat(c)), FALSE) :
                            c \in 0 .. 1}
          [] datagram.format = "quantum" -> Marked({7, Marker}, same)
          [] datagram.format = "rd" -> IF FirstSweep THEN Marked({18, Marker}, Pair)
                                       ELSE Marked({18, Marker}, half)
          [] datagram.format = "navico" ->
                {Token(<<b>>, <<b % 16, b \div 16>>, FALSE) : b \in {18, 240}}
          [] datagram.format = "hd" ->
                {Token(<<1>>, <<255>> \o Copies(0, 7), FALSE),
                 Token(<<192>>, Copies(0, 6) \o <<255, 255>>, FALSE)}

NewDatagram ==
    /\ datagram.at # "radar" /\ datagrams < MaxDatagrams
    /\ \E format \in Formats, range \in FurunoRanges :
          /\ IF Furuno(format) THEN datagrams > 0 => Furuno(datagram.format)
             ELSE datagrams = 0 /\ range = "A"
          /\ datagram' = [NoDatagram EXCEPT !.at = "radar", !.format = format,
                !.range = range,
                !.scale = IF range = "A" \/ format = "tile" THEN SweepLen ELSE SweepLen - 1]
    /\ datagrams' = datagrams + 1
    /\ shown' = <<>>
    /\ UNCHANGED <<sweep, radar_spoke, prev_spoke, behind>>

\* A byte of Navico and of Garmin is whole; all other sweeps end at SweepLen.
Complete ==
    CASE datagram.format = "navico" -> Len(sweep.bytes) = SweepLen
      [] datagram.format = "hd" -> Len(sweep.bytes) = 1
      [] datagram.format = "tile" -> sweep.bytes # <<>> /\ Room <= 0
      [] OTHER -> Room <= 0

Encode ==
    /\ datagram.at = "radar" /\ ~datagram.closed /\ ~Complete
    /\ datagram.format \in {"imo0", "quantum"} => datagram.spokes = <<>>
    /\ Len(datagram.spokes) < (IF datagrams < MaxDatagrams THEN MaxSweeps ELSE 1)
    /\ \E token \in Tokens :
          sweep' = [bytes |-> sweep.bytes \o token.bytes,
                    samples |-> sweep.samples \o token.adds,
                    copies |-> sweep.copies \/ token.copies]
    /\ UNCHANGED <<datagram, radar_spoke, prev_spoke, behind, shown, datagrams>>

\* The sweep with its header, filled to four bytes for Furuno.
Packed(header) ==
    CASE datagram.format \in {"imo0", "imo1", "imo2", "imo3"} ->
            Copies(9, 4) \o Resize(sweep.bytes, Aligned(Len(sweep.bytes)))
      [] datagram.format = "tile" -> Copies(9, 4) \o sweep.bytes
      [] datagram.format = "rd" -> <<header, Len(sweep.bytes)>> \o sweep.bytes
      [] datagram.format = "navico" -> <<header>> \o sweep.bytes
      [] OTHER -> sweep.bytes

\* The samples of the sweep that make the spoke.
Meant ==
    CASE Furuno(datagram.format) -> Resize(sweep.samples, SweepLen)
      [] datagram.format \in {"quantum", "rd"} -> Truncate(sweep.samples, SweepLen)
      [] OTHER -> sweep.samples

\* The sweep is complete; or it is the last of a Furuno's and the rest of it is
\* empty, which the radar leaves out.
EndSweep ==
    /\ sweep.bytes # <<>>
    /\ Complete \/ datagram.format \in {"imo1", "imo3"}
    /\ datagram' = [datagram EXCEPT
            !.data = @ \o Packed(CASE datagram.format = "navico" -> 9
                                   [] OTHER -> IF FirstSweep THEN 0 ELSE 1),
            !.spokes = Append(@, Meant),
            !.alone = IF FirstSweep THEN ~sweep.copies ELSE @,
            !.closed = ~Complete]
    /\ radar_spoke' = IF ~Furuno(datagram.format) THEN radar_spoke
                      ELSE [radar_spoke EXCEPT ![datagram.range] =
                                IF datagram.format = "tile" THEN <<>> ELSE Meant]
    /\ sweep' = NoSweep
    /\ UNCHANGED <<prev_spoke, behind, shown, datagrams>>

\* The header of a spoke is one that the receiver does not know.
EndIllegible ==
    /\ Complete /\ ~FirstSweep /\ datagram.format \in {"rd", "navico"}
    /\ datagram' = [datagram EXCEPT !.data = @ \o Packed(2),
                                    !.closed = datagram.format = "rd" \/ Len(datagram.data) > SweepLen + 1]
    /\ sweep' = NoSweep
    /\ UNCHANGED <<radar_spoke, prev_spoke, behind, shown, datagrams>>

-----------------------------------------------------------------------------
(* The network and the receiver *)

\* The receiver decodes the datagram.  The spokes of one that starts with a
\* sweep of its own are known to be right; so are those of one whose
\* predecessors all arrived.
Deliver ==
    /\ datagram.at = "radar" /\ datagram.spokes # <<>> /\ sweep = NoSweep
    /\ LET imo == process_frame(datagram, prev_spoke[datagram.range])
           r == datagram.range
       IN  /\ shown' = CASE datagram.format = "tile" -> process_tile_frame(datagram).spokes
                         [] datagram.format = "quantum" -> <<quantum_spoke(datagram.data)>>
                         [] datagram.format = "rd" -> rd_frame(datagram)
                         [] datagram.format = "navico" -> navico_frame(datagram)
                         [] datagram.format = "hd" -> process_hd_spoke(datagram)
                         [] OTHER -> imo.spokes
           /\ prev_spoke' = IF ~Furuno(datagram.format) THEN prev_spoke
                            ELSE [prev_spoke EXCEPT ![r] =
                                    IF datagram.format = "tile" THEN <<>> ELSE imo.prev]
           /\ behind' = IF ~Furuno(datagram.format) THEN behind
                        ELSE [behind EXCEPT ![r] = @ /\ ~datagram.alone]
    /\ datagram' = [datagram EXCEPT !.at = "receiver", !.data = <<>>]
    /\ UNCHANGED <<sweep, radar_spoke, datagrams>>

Lose ==
    /\ datagram.at = "radar" /\ datagram.spokes # <<>> /\ sweep = NoSweep
    /\ datagram' = NoDatagram
    /\ behind' = [behind EXCEPT ![datagram.range] = @ \/ Furuno(datagram.format)]
    /\ UNCHANGED <<sweep, radar_spoke, prev_spoke, shown, datagrams>>

FramesInit ==
    /\ datagram = NoDatagram /\ sweep = NoSweep
    /\ radar_spoke = [r \in FurunoRanges |-> <<>>]
    /\ prev_spoke = [r \in FurunoRanges |-> <<>>]
    /\ behind = [r \in FurunoRanges |-> FALSE]
    /\ shown = <<>> /\ datagrams = 0

FramesNext == NewDatagram \/ Encode \/ EndSweep \/ EndIllegible \/ Deliver \/ Lose

-----------------------------------------------------------------------------

\* The sample of the first scale ones in which a point of the range lies.
SampleOf(i, scale) == CHOOSE j \in 0 .. scale - 1 :
    j * SpokeLen <= i * scale /\ i * scale < (j + 1) * SpokeLen

Expected ==
    [n \in DOMAIN datagram.spokes |->
        IF ~Furuno(datagram.format) THEN datagram.spokes[n]
        ELSE [i \in 1 .. SpokeLen |->
                datagram.spokes[n][SampleOf(i - 1, datagram.scale) + 1]]]

\* What clients are shown is the picture the radar encoded, every spoke of it
\* and stretched so that "sample `i` of the output always represents physical
\* distance `i / dst_len * metadata.range`" (stretch_spoke): for any encoding of any
\* sweeps, runs that end with the sweep and default counts included, with the
\* ranges and formats of a radar's datagrams in any order, and again after a
\* datagram is lost as soon as one starts with a sweep of its own, which in
\* Furuno's encoding 2 is the next (process_frame of each brand).
SpokesAreExact ==
    datagram.at = "receiver" /\ ~behind[datagram.range] => shown = Expected
=============================================================================
