---------------------------- MODULE OneShotProofs ----------------------------
(***************************************************************************)
(* The one-shot path, from a file to its windows.                           *)
(*                                                                          *)
(* First the decoder: DecoderInv says how far the file has been read, as    *)
(* its writer laid it out.  data is behind a tag that was written           *)
(* (TagsSkipped); offset is behind a chunk that was, and what the scan has  *)
(* kept is the last fmt and data chunk before it (ChunksScanned); the       *)
(* samples are those of a data chunk up to offset (SamplesRead), or those   *)
(* of all packets so far (PacketsDecoded).  Then the answer: windows over   *)
(* the bytes of the only data chunk.                                        *)
(***************************************************************************)
EXTENDS DataFingerprinter, FingerprintProofs

-----------------------------------------------------------------------------
\* Lengths

\* A length is the last of the partial sums.
LEMMA LengthIs ==
  ASSUME NEW s, NEW n \in Nat, Len(s) = n
  PROVE  \E g : /\ g[0] = 0 /\ LengthOf(s) = g[n]
                /\ \A k \in 1 .. n : g[k] = g[k - 1] + s[k]
<1> DEFINE sum == CHOOSE g : Partial(s, n, g)
<1>1. Partial(s, n, sum)
  BY PartialExists
<1>2. LengthOf(s) = sum[n]
  BY DEF LengthOf, Partial
<1> HIDE DEF sum
<1>3. \A k \in 0 .. n : sum[k] = IF k = 0 THEN 0 ELSE sum[k - 1] + s[k]
  BY <1>1 DEF Partial
<1> QED
  BY <1>2, <1>3

LEMMA LengthOfNothing ==
  ASSUME NEW s, Len(s) = 0
  PROVE  LengthOf(s) = 0
  BY LengthIs

\* One more element adds its size.
LEMMA LengthOfMore ==
  ASSUME NEW s, NEW t, NEW n \in Nat, Len(s) = n, Len(t) = n + 1,
         \A k \in 1 .. n : s[k] = t[k],
         \A k \in 1 .. n + 1 : t[k] \in Nat
  PROVE  LengthOf(s) \in Nat /\ LengthOf(t) = LengthOf(s) + t[n + 1]
<1>1. PICK g : /\ g[0] = 0 /\ LengthOf(s) = g[n]
               /\ \A k \in 1 .. n : g[k] = g[k - 1] + s[k]
  BY LengthIs
<1>2. n + 1 \in Nat
  OBVIOUS
<1>3. PICK h : /\ h[0] = 0 /\ LengthOf(t) = h[n + 1]
               /\ \A k \in 1 .. n + 1 : h[k] = h[k - 1] + t[k]
  BY <1>2, LengthIs
<1> DEFINE S == {m \in Nat : m <= n => g[m] = h[m] /\ g[m] \in Nat}
<1>4. 0 \in S
  BY <1>1, <1>3
<1>5. ASSUME NEW m \in Nat, m \in S PROVE m + 1 \in S
  <2> SUFFICES ASSUME m + 1 <= n PROVE g[m + 1] = h[m + 1] /\ g[m + 1] \in Nat
    OBVIOUS
  <2>1. m + 1 \in 1 .. n /\ m + 1 \in 1 .. n + 1 /\ (m + 1) - 1 = m /\ m <= n
    OBVIOUS
  <2>2. g[m] = h[m] /\ g[m] \in Nat
    BY <1>5, <2>1
  <2>3. g[m + 1] = g[m] + s[m + 1] /\ h[m + 1] = h[m] + t[m + 1] /\ s[m + 1] = t[m + 1]
        /\ t[m + 1] \in Nat
    BY <1>1, <1>3, <2>1
  <2> QED
    BY <2>2, <2>3
<1> HIDE DEF S
<1>6. n \in S
  BY <1>4, <1>5, NatInd
<1>7. g[n] = h[n] /\ g[n] \in Nat
  BY <1>6 DEF S
<1>8. h[n + 1] = h[n] + t[n + 1]
  BY <1>3
<1> QED
  BY <1>1, <1>3, <1>7, <1>8

\* Of things one after the other, each ends where the next one begins or before.
LEMMA Apart ==
  ASSUME NEW n \in Nat, NEW w \in [1 .. n -> Nat], NEW P,
         P[1] \in Nat, \A k \in 1 .. n : P[k] \in Nat => P[k + 1] = P[k] + w[k]
  PROVE  /\ \A k \in 1 .. n + 1 : P[k] \in Nat
         /\ \A j \in 1 .. n, k \in 1 .. n + 1 : j < k => P[j] + w[j] <= P[k]
<1> DEFINE Before(m) == /\ \A k \in 1 .. m + 1 : P[k] \in Nat
                        /\ \A j \in 1 .. m : P[j] + w[j] <= P[m + 1]
           S == {m \in Nat : m <= n => Before(m)}
<1>1. 0 \in S
  OBVIOUS
<1>2. ASSUME NEW m \in Nat, m \in S PROVE m + 1 \in S
  <2> SUFFICES ASSUME m + 1 <= n PROVE Before(m + 1)
    OBVIOUS
  <2>1. /\ \A k \in 1 .. m + 1 : P[k] \in Nat
        /\ \A j \in 1 .. m : P[j] + w[j] <= P[m + 1]
    BY <1>2
  <2>2. /\ P[m + 1] \in Nat /\ P[m + 1 + 1] = P[m + 1] + w[m + 1] /\ w[m + 1] \in Nat
    BY <2>1
  <2>3. ASSUME NEW k \in 1 .. m + 1 + 1 PROVE P[k] \in Nat
    <3>1. CASE k = m + 1 + 1
      BY <2>2, <3>1
    <3>2. CASE k \in 1 .. m + 1
      BY <2>1, <3>2
    <3> QED
      BY <3>1, <3>2
  <2>4. ASSUME NEW j \in 1 .. m + 1 PROVE P[j] + w[j] <= P[m + 1 + 1]
    <3>1. CASE j = m + 1
      BY <2>2, <3>1
    <3>2. CASE j \in 1 .. m
      <4>1. P[j] + w[j] <= P[m + 1] /\ w[j] \in Nat /\ P[j] \in Nat
        BY <2>1, <3>2
      <4> QED
        BY <2>2, <4>1
    <3> QED
      BY <3>1, <3>2
  <2> QED
    BY <2>3, <2>4
<1>3. \A m \in Nat : m \in S
  <2> HIDE DEF S
  <2> QED
    BY <1>1, <1>2, NatInd
<1>4. \A m \in Nat : m <= n => Before(m)
  BY <1>3
<1>5. \A k \in 1 .. n + 1 : P[k] \in Nat
  <2>1. Before(n)
    BY <1>4
  <2> QED
    BY <2>1
<1>6. ASSUME NEW j \in 1 .. n, NEW k \in 1 .. n + 1, j < k PROVE P[j] + w[j] <= P[k]
  <2>1. k - 1 \in Nat /\ k - 1 <= n /\ j \in 1 .. k - 1 /\ (k - 1) + 1 = k
    BY <1>6
  <2> QED
    BY <1>4, <2>1
<1> QED
  BY <1>5, <1>6

-----------------------------------------------------------------------------
\* The layout of a file

LEMMA FileTypes ==
  ASSUME file \in Files
  PROVE  /\ file.tags \in Seq(TagFields) /\ file.chunks \in Seq(ChunkFields)
         /\ file.size \in Nat /\ file.cut \in Nat
  BY AudioDecoderAssumption DEF AudioDecoderAssumption

\* What a file's writer gave each tag and each chunk
TagsOf == [k \in DOMAIN file.tags |-> WrittenTag(file.tags[k])]
ChunksOf == [k \in DOMAIN file.chunks |-> WrittenChunk(file.chunks[k])]

\* Tags follow one another from the first byte on.
LEMMA TagLayout ==
  ASSUME file \in Files, NEW n, n = Len(file.tags)
  PROVE  /\ n \in Nat /\ DOMAIN file.tags = 1 .. n
         /\ TagPosition(1) = 0 /\ Payload = TagPosition(n + 1) /\ Payload \in Nat
         /\ \A k \in 1 .. n + 1 : TagPosition(k) \in Nat
         /\ \A k \in 1 .. n : /\ TagsOf[k] = WrittenTag(file.tags[k])
                              /\ TagsOf[k] \in Nat /\ TagsOf[k] >= TagHeader
                              /\ TagPosition(k + 1) = TagPosition(k) + TagsOf[k]
         /\ \A j \in 1 .. n, k \in 1 .. n + 1 :
               j < k => TagPosition(j) + TagsOf[j] <= TagPosition(k)
<1>1. file.tags \in Seq(TagFields)
  BY FileTypes
<1>2. n \in Nat /\ DOMAIN file.tags = 1 .. n /\ \A k \in 1 .. n : file.tags[k] \in TagFields
  <2> HIDE DEF TagFields
  <2> QED
    BY <1>1
<1>3. \A k \in 1 .. n : /\ TagsOf[k] = WrittenTag(file.tags[k])
                        /\ TagsOf[k] \in Nat /\ TagsOf[k] >= TagHeader
  BY <1>2 DEF TagsOf, WrittenTag, TagHeader, TagFields
<1> DEFINE L(k) == [i \in 1 .. k - 1 |-> WrittenTag(file.tags[i])]
           P == [k \in 1 .. n + 1 |-> LengthOf(L(k))]
<1>4. \A k \in 1 .. n + 1 : P[k] = TagPosition(k)
  BY DEF TagPosition
<1>5. \A k \in 1 .. n + 1 : Len(L(k)) = k - 1
  BY <1>2
<1>6. P[1] = 0 /\ P[1] \in Nat
  <2>1. Len(L(1)) = 0 /\ 1 \in 1 .. n + 1
    BY <1>2, <1>5
  <2> HIDE DEF L
  <2> QED
    BY <2>1, LengthOfNothing
<1>7. ASSUME NEW k \in 1 .. n PROVE P[k + 1] = P[k] + TagsOf[k]
  <2> DEFINE m == k - 1
  <2>1. /\ Len(L(k)) = m /\ Len(L(k + 1)) = m + 1 /\ m \in Nat
        /\ m + 1 = k /\ m + 1 \in 1 .. m + 1
    BY <1>2, <1>5
  <2>2. \A i \in 1 .. m : L(k)[i] = L(k + 1)[i]
    BY <1>2
  <2>6. \A i \in 1 .. m + 1 : i \in 1 .. n /\ L(k + 1)[i] = WrittenTag(file.tags[i])
    BY <1>2
  <2> HIDE DEF L, m
  <2>3. \A i \in 1 .. m + 1 : L(k + 1)[i] = TagsOf[i] /\ L(k + 1)[i] \in Nat
    BY <1>3, <2>6
  <2>4. /\ LengthOf(L(k + 1)) = LengthOf(L(k)) + L(k + 1)[m + 1] /\ LengthOf(L(k)) \in Nat
        /\ L(k + 1)[m + 1] = TagsOf[k] /\ TagsOf[k] \in Nat
    BY <2>1, <2>2, <2>3, LengthOfMore
  <2>5. k \in 1 .. n + 1 /\ k + 1 \in 1 .. n + 1
    BY <1>2
  <2> QED
    BY <2>4, <2>5
<1> HIDE DEF P
<1>8. TagsOf \in [1 .. n -> Nat]
  BY <1>2, <1>3 DEF TagsOf
<1>9. /\ \A k \in 1 .. n + 1 : P[k] \in Nat
      /\ \A j \in 1 .. n, k \in 1 .. n + 1 : j < k => P[j] + TagsOf[j] <= P[k]
  BY <1>2, <1>6, <1>7, <1>8, Apart
<1>10. \A k \in 1 .. n : k \in 1 .. n + 1 /\ k + 1 \in 1 .. n + 1
  BY <1>2
<1>11. 1 \in 1 .. n + 1 /\ n + 1 \in 1 .. n + 1
  BY <1>2
<1>12. Payload = TagPosition(n + 1)
  BY DEF Payload
<1> QED
  BY <1>2, <1>3, <1>4, <1>6, <1>7, <1>9, <1>10, <1>11, <1>12

\* Chunks follow one another from the end of the RIFF header on.
LEMMA ChunkLayout ==
  ASSUME file \in Files, NEW n, n = Len(file.chunks)
  PROVE  /\ n \in Nat /\ DOMAIN file.chunks = 1 .. n
         /\ \A k \in 1 .. n : file.chunks[k] \in ChunkFields
         /\ ChunkPosition(1) = RiffHeader
         /\ \A k \in 1 .. n + 1 : ChunkPosition(k) \in Nat /\ ChunkPosition(k) >= RiffHeader
         /\ \A k \in 1 .. n :
               /\ ChunksOf[k] = ChunkHeader + file.chunks[k].size + (file.chunks[k].size % 2)
               /\ ChunksOf[k] \in Nat /\ ChunksOf[k] >= ChunkHeader + file.chunks[k].size
               /\ ChunkPosition(k + 1) = ChunkPosition(k) + ChunksOf[k]
         /\ \A j \in 1 .. n, k \in 1 .. n + 1 :
               j < k => ChunkPosition(j) + ChunksOf[j] <= ChunkPosition(k)
<1>1. file.chunks \in Seq(ChunkFields)
  BY FileTypes
<1>2. n \in Nat /\ DOMAIN file.chunks = 1 .. n /\ \A k \in 1 .. n : file.chunks[k] \in ChunkFields
  <2> HIDE DEF ChunkFields
  <2> QED
    BY <1>1
<1>3. ASSUME NEW k \in 1 .. n
      PROVE  /\ ChunksOf[k] = WrittenChunk(file.chunks[k])
             /\ ChunksOf[k] = ChunkHeader + file.chunks[k].size + (file.chunks[k].size % 2)
             /\ ChunksOf[k] \in Nat /\ ChunksOf[k] >= ChunkHeader + file.chunks[k].size
  <2>1. file.chunks[k].size \in Nat
    BY <1>2 DEF ChunkFields
  <2>2. file.chunks[k].size % 2 \in Nat
    BY <2>1
  <2>3. ChunksOf[k] = ChunkHeader + file.chunks[k].size + (file.chunks[k].size % 2)
    BY <1>2 DEF ChunksOf, WrittenChunk
  <2> QED
    BY <1>2, <2>1, <2>2, <2>3 DEF ChunkHeader, WrittenChunk
<1> DEFINE L(k) == [i \in 1 .. k - 1 |-> WrittenChunk(file.chunks[i])]
           P == [k \in 1 .. n + 1 |-> RiffHeader + LengthOf(L(k))]
<1>4. \A k \in 1 .. n + 1 : P[k] = ChunkPosition(k)
  BY DEF ChunkPosition
<1>5. \A k \in 1 .. n + 1 : Len(L(k)) = k - 1
  BY <1>2
<1>6. P[1] = RiffHeader /\ RiffHeader \in Nat /\ P[1] \in Nat
  <2>1. Len(L(1)) = 0 /\ 1 \in 1 .. n + 1
    BY <1>2, <1>5
  <2> HIDE DEF L
  <2> QED
    BY <2>1, LengthOfNothing DEF RiffHeader
<1>7. ASSUME NEW k \in 1 .. n PROVE P[k + 1] = P[k] + ChunksOf[k]
  <2> DEFINE m == k - 1
  <2>1. /\ Len(L(k)) = m /\ Len(L(k + 1)) = m + 1 /\ m \in Nat
        /\ m + 1 = k /\ m + 1 \in 1 .. m + 1
    BY <1>2, <1>5
  <2>2. \A i \in 1 .. m : L(k)[i] = L(k + 1)[i]
    BY <1>2
  <2>6. \A i \in 1 .. m + 1 : i \in 1 .. n /\ L(k + 1)[i] = WrittenChunk(file.chunks[i])
    BY <1>2
  <2> HIDE DEF L, m
  <2>3. \A i \in 1 .. m + 1 : L(k + 1)[i] = ChunksOf[i] /\ L(k + 1)[i] \in Nat
    BY <1>3, <2>6
  <2>4. /\ LengthOf(L(k + 1)) = LengthOf(L(k)) + L(k + 1)[m + 1] /\ LengthOf(L(k)) \in Nat
        /\ L(k + 1)[m + 1] = ChunksOf[k] /\ ChunksOf[k] \in Nat
    BY <2>1, <2>2, <2>3, LengthOfMore
  <2>5. k \in 1 .. n + 1 /\ k + 1 \in 1 .. n + 1
    BY <1>2
  <2> QED
    BY <1>6, <2>4, <2>5
<1> HIDE DEF P
<1>8. ChunksOf \in [1 .. n -> Nat]
  BY <1>2, <1>3 DEF ChunksOf
<1>9. /\ \A k \in 1 .. n + 1 : P[k] \in Nat
      /\ \A j \in 1 .. n, k \in 1 .. n + 1 : j < k => P[j] + ChunksOf[j] <= P[k]
  BY <1>2, <1>6, <1>7, <1>8, Apart
<1>10. \A k \in 1 .. n : k \in 1 .. n + 1 /\ k + 1 \in 1 .. n + 1
  BY <1>2
<1>11. 1 \in 1 .. n + 1 /\ n + 1 \in 1 .. n + 1
  BY <1>2
<1>12. ASSUME NEW k \in 1 .. n + 1 PROVE P[k] >= RiffHeader
  <2>1. CASE k = 1
    BY <1>6, <2>1
  <2>2. CASE k # 1
    <3>1. 1 \in 1 .. n /\ 1 < k
      BY <1>2, <2>2
    <3>2. P[1] + ChunksOf[1] <= P[k] /\ ChunksOf[1] \in Nat /\ P[k] \in Nat
      BY <1>3, <1>9, <3>1
    <3> QED
      BY <1>6, <3>2
  <2> QED
    BY <2>1, <2>2
<1> QED
  BY <1>2, <1>3, <1>4, <1>6, <1>7, <1>9, <1>10, <1>11, <1>12

-----------------------------------------------------------------------------
\* The invariant of the decoder

\* A WAVE file starts where the tags end, and is not cut off before its first chunk.
WaveHere == file.container = "wave" /\ data = Payload /\ Remaining >= RiffHeader

\* The tags before data are skipped whole, and a container is looked for behind
\* the last one.
TagsSkipped ==
  /\ data \in 0 .. FileLength
  /\ FileLength >= Payload => \E k \in 1 .. Len(file.tags) + 1 : data = TagPosition(k)
  /\ pc = "sniff" => data = 0
  /\ pc \in {"riff", "chunks", "samples", "probe", "packets"} /\ FileLength >= Payload =>
        data = Payload
  /\ pc = "riff" => StartsAsRiff
  /\ pc \in {"chunks", "samples"} => WaveHere
  /\ pc \in {"probe", "packets"} => ~StartsAsRiff

\* What no action has written yet
Untouched ==
  /\ pc \in {"sniff", "tags", "riff", "probe", "packets"} =>
        offset = RiffHeader /\ fmt = <<>> /\ data_range = <<>>
  /\ pc \in {"sniff", "tags", "riff", "probe", "chunks"} => samples = <<>>
  /\ pc \notin {"packets", "done"} => packets = <<>>

Extent(k) == [start |-> ChunkPosition(k) + ChunkHeader,
              end |-> ChunkPosition(k) + ChunkHeader + file.chunks[k].size]

\* What the scan has kept of the first last chunks
Scanned(last) ==
  /\ \A k \in 1 .. last : WholeChunk(k)
  /\ \/ fmt = <<>> /\ \A k \in 1 .. last : file.chunks[k].id # "fmt"
     \/ \E f \in LastOf("fmt", last) : fmt = <<file.chunks[f]>>
  /\ \/ data_range = <<>> /\ \A k \in 1 .. last : file.chunks[k].id # "data"
     \/ \E d \in LastOf("data", last) : data_range = <<Extent(d)>>

ChunksScanned ==
  pc = "chunks" =>
     \E last \in 0 .. Len(file.chunks) : offset = ChunkPosition(last + 1) /\ Scanned(last)

\* The scan is over: it has read every chunk whose header is in the file.
ScanEnds(last) == Remaining < ChunkPosition(last + 1) + ChunkHeader

\* The samples read are those that stand at the beginning of chunk d, as wide as
\* chunk f says.
ReadFrom(f, d) ==
  LET format == file.chunks[f]
      bytes == format.bits \div 8
  IN  /\ fmt = <<format>> /\ data_range = <<Extent(d)>>
      /\ format.channels > 0 /\ bytes \in Nat \ {0}
      /\ spec = [rate |-> format.rate, channels |-> format.channels]
      /\ samples = [j \in 1 .. Len(samples) |-> Extent(d).start + (j - 1) * bytes]
      /\ Len(samples) \in Nat
      /\ offset = Extent(d).start + Len(samples) * bytes
      /\ offset <= Extent(d).end
      /\ samples # <<>> => <<format.format, format.bits>> \in Supported

SamplesRead ==
  pc = "samples" =>
     \E last \in DOMAIN file.chunks :
        /\ \A k \in 1 .. last : WholeChunk(k)
        /\ ScanEnds(last)
        /\ \E f \in LastOf("fmt", last), d \in LastOf("data", last) : ReadFrom(f, d)

\* The number of samples in the packets
Counts == [k \in DOMAIN packets |->
              IF packets[k].kind = "audio" THEN packets[k].count ELSE 0]
Total == LengthOf(Counts)

\* Sample i is the j-th of packet k and comes behind all that precede it.
InOrder(i, k, j) ==
  /\ samples[i] = [packet |-> k, index |-> j]
  /\ \A h \in 1 .. i - 1 : \/ samples[h].packet < k
                           \/ samples[h].packet = k /\ samples[h].index < j

\* What has been decoded is all there is in the packets so far.
AllDecoded ==
  /\ packets \in Seq(Outcomes) /\ samples \in Seq([packet : Nat, index : Nat])
  /\ Len(samples) = Total
  /\ Len(samples) <= MAX_MP3_DECODED_SAMPLES
  /\ \A i \in DOMAIN samples : samples[i].packet \in 1 .. Len(packets)
  /\ \A k \in Audio : \A j \in 1 .. packets[k].count : \E i \in DOMAIN samples : InOrder(i, k, j)
  /\ samples # <<>> => Audio # {}
  /\ Audio # {} => \E k \in Audio : spec = packets[k].spec /\ \A later \in Audio : later <= k

PacketsDecoded == pc = "packets" => AllDecoded

\* A whole WAVE file is never taken for anything else, and what comes of a call
\* without packets comes of a WAVE file.
WholeWave ==
  /\ file.container = "wave" /\ file.cut = 0 =>
        packets = <<>> /\ pc \notin {"probe", "packets"}
  /\ result = "ok" /\ packets = <<>> => WaveHere

DecoderInv ==
  /\ file \in Files
  /\ spec \in SpecFields
  /\ TypeOK
  /\ TagsSkipped
  /\ Untouched
  /\ ChunksScanned
  /\ SamplesRead
  /\ PacketsDecoded
  /\ WholeWave
  /\ WaveDecodesAsWritten
  /\ TruncationIsReported
  /\ Mp3DecodesPackets

\* The file stays as it is, and with it the place of everything in it.
LEMMA SameFile ==
  ASSUME file' = file
  PROVE  /\ Payload' = Payload /\ FileLength' = FileLength
         /\ \A k : TagPosition(k)' = TagPosition(k)
         /\ \A k : ChunkPosition(k)' = ChunkPosition(k)
         /\ \A k : Extent(k)' = Extent(k)
         /\ \A id, last : LastOf(id, last)' = LastOf(id, last)
         /\ \A k, chunk : SamplesOf(k, chunk)' = SamplesOf(k, chunk)
<1>1. \A k : TagPosition(k)' = TagPosition(k)
  BY DEF TagPosition
<1>2. \A k : ChunkPosition(k)' = ChunkPosition(k)
  BY DEF ChunkPosition
<1>3. Payload' = Payload
  BY DEF Payload, TagPosition
<1>4. FileLength' = FileLength
  BY <1>3, <1>2 DEF FileLength
<1>5. \A k : Extent(k)' = Extent(k)
  BY <1>2 DEF Extent
<1>6. \A id, last : LastOf(id, last)' = LastOf(id, last)
  BY DEF LastOf
<1>7. \A k, chunk : SamplesOf(k, chunk)' = SamplesOf(k, chunk)
  BY <1>2 DEF SamplesOf
<1> QED
  BY <1>1, <1>2, <1>3, <1>4, <1>5, <1>6, <1>7

LEMMA SamePlace ==
  ASSUME file' = file, data' = data
  PROVE  /\ Remaining' = Remaining
         /\ StartsAsRiff' = StartsAsRiff
         /\ WaveHere' = WaveHere
         /\ \A k : WholeChunk(k)' = WholeChunk(k)
         /\ \A last : ScanEnds(last)' = ScanEnds(last)
<1>1. Remaining' = Remaining
  BY SameFile DEF Remaining
<1>2. StartsAsRiff' = StartsAsRiff
  BY <1>1, SameFile DEF StartsAsRiff
<1>3. WaveHere' = WaveHere
  BY <1>1, SameFile DEF WaveHere
<1>4. \A k : WholeChunk(k)' = WholeChunk(k)
  BY <1>1, SameFile DEF WholeChunk
<1>5. \A last : ScanEnds(last)' = ScanEnds(last)
  BY <1>1, SameFile DEF ScanEnds
<1> QED
  BY <1>1, <1>2, <1>3, <1>4, <1>5

\* Where a file ends
LEMMA FileEnds ==
  ASSUME file \in Files, NEW n, n = Len(file.chunks)
  PROVE  /\ FileLength \in Nat
         /\ file.container = "wave" =>
              /\ FileLength > 0 => FileLength + file.cut = Payload + ChunkPosition(n + 1)
              /\ file.cut = 0 => FileLength >= Payload + RiffHeader
<1>1. file.size \in Nat /\ file.cut \in Nat
  BY FileTypes
<1>2. Payload \in Nat
  BY TagLayout
<1>3. n \in Nat
  BY ChunkLayout
<1>4. ChunkPosition(n + 1) \in Nat /\ ChunkPosition(n + 1) >= RiffHeader
  <2>1. n + 1 \in 1 .. n + 1
    BY <1>3
  <2> QED
    BY <2>1, ChunkLayout
<1>5. CASE file.container = "wave"
  <2>1. FileLength = IF file.cut < Payload + ChunkPosition(n + 1)
                     THEN Payload + ChunkPosition(n + 1) - file.cut ELSE 0
    BY <1>5 DEF FileLength
  <2> QED
    BY <1>1, <1>2, <1>4, <1>5, <2>1 DEF RiffHeader
<1>6. CASE file.container # "wave"
  <2>1. FileLength = IF file.cut < Payload + file.size
                     THEN Payload + file.size - file.cut ELSE 0
    BY <1>6 DEF FileLength
  <2> QED
    BY <1>1, <1>2, <1>6, <2>1
<1> QED
  BY <1>5, <1>6

\* Behind the tags of a whole WAVE file stands its RIFF header, and before it is
\* nothing but tags.
LEMMA WaveStarts ==
  ASSUME file \in Files, NEW k \in 1 .. Len(file.tags) + 1, data = TagPosition(k),
         FileLength >= Payload
  PROVE  /\ k <= Len(file.tags) => k \in TagsHere /\ Remaining >= TagHeader
         /\ k = Len(file.tags) + 1 => data = Payload
         /\ FileLength >= Payload + RiffHeader /\ file.container = "wave" /\ data = Payload =>
               StartsAsRiff
<1> DEFINE n == Len(file.tags)
<1>1. n \in Nat /\ DOMAIN file.tags = 1 .. n /\ Payload = TagPosition(n + 1) /\ Payload \in Nat
  BY TagLayout
<1>2. FileLength \in Nat
  BY FileEnds
<1>3. TagPosition(k) \in Nat
  BY TagLayout
<1>4. ASSUME k <= n PROVE k \in TagsHere /\ Remaining >= TagHeader
  <2>1. k \in 1 .. n /\ n + 1 \in 1 .. n + 1 /\ k < n + 1
    BY <1>1, <1>4
  <2>2. TagPosition(k) + TagsOf[k] <= TagPosition(n + 1) /\ TagsOf[k] \in Nat
        /\ TagsOf[k] >= TagHeader
    BY <2>1, TagLayout
  <2>3. Remaining >= TagHeader /\ Remaining >= 3
    BY <1>1, <1>2, <1>3, <2>2 DEF Remaining, TagHeader
  <2> QED
    BY <1>1, <2>1, <2>3 DEF TagsHere
<1>5. ASSUME FileLength >= Payload + RiffHeader, file.container = "wave", data = Payload
      PROVE  StartsAsRiff
  BY <1>1, <1>2, <1>5 DEF StartsAsRiff, Remaining, RiffHeader
<1> QED
  BY <1>1, <1>4, <1>5

LEMMA WaveIsRiff ==
  ASSUME WaveHere, Remaining \in Int PROVE StartsAsRiff
  BY DEF WaveHere, StartsAsRiff, RiffHeader

-----------------------------------------------------------------------------
\* Up to a container

\* An end that is not that of a scanned WAVE file
LEMMA EndsElsewhere ==
  ASSUME ~WaveHere', result' # "ok" \/ packets' # <<>>,
         (file.container = "wave" /\ file.cut = 0)' => FALSE
  PROVE  WaveDecodesAsWritten' /\ TruncationIsReported'
  BY DEF WaveDecodesAsWritten, TruncationIsReported, WaveHere


\* Until a container is recognised nothing is read but its place.
LEMMA Front ==
  ASSUME DecoderInv, UNCHANGED <<file, scan, samples, packets>>, spec' \in SpecFields,
         pc \in {"sniff", "tags", "riff", "probe"},
         pc' \in {"sniff", "tags", "riff", "probe", "chunks", "packets", "done"},
         result' \in {"none", "decode", "unsupported", "invalid"},
         pc' = "done" <=> result' # "none",
         TagsSkipped',
         pc' \in {"probe", "packets", "done"} => ~(file.container = "wave" /\ file.cut = 0),
         pc' = "done" => ~WaveHere'
  PROVE  DecoderInv'
<1>1. /\ file' = file /\ offset' = offset /\ fmt' = fmt /\ data_range' = data_range
      /\ samples' = samples /\ packets' = packets
  BY DEF scan
<1>2. /\ offset = RiffHeader /\ fmt = <<>> /\ data_range = <<>> /\ samples = <<>>
      /\ packets = <<>> /\ file \in Files
  BY DEF DecoderInv, Untouched
<1>3. TypeOK'
  BY <1>1, <1>2 DEF TypeOK, TagsSkipped, RiffHeader
<1>4. Untouched'
  BY <1>1, <1>2 DEF Untouched
<1>5. ChunksScanned'
  <2> SUFFICES ASSUME pc' = "chunks"
               PROVE  \E last \in 0 .. Len(file.chunks) :
                         offset' = ChunkPosition(last + 1)' /\ Scanned(last)'
    BY <1>1 DEF ChunksScanned
  <2>1. Scanned(0)'
    BY <1>1, <1>2 DEF Scanned
  <2>2. 0 \in 0 .. Len(file.chunks) /\ ChunkPosition(0 + 1) = RiffHeader
    BY <1>2, ChunkLayout
  <2>3. ChunkPosition(0 + 1)' = RiffHeader
    BY <1>1, <2>2, SameFile
  <2> QED
    BY <1>1, <1>2, <2>1, <2>2, <2>3
<1>6. SamplesRead'
  BY DEF SamplesRead
<1>7. PacketsDecoded'
  <2>1. DOMAIN packets' = {} /\ DOMAIN samples' = {} /\ Len(samples') = 0
    BY <1>1, <1>2
  <2>2. Audio' = {}
    BY <2>1 DEF Audio
  <2>3. Len(Counts') = 0
    BY <1>1, <1>2 DEF Counts
  <2>4. Total' = 0
    BY <2>3, LengthOfNothing DEF Total
  <2>5. packets' \in Seq(Outcomes) /\ samples' \in Seq([packet : Nat, index : Nat])
    BY <1>1, <1>2
  <2>6. 0 <= MAX_MP3_DECODED_SAMPLES
    BY AudioDecoderAssumption DEF AudioDecoderAssumption
  <2> QED
    BY <1>1, <1>2, <2>1, <2>2, <2>4, <2>5, <2>6 DEF PacketsDecoded, AllDecoded
<1>8. WholeWave'
  BY <1>1, <1>2 DEF WholeWave
<1>9. WaveDecodesAsWritten' /\ TruncationIsReported'
  <2>1. CASE pc' = "done"
    BY <1>1, <2>1, EndsElsewhere
  <2>2. CASE pc' # "done"
    BY <2>2 DEF WaveDecodesAsWritten, TruncationIsReported
  <2> QED
    BY <2>1, <2>2
<1>10. Mp3DecodesPackets'
  BY <1>1, <1>2 DEF Mp3DecodesPackets
<1> QED
  BY <1>1, <1>2, <1>3, <1>4, <1>5, <1>6, <1>7, <1>8, <1>9, <1>10 DEF DecoderInv

\* What the invariant says of the place before a container
LEMMA Before ==
  ASSUME DecoderInv
  PROVE  /\ file \in Files /\ spec \in SpecFields /\ TypeOK /\ TagsSkipped
         /\ data \in 0 .. FileLength /\ data \in Nat /\ FileLength \in Nat /\ Remaining \in Nat /\ Payload \in Nat
         /\ file.container = "wave" /\ file.cut = 0 => FileLength >= Payload + RiffHeader
<1>1. file \in Files /\ spec \in SpecFields /\ TypeOK /\ TagsSkipped
  BY DEF DecoderInv
<1>2. data \in 0 .. FileLength
  BY <1>1 DEF TypeOK
<1>3. FileLength \in Nat /\ (file.container = "wave" /\ file.cut = 0 =>
                                FileLength >= Payload + RiffHeader)
  BY <1>1, FileEnds
<1>4. Payload \in Nat
  BY <1>1, TagLayout
<1> QED
  BY <1>1, <1>2, <1>3, <1>4 DEF Remaining

LEMMA DispatchStep == ASSUME DecoderInv, Dispatch PROVE DecoderInv'
<1>1. /\ pc = "sniff" /\ UNCHANGED <<file, data, scan, spec, samples, packets>>
      /\ result = "none" /\ data = 0
  BY DEF Dispatch, DecoderInv, TypeOK, TagsSkipped
<1>2. /\ spec' \in SpecFields /\ file' = file /\ data' = data
  BY <1>1, Before
<1>3. /\ pc' \in {"riff", "tags", "done"} /\ result' \in {"none", "unsupported"}
      /\ (pc' = "done" <=> result' # "none")
      /\ pc' = "riff" => StartsAsRiff
      /\ pc' = "done" => ~StartsAsRiff /\ TagsHere = {}
  BY <1>1 DEF Dispatch, Return
<1>4. FileLength >= Payload => \E k \in 1 .. Len(file.tags) + 1 : data = TagPosition(k)
  BY Before DEF TagsSkipped
<1>5. TagsSkipped'
  <2>1. (data \in 0 .. FileLength)'
    BY <1>2, Before, SameFile
  <2>2. (FileLength >= Payload => \E k \in 1 .. Len(file.tags) + 1 : data = TagPosition(k))'
    BY <1>2, <1>4, SameFile
  <2>3. (pc = "riff" => StartsAsRiff)'
    BY <1>2, <1>3, SamePlace
  <2>4. StartsAsRiff => data = Payload
    BY DEF StartsAsRiff
  <2>5. (pc \in {"riff", "chunks", "samples", "probe", "packets"} /\ FileLength >= Payload =>
        data = Payload)'
    BY <1>2, <1>3, <2>4, SameFile
  <2> QED
    BY <1>3, <2>1, <2>2, <2>3, <2>5 DEF TagsSkipped
<1>6. ASSUME pc' = "done" PROVE ~(file.container = "wave" /\ file.cut = 0)
  <2> SUFFICES ASSUME file.container = "wave", file.cut = 0 PROVE FALSE
    OBVIOUS
  <2>1. FileLength >= Payload + RiffHeader /\ FileLength >= Payload
    BY Before DEF RiffHeader
  <2>2. PICK k \in 1 .. Len(file.tags) + 1 : data = TagPosition(k)
    BY <1>4, <2>1
  <2>3. Len(file.tags) \in Nat /\ file \in Files
    BY Before, TagLayout
  <2> QED
    BY <1>3, <1>6, <2>1, <2>2, <2>3, WaveStarts
<1>7. ASSUME pc' = "done" PROVE ~WaveHere'
  BY <1>2, <1>3, <1>7, Before, SamePlace, WaveIsRiff
<1> QED
  BY <1>1, <1>2, <1>3, <1>5, <1>6, <1>7, Front

LEMMA SkipTagStep == ASSUME DecoderInv, SkipTag PROVE DecoderInv'
<1>1. /\ pc = "tags" /\ UNCHANGED <<file, scan, spec, samples, packets, pc, result>>
      /\ Remaining >= TagHeader
      /\ result = "none"
  BY DEF SkipTag, DecoderInv, TypeOK
<1>2. PICK k \in TagsHere : data' = IF TagTotal(file.tags[k]) >= Remaining THEN FileLength
                                    ELSE data + TagTotal(file.tags[k])
  BY DEF SkipTag
<1> DEFINE n == Len(file.tags)
<1>3. n \in Nat /\ k \in 1 .. n /\ TagPosition(k) = data
  BY <1>2, Before, TagLayout DEF TagsHere
<1>4. TagTotal(file.tags[k]) = TagsOf[k] /\ TagsOf[k] \in Nat
      /\ TagPosition(k + 1) = data + TagsOf[k]
  BY <1>3, Before, TagLayout DEF TagTotal, WrittenTag, TagsOf
<1>5. data' \in 0 .. FileLength
  BY <1>2, <1>4, Before DEF Remaining
<1>6. ASSUME FileLength >= Payload
      PROVE  \E j \in 1 .. Len(file.tags) + 1 : data' = TagPosition(j)
  <2>1. k + 1 \in 1 .. n + 1 /\ n + 1 \in 1 .. n + 1
    BY <1>3
  <2>2. TagPosition(k + 1) <= Payload
    <3>1. CASE k = n
      BY <1>3, <3>1, Before, TagLayout
    <3>2. CASE k # n
      <4>1. k + 1 \in 1 .. n /\ k + 1 < n + 1
        BY <1>3, <3>2
      <4>2. TagPosition(k + 1) + TagsOf[k + 1] <= TagPosition(n + 1) /\ TagsOf[k + 1] \in Nat
            /\ TagPosition(k + 1) \in Nat /\ TagPosition(n + 1) = Payload
        BY <2>1, <4>1, Before, TagLayout
      <4> QED
        BY <4>2, Before
    <3> QED
      BY <3>1, <3>2
  <2>3. data' = TagPosition(k + 1)
    BY <1>2, <1>4, <1>6, <2>2, Before DEF Remaining
  <2> QED
    BY <2>1, <2>3
<1>7. TagsSkipped'
  <2>1. file' = file /\ pc' = "tags"
    BY <1>1
  <2>2. (data \in 0 .. FileLength)'
    BY <1>5, <2>1, SameFile
  <2>3. (FileLength >= Payload => \E j \in 1 .. Len(file.tags) + 1 : data = TagPosition(j))'
    BY <1>6, <2>1, SameFile
  <2> QED
    BY <2>1, <2>2, <2>3 DEF TagsSkipped
<1> QED
  BY <1>1, <1>7, Before, Front

LEMMA AfterTagsStep == ASSUME DecoderInv, AfterTags PROVE DecoderInv'
<1>1. /\ pc = "tags" /\ UNCHANGED <<file, data, scan, spec, samples, packets>>
      /\ result = "none" /\ (TagsHere = {} \/ Remaining < TagHeader)
  BY DEF AfterTags, DecoderInv, TypeOK
<1>2. /\ spec' \in SpecFields /\ file' = file /\ data' = data
  BY <1>1, Before
<1>3. /\ pc' \in {"riff", "probe", "done"} /\ result' \in {"none", "invalid"}
      /\ (pc' = "done" <=> result' # "none")
      /\ pc' = "riff" => StartsAsRiff
      /\ pc' # "riff" => ~StartsAsRiff
  BY <1>1 DEF AfterTags, Return
<1>4. ASSUME FileLength >= Payload
      PROVE  /\ data = Payload
             /\ file.container = "wave" /\ file.cut = 0 => StartsAsRiff
  <2>1. PICK k \in 1 .. Len(file.tags) + 1 : data = TagPosition(k)
    BY <1>4, Before DEF TagsSkipped
  <2>2. Len(file.tags) \in Nat /\ file \in Files
    BY Before, TagLayout
  <2>3. k = Len(file.tags) + 1
    <3>1. CASE k <= Len(file.tags)
      BY <1>1, <1>4, <2>1, <2>2, <3>1, Before, WaveStarts DEF TagHeader
    <3> QED
      BY <2>2, <3>1
  <2>4. data = Payload
    BY <1>4, <2>1, <2>2, <2>3, WaveStarts
  <2> QED
    BY <1>4, <2>1, <2>2, <2>4, Before, WaveStarts
<1>5. TagsSkipped'
  <2>1. (data \in 0 .. FileLength)'
    BY <1>2, Before, SameFile
  <2>2. (FileLength >= Payload => \E k \in 1 .. Len(file.tags) + 1 : data = TagPosition(k))'
    BY <1>2, Before, SameFile DEF TagsSkipped
  <2>3. (pc = "riff" => StartsAsRiff)' /\ (pc = "probe" => ~StartsAsRiff)'
    BY <1>2, <1>3, SamePlace
  <2>5. (pc \in {"riff", "chunks", "samples", "probe", "packets"} /\ FileLength >= Payload =>
        data = Payload)'
    BY <1>2, <1>4, SameFile
  <2> QED
    BY <1>3, <2>1, <2>2, <2>3, <2>5 DEF TagsSkipped
<1>6. ASSUME pc' \in {"probe", "done"} PROVE ~(file.container = "wave" /\ file.cut = 0)
  <2> SUFFICES ASSUME file.container = "wave", file.cut = 0 PROVE FALSE
    OBVIOUS
  <2>1. FileLength >= Payload
    BY Before DEF RiffHeader
  <2> QED
    BY <1>3, <1>4, <1>6, <2>1
<1>7. ASSUME pc' = "done" PROVE ~WaveHere'
  BY <1>2, <1>3, <1>7, Before, SamePlace, WaveIsRiff
<1> QED
  BY <1>1, <1>2, <1>3, <1>5, <1>6, <1>7, Front

LEMMA ProbeStep == ASSUME DecoderInv, Probe PROVE DecoderInv'
<1>1. /\ pc = "probe" /\ UNCHANGED <<file, data, scan, samples, packets>>
      /\ result = "none" /\ ~StartsAsRiff
      /\ ~(file.container = "wave" /\ file.cut = 0)
  BY DEF Probe, DecoderInv, TypeOK, TagsSkipped, WholeWave
<1>2. file' = file /\ data' = data
  BY <1>1
<1>3. spec' \in SpecFields
  <2>1. [rate |-> 0, channels |-> 0] \in SpecFields
    BY DEF SpecFields
  <2>2. Specs \subseteq SpecFields
    BY AudioDecoderAssumption DEF AudioDecoderAssumption
  <2>3. spec' = spec \/ spec' \in Specs \cup {[rate |-> 0, channels |-> 0]}
    BY DEF Probe
  <2> QED
    BY <2>1, <2>2, <2>3, Before
<1>4. /\ pc' \in {"packets", "done"} /\ result' \in {"none", "unsupported", "decode"}
      /\ (pc' = "done" <=> result' # "none")
  BY <1>1 DEF Probe, Return
<1>5. TagsSkipped'
  <2>1. (data \in 0 .. FileLength)'
    BY <1>2, Before, SameFile
  <2>2. (FileLength >= Payload => \E k \in 1 .. Len(file.tags) + 1 : data = TagPosition(k))'
    BY <1>2, Before, SameFile DEF TagsSkipped
  <2>3. ~StartsAsRiff'
    BY <1>1, <1>2, SamePlace
  <2>4. (FileLength >= Payload => data = Payload)'
    BY <1>1, <1>2, Before, SameFile DEF TagsSkipped
  <2> QED
    BY <1>4, <2>1, <2>2, <2>3, <2>4 DEF TagsSkipped
<1>6. ~WaveHere'
  BY <1>1, <1>2, Before, SamePlace, WaveIsRiff
<1> QED
  BY <1>1, <1>3, <1>4, <1>5, <1>6, Front

LEMMA RiffStep == ASSUME DecoderInv, Riff PROVE DecoderInv'
<1>1. /\ pc = "riff" /\ UNCHANGED <<file, data, scan, spec, samples, packets>>
      /\ result = "none" /\ StartsAsRiff
  BY DEF Riff, DecoderInv, TypeOK, TagsSkipped
<1>2. /\ spec' \in SpecFields /\ file' = file /\ data' = data
  BY <1>1, Before
<1>3. /\ pc' \in {"chunks", "done"} /\ result' \in {"none", "decode"}
      /\ (pc' = "done" <=> result' # "none")
      /\ pc' = "chunks" => Remaining >= RiffHeader /\ file.container # "riff"
      /\ pc' = "done" => Remaining < RiffHeader \/ file.container = "riff"
  BY <1>1, Before DEF Riff, Return, RiffHeader
<1>4. data = Payload /\ file.container \in {"wave", "riff"}
  BY <1>1 DEF StartsAsRiff
<1>5. TagsSkipped'
  <2>1. (data \in 0 .. FileLength)'
    BY <1>2, Before, SameFile
  <2>2. (FileLength >= Payload => \E k \in 1 .. Len(file.tags) + 1 : data = TagPosition(k))'
    BY <1>2, Before, SameFile DEF TagsSkipped
  <2>3. (pc = "chunks" => WaveHere)'
    BY <1>2, <1>3, <1>4, SamePlace DEF WaveHere
  <2>4. (data = Payload)'
    BY <1>2, <1>4, SameFile
  <2> QED
    BY <1>3, <2>1, <2>2, <2>3, <2>4 DEF TagsSkipped
<1>6. ASSUME pc' = "done" PROVE ~(file.container = "wave" /\ Remaining >= RiffHeader)
  BY <1>3, <1>6, Before DEF RiffHeader
<1>7. ASSUME pc' = "done" PROVE ~(file.container = "wave" /\ file.cut = 0)
  BY <1>4, <1>6, <1>7, Before DEF Remaining, RiffHeader
<1>8. ASSUME pc' = "done" PROVE ~WaveHere'
  BY <1>2, <1>6, <1>8, SamePlace DEF WaveHere
<1> QED
  BY <1>1, <1>2, <1>3, <1>5, <1>7, <1>8, Front

-----------------------------------------------------------------------------
\* The chunks of a WAVE file

\* The least factor that is too large exceeds the quotient by one.
LEMMA QuotientIs ==
  ASSUME NEW s \in Nat, NEW b \in Nat \ {0}, NEW m \in Nat, m * b <= s, (m + 1) * b > s
  PROVE  s \div b = m
<1>1. m <= s \div b
  BY DivLargest
<1>2. ~(m + 1 <= s \div b)
  <2>1. m + 1 \in Nat /\ s \in Nat /\ (m + 1) * b \in Nat
    OBVIOUS
  <2>2. ~((m + 1) * b <= s)
    BY <2>1
  <2> QED
    BY <2>1, <2>2, DivLargest
<1>3. s \div b \in Nat
  BY DivBounds
<1> QED
  BY <1>1, <1>2, <1>3

\* What the scan knows of its file
LEMMA Scanning ==
  ASSUME DecoderInv, pc \in {"chunks", "samples"}
  PROVE  /\ WaveHere /\ result = "none" /\ packets = <<>>
         /\ offset \in Nat /\ file.cut \in Nat
         /\ Remaining + file.cut = ChunkPosition(Len(file.chunks) + 1)
<1>1. WaveHere /\ result = "none" /\ packets = <<>>
  BY DEF DecoderInv, TypeOK, TagsSkipped, Untouched
<1>2. file.cut \in Nat
  BY Before, FileTypes
<1>3. FileLength > 0
  BY <1>1, Before DEF WaveHere, Remaining, RiffHeader
<1>4. Len(file.chunks) \in Nat
  BY Before, ChunkLayout
<1>5. Len(file.chunks) + 1 \in 1 .. Len(file.chunks) + 1
  BY <1>4
<1>6. ChunkPosition(Len(file.chunks) + 1) \in Nat
  BY <1>5, Before, ChunkLayout
<1>7. FileLength + file.cut = Payload + ChunkPosition(Len(file.chunks) + 1)
  BY <1>1, <1>3, Before, FileEnds DEF WaveHere
<1>8. offset \in Nat
  BY Before DEF TypeOK
<1> QED
  BY <1>1, <1>2, <1>6, <1>7, <1>8, Before DEF WaveHere, Remaining

\* The chunk behind the last one that was read, and the end of those that were
LEMMA ChunkBehind ==
  ASSUME DecoderInv, pc \in {"chunks", "samples"}, NEW last \in 0 .. Len(file.chunks)
  PROVE  /\ Len(file.chunks) \in Nat /\ ChunkPosition(last + 1) \in Nat
         /\ \A k \in 1 .. Len(file.chunks) :
               k > last => ChunkPosition(k) >= ChunkPosition(last + 1)
         /\ \A k \in 1 .. Len(file.chunks) :
               /\ file.chunks[k].size \in Nat /\ ChunkPosition(k) \in Nat
               /\ ChunkPosition(k) + ChunkHeader + file.chunks[k].size
                     <= ChunkPosition(Len(file.chunks) + 1)
         /\ ScanEnds(last) /\ file.cut = 0 => last = Len(file.chunks)
<1> DEFINE n == Len(file.chunks)
<1>1. n \in Nat /\ file \in Files
  BY Before, ChunkLayout
<1>2. last + 1 \in 1 .. n + 1 /\ n + 1 \in 1 .. n + 1
  BY <1>1
<1>3. ChunkPosition(last + 1) \in Nat /\ ChunkPosition(n + 1) \in Nat
  BY <1>1, <1>2, ChunkLayout
<1>4. ASSUME NEW k \in 1 .. n, k > last PROVE ChunkPosition(k) >= ChunkPosition(last + 1)
  <2>1. CASE k = last + 1
    BY <1>3, <2>1
  <2>2. CASE k # last + 1
    <3>1. last + 1 \in 1 .. n /\ k \in 1 .. n + 1 /\ last + 1 < k
      BY <1>1, <1>4, <2>2
    <3>2. ChunkPosition(last + 1) + ChunksOf[last + 1] <= ChunkPosition(k)
          /\ ChunksOf[last + 1] \in Nat /\ ChunkPosition(k) \in Nat
      BY <1>1, <3>1, ChunkLayout
    <3> QED
      BY <1>3, <3>2
  <2> QED
    BY <2>1, <2>2
<1>5. ASSUME NEW k \in 1 .. n
      PROVE  /\ file.chunks[k].size \in Nat /\ ChunkPosition(k) \in Nat
             /\ ChunkPosition(k) + ChunkHeader + file.chunks[k].size <= ChunkPosition(n + 1)
  <2>1. k \in 1 .. n + 1 /\ k < n + 1
    BY <1>1
  <2>2. file.chunks[k] \in ChunkFields
    BY <1>1, ChunkLayout
  <2>3. file.chunks[k].size \in Nat
    BY <2>2 DEF ChunkFields
  <2>4. /\ ChunkPosition(k) \in Nat /\ ChunksOf[k] \in Nat
        /\ ChunkPosition(k) + ChunksOf[k] <= ChunkPosition(n + 1)
        /\ ChunksOf[k] >= ChunkHeader + file.chunks[k].size
    BY <1>1, <1>2, <2>1, ChunkLayout
  <2> DEFINE s == file.chunks[k].size
             p == ChunkPosition(k)
             w == ChunksOf[k]
             e == ChunkPosition(n + 1)
  <2>5. s \in Nat /\ p \in Nat /\ w \in Nat /\ e \in Nat /\ p + w <= e /\ w >= ChunkHeader + s
    BY <1>3, <2>3, <2>4
  <2> HIDE DEF s, p, w, e
  <2>6. p + ChunkHeader + s <= e
    BY <2>5 DEF ChunkHeader
  <2> QED
    BY <2>5, <2>6 DEF s, p, e
<1>6. ASSUME ScanEnds(last), file.cut = 0 PROVE last = n
  <2> SUFFICES ASSUME last # n PROVE FALSE
    OBVIOUS
  <2>1. last + 1 \in 1 .. n
    BY <1>1
  <2>2. /\ ChunkPosition(last + 1) + ChunkHeader + file.chunks[last + 1].size
               <= ChunkPosition(n + 1)
        /\ file.chunks[last + 1].size \in Nat
    BY <1>5, <2>1
  <2>3. Remaining = ChunkPosition(n + 1)
    BY <1>6, Scanning, Before
  <2> QED
    BY <1>3, <1>6, <2>2, <2>3 DEF ScanEnds, ChunkHeader
<1> QED
  BY <1>1, <1>3, <1>4, <1>5, <1>6

\* The chunks of which the header is in the file are those that were read.
LEMMA AllRead ==
  ASSUME DecoderInv, pc \in {"chunks", "samples"}, NEW last \in 0 .. Len(file.chunks),
         \A k \in 1 .. last : WholeChunk(k), ScanEnds(last), NEW k \in DOMAIN file.chunks
  PROVE  /\ ChunkPosition(k) + ChunkHeader <= Remaining => k <= last /\ WholeChunk(k)
         /\ WholeChunk(k) => k <= last
<1>1. k \in 1 .. Len(file.chunks) /\ Len(file.chunks) \in Nat
  BY Before, ChunkLayout
<1>2. /\ file.chunks[k].size \in Nat /\ ChunkPosition(k) \in Nat
      /\ ChunkPosition(last + 1) \in Nat
      /\ k > last => ChunkPosition(k) >= ChunkPosition(last + 1)
  BY <1>1, ChunkBehind
<1>3. k > last => ~(ChunkPosition(k) + ChunkHeader <= Remaining)
  BY <1>2, Before DEF ScanEnds, ChunkHeader
<1>4. WholeChunk(k) => ChunkPosition(k) + ChunkHeader <= Remaining
  BY <1>2, Before DEF WholeChunk, ChunkHeader
<1>5. k > last \/ k \in 1 .. last
  BY <1>1
<1> QED
  BY <1>1, <1>3, <1>4, <1>5

LEMMA LastOfMore ==
  ASSUME NEW last \in Nat, NEW id
  PROVE  /\ file.chunks[last + 1].id = id => last + 1 \in LastOf(id, last + 1)
         /\ file.chunks[last + 1].id # id => LastOf(id, last) \subseteq LastOf(id, last + 1)
<1>1. last + 1 \in 1 .. last + 1 /\ (last + 1) + 1 .. last + 1 = {}
  OBVIOUS
<1>2. ASSUME file.chunks[last + 1].id # id, NEW k \in LastOf(id, last)
      PROVE  k \in LastOf(id, last + 1)
  <2>1. k \in 1 .. last /\ file.chunks[k].id = id
        /\ \A later \in k + 1 .. last : file.chunks[later].id # id
    BY <1>2 DEF LastOf
  <2>2. ASSUME NEW later \in k + 1 .. last + 1 PROVE file.chunks[later].id # id
    <3>1. later = last + 1 \/ later \in k + 1 .. last
      BY <2>1
    <3> QED
      BY <1>2, <2>1, <3>1
  <2>3. k \in 1 .. last + 1
    BY <2>1
  <2> QED
    BY <2>1, <2>2, <2>3 DEF LastOf
<1> QED
  BY <1>1, <1>2 DEF LastOf

\* A step from one chunk, or one sample, to the next leaves the rest alone.
LEMMA Within ==
  ASSUME DecoderInv, pc \in {"chunks", "samples"}, UNCHANGED <<file, data, packets>>,
         pc' \in {"chunks", "samples", "done"},
         result' \in {"none", "ok", "decode", "unsupported"},
         pc' = "done" <=> result' # "none",
         pc' = "chunks" => samples' = <<>>,
         spec' \in SpecFields, offset' \in Nat,
         Len(fmt') <= 1, Len(data_range') <= 1,
         \A k \in DOMAIN data_range' : /\ data_range'[k].start <= data_range'[k].end
                                       /\ data_range'[k].end <= Remaining,
         ChunksScanned', SamplesRead', WaveDecodesAsWritten', TruncationIsReported'
  PROVE  DecoderInv'
<1>1. WaveHere /\ packets = <<>>
  BY Scanning
<1>2. file' = file /\ data' = data /\ packets' = packets
  OBVIOUS
<1>3. file' \in Files /\ (data \in 0 .. FileLength)'
  BY <1>2, Before, SameFile
<1>4. Remaining' = Remaining /\ WaveHere'
  BY <1>1, <1>2, SamePlace
<1>5. TypeOK'
  BY <1>1, <1>2, <1>3, <1>4 DEF TypeOK
<1>6. TagsSkipped'
  <2>1. (FileLength >= Payload => \E k \in 1 .. Len(file.tags) + 1 : data = TagPosition(k))'
    BY <1>2, Before, SameFile DEF TagsSkipped
  <2>2. (data = Payload)'
    BY <1>4 DEF WaveHere
  <2> QED
    BY <1>3, <1>4, <2>1, <2>2 DEF TagsSkipped
<1>7. Untouched'
  BY <1>1, <1>2 DEF Untouched
<1>8. PacketsDecoded' /\ WholeWave' /\ Mp3DecodesPackets'
  BY <1>1, <1>2, <1>4 DEF PacketsDecoded, WholeWave, Mp3DecodesPackets
<1> QED
  BY <1>3, <1>5, <1>6, <1>7, <1>8 DEF DecoderInv


LEMMA ReadChunkStep == ASSUME DecoderInv, ReadChunk PROVE DecoderInv'
<1>1. /\ pc = "chunks" /\ UNCHANGED <<file, data, spec, samples, packets>>
      /\ offset + ChunkHeader <= Remaining
  BY DEF ReadChunk
<1> DEFINE n == Len(file.chunks)
<1>2. /\ result = "none" /\ packets = <<>> /\ samples = <<>>
      /\ offset \in Nat /\ file.cut \in Nat /\ file.container = "wave"
      /\ Remaining + file.cut = ChunkPosition(n + 1)
      /\ Len(fmt) <= 1 /\ Len(data_range) <= 1
  BY <1>1, Scanning DEF DecoderInv, Untouched, TypeOK, WaveHere
<1>3. PICK last \in 0 .. n : offset = ChunkPosition(last + 1) /\ Scanned(last)
  BY <1>1 DEF DecoderInv, ChunksScanned
<1>4. n \in Nat /\ DOMAIN file.chunks = 1 .. n /\ file \in Files
  BY Before, ChunkLayout
<1>5. last + 1 \in 1 .. n
  <2>1. CASE last = n
    BY <1>1, <1>2, <1>3, <2>1, Before DEF ChunkHeader
  <2> QED
    BY <1>4, <2>1
<1> DEFINE written == file.chunks[last + 1]
<1>6. /\ written.size \in Nat
      /\ ChunkPosition(last + 1) + ChunkHeader + written.size <= ChunkPosition(n + 1)
      /\ ChunkPosition(last + 2) =
            ChunkPosition(last + 1) + ChunkHeader + written.size + (written.size % 2)
  <2>1. ChunkPosition(last + 1 + 1) = ChunkPosition(last + 1) + ChunksOf[last + 1]
        /\ ChunksOf[last + 1] = ChunkHeader + written.size + (written.size % 2)
    BY <1>4, <1>5, ChunkLayout
  <2>2. /\ written.size \in Nat
        /\ ChunkPosition(last + 1) + ChunkHeader + written.size <= ChunkPosition(n + 1)
    BY <1>1, <1>5, ChunkBehind
  <2>3. last + 1 + 1 = last + 2
    BY <1>4
  <2>4. ChunkPosition(last + 2) = ChunkPosition(last + 1) + ChunksOf[last + 1]
    BY <2>1, <2>3
  <2>5. ChunkPosition(last + 1) \in Nat /\ written.size % 2 \in Nat
    BY <1>2, <1>3, <2>2
  <2> HIDE DEF n, written
  <2> QED
    BY <2>1, <2>2, <2>4, <2>5 DEF ChunkHeader
<1>7. HeadersHere = {written}
  <2>1. ASSUME NEW k \in 1 .. n, ChunkPosition(k) = offset PROVE k = last + 1
    <3>1. CASE k < last + 1
      <4>1. last + 1 \in 1 .. n + 1
        BY <1>5
      <4>2. ChunkPosition(k) + ChunksOf[k] <= ChunkPosition(last + 1)
            /\ ChunksOf[k] >= ChunkHeader + file.chunks[k].size /\ ChunksOf[k] \in Nat
        BY <1>4, <3>1, <4>1, ChunkLayout
      <4>3. file.chunks[k].size \in Nat
        BY <1>1, ChunkBehind
      <4>4. ChunksOf[k] > 0
        BY <4>2, <4>3 DEF ChunkHeader
      <4> QED
        BY <1>2, <1>3, <2>1, <4>2, <4>4
    <3>2. CASE k > last + 1
      <4>1. last + 1 \in 0 .. n /\ (last + 1) + 1 = last + 2
        BY <1>5
      <4>2. ChunkPosition(k) >= ChunkPosition(last + 2)
        BY <1>1, <3>2, <4>1, ChunkBehind
      <4>3. ChunkPosition(last + 2) > ChunkPosition(last + 1) /\ ChunkPosition(last + 2) \in Nat
        <5> DEFINE s == written.size
        <5>1. s \in Nat /\ s % 2 \in Nat /\ ChunkPosition(last + 1) \in Nat
              /\ ChunkPosition(last + 2) = ChunkPosition(last + 1) + ChunkHeader + s + (s % 2)
          BY <1>2, <1>3, <1>6
        <5> HIDE DEF s
        <5> QED
          BY <5>1 DEF ChunkHeader
      <4> QED
        BY <1>2, <1>3, <2>1, <4>2, <4>3
    <3> QED
      BY <1>5, <3>1, <3>2
  <2>2. {k \in DOMAIN file.chunks : ChunkPosition(k) = offset} = {last + 1}
    BY <1>3, <1>4, <1>5, <2>1
  <2> QED
    BY <2>2 DEF HeadersHere
<1> DEFINE chunk_end == offset + ChunkHeader + written.size
<1>8. IF Truncated(chunk_end) \/ (written.id = "fmt" /\ written.size < 16)
      THEN pc' = "done" /\ result' = "decode" /\ UNCHANGED scan
      ELSE /\ fmt' = IF written.id = "fmt" THEN <<written>> ELSE fmt
           /\ data_range' = IF written.id = "data" THEN <<Extent(last + 1)>> ELSE data_range
           /\ offset' = NextChunk(offset + ChunkHeader, written)
           /\ UNCHANGED <<pc, result>>
  BY <1>3, <1>7 DEF ReadChunk, Return, FmtAfter, Extent
<1> HIDE DEF written
<1>9. CASE Truncated(chunk_end) \/ (written.id = "fmt" /\ written.size < 16)
  <2>1. pc' = "done" /\ result' = "decode" /\ offset' = offset /\ fmt' = fmt
        /\ data_range' = data_range
    BY <1>8, <1>9 DEF scan
  <2>2. \A k \in DOMAIN data_range : data_range[k].start <= data_range[k].end
                                     /\ data_range[k].end <= Remaining
    BY Before DEF TypeOK
  <2>3. TruncationIsReported' /\ ChunksScanned' /\ SamplesRead'
    BY <2>1 DEF TruncationIsReported, ChunksScanned, SamplesRead
  <2>4. WaveDecodesAsWritten'
    <3>1. ASSUME file.cut = 0,
                 \A k \in DOMAIN file.chunks :
                    file.chunks[k].id = "fmt" => file.chunks[k].size >= 16
          PROVE  FALSE
      <4>1. ~Truncated(chunk_end)
        BY <1>2, <1>3, <1>6, <3>1, Before DEF Truncated, ChunkHeader
      <4>2. written.id = "fmt" /\ written.size < 16
        BY <1>9, <4>1
      <4> QED
        BY <1>4, <1>5, <1>6, <3>1, <4>2 DEF written
    <3>2. file' = file
      BY <1>1
    <3> QED
      BY <2>1, <3>1, <3>2 DEF WaveDecodesAsWritten
  <2> QED
    BY <1>1, <1>2, <2>1, <2>2, <2>3, <2>4, Before, Within
<1>10. CASE ~(Truncated(chunk_end) \/ (written.id = "fmt" /\ written.size < 16))
  <2>1. /\ fmt' = IF written.id = "fmt" THEN <<written>> ELSE fmt
        /\ data_range' = IF written.id = "data" THEN <<Extent(last + 1)>> ELSE data_range
        /\ offset' = NextChunk(offset + ChunkHeader, written)
        /\ pc' = "chunks" /\ result' = "none" /\ file' = file /\ data' = data
    BY <1>1, <1>2, <1>8, <1>10
  <2>2. offset' = ChunkPosition(last + 2) /\ offset' \in Nat
    <3> DEFINE s == written.size
    <3>1. s \in Nat /\ s % 2 \in Nat /\ offset \in Nat
      BY <1>2, <1>6
    <3>2. offset' = offset + ChunkHeader + s + (s % 2)
      BY <2>1 DEF NextChunk
    <3>3. ChunkPosition(last + 2) = offset + ChunkHeader + s + (s % 2)
      BY <1>3, <1>6
    <3> HIDE DEF s
    <3> QED
      BY <3>1, <3>2, <3>3 DEF ChunkHeader
  <2>3. WholeChunk(last + 1)
    <3>1. ~(offset + ChunkHeader + written.size > Remaining)
      BY <1>10 DEF Truncated
    <3>2. offset + ChunkHeader + written.size \in Int /\ Remaining \in Int
      BY <1>2, <1>6, Before DEF ChunkHeader
    <3> QED
      BY <1>3, <3>1, <3>2 DEF WholeChunk, written
  <2>4. \A k \in 1 .. last + 1 : WholeChunk(k)
    <3>1. \A k \in 1 .. last + 1 : k \in 1 .. last \/ k = last + 1
      BY <1>4
    <3> QED
      BY <1>3, <2>3, <3>1 DEF Scanned
  <2>5. \A k \in 1 .. last + 1 : k \in 1 .. last \/ k = last + 1
    BY <1>4
  <2>6. \/ fmt' = <<>> /\ \A k \in 1 .. last + 1 : file.chunks[k].id # "fmt"
        \/ \E f \in LastOf("fmt", last + 1) : fmt' = <<file.chunks[f]>>
    <3>1. CASE written.id = "fmt"
      <4>1. last \in Nat /\ file.chunks[last + 1].id = "fmt"
        BY <1>4, <3>1 DEF written
      <4>2. last + 1 \in LastOf("fmt", last + 1)
        BY <4>1, LastOfMore
      <4> QED
        BY <2>1, <3>1, <4>2 DEF written
    <3>2. CASE written.id # "fmt"
      <4>1. fmt' = fmt /\ LastOf("fmt", last) \subseteq LastOf("fmt", last + 1)
        BY <1>4, <2>1, <3>2, LastOfMore DEF written
      <4> QED
        BY <1>3, <2>5, <3>2, <4>1 DEF Scanned, written
    <3> QED
      BY <3>1, <3>2
  <2>7. \/ data_range' = <<>> /\ \A k \in 1 .. last + 1 : file.chunks[k].id # "data"
        \/ \E d \in LastOf("data", last + 1) : data_range' = <<Extent(d)>>
    <3>1. CASE written.id = "data"
      <4>1. last \in Nat /\ file.chunks[last + 1].id = "data"
        BY <1>4, <3>1 DEF written
      <4>2. last + 1 \in LastOf("data", last + 1)
        BY <4>1, LastOfMore
      <4> QED
        BY <2>1, <3>1, <4>2 DEF written
    <3>2. CASE written.id # "data"
      <4>1. data_range' = data_range /\ LastOf("data", last) \subseteq LastOf("data", last + 1)
        BY <1>4, <2>1, <3>2, LastOfMore DEF written
      <4> QED
        BY <1>3, <2>5, <3>2, <4>1 DEF Scanned, written
    <3> QED
      BY <3>1, <3>2
  <2>8. Scanned(last + 1)'
    <3>1. \A k \in 1 .. last + 1 : WholeChunk(k)'
      BY <2>1, <2>4, SamePlace
    <3>2. /\ LastOf("fmt", last + 1)' = LastOf("fmt", last + 1)
          /\ LastOf("data", last + 1)' = LastOf("data", last + 1)
          /\ \A d : Extent(d)' = Extent(d)
      BY <2>1, SameFile
    <3>3. (\/ fmt = <<>> /\ \A k \in 1 .. last + 1 : file.chunks[k].id # "fmt"
           \/ \E f \in LastOf("fmt", last + 1) : fmt = <<file.chunks[f]>>)'
      BY <2>1, <2>6, <3>2
    <3>4. (\/ data_range = <<>> /\ \A k \in 1 .. last + 1 : file.chunks[k].id # "data"
           \/ \E d \in LastOf("data", last + 1) : data_range = <<Extent(d)>>)'
      BY <2>1, <2>7, <3>2
    <3> QED
      BY <3>1, <3>3, <3>4 DEF Scanned
  <2>9. ChunksScanned'
    <3>1. last + 1 \in 0 .. n /\ (last + 1) + 1 = last + 2
      BY <1>5
    <3>2. ChunkPosition((last + 1) + 1)' = ChunkPosition(last + 2)
      BY <2>1, <3>1, SameFile
    <3>3. Len(file'.chunks) = n
      BY <2>1
    <3> QED
      BY <2>2, <2>8, <3>1, <3>2, <3>3 DEF ChunksScanned
  <2>10. SamplesRead' /\ WaveDecodesAsWritten' /\ TruncationIsReported'
    BY <2>1 DEF SamplesRead, WaveDecodesAsWritten, TruncationIsReported
  <2>11. Len(fmt') <= 1 /\ Len(data_range') <= 1
    BY <1>2, <2>1
  <2>12. \A k \in DOMAIN data_range' : /\ data_range'[k].start <= data_range'[k].end
                                       /\ data_range'[k].end <= Remaining
    <3>1. CASE written.id = "data"
      <4>1. Extent(last + 1).start <= Extent(last + 1).end
            /\ Extent(last + 1).end <= Remaining
        BY <1>2, <1>3, <1>6, <2>3 DEF Extent, WholeChunk, ChunkHeader, written
      <4> QED
        BY <2>1, <3>1, <4>1
    <3>2. CASE written.id # "data"
      BY <2>1, <3>2, Before DEF TypeOK
    <3> QED
      BY <3>1, <3>2
  <2> QED
    BY <1>1, <1>2, <2>1, <2>2, <2>9, <2>10, <2>11, <2>12, Before, Within
<1> QED
  BY <1>9, <1>10


\* A chunk that is the last of its kind
LEMMA LastIs ==
  ASSUME file \in Files, NEW last \in 0 .. Len(file.chunks), NEW id, NEW k \in LastOf(id, last)
  PROVE  /\ k \in 1 .. last /\ k \in 1 .. Len(file.chunks) /\ k \in DOMAIN file.chunks
         /\ file.chunks[k].id = id
         /\ file.chunks[k] \in ChunkFields
         /\ file.chunks[k].size \in Nat /\ ChunkPosition(k) \in Nat
         /\ last \in 1 .. Len(file.chunks)
<1>1. k \in 1 .. last /\ file.chunks[k].id = id
  BY DEF LastOf
<1>2. /\ Len(file.chunks) \in Nat /\ DOMAIN file.chunks = 1 .. Len(file.chunks)
      /\ \A i \in 1 .. Len(file.chunks) : file.chunks[i] \in ChunkFields
      /\ \A i \in 1 .. Len(file.chunks) + 1 : ChunkPosition(i) \in Nat
  BY ChunkLayout
<1>3. k \in 1 .. Len(file.chunks) /\ k \in 1 .. Len(file.chunks) + 1
      /\ last \in 1 .. Len(file.chunks)
  BY <1>1, <1>2
<1>4. file.chunks[k] \in ChunkFields
  BY <1>2, <1>3
<1>5. file.chunks[k].size \in Nat
  BY <1>4 DEF ChunkFields
<1> QED
  BY <1>1, <1>2, <1>3, <1>4, <1>5

\* After the scan no chunk that is cut off is left.
LEMMA NoneCutOff ==
  ASSUME DecoderInv, pc \in {"chunks", "samples"}, NEW last \in 0 .. Len(file.chunks),
         \A k \in 1 .. last : WholeChunk(k), ScanEnds(last), file' = file, data' = data
  PROVE  TruncationIsReported'
<1>1. ASSUME NEW k \in DOMAIN file.chunks, ChunkPosition(k) + ChunkHeader <= Remaining
      PROVE  WholeChunk(k)
  BY <1>1, AllRead
<1>2. \A k : ChunkPosition(k)' = ChunkPosition(k) /\ WholeChunk(k)' = WholeChunk(k)
  BY SamePlace, SameFile
<1>3. Remaining' = Remaining
  BY SamePlace
<1>4. ~(\E k \in DOMAIN file.chunks :
           ChunkPosition(k) + ChunkHeader <= Remaining /\ ~WholeChunk(k))'
  BY <1>1, <1>2, <1>3
<1> QED
  BY <1>4 DEF TruncationIsReported

LEMMA CheckFormatStep == ASSUME DecoderInv, CheckFormat PROVE DecoderInv'
<1>1. /\ pc = "chunks"
      /\ file' = file /\ data' = data /\ fmt' = fmt /\ data_range' = data_range
      /\ samples' = samples /\ packets' = packets
      /\ offset + ChunkHeader > Remaining
  BY DEF CheckFormat
<1> DEFINE n == Len(file.chunks)
<1>2. /\ result = "none" /\ packets = <<>> /\ samples = <<>>
      /\ offset \in Nat /\ file.cut \in Nat
      /\ Len(fmt) <= 1 /\ Len(data_range) <= 1
  BY <1>1, Scanning DEF DecoderInv, Untouched, TypeOK
<1>3. \A k \in DOMAIN data_range : data_range[k].start <= data_range[k].end
                                   /\ data_range[k].end <= Remaining
  BY Before DEF TypeOK
<1>4. PICK last \in 0 .. n : offset = ChunkPosition(last + 1) /\ Scanned(last)
  BY <1>1 DEF DecoderInv, ChunksScanned
<1>5. n \in Nat /\ DOMAIN file.chunks = 1 .. n /\ file \in Files
  BY Before, ChunkLayout
<1>6. ScanEnds(last) /\ \A k \in 1 .. last : WholeChunk(k)
  BY <1>1, <1>2, <1>4, Before DEF ScanEnds, Scanned, ChunkHeader
<1>7. file.cut = 0 => last = n
  BY <1>1, <1>6, ChunkBehind
<1>8. TruncationIsReported'
  BY <1>1, <1>6, NoneCutOff
<1>9. CASE fmt = <<>> \/ data_range = <<>>
  <2>1. pc' = "done" /\ result' = "decode" /\ offset' = offset /\ spec' = spec
    BY <1>9 DEF CheckFormat, Return
  <2>2. ASSUME file.cut = 0,
               {"fmt", "data"} \subseteq {file.chunks[k].id : k \in DOMAIN file.chunks}
        PROVE  FALSE
    <3>1. PICK f \in 1 .. n : file.chunks[f].id = "fmt"
      BY <1>5, <2>2
    <3>2. PICK d \in 1 .. n : file.chunks[d].id = "data"
      BY <1>5, <2>2
    <3>3. fmt # <<>>
      <4>1. f \in 1 .. last
        BY <1>7, <2>2, <3>1
      <4>2. ~(\A k \in 1 .. last : file.chunks[k].id # "fmt")
        BY <3>1, <4>1
      <4>3. \E c : fmt = <<c>>
        BY <1>4, <4>2 DEF Scanned
      <4> QED
        BY <4>3
    <3>4. data_range # <<>>
      <4>1. d \in 1 .. last
        BY <1>7, <2>2, <3>2
      <4>2. ~(\A k \in 1 .. last : file.chunks[k].id # "data")
        BY <3>2, <4>1
      <4>3. \E c : data_range = <<c>>
        BY <1>4, <4>2 DEF Scanned
      <4> QED
        BY <4>3
    <3> QED
      BY <1>9, <3>3, <3>4
  <2>3. WaveDecodesAsWritten'
    BY <1>1, <2>1, <2>2 DEF WaveDecodesAsWritten
  <2>4. ChunksScanned' /\ SamplesRead'
    BY <2>1 DEF ChunksScanned, SamplesRead
  <2> QED
    BY <1>1, <1>2, <1>3, <1>8, <2>1, <2>3, <2>4, Before, Within
<1>10. CASE ~(fmt = <<>> \/ data_range = <<>>)
  <2>1. PICK f \in LastOf("fmt", last) : fmt = <<file.chunks[f]>>
    BY <1>4, <1>10 DEF Scanned
  <2>2. PICK d \in LastOf("data", last) : data_range = <<Extent(d)>>
    BY <1>4, <1>10 DEF Scanned
  <2> DEFINE format == file.chunks[f]
  <2>3. /\ f \in 1 .. n /\ format.id = "fmt" /\ format \in ChunkFields
        /\ last \in 1 .. n
    BY <1>5, <2>1, LastIs
  <2>4. format.bits \in Nat /\ format.channels \in Nat /\ format.rate \in Nat
    BY <2>3 DEF ChunkFields
  <2>5. d \in 1 .. n /\ file.chunks[d].size \in Nat /\ ChunkPosition(d) \in Nat
    BY <1>5, <2>2, LastIs
  <2>6. fmt[1] = format /\ data_range[1] = Extent(d)
    BY <2>1, <2>2
  <2>7. Extent(d).start \in Nat /\ Extent(d).end \in Nat /\ Extent(d).start <= Extent(d).end
    BY <2>5 DEF Extent, ChunkHeader
  <2>8. CASE format.channels = 0 \/ format.bits < 8 \/ format.bits % 8 # 0
    <3>1. pc' = "done" /\ result' = "unsupported" /\ offset' = offset /\ spec' = spec
      BY <1>10, <2>6, <2>8 DEF CheckFormat, Return
    <3>2. ASSUME \A k \in DOMAIN file.chunks :
                    file.chunks[k].id = "fmt" =>
                       /\ file.chunks[k].size >= 16 /\ file.chunks[k].channels > 0
                       /\ <<file.chunks[k].format, file.chunks[k].bits>> \in Supported
          PROVE  FALSE
      <4>1. format.channels > 0 /\ <<format.format, format.bits>> \in Supported
        BY <1>5, <2>3, <3>2
      <4>2. format.bits \in {8, 16, 24, 32}
        BY <4>1 DEF Supported
      <4> HIDE DEF format
      <4> QED
        BY <2>4, <2>8, <4>1, <4>2
    <3>3. WaveDecodesAsWritten'
      BY <1>1, <3>1, <3>2 DEF WaveDecodesAsWritten
    <3>4. ChunksScanned' /\ SamplesRead'
      BY <3>1 DEF ChunksScanned, SamplesRead
    <3> QED
      BY <1>1, <1>2, <1>3, <1>8, <3>1, <3>3, <3>4, Before, Within
  <2>9. CASE ~(format.channels = 0 \/ format.bits < 8 \/ format.bits % 8 # 0)
    <3>1. /\ offset' = Extent(d).start /\ pc' = "samples" /\ result' = "none"
          /\ spec' = [rate |-> format.rate, channels |-> format.channels]
      BY <1>2, <1>10, <2>6, <2>9 DEF CheckFormat
    <3>2. spec' \in SpecFields
      BY <2>4, <3>1 DEF SpecFields
    <3>3. format.bits \div 8 \in Nat \ {0} /\ format.channels > 0
      BY <2>4, <2>9
    <3> DEFINE bytes == format.bits \div 8
    <3>4. samples' = [j \in 1 .. 0 |-> Extent(d).start + (j - 1) * bytes] /\ Len(samples') = 0
      BY <1>1, <1>2
    <3>5. offset' = Extent(d).start + 0 * bytes
      BY <2>7, <3>1, <3>3
    <3>6. \A k : Extent(k)' = Extent(k)
      BY <1>1, SameFile
    <3>7. ReadFrom(f, d)'
      <4>1. /\ fmt' = <<file'.chunks[f]>> /\ data_range' = <<Extent(d)'>>
            /\ spec' = [rate |-> file'.chunks[f].rate, channels |-> file'.chunks[f].channels]
        BY <1>1, <2>1, <2>2, <3>1, <3>6
      <4>2. /\ file'.chunks[f].channels > 0
            /\ file'.chunks[f].bits \div 8 \in Nat \ {0}
        BY <1>1, <3>3
      <4>3. /\ samples' = [j \in 1 .. Len(samples') |->
                              Extent(d)'.start + (j - 1) * (file'.chunks[f].bits \div 8)]
            /\ Len(samples') \in Nat
        BY <1>1, <3>4, <3>6
      <4>4. offset' = Extent(d)'.start + Len(samples') * (file'.chunks[f].bits \div 8)
        BY <1>1, <3>4, <3>5, <3>6
      <4>5. offset' <= Extent(d)'.end
        BY <2>7, <3>1, <3>6
      <4>6. samples' = <<>>
        BY <1>1, <1>2
      <4> QED
        BY <4>1, <4>2, <4>3, <4>4, <4>5, <4>6 DEF ReadFrom
    <3>8. SamplesRead'
      <4>1. last \in DOMAIN file'.chunks
        BY <1>1, <1>5, <2>3
      <4>2. (\A k \in 1 .. last : WholeChunk(k))' /\ ScanEnds(last)'
        BY <1>1, <1>6, SamePlace
      <4>3. f \in LastOf("fmt", last)' /\ d \in LastOf("data", last)'
        BY <1>1, SameFile
      <4> QED
        BY <3>7, <4>1, <4>2, <4>3 DEF SamplesRead
    <3>9. ChunksScanned' /\ WaveDecodesAsWritten'
      BY <3>1 DEF ChunksScanned, WaveDecodesAsWritten
    <3>10. offset' \in Nat
      BY <2>7, <3>1
    <3> QED
      BY <1>1, <1>2, <1>3, <1>8, <3>1, <3>2, <3>8, <3>9, <3>10, Before, Within
  <2> QED
    BY <2>8, <2>9
<1> QED
  BY <1>9, <1>10


LEMMA ReadSampleStep == ASSUME DecoderInv, ReadSample PROVE DecoderInv'
<1>1. /\ pc = "samples"
      /\ file' = file /\ data' = data /\ fmt' = fmt /\ data_range' = data_range
      /\ spec' = spec /\ packets' = packets
  BY DEF ReadSample
<1> DEFINE n == Len(file.chunks)
<1>2. /\ result = "none" /\ packets = <<>> /\ offset \in Nat
      /\ Len(fmt) <= 1 /\ Len(data_range) <= 1
  BY <1>1, Scanning DEF DecoderInv, TypeOK
<1>3. \A k \in DOMAIN data_range : data_range[k].start <= data_range[k].end
                                   /\ data_range[k].end <= Remaining
  BY Before DEF TypeOK
<1>4. PICK last \in DOMAIN file.chunks :
        /\ \A k \in 1 .. last : WholeChunk(k)
        /\ ScanEnds(last)
        /\ \E f \in LastOf("fmt", last), d \in LastOf("data", last) : ReadFrom(f, d)
  BY <1>1 DEF DecoderInv, SamplesRead
<1>5. PICK f \in LastOf("fmt", last), d \in LastOf("data", last) : ReadFrom(f, d)
  BY <1>4
<1>6. file \in Files /\ last \in 0 .. n /\ n \in Nat /\ DOMAIN file.chunks = 1 .. n
  <2>1. file \in Files /\ n \in Nat /\ DOMAIN file.chunks = 1 .. n
    BY Before, ChunkLayout
  <2> HIDE DEF n
  <2> QED
    BY <1>4, <2>1
<1> DEFINE format == file.chunks[f]
           bytes == format.bits \div 8
           m == Len(samples)
           size == file.chunks[d].size
           start == ChunkPosition(d) + ChunkHeader
<1>7. /\ f \in 1 .. n /\ format.id = "fmt" /\ format \in ChunkFields
      /\ size \in Nat /\ ChunkPosition(d) \in Nat /\ start \in Nat
  BY <1>6, LastIs DEF ChunkHeader
<1>8. Extent(d).start = start /\ Extent(d).end = start + size
  BY DEF Extent
<1>9. /\ fmt = <<format>> /\ data_range = <<Extent(d)>>
      /\ fmt[1] = format /\ data_range[1] = Extent(d)
      /\ format.channels > 0 /\ bytes \in Nat \ {0}
      /\ spec = [rate |-> format.rate, channels |-> format.channels]
      /\ samples = [j \in 1 .. m |-> start + (j - 1) * bytes]
      /\ m \in Nat
      /\ offset = start + m * bytes
      /\ offset <= start + size
      /\ samples # <<>> => <<format.format, format.bits>> \in Supported
  BY <1>5, <1>8 DEF ReadFrom
<1>10. TruncationIsReported'
  BY <1>1, <1>4, <1>6, NoneCutOff
<1>11. ASSUME NEW k \in DOMAIN file.chunks, WholeChunk(k) PROVE k <= last
  BY <1>1, <1>4, <1>6, <1>11, AllRead
<1>12. spec' \in SpecFields
  BY <1>1, Before
<1>13. CASE offset + bytes > start + size
  <2>1. pc' = "done" /\ result' = "ok" /\ offset' = offset /\ samples' = samples
    BY <1>8, <1>9, <1>13 DEF ReadSample, Return
  <2>2. size \div bytes = m
    <3> HIDE DEF bytes, m, size, start
    <3>1. m * bytes \in Nat /\ (m + 1) * bytes = m * bytes + bytes
      BY <1>9
    <3> DEFINE q == m * bytes
               r == (m + 1) * bytes
    <3>2. offset = start + q /\ offset <= start + size
      BY <1>9
    <3>3. q \in Nat /\ r = q + bytes /\ bytes \in Nat
      BY <1>9, <3>1
    <3> HIDE DEF q, r
    <3>4. q <= size /\ r > size
      BY <1>7, <1>13, <3>2, <3>3
    <3> QED
      BY <1>7, <1>9, <3>4, QuotientIs DEF q, r
  <2>3. SamplesOf(d, format) = samples
    <3>1. SamplesOf(d, format) = [j \in 1 .. size \div bytes |-> start + (j - 1) * bytes]
      BY DEF SamplesOf
    <3> QED
      BY <1>9, <2>2, <3>1
  <2>4. WaveDecodesAsWritten'
    <3>1. /\ samples' = SamplesOf(d, file.chunks[f])'
          /\ spec' = [rate |-> file.chunks[f].rate, channels |-> file.chunks[f].channels]'
      BY <1>1, <1>9, <2>1, <2>3, SameFile
    <3>2. size >= bytes => samples # <<>>
      <4> HIDE DEF bytes, m, size, start
      <4>1. CASE m = 0
        BY <1>7, <1>9, <1>13, <4>1
      <4>2. CASE m # 0
        BY <4>2 DEF m
      <4> QED
        BY <4>1, <4>2
    <3>3. (file.chunks[d].size >= file.chunks[f].bits \div 8 =>
              <<file.chunks[f].format, file.chunks[f].bits>> \in Supported)'
      BY <1>1, <1>9, <3>2 DEF Supported
    <3>4. (\A k \in DOMAIN file.chunks : WholeChunk(k) => k <= last)'
      BY <1>1, <1>11, SamePlace
    <3>5. f \in LastOf("fmt", last)' /\ d \in LastOf("data", last)' /\ last \in DOMAIN file'.chunks
      BY <1>1, <1>4, SameFile
    <3> QED
      BY <2>1, <3>1, <3>3, <3>4, <3>5 DEF WaveDecodesAsWritten
  <2>5. ChunksScanned' /\ SamplesRead'
    BY <2>1 DEF ChunksScanned, SamplesRead
  <2> QED
    BY <1>1, <1>2, <1>3, <1>10, <1>12, <2>1, <2>4, <2>5, Within
<1>14. CASE /\ ~(offset + bytes > start + size)
            /\ <<format.format, format.bits>> \notin Supported
  <2>1. pc' = "done" /\ result' = "unsupported" /\ offset' = offset /\ samples' = samples
    BY <1>8, <1>9, <1>14 DEF ReadSample, Return
  <2>2. WaveDecodesAsWritten'
    BY <1>1, <1>6, <1>7, <1>14, <2>1 DEF WaveDecodesAsWritten
  <2>3. ChunksScanned' /\ SamplesRead'
    BY <2>1 DEF ChunksScanned, SamplesRead
  <2> QED
    BY <1>1, <1>2, <1>3, <1>10, <1>12, <2>1, <2>2, <2>3, Within
<1>15. CASE /\ ~(offset + bytes > start + size)
            /\ <<format.format, format.bits>> \in Supported
  <2>1. /\ pc' = "samples" /\ result' = "none" /\ offset' = offset + bytes
        /\ samples' = Append(samples, offset)
    BY <1>1, <1>2, <1>8, <1>9, <1>15 DEF ReadSample
  <2>2. offset' \in Nat /\ offset' = start + (m + 1) * bytes /\ offset' <= start + size
    <3> HIDE DEF bytes, m, size, start
    <3>1. m * bytes \in Nat /\ (m + 1) * bytes = m * bytes + bytes
      BY <1>9
    <3> QED
      BY <1>2, <1>7, <1>9, <1>15, <2>1, <3>1
  <2>3. samples' = [j \in 1 .. m + 1 |-> start + (j - 1) * bytes] /\ Len(samples') = m + 1
    <3> HIDE DEF bytes, m, size, start
    <3> DEFINE longer == [j \in 1 .. m + 1 |-> start + (j - 1) * bytes]
    <3>1. Append([j \in 1 .. m |-> start + (j - 1) * bytes], start + ((m + 1) - 1) * bytes)
             = longer
      BY <1>9
    <3>2. offset = start + ((m + 1) - 1) * bytes
      BY <1>9
    <3>3. samples' = longer
      BY <1>9, <2>1, <3>1, <3>2
    <3>4. Len(longer) = m + 1
      BY <1>9
    <3> QED
      BY <3>3, <3>4
  <2>4. ReadFrom(f, d)'
    <3>1. /\ fmt' = <<file'.chunks[f]>> /\ data_range' = <<Extent(d)'>>
          /\ spec' = [rate |-> file'.chunks[f].rate, channels |-> file'.chunks[f].channels]
      BY <1>1, <1>9, SameFile
    <3>2. /\ file'.chunks[f].channels > 0
          /\ file'.chunks[f].bits \div 8 = bytes /\ bytes \in Nat \ {0}
          /\ Extent(d)'.start = start /\ Extent(d)'.end = start + size
      BY <1>1, <1>8, <1>9, SameFile
    <3>3. <<file'.chunks[f].format, file'.chunks[f].bits>> \in Supported
      BY <1>1, <1>15
    <3>4. /\ samples' = [j \in 1 .. Len(samples') |->
                            Extent(d)'.start + (j - 1) * (file'.chunks[f].bits \div 8)]
          /\ Len(samples') \in Nat
      BY <1>9, <2>3, <3>2
    <3>5. offset' = Extent(d)'.start + Len(samples') * (file'.chunks[f].bits \div 8)
      BY <2>2, <2>3, <3>2
    <3> QED
      BY <2>2, <3>1, <3>2, <3>3, <3>4, <3>5 DEF ReadFrom, Supported
  <2>5. SamplesRead'
    <3>1. last \in DOMAIN file'.chunks
      BY <1>1, <1>4
    <3>2. (\A k \in 1 .. last : WholeChunk(k))' /\ ScanEnds(last)'
      BY <1>1, <1>4, SamePlace
    <3>3. f \in LastOf("fmt", last)' /\ d \in LastOf("data", last)'
      BY <1>1, SameFile
    <3> QED
      BY <2>4, <3>1, <3>2, <3>3 DEF SamplesRead
  <2>6. ChunksScanned' /\ WaveDecodesAsWritten'
    BY <2>1 DEF ChunksScanned, WaveDecodesAsWritten
  <2> QED
    BY <1>1, <1>2, <1>3, <1>10, <1>12, <2>1, <2>2, <2>5, <2>6, Within
<1>16. offset + bytes \in Int /\ start + size \in Int
  <2> HIDE DEF bytes, size, start
  <2> QED
    BY <1>2, <1>7, <1>9
<1> QED
  BY <1>13, <1>14, <1>15, <1>16

-----------------------------------------------------------------------------
\* The packets of an MPEG stream

LEMMA BothLengths ==
  ASSUME NEW S, NEW s \in Seq(S), NEW t \in Seq(S)
  PROVE  Len(s \o t) = Len(s) + Len(t)
  OBVIOUS

LEMMA OutcomeIs ==
  ASSUME NEW outcome \in Outcomes
  PROVE  /\ outcome.kind = "audio" =>
               outcome.spec \in Specs /\ outcome.spec \in SpecFields /\ outcome.count \in Nat
         /\ outcome.kind \in {"foreign", "undecodable", "eof", "reset", "broken", "decode_eof",
                              "failed", "audio"}
<1>1. Specs \subseteq SpecFields /\ PacketSamples \subseteq Nat
  BY AudioDecoderAssumption DEF AudioDecoderAssumption
<1> QED
  BY <1>1 DEF Outcomes

\* The samples that an outcome adds
Added(outcome) == IF outcome.kind = "audio" THEN outcome.count ELSE 0

\* One more packet
LEMMA OneMorePacket ==
  ASSUME packets \in Seq(Outcomes), NEW outcome \in Outcomes,
         packets' = Append(packets, outcome), NEW p, p = Len(packets)
  PROVE  /\ p \in Nat /\ packets' \in Seq(Outcomes) /\ Len(packets') = p + 1 /\ packets' # <<>>
         /\ DOMAIN packets = 1 .. p /\ DOMAIN packets' = 1 .. p + 1
         /\ packets'[p + 1] = outcome /\ \A k \in 1 .. p : packets'[k] = packets[k]
         /\ Total \in Nat /\ Total' = Total + Added(outcome) /\ Added(outcome) \in Nat
         /\ Audio' = IF outcome.kind = "audio" THEN Audio \cup {p + 1} ELSE Audio
         /\ Audio \subseteq 1 .. p
<1>1. /\ p \in Nat /\ packets' \in Seq(Outcomes) /\ Len(packets') = p + 1 /\ packets' # <<>>
      /\ DOMAIN packets = 1 .. p /\ DOMAIN packets' = 1 .. p + 1
      /\ packets'[p + 1] = outcome /\ \A k \in 1 .. p : packets'[k] = packets[k]
      /\ \A k \in 1 .. p : packets[k] \in Outcomes
  <2> HIDE DEF Outcomes
  <2> QED
    OBVIOUS
<1>2. \A k \in 1 .. p + 1 : k \in 1 .. p \/ k = p + 1
  BY <1>1
<1>3. \A k \in 1 .. p + 1 : packets'[k] \in Outcomes
  BY <1>1, <1>2
<1>4. \A k \in 1 .. p + 1 : Counts'[k] = Added(packets'[k]) /\ Added(packets'[k]) \in Nat
  BY <1>1, <1>3, OutcomeIs DEF Counts, Added
<1>5. \A k \in 1 .. p : Counts[k] = Counts'[k]
  BY <1>1 DEF Counts
<1>6. Len(Counts) = p /\ Len(Counts') = p + 1
  BY <1>1 DEF Counts
<1>7. p + 1 \in 1 .. p + 1
  BY <1>1
<1>8. LengthOf(Counts) \in Nat /\ LengthOf(Counts') = LengthOf(Counts) + Counts'[p + 1]
  <2> DEFINE s == Counts
             t == Counts'
  <2>1. /\ p \in Nat /\ Len(s) = p /\ Len(t) = p + 1
        /\ \A k \in 1 .. p : s[k] = t[k]
        /\ \A k \in 1 .. p + 1 : t[k] \in Nat
    BY <1>1, <1>4, <1>5, <1>6
  <2> HIDE DEF s, t
  <2>2. LengthOf(s) \in Nat /\ LengthOf(t) = LengthOf(s) + t[p + 1]
    BY <2>1, LengthOfMore
  <2> QED
    BY <2>2 DEF s, t
<1>9. Total \in Nat /\ Total' = Total + Added(outcome) /\ Added(outcome) \in Nat
  BY <1>1, <1>4, <1>7, <1>8 DEF Total
<1>10. Audio \subseteq 1 .. p
  BY <1>1 DEF Audio
<1>11. Audio' = IF outcome.kind = "audio" THEN Audio \cup {p + 1} ELSE Audio
  <2>1. Audio' = {k \in 1 .. p + 1 : packets'[k].kind = "audio"}
    BY <1>1 DEF Audio
  <2>2. Audio = {k \in 1 .. p : packets'[k].kind = "audio"}
    BY <1>1 DEF Audio
  <2>3. 1 .. p + 1 = (1 .. p) \cup {p + 1} /\ p + 1 \notin 1 .. p
    BY <1>1
  <2> QED
    BY <1>1, <2>1, <2>2, <2>3
<1> QED
  BY <1>1, <1>9, <1>10, <1>11

\* A packet of another kind changes nothing of what was decoded.
LEMMA NothingMore ==
  ASSUME AllDecoded, NEW outcome \in Outcomes, outcome.kind # "audio",
         packets' = Append(packets, outcome), samples' = samples, spec' = spec
  PROVE  AllDecoded'
<1> DEFINE p == Len(packets)
<1>1. packets \in Seq(Outcomes)
  BY DEF AllDecoded
<1>2. /\ p \in Nat /\ packets' \in Seq(Outcomes) /\ Len(packets') = p + 1
      /\ \A k \in 1 .. p : packets'[k] = packets[k]
      /\ Total' = Total + Added(outcome) /\ Total \in Nat
      /\ Audio' = Audio /\ Audio \subseteq 1 .. p
  BY <1>1, OneMorePacket
<1>3. Total' = Total
  BY <1>2 DEF Added
<1>4. ASSUME NEW i \in DOMAIN samples PROVE samples[i].packet \in 1 .. p + 1
  <2>1. samples[i].packet \in 1 .. p
    BY DEF AllDecoded
  <2> QED
    BY <1>2, <2>1
<1>5. ASSUME NEW k \in Audio, NEW j \in 1 .. packets'[k].count
      PROVE  \E i \in DOMAIN samples : InOrder(i, k, j)'
  <2>1. packets'[k] = packets[k]
    BY <1>2
  <2>2. PICK i \in DOMAIN samples : InOrder(i, k, j)
    BY <2>1 DEF AllDecoded
  <2> QED
    BY <2>2 DEF InOrder
<1>6. Audio # {} => \E k \in Audio : spec' = packets'[k].spec /\ \A later \in Audio : later <= k
  BY <1>2 DEF AllDecoded
<1> QED
  BY <1>2, <1>3, <1>4, <1>5, <1>6 DEF AllDecoded

\* The samples of one more audio packet come behind all others.
LEMMA AudioMore ==
  ASSUME AllDecoded, NEW outcome \in Outcomes, outcome.kind = "audio",
         packets' = Append(packets, outcome), ~TooMany(outcome.count),
         samples' = samples \o DecodedFrom(outcome), spec' = outcome.spec
  PROVE  AllDecoded'
<1>a. PICK p : p = Len(packets)
  OBVIOUS
<1>b. PICK m : m = Len(samples)
  OBVIOUS
<1>c. PICK D : D = DecodedFrom(outcome)
  OBVIOUS
<1> DEFINE c == outcome.count
           Sample == [packet : Nat, index : Nat]
<1>1. packets \in Seq(Outcomes) /\ samples \in Seq(Sample) /\ m = Total
  BY <1>b DEF AllDecoded
<1>2. /\ p \in Nat /\ packets' \in Seq(Outcomes) /\ Len(packets') = p + 1
      /\ packets'[p + 1] = outcome
      /\ \A k \in 1 .. p : packets'[k] = packets[k]
      /\ Total' = Total + Added(outcome) /\ Total \in Nat
      /\ Audio' = Audio \cup {p + 1} /\ Audio \subseteq 1 .. p
  BY <1>1, <1>a, OneMorePacket
<1>3. c \in Nat /\ Added(outcome) = c
  BY OutcomeIs DEF Added
<1>4. D = [j \in 1 .. c |-> [packet |-> p + 1, index |-> j]]
  BY <1>a, <1>c DEF DecodedFrom
<1>5. D \in Seq(Sample) /\ Len(D) = c
  <2>1. \A j \in 1 .. c : D[j] \in Sample
    BY <1>2, <1>4
  <2> HIDE DEF Sample, c
  <2>2. D \in [1 .. c -> Sample]
    BY <1>4, <2>1
  <2> QED
    BY <1>3, <2>2
<1>6. \A j \in 1 .. c : D[j] = [packet |-> p + 1, index |-> j]
  BY <1>4
<1>7. DOMAIN samples = 1 .. m /\ m \in Nat
  <2> HIDE DEF Sample
  <2> QED
    BY <1>1, <1>b
<1>8. /\ samples' \in Seq(Sample) /\ Len(samples') = m + c /\ DOMAIN samples' = 1 .. m + c
      /\ \A i \in 1 .. m : samples'[i] = samples[i]
      /\ \A j \in 1 .. c : samples'[m + j] = D[j]
  <2> HIDE DEF Sample, c
  <2>1. samples' = samples \o D
    BY <1>c
  <2>2. samples' \in Seq(Sample)
    BY <1>1, <1>5, <2>1
  <2>5. Len(samples') = m + c
    <3>1. Len(samples \o D) = Len(samples) + Len(D)
      BY <1>1, <1>5, BothLengths
    <3> QED
      BY <1>5, <1>b, <2>1, <3>1
  <2>6. DOMAIN samples' = 1 .. m + c
    BY <2>2, <2>5
  <2>3. \A i \in 1 .. m : samples'[i] = samples[i]
    BY <1>1, <1>5, <2>1, <1>b
  <2>4. \A j \in 1 .. c : samples'[m + j] = D[j]
    BY <1>1, <1>3, <1>5, <1>7, <2>1, <1>b
  <2> QED
    BY <2>2, <2>3, <2>4, <2>5, <2>6
<1>9. Len(samples') = Total' /\ Len(samples') <= MAX_MP3_DECODED_SAMPLES
  <2>1. MAX_MP3_DECODED_SAMPLES \in Nat
    BY AudioDecoderAssumption DEF AudioDecoderAssumption
  <2> QED
    BY <1>1, <1>2, <1>3, <1>8, <1>b, <2>1 DEF TooMany
<1>10. \A i \in 1 .. m : samples[i].packet \in 1 .. p
  BY <1>7, <1>a DEF AllDecoded
<1>11. ASSUME NEW i \in 1 .. m + c PROVE samples'[i].packet \in 1 .. p + 1
  <2>1. CASE i \in 1 .. m
    <3>1. samples[i].packet \in 1 .. p /\ samples'[i].packet = samples[i].packet
      BY <1>8, <1>10, <2>1
    <3> QED
      BY <1>2, <3>1
  <2>2. CASE i \notin 1 .. m
    <3>1. i - m \in 1 .. c /\ m + (i - m) = i
      BY <1>3, <1>7, <2>2
    <3>2. samples'[i] = [packet |-> p + 1, index |-> i - m]
      BY <1>6, <1>8, <3>1
    <3> QED
      BY <1>2, <3>2
  <2> QED
    BY <2>1, <2>2
<1>12. ASSUME NEW k \in Audio, NEW j \in 1 .. packets'[k].count
       PROVE  \E i \in DOMAIN samples' : InOrder(i, k, j)'
  <2>1. packets'[k] = packets[k]
    BY <1>2
  <2>2. PICK i \in DOMAIN samples : InOrder(i, k, j)
    BY <2>1 DEF AllDecoded
  <2>3. i \in 1 .. m /\ i \in 1 .. m + c /\ \A h \in 1 .. i - 1 : h \in 1 .. m
    BY <1>3, <1>7, <2>2
  <2>4. samples'[i] = samples[i] /\ \A h \in 1 .. i - 1 : samples'[h] = samples[h]
    BY <1>8, <2>3
  <2>5. InOrder(i, k, j)'
    BY <2>2, <2>4 DEF InOrder
  <2> QED
    BY <1>8, <2>3, <2>5
<1>13. ASSUME NEW j \in 1 .. c PROVE \E i \in DOMAIN samples' : InOrder(i, p + 1, j)'
  <2>1. m + j \in 1 .. m + c
    BY <1>3, <1>7
  <2>2. samples'[m + j] = [packet |-> p + 1, index |-> j]
    BY <1>6, <1>8
  <2>3. ASSUME NEW h \in 1 .. (m + j) - 1
        PROVE  samples'[h].packet < p + 1 \/ (samples'[h].packet = p + 1 /\ samples'[h].index < j)
    <3>1. CASE h \in 1 .. m
      <4>1. samples[h].packet \in 1 .. p /\ samples'[h].packet = samples[h].packet
        BY <1>8, <1>10, <3>1
      <4> QED
        BY <1>2, <4>1
    <3>2. CASE h \notin 1 .. m
      <4>1. h - m \in 1 .. c /\ m + (h - m) = h /\ h - m < j
        BY <1>3, <1>7, <3>2
      <4>2. samples'[h] = [packet |-> p + 1, index |-> h - m]
        BY <1>6, <1>8, <4>1
      <4> QED
        BY <4>1, <4>2
    <3> QED
      BY <3>1, <3>2
  <2>4. InOrder(m + j, p + 1, j)'
    BY <2>2, <2>3 DEF InOrder
  <2> QED
    BY <1>8, <2>1, <2>4
<1>14. ASSUME NEW k \in Audio', NEW j \in 1 .. packets'[k].count
       PROVE  \E i \in DOMAIN samples' : InOrder(i, k, j)'
  <2>1. CASE k \in Audio
    BY <1>12, <1>14, <2>1
  <2>2. CASE k = p + 1
    <3>1. j \in 1 .. c
      BY <1>2, <1>14, <2>2
    <3> QED
      BY <1>13, <2>2, <3>1
  <2> QED
    BY <1>2, <2>1, <2>2
<1>15. p + 1 \in Audio' /\ spec' = packets'[p + 1].spec /\ \A later \in Audio' : later <= p + 1
  BY <1>2
<1> QED
  BY <1>2, <1>8, <1>9, <1>11, <1>14, <1>15 DEF AllDecoded


LEMMA PacketStep == ASSUME DecoderInv, NEW outcome \in Outcomes, Packet(outcome) PROVE DecoderInv'
<1>1. /\ pc = "packets" /\ file' = file /\ data' = data
      /\ offset' = offset /\ fmt' = fmt /\ data_range' = data_range
      /\ packets' = Append(packets, outcome)
      /\ spec' = IF outcome.kind = "audio" THEN outcome.spec ELSE spec
      /\ samples' = IF outcome.kind = "audio" /\ TooMany(outcome.count) THEN samples
                    ELSE samples \o DecodedFrom(outcome)
  BY DEF Packet, scan
<1>2. /\ result = "none" /\ offset = RiffHeader /\ fmt = <<>> /\ data_range = <<>>
      /\ ~StartsAsRiff /\ ~(file.container = "wave" /\ file.cut = 0)
      /\ AllDecoded
  BY <1>1 DEF DecoderInv, TypeOK, TagsSkipped, Untouched, WholeWave, PacketsDecoded
<1>3. /\ Len(packets) \in Nat /\ Len(packets') = Len(packets) + 1
      /\ packets'[Len(packets')] = outcome
      /\ packets' # <<>> /\ packets' \in Seq(Outcomes)
      /\ Total \in Nat /\ Total' = Total + Added(outcome) /\ Added(outcome) \in Nat
  BY <1>1, <1>2, OneMorePacket DEF AllDecoded
<1>4. spec' \in SpecFields
  BY <1>1, Before, OutcomeIs
<1>5. samples \in Seq([packet : Nat, index : Nat]) /\ Len(samples) = Total
      /\ Len(samples) <= MAX_MP3_DECODED_SAMPLES /\ MAX_MP3_DECODED_SAMPLES \in Nat
  BY <1>2, AudioDecoderAssumption DEF AllDecoded, AudioDecoderAssumption
<1> DEFINE over == outcome.kind = "audio" /\ TooMany(outcome.count)
<1>6. over => samples' = samples /\ pc' = "done" /\ result' = "invalid"
              /\ Total' > MAX_MP3_DECODED_SAMPLES
  <2> SUFFICES ASSUME over PROVE samples' = samples /\ pc' = "done" /\ result' = "invalid"
                                 /\ Total' > MAX_MP3_DECODED_SAMPLES
    OBVIOUS
  <2>1. pc' = "done" /\ result' = "invalid"
    BY DEF Packet, Return
  <2>2. Added(outcome) = outcome.count /\ outcome.count \in Nat
    BY OutcomeIs DEF Added
  <2> QED
    BY <1>1, <1>3, <1>5, <2>1, <2>2 DEF TooMany
<1>7. ~over => AllDecoded'
  <2>1. CASE outcome.kind = "audio" /\ ~over
    BY <1>1, <1>2, <2>1, AudioMore
  <2>2. CASE outcome.kind # "audio"
    <3>1. DecodedFrom(outcome) = <<>>
      BY <2>2 DEF DecodedFrom
    <3>2. samples \o <<>> = samples
      BY <1>5
    <3> QED
      BY <1>1, <1>2, <2>2, <3>1, <3>2, NothingMore
  <2> QED
    BY <2>1, <2>2
<1>8. ~over => /\ pc' \in {"packets", "done"} /\ result' \in {"none", "ok", "decode", "unsupported"}
               /\ pc' = "done" <=> result' # "none"
               /\ result' = "ok" => /\ outcome.kind \in {"eof", "decode_eof"}
                                    /\ samples # <<>> /\ spec.rate # 0 /\ spec.channels # 0
  BY <1>1, <1>2, OutcomeIs DEF Packet, Return, FinishMp3
<1>9. ~WaveHere' /\ StartsAsRiff' = StartsAsRiff /\ Remaining' = Remaining
      /\ file' \in Files /\ (data \in 0 .. FileLength)'
  BY <1>1, <1>2, Before, SamePlace, SameFile, WaveIsRiff
<1>10. /\ pc' \in {"packets", "done"} /\ result' \in {"none", "ok", "decode", "unsupported", "invalid"}
       /\ pc' = "done" <=> result' # "none"
  BY <1>6, <1>8
<1>11. Len(samples') <= MAX_MP3_DECODED_SAMPLES
  BY <1>5, <1>6, <1>7 DEF AllDecoded
<1>12. TypeOK'
  BY <1>1, <1>2, <1>9, <1>10, <1>11 DEF TypeOK, RiffHeader
<1>13. TagsSkipped'
  <2>1. (FileLength >= Payload => \E k \in 1 .. Len(file.tags) + 1 : data = TagPosition(k))'
    BY <1>1, Before, SameFile DEF TagsSkipped
  <2>2. (FileLength >= Payload => data = Payload)'
    BY <1>1, Before, SameFile DEF TagsSkipped
  <2> QED
    BY <1>2, <1>9, <1>10, <2>1, <2>2 DEF TagsSkipped
<1>14. Untouched'
  BY <1>1, <1>2, <1>10 DEF Untouched
<1>15. ChunksScanned' /\ SamplesRead'
  BY <1>10 DEF ChunksScanned, SamplesRead
<1>16. PacketsDecoded'
  BY <1>6, <1>7 DEF PacketsDecoded
<1>17. WholeWave'
  BY <1>1, <1>2, <1>3 DEF WholeWave
<1>18. WaveDecodesAsWritten' /\ TruncationIsReported'
  BY <1>1, <1>2, <1>3, <1>9, EndsElsewhere
<1>19. Mp3DecodesPackets'
  <2>1. (result = "invalid")' <=> Total' > MAX_MP3_DECODED_SAMPLES
    <3>1. CASE over
      BY <1>6, <3>1
    <3>2. CASE ~over
      <4>1. Len(samples') = Total' /\ Total' <= MAX_MP3_DECODED_SAMPLES /\ Total' \in Nat
        BY <1>3, <1>7, <3>2 DEF AllDecoded
      <4> QED
        BY <1>5, <1>8, <3>2, <4>1
    <3> QED
      BY <3>1, <3>2
  <2>2. ASSUME result' = "ok"
        PROVE  /\ Len(samples') = Total' /\ Total' > 0
               /\ \A k \in Audio' : \A j \in 1 .. packets'[k].count :
                     \E i \in DOMAIN samples' :
                        /\ samples'[i] = [packet |-> k, index |-> j]
                        /\ \A h \in 1 .. i - 1 :
                              \/ samples'[h].packet < k
                              \/ samples'[h].packet = k /\ samples'[h].index < j
               /\ spec'.rate > 0 /\ spec'.channels > 0
               /\ \E k \in Audio' :
                     spec' = packets'[k].spec /\ \A later \in Audio' : later <= k
               /\ packets'[Len(packets')].kind \in {"eof", "decode_eof"}
    <3>1. ~over
      BY <1>6, <2>2
    <3>2. outcome.kind \in {"eof", "decode_eof"} /\ samples # <<>> /\ spec.rate # 0
          /\ spec.channels # 0
      BY <1>8, <2>2, <3>1
    <3>3. DecodedFrom(outcome) = <<>> /\ samples \o <<>> = samples
      BY <1>5, <3>2 DEF DecodedFrom
    <3>4. samples' = samples /\ spec' = spec
      BY <1>1, <3>2, <3>3
    <3>5. spec'.rate > 0 /\ spec'.channels > 0
      BY <1>4, <3>2, <3>4 DEF SpecFields
    <3>6. Len(samples') > 0
      BY <1>5, <3>2, <3>4
    <3> QED
      BY <1>3, <1>7, <3>1, <3>2, <3>4, <3>5, <3>6 DEF AllDecoded, InOrder
  <2> QED
    BY <2>1, <2>2 DEF Mp3DecodesPackets, Total, Counts
<1> QED
  BY <1>4, <1>9, <1>12, <1>13, <1>14, <1>15, <1>16, <1>17, <1>18, <1>19 DEF DecoderInv

-----------------------------------------------------------------------------
\* Decoding keeps the invariant

LEMMA DecoderStep == ASSUME DecoderInv, Next PROVE DecoderInv'
  BY DispatchStep, SkipTagStep, AfterTagsStep, RiffStep, ReadChunkStep, CheckFormatStep,
     ReadSampleStep, ProbeStep, PacketStep DEF Next, NextPacket

LEMMA DecoderStutter == ASSUME DecoderInv, UNCHANGED vars PROVE DecoderInv'
<1>1. /\ file' = file /\ data' = data /\ offset' = offset /\ fmt' = fmt
      /\ data_range' = data_range /\ spec' = spec /\ samples' = samples /\ packets' = packets
      /\ pc' = pc /\ result' = result
  BY DEF vars, scan
<1>2. /\ Payload' = Payload /\ FileLength' = FileLength /\ Remaining' = Remaining
      /\ StartsAsRiff' = StartsAsRiff /\ WaveHere' = WaveHere
      /\ \A k : TagPosition(k)' = TagPosition(k)
      /\ \A k : ChunkPosition(k)' = ChunkPosition(k)
      /\ \A k : Extent(k)' = Extent(k)
      /\ \A k : WholeChunk(k)' = WholeChunk(k)
      /\ \A last : ScanEnds(last)' = ScanEnds(last)
      /\ \A id, last : LastOf(id, last)' = LastOf(id, last)
      /\ \A k, chunk : SamplesOf(k, chunk)' = SamplesOf(k, chunk)
  BY <1>1, SameFile, SamePlace
<1>3. (file \in Files)' /\ (spec \in SpecFields)' /\ TypeOK'
  BY <1>1, <1>2 DEF DecoderInv, TypeOK
<1>4. TagsSkipped'
  BY <1>1, <1>2 DEF DecoderInv, TagsSkipped
<1>5. Untouched'
  BY <1>1 DEF DecoderInv, Untouched
<1>6. ChunksScanned'
  BY <1>1, <1>2 DEF DecoderInv, ChunksScanned, Scanned
<1>7. SamplesRead'
  BY <1>1, <1>2 DEF DecoderInv, SamplesRead, ReadFrom
<1>8. PacketsDecoded' /\ Mp3DecodesPackets'
  BY <1>1 DEF DecoderInv, PacketsDecoded, Mp3DecodesPackets, AllDecoded, Audio, InOrder, Total, Counts
<1>9. WholeWave'
  BY <1>1, <1>2 DEF DecoderInv, WholeWave
<1>10. WaveDecodesAsWritten'
  BY <1>1, <1>2 DEF DecoderInv, WaveDecodesAsWritten
<1>11. TruncationIsReported'
  BY <1>1, <1>2 DEF DecoderInv, TruncationIsReported
<1> QED
  BY <1>3, <1>4, <1>5, <1>6, <1>7, <1>8, <1>9, <1>10, <1>11 DEF DecoderInv

LEMMA DecoderBegins == ASSUME Init PROVE DecoderInv
<1>1. /\ file \in Files /\ data = 0 /\ offset = RiffHeader /\ fmt = <<>> /\ data_range = <<>>
      /\ spec = [rate |-> 0, channels |-> 0] /\ samples = <<>> /\ packets = <<>>
      /\ pc = "sniff" /\ result = "none"
  BY DEF Init
<1>2. spec \in SpecFields
  BY <1>1 DEF SpecFields
<1>3. FileLength \in Nat
  BY <1>1, FileEnds
<1>4. TypeOK
  BY <1>1, <1>3 DEF TypeOK, RiffHeader
<1>5. TagsSkipped
  <2>1. Len(file.tags) \in Nat /\ TagPosition(1) = 0
    BY <1>1, TagLayout
  <2>2. 1 \in 1 .. Len(file.tags) + 1
    BY <2>1
  <2> QED
    BY <1>1, <1>3, <2>1, <2>2 DEF TagsSkipped
<1> QED
  BY <1>1, <1>2, <1>4, <1>5 DEF DecoderInv, Untouched, ChunksScanned, SamplesRead,
     PacketsDecoded, WholeWave, WaveDecodesAsWritten, TruncationIsReported, Mp3DecodesPackets

\* The strengthening of the decoder: what is read so far of any file, as its WAVE
\* chunks, its tags and its packets lie, under every step of a call.
THEOREM DecoderInvariance == CallSpec => []DecoderInv
<1>1. CallInit => DecoderInv
  BY DecoderBegins DEF CallInit
<1>2. DecoderInv /\ [CallNext]_<<vars, call>> => DecoderInv'
  <2> SUFFICES ASSUME DecoderInv, [CallNext]_<<vars, call>> PROVE DecoderInv'
    OBVIOUS
  <2>1. CASE Decode
    BY <2>1, DecoderStep DEF Decode
  <2>2. CASE Fingerprint
    BY <2>2, DecoderStutter DEF Fingerprint
  <2>3. CASE UNCHANGED <<vars, call>>
    BY <2>3, DecoderStutter
  <2> QED
    BY <2>1, <2>2, <2>3 DEF CallNext
<1> QED
  BY <1>1, <1>2, PTL DEF CallSpec

\* A call reads nothing past the end of its file, and never holds more samples of
\* an MPEG stream than the limit.
THEOREM DecoderTypeCorrect == CallSpec => []TypeOK
  BY DecoderInvariance, PTL DEF DecoderInv

\* A call that succeeds on a WAVE file returns a whole data chunk as the last fmt
\* chunk describes it, whatever chunks and tags surround it, and on an undamaged
\* file of a supported format it succeeds.
THEOREM WaveCorrect == CallSpec => []WaveDecodesAsWritten
  BY DecoderInvariance, PTL DEF DecoderInv

\* A WAVE file that ends inside the contents of a chunk is refused.
THEOREM TruncationCorrect == CallSpec => []TruncationIsReported
  BY DecoderInvariance, PTL DEF DecoderInv

\* An MPEG stream that decodes has every sample of every audio packet, in order,
\* and is refused as too long only when it is.
THEOREM Mp3Correct == CallSpec => []Mp3DecodesPackets
  BY DecoderInvariance, PTL DEF DecoderInv

\* Only what was written as a header is read as one.
THEOREM HeadersCorrect == CallSpec => []HeadersWhereWritten
<1>1. ASSUME DecoderInv PROVE HeadersWhereWritten
  <2>1. pc \in {"riff", "chunks", "probe", "packets"} /\ FileLength >= Payload => data = Payload
    BY <1>1, Before DEF TagsSkipped
  <2>2. ASSUME pc = "chunks", offset + ChunkHeader <= Remaining
        PROVE  \E k \in DOMAIN file.chunks : offset = ChunkPosition(k)
    <3> DEFINE n == Len(file.chunks)
    <3>1. PICK last \in 0 .. n : offset = ChunkPosition(last + 1) /\ Scanned(last)
      BY <1>1, <2>2 DEF DecoderInv, ChunksScanned
    <3>2. n \in Nat /\ DOMAIN file.chunks = 1 .. n
      BY <1>1, Before, ChunkLayout
    <3>3. last # n
      BY <1>1, <2>2, <3>1, Before, Scanning DEF ChunkHeader
    <3>4. last + 1 \in DOMAIN file.chunks
      BY <3>2, <3>3
    <3> QED
      BY <3>1, <3>4
  <2> QED
    BY <2>1, <2>2 DEF HeadersWhereWritten
<1>2. DecoderInv => HeadersWhereWritten
  BY <1>1
<1> QED
  BY <1>2, DecoderInvariance, PTL

-----------------------------------------------------------------------------
\* From the samples to the answer

LEMMA QuotientOfQuotient ==
  ASSUME NEW s \in Nat, NEW b \in Nat \ {0}, NEW c \in Nat \ {0}
  PROVE  c * b \in Nat \ {0} /\ (s \div b) \div c = s \div (c * b)
<1>1. c * b \in Nat \ {0}
  OBVIOUS
<1>2. PICK w : w = c * b
  OBVIOUS
<1>3. PICK q : q = s \div w
  OBVIOUS
<1>4. w \in Nat \ {0} /\ q \in Nat /\ q * w <= s /\ s < q * w + w
  BY <1>1, <1>2, <1>3, DivBounds
<1>5. q * c \in Nat /\ (q + 1) * c \in Nat
  BY <1>4
<1>6. (q * c) * b = q * w /\ ((q + 1) * c) * b = q * w + w
  BY <1>2, <1>4
<1>7. q * c <= s \div b
  BY <1>4, <1>5, <1>6, DivLargest
<1>8. ~((q + 1) * c <= s \div b)
  <2>1. ~(((q + 1) * c) * b <= s)
    BY <1>4, <1>6
  <2> QED
    BY <1>5, <2>1, DivLargest
<1>9. s \div b \in Nat
  BY DivBounds
<1>10. (s \div b) \div c = q
  <2>1. (q + 1) * c > s \div b
    BY <1>5, <1>8, <1>9
  <2> QED
    BY <1>4, <1>7, <1>9, <2>1, QuotientIs
<1> QED
  BY <1>1, <1>2, <1>3, <1>10

\* Samples of b bytes that fill size bytes from start on, and the same samples
\* taken c at a time
Interleaved(size, start, b) == [j \in 1 .. size \div b |-> start + (j - 1) * b]
ByChannel(size, start, b, c) ==
  [i \in 1 .. size \div (c * b) |-> [k \in 1 .. c |-> start + (i - 1) * (c * b) + (k - 1) * b]]

LEMMA DownmixIs ==
  ASSUME NEW size \in Nat, NEW start \in Nat, NEW b \in Nat \ {0}, NEW c \in Nat \ {0},
         NEW s, s = Interleaved(size, start, b)
  PROVE  MonoSamples(s, c) = ByChannel(size, start, b, c)
<1>1. PICK m : m = size \div b
  OBVIOUS
<1>2. m \in Nat
  BY <1>1, DivBounds
<1>3. s = [j \in 1 .. m |-> start + (j - 1) * b]
  BY <1>1 DEF Interleaved
<1>4. s \in Seq(Int) /\ Len(s) = m
  <2>1. \A j \in 1 .. m : start + (j - 1) * b \in Int
    BY <1>2
  <2> QED
    BY <1>2, <1>3, <2>1
<1>5. PICK w : w = c * b
  OBVIOUS
<1>6. PICK q : q = size \div w
  OBVIOUS
<1>7. w \in Nat \ {0} /\ m \div c = q
  BY <1>1, <1>5, <1>6, QuotientOfQuotient
<1>8. q \in Nat /\ q * c <= m
  BY <1>2, <1>7, DivBounds
<1>9. ASSUME NEW i \in 1 .. q
      PROVE  SubSeq(s, (i - 1) * c + 1, i * c) = [k \in 1 .. c |-> start + (i - 1) * w + (k - 1) * b]
  <2>1. PICK a : a = (i - 1) * c
    OBVIOUS
  <2>2. i - 1 \in Nat /\ i \in Nat /\ a \in Nat /\ i * c = a + c
    BY <1>8, <2>1
  <2>3. i * c <= q * c
    BY <1>8, <2>2, ProductMonotone
  <2>4. q * c \in Nat
    BY <1>8
  <2>5. a + c \in Nat /\ a <= a + c /\ a + c <= m /\ (a + c) - a = c
    BY <1>2, <1>8, <2>2, <2>3, <2>4
  <2>6. SubSeq(s, a + 1, a + c) = [k \in 1 .. c |-> s[a + k]]
    BY <1>4, <2>2, <2>5, Slice
  <2>7. ASSUME NEW k \in 1 .. c PROVE s[a + k] = start + (i - 1) * w + (k - 1) * b
    <3>1. a + k \in 1 .. m
      BY <1>2, <2>2, <2>5
    <3>3. a * b = (i - 1) * w
      BY <1>5, <2>1, <2>2
    <3>4. ((a + k) - 1) * b = a * b + (k - 1) * b
      BY <2>2
    <3>5. s[a + k] = start + ((a + k) - 1) * b
      BY <1>3, <3>1
    <3>6. a * b \in Int /\ (k - 1) * b \in Int
      BY <2>2
    <3> QED
      BY <3>3, <3>4, <3>5, <3>6
  <2> QED
    BY <2>1, <2>2, <2>6, <2>7
<1>10. MonoSamples(s, c) =
          [i \in 1 .. q |-> [k \in 1 .. c |-> start + (i - 1) * w + (k - 1) * b]]
  <2>1. MonoSamples(s, c) = [i \in 1 .. q |-> SubSeq(s, (i - 1) * c + 1, i * c)]
    BY <1>4, <1>7 DEF MonoSamples
  <2> QED
    BY <1>9, <2>1
<1> QED
  BY <1>5, <1>6, <1>10 DEF ByChannel

\* What a playable file holds, from the bytes as they were written
Written(f, d) ==
  LET sample_bytes == file.chunks[f].bits \div 8
      frame_bytes == file.chunks[f].channels * sample_bytes
  IN  [i \in 1 .. file.chunks[d].size \div frame_bytes |->
          [c \in 1 .. file.chunks[f].channels |->
              ChunkPosition(d) + ChunkHeader + (i - 1) * frame_bytes + (c - 1) * sample_bytes]]

\* A playable file decodes, and to its only data chunk.
LEMMA PlainWaveDecodes ==
  ASSUME DecoderInv, pc = "done", PlainWave
  PROVE  /\ result = "ok"
         /\ \E f \in LastOf("fmt", Len(file.chunks)), d \in LastOf("data", Len(file.chunks)) :
               /\ spec = [rate |-> file.chunks[f].rate, channels |-> file.chunks[f].channels]
               /\ spec.rate \in Nat /\ spec.channels \in Nat \ {0}
               /\ MonoSamples(samples, spec.channels) = Written(f, d)
               /\ \E S : Written(f, d) \in Seq(S)
<1> DEFINE n == Len(file.chunks)
<1>1. file.container = "wave" /\ file.cut = 0
  BY DEF PlainWave
<1>2. PICK f \in DOMAIN file.chunks, d \in DOMAIN file.chunks :
          /\ LastOf("fmt", n) = {f} /\ LastOf("data", n) = {d}
          /\ \A k \in DOMAIN file.chunks : k = f \/ file.chunks[k].id # "fmt"
          /\ file.chunks[f].size >= 16 /\ file.chunks[f].channels > 0
          /\ <<file.chunks[f].format, file.chunks[f].bits>> \in Supported
  BY DEF PlainWave
<1>3. file \in Files /\ WaveDecodesAsWritten /\ WholeWave
  BY DEF DecoderInv
<1>4. n \in Nat /\ n \in 0 .. n /\ DOMAIN file.chunks = 1 .. n
  BY <1>3, ChunkLayout
<1>5. /\ file.chunks[f].id = "fmt" /\ file.chunks[d].id = "data"
      /\ file.chunks[f] \in ChunkFields
      /\ file.chunks[d].size \in Nat /\ ChunkPosition(d) \in Nat
  <2>1. f \in LastOf("fmt", n) /\ d \in LastOf("data", n)
    BY <1>2
  <2> HIDE DEF n
  <2> QED
    BY <1>3, <1>4, <2>1, LastIs DEF n
<1>6. result = "ok"
  <2>1. {"fmt", "data"} \subseteq {file.chunks[k].id : k \in DOMAIN file.chunks}
    BY <1>2, <1>5
  <2> QED
    BY <1>1, <1>2, <1>3, <2>1 DEF WaveDecodesAsWritten
<1>7. packets = <<>> /\ WaveHere
  BY <1>1, <1>3, <1>6 DEF WholeWave
<1>8. PICK last \in DOMAIN file.chunks :
        \E f1 \in LastOf("fmt", last), d1 \in LastOf("data", last) :
           /\ samples = SamplesOf(d1, file.chunks[f1])
           /\ spec = [rate |-> file.chunks[f1].rate, channels |-> file.chunks[f1].channels]
           /\ \A k \in DOMAIN file.chunks : WholeChunk(k) => k <= last
  BY <1>1, <1>3, <1>6, <1>7 DEF WaveDecodesAsWritten
<1>9. last = n
  <2>1. n \in 1 .. n /\ n \in 1 .. n + 1 /\ n + 1 \in 1 .. n + 1 /\ n < n + 1
    BY <1>4, <1>8
  <2>2. /\ ChunkPosition(n) + ChunksOf[n] <= ChunkPosition(n + 1)
        /\ ChunksOf[n] >= ChunkHeader + file.chunks[n].size
        /\ ChunkPosition(n) \in Nat /\ ChunkPosition(n + 1) \in Nat /\ ChunksOf[n] \in Nat
        /\ file.chunks[n] \in ChunkFields
    BY <1>3, <2>1, ChunkLayout
  <2>3. file.chunks[n].size \in Nat
    BY <2>2 DEF ChunkFields
  <2>4. Remaining = ChunkPosition(n + 1)
    <3>1. FileLength > 0
      BY <1>7, Before DEF WaveHere, Remaining, RiffHeader
    <3>2. FileLength + file.cut = Payload + ChunkPosition(n + 1)
      BY <1>1, <1>3, <3>1, FileEnds
    <3> QED
      BY <1>1, <1>7, <2>2, <3>2, Before DEF WaveHere, Remaining
  <2>5. WholeChunk(n)
    <3> DEFINE p == ChunkPosition(n)
               w == ChunksOf[n]
               s == file.chunks[n].size
               e == ChunkPosition(n + 1)
    <3>1. p \in Nat /\ w \in Nat /\ s \in Nat /\ e \in Nat /\ p + w <= e /\ w >= ChunkHeader + s
      BY <2>2, <2>3
    <3> HIDE DEF p, w, s, e
    <3>2. p + ChunkHeader + s <= e
      BY <3>1 DEF ChunkHeader
    <3> QED
      BY <2>4, <3>2 DEF WholeChunk, p, s, e
  <2>6. n <= last
    BY <1>4, <1>8, <2>1, <2>5
  <2> QED
    BY <1>4, <1>8, <2>6
<1>10. /\ samples = SamplesOf(d, file.chunks[f])
       /\ spec = [rate |-> file.chunks[f].rate, channels |-> file.chunks[f].channels]
  BY <1>2, <1>8, <1>9
<1>11. /\ file.chunks[f].channels \in Nat \ {0} /\ file.chunks[f].rate \in Nat
       /\ file.chunks[f].bits \in {8, 16, 24, 32}
  BY <1>2, <1>5 DEF ChunkFields, Supported
<1>12. file.chunks[f].bits \div 8 \in Nat \ {0}
  <2>1. PICK bits : bits = file.chunks[f].bits
    OBVIOUS
  <2>2. bits \in {8, 16, 24, 32}
    BY <1>11, <2>1
  <2>3. bits \div 8 \in Nat \ {0}
    BY <2>2
  <2> QED
    BY <2>1, <2>3
<1>13. MonoSamples(samples, spec.channels) = Written(f, d) /\ \E S : Written(f, d) \in Seq(S)
  <2>1. PICK b : b = file.chunks[f].bits \div 8
    OBVIOUS
  <2>2. PICK c : c = file.chunks[f].channels
    OBVIOUS
  <2>3. PICK size : size = file.chunks[d].size
    OBVIOUS
  <2>4. PICK start : start = ChunkPosition(d) + ChunkHeader
    OBVIOUS
  <2>5. b \in Nat \ {0} /\ c \in Nat \ {0} /\ size \in Nat /\ start \in Nat
    BY <1>5, <1>11, <1>12, <2>1, <2>2, <2>3, <2>4 DEF ChunkHeader
  <2>6. samples = Interleaved(size, start, b)
    BY <1>10, <2>1, <2>3, <2>4 DEF SamplesOf, Interleaved
  <2>7. MonoSamples(samples, c) = ByChannel(size, start, b, c)
    BY <2>5, <2>6, DownmixIs
  <2>8. Written(f, d) = ByChannel(size, start, b, c)
    BY <2>1, <2>2, <2>3, <2>4 DEF Written, ByChannel
  <2>9. size \div (c * b) \in Nat
    <3>1. c * b \in Nat \ {0}
      BY <2>5
    <3> QED
      BY <2>5, <3>1, DivBounds
  <2>10. \E S : Written(f, d) \in Seq(S)
    <3>1. PICK q : q = size \div (c * b)
      OBVIOUS
    <3> DEFINE SamplesAcross(i) == [k \in 1 .. c |-> start + (i - 1) * (c * b) + (k - 1) * b]
    <3>2. Written(f, d) = [i \in 1 .. q |-> SamplesAcross(i)]
      BY <2>8, <3>1 DEF ByChannel
    <3> HIDE DEF SamplesAcross
    <3>3. Written(f, d) \in Seq({SamplesAcross(i) : i \in 1 .. q})
      BY <2>9, <3>1, <3>2
    <3> QED
      BY <3>3
  <2> QED
    BY <1>10, <2>2, <2>7, <2>8, <2>10
<1> QED
  BY <1>2, <1>6, <1>10, <1>11, <1>13


LEMMA SamplesOfDuration ==
  ASSUME NEW ms \in Nat
  PROVE  SamplesForMilliseconds(ms) \in Nat
<1>1. ms * TARGET_SAMPLE_RATE \in Nat /\ MILLISECONDS \in Nat \ {0}
  BY DataFingerprinterAssumption DEF DataFingerprinterAssumption
<1> QED
  BY <1>1, DivBounds DEF SamplesForMilliseconds

\* The windows of a recording, each over the samples that lie in it
AllWindows(target_samples, durations) ==
  LET window_samples == SamplesForMilliseconds(durations.window_ms)
      interval_samples == SamplesForMilliseconds(durations.interval_ms)
  IN  [k \in 1 .. WindowCount(Len(target_samples), window_samples, interval_samples) |->
          WindowOver(target_samples, (k - 1) * interval_samples, window_samples)]

LEMMA WindowsReturned ==
  ASSUME NEW S, NEW target_samples \in Seq(S),
         NEW durations \in [window_ms : Nat, interval_ms : Nat], ValidWindow(durations)
  PROVE  WindowsOf(target_samples, durations) = AllWindows(target_samples, durations)
<1>1. PICK ws, is :
        /\ ws = SamplesForMilliseconds(durations.window_ms)
        /\ is = SamplesForMilliseconds(durations.interval_ms)
  OBVIOUS
<1>2. ws \in Nat /\ ws >= FRAME_SIZE /\ is \in Nat \ {0}
  BY <1>1, SamplesOfDuration DEF ValidWindow
<1>3. FingerprintWindows(target_samples, ws, is) =
         [k \in 1 .. WindowCount(Len(target_samples), ws, is) |->
             WindowOver(target_samples, (k - 1) * is, ws)]
  BY <1>2, OneShotWindows
<1> QED
  BY <1>1, <1>3 DEF WindowsOf, AllWindows

\* What a call answers on a playable file, as AnswerFollowsFile has it
Recording(f, d) ==
  LET rate == file.chunks[f].rate
  IN  IF rate = TARGET_SAMPLE_RATE THEN Written(f, d)
      ELSE [k \in 1 .. (Len(Written(f, d)) * TARGET_SAMPLE_RATE) \div rate |->
               [output |-> k - 1, source |-> Written(f, d)]]

PlainAnswer(f, d) ==
  IF file.chunks[f].rate \notin 1 .. MAX_SAMPLE_RATE \/ ~ValidWindow(asked)
  THEN error = "invalid"
  ELSE error = "none" /\ windows = <<AllWindows(Recording(f, d), asked)>>

Follows ==
  Answered =>
     /\ PlainWave =>
           \E f \in LastOf("fmt", Len(file.chunks)), d \in LastOf("data", Len(file.chunks)) :
              PlainAnswer(f, d)
     /\ result # "ok" => error = result

LEMMA AnswerIs == AnswerFollowsFile <=> Follows
  BY DEF AnswerFollowsFile, Follows, PlainAnswer, Recording, AllWindows, Written

AnswerInv == DecoderInv /\ AnswerFollowsFile /\ (Answered => pc = "done")

LEMMA DecodeAnswers == ASSUME AnswerInv, Decode PROVE AnswerInv'
<1>1. Next /\ asked' = asked /\ error' = error /\ windows' = windows
  BY DEF Decode, call
<1>2. pc # "done"
  BY <1>1 DEF Next, Dispatch, SkipTag, AfterTags, Riff, ReadChunk, CheckFormat, ReadSample,
     Probe, NextPacket, Packet
<1>3. ~Answered'
  BY <1>1, <1>2 DEF AnswerInv, Answered
<1>4. AnswerFollowsFile'
  BY <1>3 DEF AnswerFollowsFile
<1> QED
  BY <1>1, <1>3, <1>4, DecoderStep DEF AnswerInv

LEMMA FingerprintAnswers == ASSUME AnswerInv, Fingerprint PROVE AnswerInv'
<1>1. /\ pc = "done" /\ error = "none" /\ windows = <<>> /\ UNCHANGED vars
      /\ asked' \in [window_ms : Durations, interval_ms : Durations]
  BY DEF Fingerprint
<1>2. /\ file' = file /\ data' = data /\ samples' = samples /\ spec' = spec /\ pc' = pc
      /\ result' = result
  BY <1>1 DEF vars
<1>3. DecoderInv /\ DecoderInv'
  BY <1>1, DecoderStutter DEF AnswerInv
<1>4. asked' \in [window_ms : Nat, interval_ms : Nat]
  BY <1>1, DataFingerprinterAssumption DEF DataFingerprinterAssumption
<1>5. result' # "ok" => error' = result'
  BY <1>2 DEF Fingerprint
<1>6. ASSUME PlainWave
      PROVE  \E f \in LastOf("fmt", Len(file.chunks)), d \in LastOf("data", Len(file.chunks)) :
                PlainAnswer(f, d)'
  <2>1. result = "ok"
    BY <1>1, <1>3, <1>6, PlainWaveDecodes
  <2>2. PICK f \in LastOf("fmt", Len(file.chunks)), d \in LastOf("data", Len(file.chunks)) :
          /\ spec = [rate |-> file.chunks[f].rate, channels |-> file.chunks[f].channels]
          /\ spec.rate \in Nat /\ spec.channels \in Nat \ {0}
          /\ MonoSamples(samples, spec.channels) = Written(f, d)
          /\ \E S : Written(f, d) \in Seq(S)
    BY <1>1, <1>3, <1>6, PlainWaveDecodes
  <2>3. PICK rate : rate = file.chunks[f].rate
    OBVIOUS
  <2>4. PICK written : written = Written(f, d)
    OBVIOUS
  <2>5. /\ spec.rate = rate /\ rate \in Nat /\ spec.channels > 0
        /\ MonoSamples(samples, spec.channels) = written
    BY <2>2, <2>3, <2>4
  <2>6. Written(f, d)' = written /\ file'.chunks[f].rate = rate
    BY <1>2, <2>3, <2>4, SameFile DEF Written
  <2>7. (\E S : written \in Seq(S)) /\ Len(written) \in Nat
    BY <2>2, <2>4
  <2>8. CASE rate \notin 1 .. MAX_SAMPLE_RATE \/ ~ValidWindow(asked')
    <3>1. error' = "invalid"
      BY <2>1, <2>5, <2>8 DEF Fingerprint, ValidShape
    <3> QED
      BY <2>6, <2>8, <3>1 DEF PlainAnswer, ValidWindow, SamplesForMilliseconds
  <2>9. CASE rate \in 1 .. MAX_SAMPLE_RATE /\ ValidWindow(asked')
    <3>1. PICK target_samples : target_samples = ResampleToMono(samples, rate, spec.channels)
      OBVIOUS
    <3>2. error' = "none" /\ windows' = <<WindowsOf(target_samples, asked')>>
      BY <1>1, <2>1, <2>5, <2>9, <3>1 DEF Fingerprint, ValidShape
    <3>3. PICK count : count = (Len(written) * TARGET_SAMPLE_RATE) \div rate
      OBVIOUS
    <3>4. target_samples = IF rate = TARGET_SAMPLE_RATE THEN written
                      ELSE [k \in 1 .. count |-> [output |-> k - 1, source |-> written]]
      BY <2>5, <3>1, <3>3 DEF ResampleToMono
    <3>5. count \in Nat
      <4>1. rate \in Nat \ {0} /\ Len(written) * TARGET_SAMPLE_RATE \in Nat
        BY <2>5, <2>9, <2>7, DataFingerprinterAssumption DEF DataFingerprinterAssumption
      <4> QED
        BY <3>3, <4>1, DivBounds
    <3>6. \E S : target_samples \in Seq(S)
      <4>1. CASE rate = TARGET_SAMPLE_RATE
        BY <2>7, <3>4, <4>1
      <4>2. CASE rate # TARGET_SAMPLE_RATE
        <5> DEFINE Resampled(k) == [output |-> k - 1, source |-> written]
        <5>1. target_samples = [k \in 1 .. count |-> Resampled(k)]
          BY <3>4, <4>2
        <5> HIDE DEF Resampled
        <5>2. target_samples \in Seq({Resampled(k) : k \in 1 .. count})
          BY <3>5, <5>1
        <5> QED
          BY <5>2
      <4> QED
        BY <4>1, <4>2
    <3>7. WindowsOf(target_samples, asked') = AllWindows(target_samples, asked')
      BY <1>4, <2>9, <3>6, WindowsReturned
    <3>8. Recording(f, d)' = target_samples
      BY <2>6, <3>3, <3>4 DEF Recording
    <3>9. windows' = <<AllWindows(Recording(f, d), asked)>>'
      <4>1. AllWindows(Recording(f, d), asked)' = AllWindows(target_samples, asked')
        BY <3>8 DEF AllWindows, SamplesForMilliseconds, WindowOver
      <4> QED
        BY <3>2, <3>7, <4>1
    <3>10. ValidWindow(asked)'
      BY <2>9 DEF ValidWindow
    <3> QED
      BY <2>6, <2>9, <3>2, <3>9, <3>10 DEF PlainAnswer
  <2> QED
    BY <2>2, <2>8, <2>9
<1>7. AnswerFollowsFile'
  <2>1. PlainWave' => PlainWave
    BY <1>2, SameFile DEF PlainWave
  <2>2. PlainWave' =>
          \E f \in LastOf("fmt", Len(file.chunks))', d \in LastOf("data", Len(file.chunks))' :
             PlainAnswer(f, d)'
    BY <1>2, <1>6, <2>1, SameFile
  <2>3. Follows'
    BY <1>5, <2>2 DEF Follows
  <2> QED
    BY <2>3, AnswerIs, PTL
<1> QED
  BY <1>1, <1>2, <1>3, <1>7 DEF AnswerInv

\* A call's answer is that of its file: every window of a playable recording, over
\* the bytes that stand there, or the error the file or the arguments call for.
THEOREM AnswerCorrect == CallSpec => []AnswerFollowsFile
<1>1. CallInit => AnswerInv
  BY DecoderBegins DEF CallInit, AnswerInv, AnswerFollowsFile, Answered
<1>2. AnswerInv /\ [CallNext]_<<vars, call>> => AnswerInv'
  <2> SUFFICES ASSUME AnswerInv, [CallNext]_<<vars, call>> PROVE AnswerInv'
    OBVIOUS
  <2>1. CASE Decode
    BY <2>1, DecodeAnswers
  <2>2. CASE Fingerprint
    BY <2>2, FingerprintAnswers
  <2>3. CASE UNCHANGED <<vars, call>>
    <3>1. UNCHANGED vars
      BY <2>3
    <3>2. /\ file' = file /\ pc' = pc /\ result' = result /\ asked' = asked /\ error' = error
          /\ windows' = windows
      BY <2>3 DEF vars, call
    <3>3. \A f, d : PlainAnswer(f, d)' = PlainAnswer(f, d)
      <4>1. \A f, d : Written(f, d)' = Written(f, d)
        BY <3>2, SameFile DEF Written
      <4>2. \A f, d : Recording(f, d)' = Recording(f, d)
        BY <3>2, <4>1 DEF Recording
      <4>3. \A s : AllWindows(s, asked)' = AllWindows(s, asked)
        BY <3>2 DEF AllWindows
      <4>4. ValidWindow(asked)' = ValidWindow(asked)
        BY <3>2 DEF ValidWindow
      <4> QED
        BY <3>2, <4>4, <4>2, <4>3 DEF PlainAnswer
    <3>4. Answered' = Answered /\ PlainWave' = PlainWave
      BY <3>2, SameFile DEF Answered, PlainWave
    <3>5. Follows
      BY AnswerIs DEF AnswerInv
    <3>6. Follows'
      BY <3>2, <3>3, <3>4, <3>5, SameFile DEF Follows
    <3>7. AnswerFollowsFile'
      BY <3>6, AnswerIs, PTL
    <3> QED
      BY <3>1, <3>2, <3>7, DecoderStutter DEF AnswerInv, Answered
  <2> QED
    BY <2>1, <2>2, <2>3 DEF CallNext
<1>3. AnswerInv => AnswerFollowsFile
  BY DEF AnswerInv
<1> QED
  BY <1>1, <1>2, <1>3, PTL DEF CallSpec
=============================================================================
