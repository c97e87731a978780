----------------------------- MODULE AudioDecoder -----------------------------
(***************************************************************************)
(* decode_audio_bytes (decoder.rs, wav.rs): one call, from the bytes of a   *)
(* file to its samples.  Leading ID3v2 tags are skipped; then the chunks of *)
(* a RIFF/WAVE file are scanned, or the packets of an MPEG stream decoded.  *)
(*                                                                          *)
(* A file is what its writer put into it: tags, then a container, of which  *)
(* the last cut bytes are missing.  Positions, lengths and paddings are in  *)
(* bytes as the format has them; what is read at a position is the header   *)
(* written there, or any header at all where none was written.  A sample is *)
(* the position it was read from.  Symphonia, which finds and decodes MPEG  *)
(* packets, is external: each packet may turn out in every way its          *)
(* interface allows.                                                        *)
(***************************************************************************)
EXTENDS Integers, Sequences

CONSTANTS
    Files,                      \* the files a call may be given
    Chunks,                     \* chunk headers that stray bytes may look like
    Specs,                      \* rates and channel counts a packet may have
    PacketSamples,              \* samples a packet may decode to
    MAX_MP3_INPUT_BYTES,
    MAX_MP3_DECODED_SAMPLES,
    MAX_PACKETS                 \* bound: packets Symphonia finds in a file

TagFields == [major : Nat, footer_flag : BOOLEAN, body : Nat]
ChunkFields ==
    [id : STRING, size : Nat, format : Nat, bits : Nat, rate : Nat, channels : Nat]
SpecFields == [rate : Nat, channels : Nat]

\* Lengths and fields of a header are unsigned.
ASSUME AudioDecoderAssumption ==
    /\ \A written \in Files :
          written \in [tags : Seq(TagFields), container : STRING, chunks : Seq(ChunkFields),
                      size : Nat, cut : Nat]
    /\ Chunks \subseteq ChunkFields
    /\ Specs \subseteq SpecFields
    /\ PacketSamples \subseteq Nat
    /\ MAX_MP3_INPUT_BYTES \in Nat /\ MAX_MP3_DECODED_SAMPLES \in Nat
    /\ MAX_PACKETS \in Nat

VARIABLES
    file,
    data,            \* position of the first byte not skipped
    offset,          \* in decode_wave_bytes, counted from data
    fmt,             \* fields of the last fmt chunk, as a sequence of at most one
    data_range,      \* extent of the last data chunk, likewise
    spec,            \* sample_rate and channel_count
    samples,
    packets,         \* history: what became of each packet
    pc,              \* where the call is
    result           \* "none" while it runs, "ok", or the error

scan == <<offset, fmt, data_range>>
vars == <<file, data, scan, spec, samples, packets, pc, result>>

TagHeader == 10
RiffHeader == 12
ChunkHeader == 8

\* The layout of a file, as its writer made it.

WrittenTag(tag) ==
    TagHeader + tag.body + (IF tag.major >= 4 /\ tag.footer_flag THEN 10 ELSE 0)

LengthOf(sizes) ==
    LET sum[k \in 0 .. Len(sizes)] == IF k = 0 THEN 0 ELSE sum[k - 1] + sizes[k]
    IN  sum[Len(sizes)]

WrittenChunk(chunk) == ChunkHeader + chunk.size + (chunk.size % 2)

TagPosition(k) == LengthOf([i \in 1 .. k - 1 |-> WrittenTag(file.tags[i])])
Payload == TagPosition(Len(file.tags) + 1)
ChunkPosition(k) == RiffHeader + LengthOf([i \in 1 .. k - 1 |-> WrittenChunk(file.chunks[i])])

FileLength ==
    LET whole == IF file.container = "wave"
                 THEN ChunkPosition(Len(file.chunks) + 1) ELSE file.size
    IN  IF file.cut < Payload + whole THEN Payload + whole - file.cut ELSE 0

\* data.len() and bytes.len(), once tags are skipped
Remaining == FileLength - data

-----------------------------------------------------------------------------

Init ==
    /\ file \in Files
    /\ data = 0
    /\ offset = RiffHeader
    /\ fmt = <<>> /\ data_range = <<>>
    /\ spec = [rate |-> 0, channels |-> 0]
    /\ samples = <<>>
    /\ packets = <<>>
    /\ pc = "sniff"
    /\ result = "none"

Return(outcome) == pc' = "done" /\ result' = outcome

\* The tag that starts at position data
TagsHere == {k \in DOMAIN file.tags : TagPosition(k) = data /\ Remaining >= 3}

\* looks_like_wave: the four bytes RIFF, which other containers start with too
StartsAsRiff == file.container \in {"wave", "riff"} /\ data = Payload /\ Remaining >= 4
StartsAsMpeg == file.container = "mpeg" /\ data = Payload /\ Remaining >= 2

\* decode_audio_bytes
Dispatch ==
    /\ pc = "sniff"
    /\ IF StartsAsRiff THEN pc' = "riff" /\ UNCHANGED result
       ELSE IF TagsHere # {} \/ StartsAsMpeg THEN pc' = "tags" /\ UNCHANGED result
       ELSE Return("unsupported")
    /\ UNCHANGED <<file, data, scan, spec, samples, packets>>

\* Fault: the header is not counted.
TagTotal_BodyOnly(tag) == tag.body + (IF tag.major >= 4 /\ tag.footer_flag THEN 10 ELSE 0)

TagTotal(tag) ==
    TagHeader + tag.body + (IF tag.major >= 4 /\ tag.footer_flag THEN 10 ELSE 0)

\* skip_id3v2_tags: a turn of its loop
SkipTag ==
    /\ pc = "tags"
    /\ Remaining >= TagHeader
    /\ \E k \in TagsHere :
          LET total == TagTotal(file.tags[k])
          IN  data' = IF total >= Remaining THEN FileLength ELSE data + total
    /\ UNCHANGED <<file, scan, spec, samples, packets, pc, result>>

\* decode_mp3_bytes, up to the probe: what follows the tags may be a WAVE file.
AfterTags ==
    /\ pc = "tags"
    /\ TagsHere = {} \/ Remaining < TagHeader
    /\ IF StartsAsRiff THEN pc' = "riff" /\ UNCHANGED result
       ELSE IF Remaining > MAX_MP3_INPUT_BYTES THEN Return("invalid")
       ELSE pc' = "probe" /\ UNCHANGED result
    /\ UNCHANGED <<file, data, scan, spec, samples, packets>>

\* Symphonia looks for an MPEG stream, and its first frame names a spec, or not.
Probe ==
    /\ pc = "probe"
    /\ \/ Return("unsupported") /\ UNCHANGED spec
       \/ /\ Remaining > 0
          /\ spec' \in Specs \cup {[rate |-> 0, channels |-> 0]}
          /\ \/ Return("decode")
             \/ pc' = "packets" /\ UNCHANGED result
    /\ UNCHANGED <<file, data, scan, samples, packets>>

\* What next_packet and decode may answer
Outcomes ==
    [kind : {"foreign", "undecodable", "eof", "reset", "broken", "decode_eof", "failed"}]
        \cup [kind : {"audio"}, spec : Specs, count : PacketSamples]

\* Fault: the samples of this packet are not counted.
TooMany_Before(count) == Len(samples) > MAX_MP3_DECODED_SAMPLES

TooMany(count) == Len(samples) + count > MAX_MP3_DECODED_SAMPLES

\* Fault: what a decode leaves of a packet it rejects is played as silence.
DecodedFrom_Rejected(outcome) ==
    IF outcome.kind = "undecodable" THEN <<[packet |-> Len(packets) + 1, index |-> 0]>>
    ELSE IF outcome.kind = "audio"
    THEN [j \in 1 .. outcome.count |-> [packet |-> Len(packets) + 1, index |-> j]]
    ELSE <<>>

\* The samples a packet adds, named by the packet
DecodedFrom(outcome) ==
    IF outcome.kind = "audio"
    THEN [j \in 1 .. outcome.count |-> [packet |-> Len(packets) + 1, index |-> j]]
    ELSE <<>>

\* The loop of decode_mp3_bytes ended.
FinishMp3 ==
    IF samples = <<>> \/ spec.rate = 0 \/ spec.channels = 0
    THEN Return("unsupported") ELSE Return("ok")

Packet(outcome) ==
    /\ pc = "packets"
    /\ Len(packets) < MAX_PACKETS \/ outcome.kind = "eof"
    /\ packets' = Append(packets, outcome)
    /\ spec' = IF outcome.kind = "audio" THEN outcome.spec ELSE spec
    /\ CASE outcome.kind \in {"eof", "decode_eof"} -> FinishMp3
         [] outcome.kind \in {"reset", "failed"} -> Return("decode")
         [] outcome.kind = "broken" ->
                Return(IF samples = <<>> THEN "unsupported" ELSE "decode")
         [] outcome.kind = "audio" /\ TooMany(outcome.count) -> Return("invalid")
         [] OTHER -> UNCHANGED <<pc, result>>
    /\ samples' = IF outcome.kind = "audio" /\ TooMany(outcome.count) THEN samples
                  ELSE samples \o DecodedFrom(outcome)
    /\ UNCHANGED <<file, data, scan>>

NextPacket == \E outcome \in Outcomes : Packet(outcome)

-----------------------------------------------------------------------------

\* decode_wave_bytes

Riff ==
    /\ pc = "riff"
    /\ IF Remaining < RiffHeader \/ file.container = "riff" THEN Return("decode")
       ELSE pc' = "chunks" /\ UNCHANGED result
    /\ UNCHANGED <<file, data, scan, spec, samples, packets>>

\* The chunk headers that may be read at position offset
HeadersHere ==
    LET written == {k \in DOMAIN file.chunks : ChunkPosition(k) = offset}
    IN  IF written = {} THEN Chunks ELSE {file.chunks[k] : k \in written}

\* Fault: the end is compared with the length of the file, tags included.
Truncated_WithTags(chunk_end) == chunk_end > FileLength

Truncated(chunk_end) == chunk_end > Remaining

\* Fault: odd chunks are not padded.
NextChunk_Unpadded(chunk_start, chunk) == chunk_start + chunk.size

NextChunk(chunk_start, chunk) == chunk_start + chunk.size + (chunk.size % 2)

\* Fault: the first fmt chunk counts, not the last one.
FmtAfter_First(chunk) == IF fmt = <<>> THEN <<chunk>> ELSE fmt

FmtAfter(chunk) == <<chunk>>

\* A turn of the loop over chunks.  checked_add cannot overflow: usize has 64
\* bits, a chunk size 32.
ReadChunk ==
    /\ pc = "chunks"
    /\ offset + ChunkHeader <= Remaining
    /\ \E chunk \in HeadersHere :
          LET chunk_start == offset + ChunkHeader
              chunk_end == chunk_start + chunk.size
          IN  IF Truncated(chunk_end) \/ (chunk.id = "fmt" /\ chunk.size < 16)
              THEN Return("decode") /\ UNCHANGED scan
              ELSE /\ fmt' = IF chunk.id = "fmt" THEN FmtAfter(chunk) ELSE fmt
                   /\ data_range' = IF chunk.id = "data"
                                    THEN <<[start |-> chunk_start, end |-> chunk_end]>>
                                    ELSE data_range
                   /\ offset' = NextChunk(chunk_start, chunk)
                   /\ UNCHANGED <<pc, result>>
    /\ UNCHANGED <<file, data, spec, samples, packets>>

\* After the loop; offset becomes the index of the next sample.
CheckFormat ==
    /\ pc = "chunks"
    /\ offset + ChunkHeader > Remaining
    /\ IF fmt = <<>> \/ data_range = <<>>
       THEN Return("decode") /\ UNCHANGED <<offset, spec>>
       ELSE IF fmt[1].channels = 0 \/ fmt[1].bits < 8 \/ fmt[1].bits % 8 # 0
       THEN Return("unsupported") /\ UNCHANGED <<offset, spec>>
       ELSE /\ offset' = data_range[1].start
            /\ spec' = [rate |-> fmt[1].rate, channels |-> fmt[1].channels]
            /\ pc' = "samples"
            /\ UNCHANGED result
    /\ UNCHANGED <<file, data, fmt, data_range, samples, packets>>

Supported == {<<1, 8>>, <<1, 16>>, <<1, 24>>, <<1, 32>>, <<3, 32>>}

ReadSample ==
    /\ pc = "samples"
    /\ LET sample_bytes == fmt[1].bits \div 8
       IN  IF offset + sample_bytes > data_range[1].end
           THEN Return("ok") /\ UNCHANGED <<offset, samples>>
           ELSE IF <<fmt[1].format, fmt[1].bits>> \notin Supported
           THEN Return("unsupported") /\ UNCHANGED <<offset, samples>>
           ELSE /\ samples' = Append(samples, offset)
                /\ offset' = offset + sample_bytes
                /\ UNCHANGED <<pc, result>>
    /\ UNCHANGED <<file, data, fmt, data_range, spec, packets>>

-----------------------------------------------------------------------------

Next ==
    \/ Dispatch \/ SkipTag \/ AfterTags
    \/ Riff \/ ReadChunk \/ CheckFormat \/ ReadSample
    \/ Probe \/ NextPacket

\* The call runs on its caller's thread and waits for nobody.
Spec == Init /\ [][Next]_vars /\ WF_vars(Next)

-----------------------------------------------------------------------------

\* The type invariant.  A call reads nothing past the end of the file, and never
\* holds more samples of an MPEG stream than the limit.
TypeOK ==
    /\ data \in 0 .. FileLength
    /\ offset \in Nat
    /\ Len(fmt) <= 1 /\ Len(data_range) <= 1
    /\ \A k \in DOMAIN data_range :
          data_range[k].start <= data_range[k].end /\ data_range[k].end <= Remaining
    /\ pc \in {"sniff", "tags", "riff", "chunks", "samples", "probe", "packets", "done"}
    /\ result \in {"none", "ok", "decode", "unsupported", "invalid"}
    /\ (pc = "done") <=> (result # "none")
    /\ packets # <<>> => Len(samples) <= MAX_MP3_DECODED_SAMPLES

\* Only what the file's writer wrote as a header is read as one: tags of any
\* version end where the audio begins, and the chunks of any size follow one
\* another.
HeadersWhereWritten ==
    /\ pc \in {"riff", "chunks", "probe", "packets"} /\ FileLength >= Payload =>
          data = Payload
    /\ pc = "chunks" /\ offset + ChunkHeader <= Remaining =>
          \E k \in DOMAIN file.chunks : offset = ChunkPosition(k)

\* The header and the contents of a chunk are in the file.
WholeChunk(k) == ChunkPosition(k) + ChunkHeader + file.chunks[k].size <= Remaining

\* The samples of a data chunk, all of them, read at the width of a format
SamplesOf(k, chunk) ==
    LET bytes == chunk.bits \div 8
    IN  [j \in 1 .. file.chunks[k].size \div bytes |->
            ChunkPosition(k) + ChunkHeader + (j - 1) * bytes]

LastOf(id, last) ==
    {k \in 1 .. last : /\ file.chunks[k].id = id
                       /\ \A later \in k + 1 .. last : file.chunks[later].id # id}

\* "scans chunks, requires fmt and data, handles odd chunk padding", with or
\* without tags in front: a call that succeeds on a WAVE file returns a whole
\* data chunk under a fmt chunk, the last of each among all the chunks that are
\* whole, in whichever order they come, and the format is a supported one wherever
\* the data chunk has room for a sample; on an undamaged file of a supported format
\* it succeeds.
WaveDecodesAsWritten ==
    pc = "done" /\ file.container = "wave" =>
        /\ result = "ok" /\ packets = <<>> =>
              \E last \in DOMAIN file.chunks :
              \E f \in LastOf("fmt", last), d \in LastOf("data", last) :
                 /\ samples = SamplesOf(d, file.chunks[f])
                 /\ spec = [rate |-> file.chunks[f].rate, channels |-> file.chunks[f].channels]
                 /\ file.chunks[d].size >= file.chunks[f].bits \div 8 =>
                       <<file.chunks[f].format, file.chunks[f].bits>> \in Supported
                 /\ \A k \in DOMAIN file.chunks : WholeChunk(k) => k <= last
        /\ /\ file.cut = 0
           /\ \A k \in DOMAIN file.chunks :
                 file.chunks[k].id = "fmt" =>
                    /\ file.chunks[k].size >= 16 /\ file.chunks[k].channels > 0
                    /\ <<file.chunks[k].format, file.chunks[k].bits>> \in Supported
           /\ {"fmt", "data"} \subseteq {file.chunks[k].id : k \in DOMAIN file.chunks}
           => result = "ok"

\* docs/implementation.md:149 "Unsupported bit depths or formats return
\* `UnsupportedFormat`", whatever the data chunk holds.
UnsupportedIsRefused ==
    pc = "done" /\ file.container = "wave" /\ result = "ok" /\ packets = <<>> =>
        <<fmt[1].format, fmt[1].bits>> \in Supported

\* "Truncated or malformed chunks return DecodeError": a WAVE file that ends
\* inside the contents of a chunk is never decoded short.
TruncationIsReported ==
    /\ pc = "done" /\ file.container = "wave" /\ Remaining >= RiffHeader /\ data = Payload
    /\ \E k \in DOMAIN file.chunks :
          ChunkPosition(k) + ChunkHeader <= Remaining /\ ~WholeChunk(k)
    => result = "decode"

Audio == {k \in DOMAIN packets : packets[k].kind = "audio"}

\* Packets that cannot be decoded or are not of the track are skipped, and
\* nothing else is: an MPEG stream that decodes has every sample of every audio
\* packet before its end, in order, and the spec of the last one, which is
\* playable; it is refused as too long only when it is longer than the limit.
Mp3DecodesPackets ==
    LET total == LengthOf([k \in DOMAIN packets |->
                              IF packets[k].kind = "audio" THEN packets[k].count ELSE 0])
    IN  pc = "done" /\ packets # <<>> =>
            /\ result = "ok" =>
                  /\ Len(samples) = total /\ total > 0
                  /\ \A k \in Audio : \A j \in 1 .. packets[k].count :
                        \E i \in DOMAIN samples :
                           /\ samples[i] = [packet |-> k, index |-> j]
                           /\ \A h \in 1 .. i - 1 :
                                 \/ samples[h].packet < k
                                 \/ samples[h].packet = k /\ samples[h].index < j
                  /\ spec.rate > 0 /\ spec.channels > 0
                  /\ \E k \in Audio :
                        spec = packets[k].spec /\ \A later \in Audio : later <= k
                  /\ packets[Len(packets)].kind \in {"eof", "decode_eof"}
            /\ (result = "invalid") <=> (total > MAX_MP3_DECODED_SAMPLES)

\* Every call returns: each tag and each chunk takes bytes off the file, however
\* small it says it is.
Returns == <>(pc = "done")
=============================================================================
