---------------------------- MODULE FingerprintBytes ----------------------------
(***************************************************************************)
(* The bytes a fingerprint is stored in (lib.rs): its duration and the      *)
(* number of its hashes, then the hashes, each as four little-endian bytes. *)
(*                                                                          *)
(* A sequence of 2^32 hashes or more, of which the code stores the first    *)
(* 2^32 - 1, is left out; usize has 64 bits, so that checked_mul and        *)
(* checked_add cannot fail on a count of 32.                                *)
(***************************************************************************)
EXTENDS Integers, Sequences

\* u32::to_le_bytes
LittleEndian(word) ==
    <<word % 256, (word \div 256) % 256, (word \div 65536) % 256, word \div 16777216>>

\* read_u32
ReadU32(data, offset) ==
    data[offset + 1] + 256 * data[offset + 2]
        + 65536 * data[offset + 3] + 16777216 * data[offset + 4]

Words(hashes, duration_ms) == <<duration_ms, Len(hashes)>> \o hashes

\* fingerprint_to_bytes
ToBytes(hashes, duration_ms) ==
    [i \in 1 .. 8 + 4 * Len(hashes) |->
        LittleEndian(Words(hashes, duration_ms)[((i - 1) \div 4) + 1])[((i - 1) % 4) + 1]]

\* Fault: the length is compared with the count of hashes, not of their bytes.
FromBytes_CountsWords(data) ==
    IF Len(data) < 8 \/ 8 + ReadU32(data, 4) > Len(data) THEN <<>>
    ELSE <<[hashes |-> [index \in 1 .. ReadU32(data, 4) |->
                           ReadU32(data \o <<0, 0, 0, 0, 0, 0, 0, 0>>, 8 + (index - 1) * 4)],
            duration_ms |-> ReadU32(data, 0)]>>

\* fingerprint_from_bytes: a sequence of one fingerprint, or of none.  Bytes after
\* the last hash are not looked at.
FromBytes(data) ==
    IF Len(data) < 8 \/ 8 + 4 * ReadU32(data, 4) > Len(data) THEN <<>>
    ELSE <<[hashes |-> [index \in 1 .. ReadU32(data, 4) |->
                           ReadU32(data, 8 + (index - 1) * 4)],
            duration_ms |-> ReadU32(data, 0)]>>
=============================================================================
