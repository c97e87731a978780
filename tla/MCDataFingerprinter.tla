---------------------------- MODULE MCDataFingerprinter ----------------------------
(***************************************************************************)
(* Files with up to two tags, of either version, with and without the flag  *)
(* that means a footer in one of them, then a WAVE file of up to three      *)
(* chunks that differ in order, parity, format and validity, an MPEG stream *)
(* or something else; whole, or cut in the padding, in the last chunk, in   *)
(* its header, further in, or inside the tags.  A few files have enough     *)
(* audio for several windows, at the target rate, at twice it, and at rates *)
(* that are refused.                                                        *)
(***************************************************************************)
EXTENDS DataFingerprinter

Fmt(size, format, bits, channels) ==
    [id |-> "fmt", size |-> size, format |-> format, bits |-> bits,
     rate |-> 1, channels |-> channels]
Other(id, size) == [Fmt(size, 0, 0, 0) EXCEPT !.id = id]

MCChunks ==
    {Fmt(16, 1, 16, 1), Fmt(17, 1, 8, 2), Fmt(14, 1, 8, 1), Fmt(16, 7, 8, 1), Fmt(16, 1, 12, 1),
     Fmt(16, 1, 8, 0), Other("data", 4), Other("data", 3), Other("data", 0), Other("list", 1)}

FmtAt(rate, bits, channels) == [Fmt(16, 1, bits, channels) EXCEPT !.rate = rate]

Tag(major, footer_flag, body) ==
    [major |-> major, footer_flag |-> footer_flag, body |-> body]
ThirdChunks ==
    {Fmt(16, 1, 16, 1), Fmt(17, 1, 8, 2), Other("data", 4), Other("data", 3), Other("data", 0),
     Other("list", 1)}

MCTags ==
    {<<>>, <<Tag(3, TRUE, 0)>>, <<Tag(4, TRUE, 1), Tag(3, FALSE, 0)>>, <<Tag(4, FALSE, 2)>>}

MCCuts == {0, 1, 2, 9, 13, 40}

MCFiles ==
    LET File(tags, container, chunks, size, cut) ==
            [tags |-> tags, container |-> container, chunks |-> chunks,
             size |-> size, cut |-> cut]
        Layouts == UNION {[1 .. n -> MCChunks] : n \in 0 .. 2} \cup [1 .. 3 -> ThirdChunks]
    IN  {File(<<>>, "wave", chunks, 0, cut) : chunks \in Layouts, cut \in MCCuts}
        \cup {File(tags, "wave", chunks, 0, cut) :
                 tags \in MCTags, cut \in MCCuts,
                 chunks \in {<<Fmt(16, 1, 16, 1), Other("data", 4)>>,
                            <<Other("data", 3), Other("list", 1), Fmt(17, 1, 8, 2)>>}}
        \cup {File(<<>>, "wave", <<FmtAt(rate, bits, channels), Other("data", 11)>>, 0, 0) :
                 rate \in 0 .. 3, bits \in {8, 16}, channels \in {1, 2}}
        \cup {File(tags, container, <<>>, size, cut) :
                 tags \in MCTags, container \in {"mpeg", "riff"},
                 size \in {0, 30, 31}, cut \in {0, 1, 40}}

MCSpecs == {[rate |-> 1, channels |-> 2], [rate |-> 2, channels |-> 1],
            [rate |-> 1, channels |-> 0]}
=============================================================================
