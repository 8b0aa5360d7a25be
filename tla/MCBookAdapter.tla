--------------------------- MODULE MCBookAdapter ----------------------------
(***************************************************************************)
(* The converters over every page of up to MaxLines lines, of the kinds of *)
(* line each converter tells apart, and of up to MaxFeatLines lines of     *)
(* feats without a separator.                                              *)
(***************************************************************************)
EXTENDS BookRendering

CONSTANTS MaxLines, MaxFeatLines, v, w

L(kind, words) ==
    [kind |-> kind, words |-> words, word |-> w, cost |-> "action", stop |-> FALSE]
Stopped(kind, words) == [L(kind, words) EXCEPT !.stop = TRUE]

Blank == L("blank", 0)

Lines ==
    [ actions |-> { Blank, L("cost", 2), L("shouty", 1), L("number", 1), L("requirements", 1),
                    Stopped("requirements", 3), L("trigger", 3), Stopped("prose", 3) },
      feats |-> { Blank, L("shouty", 1), [L("shouty", 1) EXCEPT !.word = v],
                  L("marker", 2), L("prose", 3) },
      conditions |-> { Blank, L("anchor", 3), L("title", 1), L("number", 1),
                       L("trigger", 1), L("prose", 3) } ]

PagesOf(lines, max) == UNION { [1 .. n -> lines] : n \in 0 .. max }

MCPage ==
    [ l \in Layout |->
        PagesOf(Lines[l] \cup {L("dashes", 1)}, MaxLines)
            \cup (IF l = "feats" THEN PagesOf(Lines[l], MaxFeatLines) ELSE {}) ]
=============================================================================
