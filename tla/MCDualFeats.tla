---------------------------- MODULE MCDualFeats -----------------------------
(***************************************************************************)
(* Pages of one or two feats in the two shapes that the comments of        *)
(* convert_feat_page show, the name with or without an action's cost, and  *)
(* a line of text behind each.                                             *)
(***************************************************************************)
EXTENDS BookAdapter, Sequences

CONSTANTS u, v, w

L(kind, word) ==
    [kind |-> kind, words |-> 2, word |-> word, cost |-> "action", stop |-> FALSE]

FeatLevel == L("marker", u)
Trait(word) == L("shouty", word)

\* One trait behind the level, or two with the level between and behind them.
Behind == { <<FeatLevel, Trait(v)>>,
            <<Trait(v), FeatLevel, Trait(w), FeatLevel, Trait(v)>> }

Feat == { <<L(kind, u)>> \o tags \o <<L("prose", u)>> :
              kind \in {"cost", "shouty"}, tags \in Behind }

MCPage == [ l \in Layout |->
              IF l = "feats" THEN Feat \cup { f \o g : f, g \in Feat } ELSE {} ]
=============================================================================
