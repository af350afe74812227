-------------------------- MODULE SequenceHelpers --------------------------
(***************************************************************************)
(* The operators on sequences that the trees need, with the meaning they   *)
(* have in the community module SequencesExt.  That module extends Bags,   *)
(* with which every proof obligation of a module that reaches it takes     *)
(* the proof manager four times as long.                                   *)
(***************************************************************************)
EXTENDS Integers, Sequences

ToSet(s) == {s[i] : i \in DOMAIN s}

Front(s) == SubSeq(s, 1, Len(s) - 1)
Last(s)  == s[Len(s)]

InsertAt(s, i, e)  == SubSeq(s, 1, i - 1) \o <<e>> \o SubSeq(s, i, Len(s))
ReplaceAt(s, i, e) == [s EXCEPT ![i] = e]
RemoveAt(s, i)     == SubSeq(s, 1, i - 1) \o SubSeq(s, i + 1, Len(s))

=============================================================================
