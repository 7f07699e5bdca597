------------------------------- MODULE MCIndex -------------------------------
(* Instances of InvertedIndex for TLC.                                     *)
EXTENDS InvertedIndex, TLC

\* Texts and queries, one of which repeats a token.
SomeTexts == {<<>>, <<"a">>, <<"b", "a", "b">>, <<"c", "a">>}
=============================================================================
