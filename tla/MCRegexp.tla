------------------------------ MODULE MCRegexp ------------------------------
(***************************************************************************)
(* Patterns for Regexp: all short sequences of the operators, groups with  *)
(* all short bodies, and classes, escapes and nested groups.               *)
(***************************************************************************)
EXTENDS Regexp

MCAlphabet == <<"$", "&", "(", ")", "*", "+", "-", ".", "0", "1", "2", "3", "4", "5", "6",
                "7", "8", "9", "?", "[", "\\", "]", "^", "a", "b", "c", "|">>

Short == BoundedSeq({"a", "b", "(", ")", "|", "*", "+", "?", ".", "^", "$"}, 3)

Bodies == BoundedSeq({"a", "b", "|", "*"}, 3)
Grouped == {<<"(">> \o x \o <<")">> \o y :
               x \in Bodies, y \in {<<>>, <<"*">>, <<"+", "b">>, <<"?", "a">>}}

Classes == {<<"[">> \o x \o <<"]">> \o y :
               x \in BoundedSeq({"a", "b", "-", "^", "]"}, 3), y \in {<<>>, <<"+", "b">>}}

Groups9 == FlattenSeq([k \in 1..9 |-> <<"(", "a", "?", ")">>])
Chosen ==
    { Groups9, Groups9 \o <<"(", ")">>, <<"\\">>, <<"\\", "a", "*", "b">>, <<"\\", "(", "a">>,
      <<"[", "a">>, <<"b", "*", "a", "b">>, <<"a", "*", "a", "b", "+", "b">>,
      <<"(", "(", "a", ")", "|", "b", ")", "*">>, <<"(", "(", "a", "b", ")", "+", "|", "b", ")", "+", "a">>,
      <<"(", "a", "|", "(", "b", ")", "a", ")", "+", "$">>, <<"^", "(", "a", "*", ")", "(", "b", ")", "?">>,
      <<".", "*", "(", "a", "|", "b", ")", "a">>, <<"(", "a", "?", ")", "(", "b", "*", ")", "$">> }

MCPatterns == Short \cup Grouped \cup Classes \cup Chosen
MCNextPatterns == {<<"(">>, <<"b", "+", "a">>}
MCTexts == BoundedSeq({"a", "b"}, 2) \cup {<<"a", "b", "a">>, <<"b", "a", "b">>, <<"a", "a", "b">>}
MCNextTexts == {<<"b", "b", "a">>}
MCReplacements == {<<"\\", "1", "&">>, <<"\\", "2", "\\", "&", "\\", "\\">>,
                   <<"\\", "\\", "1", "\\", "\\", "\\", "1", "a", "\\">>}
=============================================================================
