---------------------------- MODULE MCUtilities ----------------------------
(***************************************************************************)
(* Inputs for Utilities: points on and beside the edges of boxes, all      *)
(* hashes of up to two characters and some longer ones, and all short      *)
(* strings over a few characters.                                          *)
(***************************************************************************)
EXTENDS Utilities

MCHalf == 2^29
Edges == {k * (MCHalf \div 4) : k \in -4..4} \cup {k * (MCHalf \div 16) : k \in {-15, -1, 7}}
MCCoordinates == {x \in Edges \cup {e + 1 : e \in Edges} \cup {e - 1 : e \in Edges} :
                     x >= -MCHalf /\ x <= MCHalf}
MCLengths == {0, 1, 2, 3, 12, 13}

MCHashes == BoundedSeq(ToSet(BASE32), 2) \cup
               {<<a, b, c>> : a \in {"0", "z", "s"}, b \in {"b", "p", "9"}, c \in ToSet(BASE32)}

\* "u" stands for the characters above 0x7f, which are no delimiters.
MCDelims == {" "}
MCTexts == BoundedSeq({"a", "b", " "}, 4) \cup
              {<<"a", " ", "a", " ", "a", " ", "a">>, <<"u", "a", " ", "a", "u", " ", "a">>,
               <<"a", "a", "b", "a", "a", "a", "b", "a", "a", " ", "a", "a", "b", "a", "a">>}
MCWords == BoundedSeq({"a", "b", " "}, 3) \cup {<<"a", "a", "b", "a", "a">>, <<"a", "b", "a", "b">>}

MCSplitTexts == BoundedSeq({"a", "b", ","}, 5)
MCSplitFields == {FlattenSeq(s) : s \in BoundedSeq({<<"a">>, <<",">>, <<"\\", "q">>}, 3)}
=============================================================================
