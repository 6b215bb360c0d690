--------------------------- MODULE RegexpMeaning ---------------------------
(***************************************************************************)
(* What a regular expression means, as a reference for module Regexp: the  *)
(* relation of the positions i, j of a text t such that the expression     *)
(* matches the characters from i up to j.  It is read off the pattern,     *)
(* without a program, without backtracking and without optimizations.      *)
(***************************************************************************)
EXTENDS Integers, SequencesExt, FiniteSetsExt

CONSTANTS
    Alphabet,       \* the characters in the order of their codes
    NSUBEXP         \* the groups are numbered from 1 to NSUBEXP - 1

NUL == "NUL"        \* the end of a C string
REPN == {"*", "+", "?"}

Code(ch) == SelectInSeq(Alphabet, LAMBDA c : c = ch)
Char(s, k) == IF k \in 1..Len(s) THEN s[k] ELSE NUL
-----------------------------------------------------------------------------
\* The position behind the class that starts at k: its first member may be ']'.
ClassEnd(re, k) ==
    LET first == IF Char(re, k + 1) = "^" THEN k + 2 ELSE k + 1
        ends == {j \in (first + 1)..Len(re) : re[j] = "]"}
    IN IF ends = {} THEN Len(re) + 2 ELSE Min(ends) + 1

\* The position behind the atom at k, beyond Len(re) + 1 if it has no end, and
\* the position of the ')' that ends the choice starting at k.
RECURSIVE AtomEnd(_, _)
RECURSIVE ChoiceEnd(_, _)
AtomEnd(re, k) == CASE re[k] = "(" -> ChoiceEnd(re, k + 1) + 1
                    [] re[k] = "[" -> ClassEnd(re, k)
                    [] re[k] = "\\" -> k + 2
                    [] OTHER -> k + 1
ChoiceEnd(re, k) == IF k > Len(re) \/ Char(re, k) = ")" THEN k ELSE ChoiceEnd(re, AtomEnd(re, k))

\* The positions of the '|' of the choice between lo and hi, and of the
\* parentheses that open a group there.
RECURSIVE Bars(_, _, _)
Bars(re, lo, hi) == IF lo >= hi THEN {}
                    ELSE IF re[lo] = "|" THEN {lo} \cup Bars(re, lo + 1, hi)
                    ELSE Bars(re, AtomEnd(re, lo), hi)

RECURSIVE Groups(_, _, _)
Groups(re, lo, hi) ==
    IF lo >= hi THEN {}
    ELSE IF re[lo] = "(" THEN {lo} \cup Groups(re, lo + 1, hi)
    ELSE Groups(re, AtomEnd(re, lo), hi)

\* The members of the class between lo and hi: those listed, and the ranges.
Members(re, lo, hi) ==
    LET ranges == {k \in (lo + 1)..(hi - 2) : re[k] = "-"}
    IN {re[k] : k \in (lo..(hi - 1)) \ ranges}
          \cup UNION {{Alphabet[c] : c \in Code(re[k - 1])..Code(re[k + 1])} : k \in ranges}

Identity(t) == {<<i, i>> : i \in 0..Len(t)}
One(t, chars) == {<<i - 1, i>> : i \in {k \in 1..Len(t) : t[k] \in chars}}
Then(A, B) == {<<p[1], q[2]>> : <<p, q>> \in {r \in A \X B : r[1][2] = r[2][1]}}

\* One or more times: a match of t takes no more than Len(t) + 1 of them.
Times(A, t) == FoldLeft(LAMBDA R, k : R \cup Then(R, A), A, [k \in 1..Len(t) |-> k])

RECURSIVE Meaning(_, _, _, _)

AtomMeaning(re, lo, hi, t) ==
    CASE re[lo] = "(" -> Meaning(re, lo + 1, hi - 1, t)
      [] re[lo] = "^" -> {<<0, 0>>}
      [] re[lo] = "$" -> {<<Len(t), Len(t)>>}
      [] re[lo] = "." -> One(t, ToSet(Alphabet))
      [] re[lo] = "[" -> IF re[lo + 1] = "^"
                         THEN One(t, ToSet(Alphabet) \ Members(re, lo + 2, hi - 1))
                         ELSE One(t, Members(re, lo + 1, hi - 1))
      [] re[lo] = "\\" -> One(t, {re[lo + 1]})
      [] OTHER -> One(t, {re[lo]})

\* The part of the pattern from lo up to hi.
Meaning(re, lo, hi, t) ==
    LET bars == Bars(re, lo, hi)
        end == AtomEnd(re, lo)
        op == IF end < hi THEN re[end] ELSE NUL
        atom == AtomMeaning(re, lo, end, t)
        piece == CASE op = "*" -> Times(atom, t) \cup Identity(t)
                   [] op = "+" -> Times(atom, t)
                   [] op = "?" -> atom \cup Identity(t)
                   [] OTHER -> atom
    IN IF bars # {} THEN Meaning(re, lo, Min(bars), t) \cup Meaning(re, Min(bars) + 1, hi, t)
       ELSE IF lo = hi THEN Identity(t)
       ELSE Then(piece, Meaning(re, IF op \in REPN THEN end + 1 ELSE end, hi, t))

MeaningOf(re, t) == Meaning(re, 1, Len(re) + 1, t)

\* The part of the pattern inside group g, as <<lo, hi>>, if there is one.
GroupBody(re, g) ==
    LET opens == Groups(re, 1, Len(re) + 1)
    IN {<<k + 1, ChoiceEnd(re, k + 1)>> :
           k \in {o \in opens : Cardinality({p \in opens : p <= o}) = g}}
-----------------------------------------------------------------------------
\* A class is legal if it ends and its ranges do not run backwards.
ClassLegal(re, lo, hi) ==
    LET first == IF re[lo + 1] = "^" THEN lo + 2 ELSE lo + 1
    IN \A k \in (first + 1)..(hi - 3) : re[k] = "-" => Code(re[k - 1]) <= Code(re[k + 1])

\* The part from lo up to hi is a legal expression: atoms with at most one
\* repetition each, and what is repeated cannot match the empty string.
RECURSIVE Legal(_, _, _)
Legal(re, lo, hi) ==
    LET bars == Bars(re, lo, hi)
        end == AtomEnd(re, lo)
        op == IF end < hi THEN re[end] ELSE NUL
        rest == IF op \in REPN THEN end + 1 ELSE end
    IN IF bars # {} THEN Legal(re, lo, Min(bars)) /\ Legal(re, Min(bars) + 1, hi)
       ELSE \/ lo = hi
            \/ /\ re[lo] \notin REPN \cup {")"}
               /\ end <= hi
               /\ re[lo] = "(" => Legal(re, lo + 1, end - 1)
               /\ re[lo] = "[" => ClassLegal(re, lo, end)
               /\ op \in {"*", "+"} => <<0, 0>> \notin AtomMeaning(re, lo, end, <<>>)
               /\ Legal(re, rest, hi)

LegalPattern(re) ==
    /\ Legal(re, 1, Len(re) + 1)
    /\ Cardinality(Groups(re, 1, Len(re) + 1)) < NSUBEXP
=============================================================================
