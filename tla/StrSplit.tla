------------------------------ MODULE StrSplit ------------------------------
(***************************************************************************)
(* bkStrSplit: a string is cut at delimiters, except inside quotes.        *)
(* Positions count from 1; Npos is string::npos.                           *)
(***************************************************************************)
EXTENDS Integers, SequencesExt, FiniteSetsExt

Npos == 0

\* string::find_first_of and find_first_not_of, from position i on.
FirstOf(str, chars, i) ==
    LET at == {k \in i..Len(str) : str[k] \in chars} IN IF at = {} THEN Npos ELSE Min(at)
FirstNotOf(str, chars, i) ==
    LET at == {k \in i..Len(str) : str[k] \notin chars} IN IF at = {} THEN Npos ELSE Min(at)

\* Mutant of ClosingQuote: the backslash is not looked at.
ClosingQuoteAny(str, quotes, i) == IF i > Len(str) THEN i ELSE FirstOf(str, quotes, i)

\* The loop for the closing quote, from position i on: Npos if there is none,
\* and the end of the string if the last character is the opening quote or an
\* escaped one.
RECURSIVE ClosingQuote(_, _, _)
ClosingQuote(str, quotes, i) ==
    LET q == FirstOf(str, quotes, i)
    IN IF i > Len(str) THEN i
       ELSE IF q = Npos \/ str[q - 1] # "\\" THEN q
       ELSE ClosingQuote(str, quotes, q + 1)

\* push_back of the characters from i up to j, unless empty ones are dropped.
Push(str, i, j, keepempty) == IF keepempty \/ j > i THEN <<SubSeq(str, i, j - 1)>> ELSE <<>>

\* The loop of bkStrSplit, from position i on.
RECURSIVE SplitFrom(_, _, _, _, _)
SplitFrom(str, delim, quotes, keepempty, i) ==
    LET start == FirstNotOf(str, delim, i)
        skipped == IF keepempty
                   THEN [k \in 1..((IF start = Npos THEN Len(str) + 1 ELSE start) - i) |-> <<>>]
                   ELSE <<>>
        quoted == str[start] \in quotes
        from == IF quoted THEN start + 1 ELSE start
        q == IF quoted THEN ClosingQuote(str, quotes, from) ELSE Npos
        end == IF q # Npos THEN q ELSE Len(str) + 1
        next == FirstOf(str, delim, IF q # Npos THEN q ELSE from)
        word == Push(str, from, IF q = Npos /\ next # Npos THEN next ELSE end, keepempty)
    IN IF i > Len(str) THEN <<>>
       ELSE IF start = Npos THEN skipped
       ELSE skipped \o word
               \o (IF next = Npos THEN <<>>
                   ELSE SplitFrom(str, delim, quotes, keepempty, next + 1))

bkStrSplit(str, delim, quotes, keepempty) == SplitFrom(str, delim, quotes, keepempty, 1)
-----------------------------------------------------------------------------
\* The fields of a string without quotes are what stands between two cuts; an
\* empty field at the very end does not count.
PlainFields(str, delim, keepempty) ==
    LET cuts == {0, Len(str) + 1} \cup {k \in 1..Len(str) : str[k] \in delim}
        cut == SetToSortSeq(cuts, <)
        fields == [k \in 1..(Len(cut) - 1) |-> SubSeq(str, cut[k] + 1, cut[k + 1] - 1)]
    IN IF ~keepempty THEN SelectSeq(fields, LAMBDA f : f # <<>>)
       ELSE IF Last(fields) = <<>> THEN Front(fields) ELSE fields

\* Fields that begin with one quote and end with another, with delimiters
\* between them.
Quoted(fields, delim, opening, closing) ==
    FoldLeft(LAMBDA s, f : s \o (IF s = <<>> THEN <<>> ELSE <<delim>>)
                             \o <<opening>> \o f \o <<closing>>, <<>>, fields)
=============================================================================
