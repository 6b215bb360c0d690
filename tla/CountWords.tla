----------------------------- MODULE CountWords -----------------------------
(***************************************************************************)
(* bkCountWords: the occurrences of a word in a text as a word of its own, *)
(* found by Knuth-Morris-Pratt.  Indices count from 0 as in the code, and  *)
(* the character behind the end of the word is its terminator.             *)
(***************************************************************************)
EXTENDS Integers, SequencesExt, FiniteSetsExt

CONSTANT Delims     \* the characters that isDelim accepts; none above 0x7f

Terminator == "NUL"
CharAt(s, i) == IF i < Len(s) THEN s[i + 1] ELSE Terminator

\* The inner loop of both phases: while (i > -1 && word[i] != ch) i = next[i].
RECURSIVE FallBack(_, _, _, _)
FallBack(word, next, i, ch) ==
    IF i > -1 /\ CharAt(word, i) # ch THEN FallBack(word, next, next[i], ch) ELSE i

\* Mutant of NextOf: the character behind the prefix is not compared.
NextOfStrong(word, next, i, j) == IF CharAt(word, i) = CharAt(word, j) THEN j ELSE next[j]

\* What kmpNext[i] becomes.
NextOf(word, next, i, j) == IF CharAt(word, i) = CharAt(word, j) THEN next[j] ELSE j

\* The preprocessing, after which i and the table are those of the whole word.
KmpNext(word) ==
    FoldLeft(LAMBDA s, i :
                LET j == FallBack(word, s.next, s.j, CharAt(word, i - 1)) + 1
                IN [j |-> j, next |-> (i :> NextOf(word, s.next, i, j)) @@ s.next],
             [j |-> -1, next |-> 0 :> -1], [i \in 1..Len(word) |-> i]).next

\* The match that ends before text[j] stands between delimiters.
Separate(text, wlen, j) ==
    /\ j = wlen \/ CharAt(text, j - wlen - 1) \in Delims
    /\ j = Len(text) \/ CharAt(text, j) \in Delims

\* One turn of the search loop, which has looked at text[j - 1]; it is left
\* at the first match unless all are wanted.
SearchStep(s, word, text, next, all, j) ==
    LET i == FallBack(word, next, s.i, CharAt(text, j - 1)) + 1
    IN IF ~all /\ s.count = 1 THEN s
       ELSE IF i < Len(word) THEN [s EXCEPT !.i = i]
       ELSE [i |-> next[i], count |-> s.count + IF Separate(text, Len(word), j) THEN 1 ELSE 0]

bkCountWords(word, text, all) ==
    IF word = <<>> \/ text = <<>> \/ Len(word) > Len(text) THEN 0
    ELSE LET next == KmpNext(word)
         IN FoldLeft(LAMBDA s, j : SearchStep(s, word, text, next, all, j),
                     [i |-> 0, count |-> 0], [j \in 1..Len(text) |-> j]).count
-----------------------------------------------------------------------------
\* The places where the word stands in the text with a delimiter or an end of
\* the text on either side; they may overlap.
Occurrences(word, text) ==
    {k \in 1..(Len(text) + 1 - Len(word)) :
        /\ SubSeq(text, k, k + Len(word) - 1) = word
        /\ k = 1 \/ text[k - 1] \in Delims
        /\ k + Len(word) > Len(text) \/ text[k + Len(word)] \in Delims}

CountRight(word, text, all, count) ==
    LET n == IF word = <<>> THEN 0 ELSE Cardinality(Occurrences(word, text))
    IN count = IF all THEN n ELSE Min({1, n})
=============================================================================
