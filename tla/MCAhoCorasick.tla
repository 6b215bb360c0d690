--------------------------- MODULE MCAhoCorasick ---------------------------
EXTENDS AhoCorasick

\* Characters: 1 and 2 are lower case letters, 3 is 1 in upper case, 4 is a
\* delimiter, 5 does not fit a signed char.
MCChars == {1, 2, 4, 5}
MCFold == <<1, 2, 1, 4, 5>>
MCToken == {1, 2, 3}
MCHigh == {5}

W(w, v) == [word |-> w, value |-> v]
Plain(ws) == [k \in DOMAIN ws |-> W(ws[k], 0)]

SeqsUpTo(S, n) == UNION {[1..m -> S] : m \in 0..n}

\* Words that are prefixes, suffixes and infixes of each other, overlap
\* themselves, are repeated, differ in case only, hold a delimiter, are empty.
\* The last two lists have more words than Bits, so that long words share
\* their bit with shorter ones and with an empty one.
AutomatonLists == {Plain(ws) : ws \in {
    << >>, << << >> >>, << <<1>> >>,
    << <<1, 2>>, <<2, 1>> >>,
    << <<1, 1, 2>>, <<1, 2>>, <<2>> >>,
    << <<1, 2, 1>>, <<2, 1, 2>>, <<1, 2, 2>> >>,
    << <<1>>, <<1, 1>>, <<1, 1, 1>> >>,
    << <<3, 2>>, <<1, 2>>, <<1, 2>> >>,
    << <<2, 4, 1>>, << >>, <<1>> >>,
    << <<1, 4>>, <<4, 1>>, <<2, 1, 4, 1>> >>,
    << <<2, 1, 2, 2>>, <<1, 2, 1>>, <<2, 2, 1>> >>,
    << <<1>>, <<2>>, <<1, 2>>, <<2, 2, 4, 1>> >>,
    << <<1, 2>>, <<1>>, << >>, <<2, 1, 2>>, <<4>>, <<1, 1>> >> }}
AutomatonTexts == SeqsUpTo({1, 2, 4}, 5) \cup
    { <<3>>, <<3, 2>>, <<4, 3, 2, 4, 1>>, <<2, 3, 2>>, <<3, 3, 1>>, <<3, 1, 4, 3>> }

ValueWords == << <<1>>, <<2>>, <<1, 2>> >>
ValueLists == {[k \in 1..3 |-> W(ValueWords[k], vs[k])] : vs \in [1..3 -> {-3, -1, 0, 2}]}
ValueTexts == { <<1>>, <<1, 4, 1>>, <<2, 4, 1>>, <<2, 4, 1, 4, 2, 4, 1>>,
                <<1, 2, 4, 2>>, <<1, 2, 4, 2, 4, 1, 2, 4, 1, 2>> }
ValueModes == {"SUM", "SUMV", "MIN", "MINV", "MAX", "MAXV", "AVG", "AVGV",
               "MUL", "MULV", "ANY", "ANYV"}

\* Words beside characters that do not fit a signed char.
HighLists == {Plain(<< <<1>>, <<1, 2>> >>)}
HighTexts == SeqsUpTo({1, 2, 4, 5}, 3)

MCLists == AutomatonLists \cup ValueLists \cup HighLists
MCTexts == [l \in MCLists |-> IF l \in ValueLists THEN ValueTexts
                              ELSE IF l \in HighLists THEN HighTexts ELSE AutomatonTexts]
MCModes == [l \in MCLists |-> IF l \in ValueLists THEN ValueModes ELSE {"SUM"}]
=============================================================================
