---------------------------- MODULE MCWordCache ----------------------------
EXTENDS WordCache
A(items, text, hash, delims, nodelims, mode) ==
    [items |-> items, text |-> text, hash |-> hash, delims |-> delims,
     nodelims |-> nodelims, mode |-> mode]
I1 == << <<"value", 9>>, <<"word", "a">>, <<"value", 2>> >>
I2 == << <<"word", "b">>, <<"word", "c">> >>
Marks == {{"-"}, {"-", "x"}}
MCCalls ==
    {A(i, t, h, None, None, None) : i \in {<< >>, I1, I2}, t \in BOOLEAN, h \in {None, "h1", "h2"}}
    \cup {A(I1, TRUE, h, None, None, m) : h \in {None, "h1"}, m \in {"", "MAX", "MIN", "?"}}
    \cup {A(I2, TRUE, "h1", d, None, "MAX") : d \in Marks}
    \cup {A(I2, FALSE, "h1", d, n, None) : d \in {None, {"x"}}, n \in Marks}
    \cup {A(I1, TRUE, None, {"x"}, {"-"}, "MIN"), A(I1, TRUE, "h1", {"high"}, None, None)}
MCToken == {"x", "y"}
MCHigh == {"high"}
MCModes == {"SUM", "MIN", "MAX"}
=============================================================================
