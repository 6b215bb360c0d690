---------------------------- MODULE MCUnzipAll ----------------------------
(***************************************************************************)
(* Archives for UnzipAll: three entries over a small pool of paths that    *)
(* nest and collide, with at most one broken record and one odd header.    *)
(***************************************************************************)
EXTENDS UnzipAll

PathName(p, slash) == [path |-> p, slash |-> slash]
F == PathName(<<"f">>, FALSE)
D == PathName(<<"d">>, TRUE)
DF == PathName(<<"d", "f">>, FALSE)
DEF1 == PathName(<<"d", "e", "f">>, FALSE)
AsFile == PathName(<<"d">>, FALSE)

MCNames == {F, DF}
MCCountMax == 4
MCBlank == [name |-> EmptyName, width |-> 0, offset |-> 0, magic |-> FALSE,
            method |-> 0, length |-> 0, key |-> 98, kind |-> "none", blank |-> TRUE]

Positions == [k \in 0..3 |-> CASE k = 0 -> 0 [] k = 1 -> 2 [] k = 2 -> 3 [] k = 3 -> 5]

\* What the pools hold: names with the kind their mode says, and whether they
\* are blank.
Pool == {<<F, "reg", FALSE>>, <<D, "none", TRUE>>, <<DF, "link", FALSE>>,
         <<DEF1, "reg", FALSE>>, <<AsFile, "reg", TRUE>>}
OddPool == {<<F, "reg", TRUE>>, <<F, "other", FALSE>>, <<AsFile, "dir", TRUE>>,
            <<EmptyName, "reg", FALSE>>, <<F, "link", TRUE>>}
SmallPool == {<<F, "reg", FALSE>>, <<D, "dir", TRUE>>, <<DF, "reg", FALSE>>,
              <<F, "link", FALSE>>}

\* The local header of entry k, and the odd ones: another crc, the same with
\* the flag that allows it, another method, a method nobody reads, a name of
\* another length.
Header(k) == [method |-> 8, length |-> 1, key |-> k, descriptor |-> FALSE, extra |-> k]
OddHeader(k, how) ==
    CASE how = "sums" -> [Header(k) EXCEPT !.key = 99]
      [] how = "descriptor" -> [Header(k) EXCEPT !.key = 99, !.descriptor = TRUE]
      [] how = "method" -> [Header(k) EXCEPT !.method = 0]
      [] how = "unknown" -> [Header(k) EXCEPT !.method = 12]
      [] how = "length" -> [Header(k) EXCEPT !.length = 2]

\* bad: the unreadable record, the entry with an odd header (3 for none), and
\* what is odd.  A method nobody reads is in the entry's record too.
ArchivesOf(pool, counts, bads, flaky) ==
    {[n |-> 3, count |-> c, at |-> Positions, flaky |-> flaky,
      entry |-> [k \in 0..2 |->
                    [name |-> es[k][1], kind |-> es[k][2], blank |-> es[k][3],
                     offset |-> 100 * k, width |-> Positions[k + 1] - Positions[k],
                     magic |-> k # bad[1], length |-> 1, key |-> k,
                     method |-> IF k = bad[2] /\ bad[3] = "unknown" THEN 12 ELSE 8]],
      local |-> [o \in {0, 100, 200} |->
                    IF o = 100 * bad[2] THEN OddHeader(bad[2], bad[3]) ELSE Header(o \div 100)]] :
        c \in counts, es \in [0..2 -> pool], bad \in bads}

Intact == <<3, 3, "">>
MCArchives == ArchivesOf(Pool, {3, 4}, {Intact, <<2, 3, "">>, <<3, 1, "sums">>}, FALSE)
                  \cup ArchivesOf(Pool, {3}, {<<3, 1, "descriptor">>}, FALSE)
                  \cup ArchivesOf(OddPool, {1, 3}, {<<0, 3, "">>, <<1, 3, "">>, <<2, 1, "method">>}, FALSE)
                  \cup ArchivesOf(SmallPool, {3}, {<<3, 2, "unknown">>, <<3, 1, "length">>}, FALSE)
                  \cup ArchivesOf(SmallPool, {3}, {Intact, <<2, 0, "descriptor">>}, TRUE)
IntactArchives == ArchivesOf(SmallPool, {3}, {Intact}, FALSE)

AllJobs == {"list", "all", "one", "text", "calls"}
UnzipJob == {"all"}

RelRoot == Place(FALSE, <<"r">>)
MCOutFile == Place(FALSE, <<"o">>)
RootOnly == {RelRoot}
RootAndD == {RelRoot, Place(FALSE, <<"r", "d">>)}
=============================================================================
