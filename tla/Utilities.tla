----------------------------- MODULE Utilities -----------------------------
(***************************************************************************)
(* The functions without state: geohashes, the count of a word, and the    *)
(* splitting of strings.  A state is a call with its result.               *)
(***************************************************************************)
EXTENDS Geohash, CountWords, StrSplit

CONSTANTS
    Coordinates, Lengths,   \* of points, and of hashes to encode them to
    Hashes, MaxSteps,       \* hashes to start from, and steps away from them
    CountTexts, CountWordSet,
    SplitTexts,             \* strings without quotes that are split at ","
    SplitFields             \* what is put in quotes, two fields at a time

VARIABLE call

Init == call = [fn |-> "none"]

EncodePoint ==
    \E lat, lon \in Coordinates, len \in Lengths :
        call' = [fn |-> "encode", lat |-> lat, lon |-> lon, len |-> len,
                 result |-> bkGeoHashEncode(lat, lon, len)]

AdjacentBox ==
    \E hash \in Hashes, dir \in {"left", "right", "top", "bottom"} :
        call' = [fn |-> "adjacent", hash |-> hash, dir |-> dir,
                 result |-> bkGeoHashAdjacent(hash, dir)]

GridOfBoxes ==
    \E hash \in Hashes, steps \in 0..MaxSteps :
        call' = [fn |-> "grid", hash |-> hash, steps |-> steps,
                 result |-> geoHashGrid(hash, steps), row |-> geoHashRow(hash, steps)]

CountWord ==
    \E word \in CountWordSet, text \in CountTexts, all \in BOOLEAN :
        call' = [fn |-> "count", word |-> word, text |-> text, all |-> all,
                 result |-> bkCountWords(word, text, all)]

SplitPlain ==
    \E str \in SplitTexts, keepempty \in BOOLEAN :
        call' = [fn |-> "split", str |-> str, keepempty |-> keepempty,
                 result |-> bkStrSplit(str, {","}, {}, keepempty)]

\* Any of the quotes closes a field that another one opened.
SplitQuoted ==
    \E f, g \in SplitFields, closing \in {"q", "r"}, keepempty \in BOOLEAN :
        call' = [fn |-> "unquote", fields |-> <<f, g>>, keepempty |-> keepempty,
                 result |-> bkStrSplit(Quoted(<<f, g>>, ",", "q", closing),
                                       {","}, {"q", "r"}, keepempty)]

\* A second field whose quote is not closed.
SplitUnclosed ==
    \E f, g \in SplitFields, keepempty \in BOOLEAN :
        call' = [fn |-> "unclosed", fields |-> <<f, g>>, keepempty |-> keepempty,
                 result |-> bkStrSplit(Quoted(<<f>>, ",", "q", "q") \o <<",", "q">> \o g,
                                       {","}, {"q", "r"}, keepempty)]

\* A program makes one call after the other; they do not affect each other.
Next ==
    \/ /\ call.fn = "none"
       /\ \/ EncodePoint \/ AdjacentBox \/ GridOfBoxes \/ CountWord
          \/ SplitPlain \/ SplitQuoted \/ SplitUnclosed
    \/ call.fn # "none" /\ call' = [fn |-> "none"]

Spec == Init /\ [][Next]_call
-----------------------------------------------------------------------------
\* geoHashEncode: the box of the hash holds the point, is as narrow as the
\* length asked for allows, and its centre has that hash again.
EncodeRight ==
    call.fn = "encode" => EncodesPoint(call.lat, call.lon, call.len, call.result)

\* geoHashAdjacent gives the box next to the given one, in the tables and
\* through any number of borders, round the world at its edges; rows and
\* grids hold the boxes around the centre in their order.
NeighboursRight ==
    /\ call.fn = "adjacent" => IsNeighbour(call.hash, call.dir, call.result)
    /\ call.fn = "grid" =>
          LET n == IF call.steps = 0 THEN 1 ELSE call.steps
          IN /\ IsGrid(call.hash, n, call.result)
             /\ call.row = [j \in 1..(2 * n + 1) |-> call.result[(j - 1) * (2 * n + 1) + 1]]

\* countWords counts what the definition counts: the failure table loses no
\* occurrence, overlapping ones included, and takes none twice.
CountsOccurrences ==
    call.fn = "count" => CountRight(call.word, call.text, call.all, call.result)

\* bkStrSplit cuts a plain string at each delimiter and gives quoted fields
\* back as they were, with delimiters and escaped quotes inside.  A quote that
\* nothing closes is dropped and the rest cut like a plain string, unless the
\* string ends with it or with an escaped quote: then the rest is one field.
SplitRight ==
    LET Kept(fields) == SelectSeq(fields, LAMBDA f : call.keepempty \/ f # <<>>)
        rest == call.fields[2]
        whole == rest = <<>> \/ IsSuffix(<<"\\", "q">>, rest)
    IN /\ call.fn = "split" => call.result = PlainFields(call.str, {","}, call.keepempty)
       /\ call.fn = "unquote" => call.result = Kept(call.fields)
       /\ call.fn = "unclosed" =>
             call.result = Kept(<<call.fields[1]>>) \o
                              (IF whole THEN Kept(<<rest>>)
                               ELSE PlainFields(rest, {","}, call.keepempty))
=============================================================================
