---------------------------- MODULE AhoCorasick ----------------------------
(***************************************************************************)
(* One object of class bkAhoCorasick: prepare builds the automaton of a    *)
(* word list at the first search and every search runs a text through it.  *)
(* Each step is one iteration of a loop of prepare or search.              *)
(*                                                                         *)
(* A character is a number, Fold its lower case; a word is [word, value].  *)
(* Word k of the list is the code's word k - 1, position i of the text its *)
(* position i - 1.                                                         *)
(***************************************************************************)
EXTENDS Integers, SequencesExt

CONSTANTS
    Lists,      \* the word lists an object may have
    Texts,      \* Texts[l]: the texts searched for the words of list l
    Modes,      \* Modes[l]: the modes in force when search is called
    Chars,      \* the characters after tolower
    Fold,       \* tolower, as a function on all characters
    High,       \* characters that do not fit a signed char
    Token,      \* characters c with alphabet[c] # 0
    Bits,       \* 32, the width of an element of matches
    IntMax      \* INT_MAX

ASSUME AhoAssumption ==
    /\ Bits \in Nat \ {0} /\ IntMax \in Nat
    /\ Token \cap High = {}
    /\ Chars \subseteq Nat /\ Fold \in [DOMAIN Fold -> Chars]
    /\ \A l \in Lists : /\ l \in Seq([word : Seq(DOMAIN Fold), value : Int])
                        /\ Texts[l] \subseteq Seq(DOMAIN Fold)

VARIABLES
    list,       \* the words
    msize,      \* size of the arrays, 0 before prepare
    gotos, failures, matches,
    last,       \* prepare: the local state, the next node to allocate
    at,         \* prepare: <<word, character, node>> being added
    queued,     \* prepare: the breadth first queue
    node, left, \* prepare: the node visited and its edges still to do
    failure,    \* prepare: the local failure
    path,       \* history: the characters that lead to a node
    pc,         \* "ready", or the loop that is running
    text, mode, i,
    state,      \* search: the state, and r while it falls back
    counters, count, value,
    nth         \* search: the word whose counter is combined

visiting == <<queued, node, left, failure>>
auto == <<msize, gotos, failures, matches, last, at, visiting, path>>
scan == <<text, mode, i, state, counters, count, value, nth>>
vars == <<list, auto, pc, scan>>

Word(k) == list[k].word
ZeroCounters == [k \in DOMAIN list |-> 0]
\* matches[s] & (1 << k): shifts of more than Bits wrap.
Bit(k) == (k - 1) % Bits

Init ==
    /\ list \in Lists
    /\ msize = 0
    /\ gotos = << >> /\ failures = << >> /\ matches = << >> /\ path = << >>
    /\ last = 1 /\ at = <<1, 1, 0>>
    /\ queued = << >> /\ node = 0 /\ left = {} /\ failure = 0
    /\ pc = "ready"
    /\ text = << >> /\ mode \in Modes[list]
    /\ i = 1 /\ state = 0
    /\ counters = << >> /\ count = 0 /\ value = 0 /\ nth = 1

\* Mutant of Search: state and counters go on from the search before.
SearchGoesOn(t, m) ==
    /\ pc = "ready"
    /\ text' = t /\ mode' = m
    /\ count' = 0 /\ value' = 0 /\ counters' = ZeroCounters
    /\ i' = 1 /\ UNCHANGED <<state, nth>>
    /\ pc' = IF t = << >> \/ list = << >> THEN "ready"
             ELSE IF msize = 0 THEN "alloc" ELSE "scan"
    /\ UNCHANGED <<list, auto>>

\* search(text): the results are cleared; nothing more is done for an empty
\* text or list; the automaton is made only once.
Search(t, m) ==
    /\ pc = "ready"
    /\ text' = t /\ mode' = m
    /\ count' = 0 /\ value' = 0 /\ counters' = ZeroCounters
    /\ i' = 1 /\ state' = 0 /\ UNCHANGED nth
    /\ pc' = IF t = << >> \/ list = << >> THEN "ready"
             ELSE IF msize = 0 THEN "alloc" ELSE "scan"
    /\ UNCHANGED <<list, auto>>

\* One node for the root and at most one for each character of the first k
\* words.
Sizes(l) ==
    LET sum[k \in 0..Len(l)] == IF k = 0 THEN 1 ELSE sum[k - 1] + Len(l[k].word)
    IN sum

\* Mutant of Size: the root is forgotten.
SizeNoRoot == Sizes(list)[Len(list)] - 1

Size == Sizes(list)[Len(list)]

\* prepare: allocate and clear the arrays.
Alloc ==
    /\ pc = "alloc"
    /\ msize' = Size
    /\ matches' = [n \in 0..(msize' - 1) |-> {}]
    /\ failures' = [n \in 0..(msize' - 1) |-> -1]
    /\ gotos' = [n \in 0..(msize' - 1) |-> [c \in Chars |-> -1]]
    /\ path' = [n \in 0..(msize' - 1) |-> << >>]
    /\ pc' = "add"
    /\ UNCHANGED <<list, last, at, visiting, scan>>

\* prepare: follow or make the edge for the next character of the word.
AddChar ==
    LET k == at[1]  j == at[2]  r == at[3]
        c == Fold[Word(k)[j]]
    IN /\ pc = "add" /\ k <= Len(list) /\ j <= Len(Word(k))
       /\ IF gotos[r][c] = -1
          THEN /\ gotos' = [gotos EXCEPT ![r][c] = last]
               /\ path' = [path EXCEPT ![last] = Append(path[r], c)]
               /\ last' = last + 1
          ELSE UNCHANGED <<gotos, path, last>>
       /\ at' = <<k, j + 1, gotos'[r][c]>>
       /\ UNCHANGED <<list, msize, failures, matches, visiting, pc, scan>>

\* prepare: the word ends at this node.
AddEnd ==
    LET k == at[1]  r == at[3]
    IN /\ pc = "add" /\ k <= Len(list) /\ at[2] > Len(Word(k))
       /\ matches' = [matches EXCEPT ![r] = @ \cup {Bit(k)}]
       /\ at' = <<k + 1, 1, 0>>
       /\ UNCHANGED <<list, msize, gotos, failures, last, visiting, path, pc, scan>>

\* prepare: the root gets an edge for every character.
Root ==
    /\ pc = "add" /\ at[1] > Len(list)
    /\ gotos' = [gotos EXCEPT ![0] = [c \in Chars |-> IF @[c] = -1 THEN 0 ELSE @[c]]]
    /\ node' = 0 /\ left' = {c \in Chars : gotos'[0][c] # 0}
    /\ pc' = "root"
    /\ UNCHANGED <<list, msize, failures, matches, last, at, queued, failure, path, scan>>

\* The loops over the characters go upwards.
Ch == CHOOSE c \in left : \A d \in left : c <= d

\* prepare: a node of depth 1 fails to the root and is queued.
RootChild ==
    LET s == gotos[0][Ch]
    IN /\ pc = "root" /\ left # {}
       /\ failures' = [failures EXCEPT ![s] = 0]
       /\ queued' = Append(queued, s)
       /\ left' = left \ {Ch}
       /\ UNCHANGED <<list, msize, gotos, matches, last, at, node, failure, path, pc, scan>>

\* prepare: take the next node off the queue.
Visit ==
    /\ pc \in {"root", "visit"} /\ left = {} /\ queued # << >>
    /\ node' = Head(queued) /\ queued' = Tail(queued)
    /\ left' = {c \in Chars : gotos[node'][c] # -1}
    /\ pc' = "visit"
    /\ UNCHANGED <<list, msize, gotos, failures, matches, last, at, failure, path, scan>>

\* prepare: the next edge out of the node.
Edge ==
    /\ pc = "visit" /\ left # {}
    /\ failure' = failures[node]
    /\ pc' = "fail"
    /\ UNCHANGED <<list, msize, gotos, failures, matches, last, at, queued, node, left, path, scan>>

\* prepare: while (gotos[failure][c] == -1) failure = failures[failure]
FallBack ==
    /\ pc = "fail" /\ gotos[failure][Ch] = -1
    /\ failure' = failures[failure]
    /\ UNCHANGED <<list, msize, gotos, failures, matches, last, at, queued, node, left, path, pc, scan>>

\* Mutant of SetFailure: the words of the failure node are not merged.
SetFailureNoMerge ==
    LET s == gotos[node][Ch]
        f == gotos[failure][Ch]
    IN /\ pc = "fail" /\ f # -1
       /\ failure' = f
       /\ failures' = [failures EXCEPT ![s] = f]
       /\ queued' = Append(queued, s)
       /\ left' = left \ {Ch}
       /\ pc' = "visit"
       /\ UNCHANGED <<list, msize, gotos, matches, last, at, node, path, scan>>

\* prepare: the node the edge leads to gets its failure node, the words of
\* that node, and its place in the queue.
SetFailure ==
    LET s == gotos[node][Ch]
        f == gotos[failure][Ch]
    IN /\ pc = "fail" /\ f # -1
       /\ failure' = f
       /\ failures' = [failures EXCEPT ![s] = f]
       /\ matches' = [matches EXCEPT ![s] = @ \cup matches[f]]
       /\ queued' = Append(queued, s)
       /\ left' = left \ {Ch}
       /\ pc' = "visit"
       /\ UNCHANGED <<list, msize, gotos, last, at, node, path, scan>>

\* prepare returns to search.
Prepared ==
    /\ pc \in {"root", "visit"} /\ left = {} /\ queued = << >>
    /\ pc' = "scan"
    /\ UNCHANGED <<list, auto, scan>>

\* The values alphabet[c] may have, as Booleans: a character that does not
\* fit a signed char indexes memory in front of the array.
InToken(c) == IF c \in High THEN BOOLEAN ELSE {c \in Token}

\* pos, one above the code's.
Start(k) == i - Len(Word(k)) + 1

Same(k) == \A n \in 1..Len(Word(k)) : Fold[text[Start(k) + n - 1]] = Fold[Word(k)[n]]

\* The tests a candidate must pass, each as the set of its outcomes.  In
\* front of the text (Start(k) < 1, which only a wrapped bit can cause) the
\* code compares whatever is there.
Outcomes(k) ==
    IF Start(k) < 1 THEN BOOLEAN
    ELSE {x \in BOOLEAN :
             \E l \in IF Start(k) = 1 THEN {TRUE} ELSE {~b : b \in InToken(text[Start(k) - 1])},
                r \in IF i = Len(text) THEN {TRUE} ELSE {~b : b \in InToken(text[i + 1])} :
                 x = (l /\ r /\ Same(k))}

Candidates(s) == {k \in DOMAIN list : Bit(k) \in matches[s] /\ Word(k) # << >>}

\* The character of the text as the automaton reads it.
Lower == Fold[text[i]]

\* search: while (gotos[r][c] == -1) r = failures[r]
ScanBack ==
    /\ pc = "scan" /\ i <= Len(text) /\ gotos[state][Lower] = -1
    /\ state' = failures[state]
    /\ UNCHANGED <<list, auto, pc, text, mode, i, counters, count, value, nth>>

\* search: take the edge and count the words that end here.
Scan ==
    LET s == gotos[state][Lower]
    IN /\ pc = "scan" /\ i <= Len(text) /\ s # -1
       /\ state' = s
       /\ \E found \in SUBSET Candidates(s) :
             /\ \A k \in Candidates(s) : (k \in found) \in Outcomes(k)
             /\ counters' = [k \in DOMAIN list |-> counters[k] + IF k \in found THEN 1 ELSE 0]
             /\ count' = count + Cardinality(found)
       /\ i' = i + 1
       /\ UNCHANGED <<list, auto, pc, text, mode, value, nth>>

\* The integer division of C, which rounds towards 0.
Quotient(a, b) == IF a < 0 THEN -((-a) \div b) ELSE a \div b

\* Mutant of First: the minimum starts at 0.
FirstZero(m) == 0

\* The value the loop over the counters starts with.
First(m) == IF m \in {"MIN", "MINV"} THEN IntMax
            ELSE IF m = "MAX" THEN -IntMax - 1 ELSE 0

\* What the loop makes of the value v for a word of value x that was counted
\* n times.
Combine(m, v, x, n) ==
    CASE m = "ANY"  -> IF v = 0 THEN x * n ELSE v
      [] m = "ANYV" -> IF v = 0 THEN x ELSE v
      [] m = "MIN"  -> IF x * n < v THEN x * n ELSE v
      [] m = "MINV" -> IF x < v THEN x ELSE v
      [] m = "MAX"  -> IF x * n > v THEN x * n ELSE v
      [] m = "MAXV" -> IF x > v THEN x ELSE v
      [] m = "MUL"  -> v * x * n
      [] m = "MULV" -> v * x
      [] m \in {"AVGV", "SUMV"} -> v + x
      [] OTHER -> v + x * n

\* search: the text is read; nothing is combined when nothing was found.
Finish ==
    /\ pc = "scan" /\ i > Len(text)
    /\ IF count = 0 THEN pc' = "ready" /\ UNCHANGED <<value, nth>>
       ELSE pc' = "combine" /\ value' = First(mode) /\ nth' = 1
    /\ UNCHANGED <<list, auto, text, mode, i, state, counters, count>>

\* search: the next counter; ANY and ANYV leave the loop at the first word.
CombineWord ==
    /\ pc = "combine" /\ nth <= Len(list)
    /\ IF counters[nth] = 0 THEN nth' = nth + 1 /\ UNCHANGED value
       ELSE /\ value' = Combine(mode, value, list[nth].value, counters[nth])
            /\ nth' = IF mode \in {"ANY", "ANYV"} THEN Len(list) + 1 ELSE nth + 1
    /\ UNCHANGED <<list, auto, pc, text, mode, i, state, counters, count>>

\* ANY and ANYV take the first word of the list when the one found has no
\* value; an average is divided by all that was counted.
Final(m, v) ==
    CASE m = "ANY" /\ v = 0  -> list[1].value * count
      [] m = "ANYV" /\ v = 0 -> list[1].value
      [] m \in {"AVG", "AVGV"} -> Quotient(v, count)
      [] OTHER -> v

\* search: all counters are combined.
Return ==
    /\ pc = "combine" /\ nth > Len(list)
    /\ value' = Final(mode, value)
    /\ pc' = "ready"
    /\ UNCHANGED <<list, auto, text, mode, i, state, counters, count, nth>>

\* One step of prepare, and one of a call.
Prepare == Alloc \/ AddChar \/ AddEnd \/ Root \/ RootChild \/ Visit \/ Edge
              \/ FallBack \/ SetFailure \/ Prepared

Step == Prepare \/ ScanBack \/ Scan \/ Finish \/ CombineWord \/ Return

Next == Step \/ \E t \in Texts[list], m \in Modes[list] : Search(t, m)

Spec == Init /\ [][Next]_vars
-----------------------------------------------------------------------------
Nodes == 0..(last - 1)
Folded(w) == [n \in DOMAIN w |-> Fold[w[n]]]

\* Word k stands in the text and ends at the character being read.
EndsHere(k) == Start(k) >= 1 /\ Same(k)

\* Another word has the bit of word k, which happens only to lists of more
\* than Bits words.
Shared(k) == \E j \in DOMAIN list \ {k} : Bit(j) = Bit(k)

\* prepare allocates no more nodes than its arrays hold; neither loop along
\* the failures runs into one that is not set, which would index the arrays
\* with -1.  search tests a word only where a word of its bit ends, so that
\* it reads in front of the text only for a word whose bit is shared: one
\* that does not end there, taken for another that does.  Lists of at most
\* Bits words never cause such a read.
InBounds ==
    /\ msize # 0 => last <= msize
    /\ pc = "fail" => failure \in Nodes
    /\ pc = "scan" => state \in Nodes
    /\ pc = "scan" /\ i <= Len(text) /\ gotos[state][Lower] # -1 =>
          \A k \in Candidates(gotos[state][Lower]) :
              /\ \E j \in DOMAIN list : Bit(j) = Bit(k) /\ EndsHere(j)
              /\ Start(k) < 1 => Shared(k)
              /\ Len(list) <= Bits => EndsHere(k)

\* The automaton prepare leaves: the failure node of a node is that of the
\* longest proper suffix that is a node; every word is reported where it ends,
\* and every bit that is reported belongs to a word that ends there.  (Empty
\* words are reported at the root only, and search leaves them out.)
LongestSuffix(n) ==
    \A m \in Nodes : m # n /\ IsSuffix(path[m], path[n]) => Len(path[m]) <= Len(path[failures[n]])

EmptyBits == {Bit(j) : j \in {k \in DOMAIN list : Word(k) = << >>}}

AutomatonRight ==
    pc = "scan" =>
        /\ \A n \in Nodes \ {0} : /\ failures[n] \in Nodes \ {n}
                                  /\ IsSuffix(path[failures[n]], path[n])
                                  /\ LongestSuffix(n)
        /\ \A n \in Nodes :
              /\ \A k \in DOMAIN list :
                    Word(k) # << >> /\ IsSuffix(Folded(Word(k)), path[n]) => Bit(k) \in matches[n]
              /\ \A b \in matches[n] \ EmptyBits :
                    \E k \in DOMAIN list : Bit(k) = b /\ IsSuffix(Folded(Word(k)), path[n])

\* Where word k stands in the first e characters of the text, between
\* characters that are not among the inner ones of a token.
Places(k, inner, e) ==
    {p \in 1..(e - Len(Word(k)) + 1) :
        LET q == p + Len(Word(k)) - 1
        IN /\ \A n \in DOMAIN Word(k) : Fold[text[p + n - 1]] = Fold[Word(k)[n]]
           /\ p = 1 \/ text[p - 1] \notin inner
           /\ q = Len(text) \/ text[q + 1] \notin inner}

\* How many positions in front of the text word k may be looked for at.
Extra(k) == IF Shared(k) THEN Len(Word(k)) - 1 ELSE 0

\* One element for each time a word was counted.
Counted == UNION {{k} \X (1..counters[k]) : k \in DOMAIN list}

\* When search returns, each counter is the number of times its word stands
\* in the text as a token, upper and lower case alike, overlaps included, and
\* count is their sum: nothing is left over from the search before.  Words
\* next to a character that does not fit a signed char, which should continue
\* the token, may or may not be counted, and no others.  In front of the text
\* search finds nothing, or what it takes for a word whose bit is shared, once
\* for each character of the text the word is longer than.
CountsRight ==
    pc = "ready" /\ counters # << >> =>
        /\ \A k \in DOMAIN list :
              counters[k] \in
                  IF Word(k) = << >> THEN {0}
                  ELSE Cardinality(Places(k, Token \cup High, Len(text)))
                         ..(Cardinality(Places(k, Token, Len(text))) + Extra(k))
        /\ count = Cardinality(Counted)

\* The words that were counted, and their values.
Found == {k \in DOMAIN list : counters[k] # 0}
Value(k) == list[k].value
Total(k) == list[k].value * counters[k]

\* The sums of the first values of f.
Sums(f) ==
    LET sum[k \in 0..Len(f)] == IF k = 0 THEN 0 ELSE sum[k - 1] + f[k]
    IN sum

Each(V(_)) == [k \in DOMAIN list |-> IF counters[k] = 0 THEN 0 ELSE V(k)]
SumOf(V(_)) == Sums(Each(V))[Len(list)]
Least(v, V(_)) == (\E k \in Found : v = V(k)) /\ \A k \in Found : v <= V(k)
Greatest(v, V(_)) == (\E k \in Found : v = V(k)) /\ \A k \in Found : v >= V(k)

\* The value search leaves is the minimum, maximum, sum or average its mode
\* names, over the words found (and of a word found, or the default, for ANY),
\* for three modes that of the code's start value 0: MAXV never falls below 0,
\* since the test at its start names CW_MAX twice, and the products of MUL and
\* MULV are 0 whatever was found.
ValueRight ==
    pc = "ready" /\ count > 0 =>
        CASE mode = "MIN"  -> Least(value, Total)
          [] mode = "MINV" -> Least(value, Value)
          [] mode = "MAX"  -> Greatest(value, Total)
          [] mode = "MAXV" -> IF \E k \in Found : Value(k) > 0
                              THEN Greatest(value, Value) ELSE value = 0
          [] mode \in {"MUL", "MULV"} -> value = 0
          [] mode = "SUMV" -> value = SumOf(Value)
          [] mode = "AVG"  -> LET d == SumOf(Total) - value * count IN d < count /\ -d < count
          [] mode = "AVGV" -> LET d == SumOf(Value) - value * count IN d < count /\ -d < count
          [] mode = "ANY"  -> (\E k \in Found : value = Total(k)) \/ value = list[1].value * count
          [] mode = "ANYV" -> (\E k \in Found : value = Value(k)) \/ value = list[1].value
          [] OTHER -> value = SumOf(Total)
=============================================================================
