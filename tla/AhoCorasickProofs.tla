------------------------- MODULE AhoCorasickProofs -------------------------
(***************************************************************************)
(* Proofs about AhoCorasick, for every word list and every text: prepare   *)
(* stays within its arrays and builds the automaton of the list, and       *)
(* search counts the words by it.                                          *)
(***************************************************************************)
EXTENDS AhoCorasick, WellFoundedInduction, SequenceTheorems, FiniteSetTheorems, TLAPS

\* What IsSuffix means, position by position.
Ends(s, t) ==
    /\ Len(s) <= Len(t)
    /\ \A n \in 1..Len(s) : s[n] = t[n + (Len(t) - Len(s))]

Depth(n) == Len(path[n])

\* f is the node of the longest suffix of u among all nodes, and among those
\* with an edge for c.
Longest(f, u) ==
    /\ f \in Nodes /\ Ends(path[f], u)
    /\ \A m \in Nodes : Ends(path[m], u) => Depth(m) <= Depth(f)

LongestWith(f, u, c) ==
    /\ f \in Nodes /\ Ends(path[f], u)
    /\ \A m \in Nodes : Ends(path[m], u) /\ gotos[m][c] # -1 => Depth(m) <= Depth(f)
-----------------------------------------------------------------------------
\* Before prepare.
Fresh ==
    msize = 0 => /\ pc \in {"ready", "alloc"}
                 /\ last = 1 /\ at = <<1, 1, 0>> /\ queued = << >>

\* The arrays have their size, and what is not yet used is still clear.
Arrays ==
    /\ msize \in Nat /\ msize = Size /\ last \in 1..msize
    /\ gotos \in [0..(msize - 1) -> [Chars -> Int]]
    /\ failures \in [0..(msize - 1) -> Int]
    /\ path \in [0..(msize - 1) -> Seq(Chars)]
    /\ DOMAIN matches = 0..(msize - 1)
    /\ \A n \in last..(msize - 1) : matches[n] = {} /\ \A c \in Chars : gotos[n][c] = -1

\* The nodes and their edges are a tree of words, and only the root has edges
\* that lead nowhere.
Tree ==
    /\ path[0] = << >> /\ failures[0] = -1
    /\ \A n \in Nodes, c \in Chars :
          /\ gotos[n][c] \in -1..(last - 1)
          /\ gotos[n][c] > 0 => path[gotos[n][c]] = Append(path[n], c)
          /\ gotos[n][c] = 0 => n = 0
    /\ \A m, n \in Nodes : path[m] = path[n] => m = n
    /\ \A n \in Nodes \ {0} : \E m \in Nodes, c \in Chars : gotos[m][c] = n

Trie == Arrays /\ Tree

\* The words added so far have their nodes, and only words are reported.
Recorded ==
    /\ \A k \in 1..(at[1] - 1) : \E n \in Nodes : path[n] = Folded(Word(k)) /\ Bit(k) \in matches[n]
    /\ \A n \in Nodes : \A b \in matches[n] \ EmptyBits :
          \E k \in DOMAIN list : Bit(k) = b /\ Ends(Folded(Word(k)), path[n])

\* The loop that adds a word is on the node of the part it has read.
Adding ==
    /\ at \in Nat \X Nat \X Nat
    /\ at[1] \in 1..(Len(list) + 1) /\ queued = << >>
    /\ \A n \in 0..(msize - 1) : failures[n] = -1 /\ \A c \in Chars : gotos[n][c] # 0
    /\ at[1] <= Len(list) =>
          /\ at[2] \in 1..(Len(Word(at[1])) + 1)
          /\ at[3] \in Nodes
          /\ path[at[3]] = SubSeq(Folded(Word(at[1])), 1, at[2] - 1)
          /\ last <= Sizes(list)[at[1] - 1] + at[2] - 1

\* A failure that is set is the right one, and the node's words are merged.
Right(n) ==
    /\ Longest(failures[n], Tail(path[n]))
    /\ \A k \in DOMAIN list :
          Word(k) # << >> /\ Ends(Folded(Word(k)), path[n]) => Bit(k) \in matches[n]

FailuresRight == \A n \in Nodes \ {0} : failures[n] # -1 => Right(n)

\* All words are added, and the root has all edges.
Rooted ==
    /\ at[1] = Len(list) + 1
    /\ \A c \in Chars : gotos[0][c] # -1

\* The queue holds nodes whose failures are set, of at most one more than the
\* depth of the node visited, in order of depth.
Queue ==
    /\ queued \in Seq(Nodes \ {0})
    /\ \A a \in 1..Len(queued) : /\ failures[queued[a]] # -1
                                 /\ Depth(node) <= Depth(queued[a])
                                 /\ Depth(queued[a]) <= Depth(node) + 1
    /\ \A a, b \in 1..Len(queued) : a <= b => Depth(queued[a]) <= Depth(queued[b])

\* A node without a failure is deeper than the node visited, and comes after
\* a node without one, a queued one or the one visited.
Frontier ==
    /\ node \in Nodes /\ left \subseteq Chars
    /\ \A c \in left : gotos[node][c] > 0
    /\ \A n \in Nodes \ {0} : failures[n] = -1 => Depth(n) > Depth(node)
    /\ \A p \in Nodes, c \in Chars :
          gotos[p][c] > 0 /\ failures[gotos[p][c]] = -1 =>
              \/ p # 0 /\ failures[p] = -1
              \/ \E a \in 1..Len(queued) : queued[a] = p
              \/ p = node /\ c \in left

Visiting ==
    /\ pc = "root" => node = 0
    /\ pc \in {"visit", "fail"} => node # 0 /\ failures[node] # -1
    /\ pc = "fail" => left # {} /\ LongestWith(failure, Tail(path[node]), Ch)

AllSet == \A n \in Nodes \ {0} : failures[n] # -1

Building == {"add", "root", "visit", "fail"}

BuildInv ==
    /\ list \in Lists
    /\ pc \in Building \cup {"ready", "alloc", "scan", "combine"}
    /\ pc \in Building \cup {"scan", "combine"} => msize # 0
    /\ pc = "alloc" => msize = 0
    /\ Fresh
    /\ msize # 0 => Trie /\ Recorded /\ FailuresRight
    /\ pc = "add" => Adding
    /\ msize # 0 /\ pc # "add" => Rooted
    /\ pc \in {"root", "visit", "fail"} => Queue /\ Frontier /\ Visiting
    /\ msize # 0 /\ pc \in {"ready", "scan", "combine"} => AllSet
-----------------------------------------------------------------------------
\* Every set of numbers with an element has a least one: induction, in the
\* form in which this module uses it.
LEMMA LeastNumber ==
  ASSUME NEW T \in SUBSET Nat, T # {}
  PROVE  \E x \in T : \A y \in T : x <= y
<1>1. IsWellFoundedOn(OpToRel(<, Nat), Nat)
  BY NatLessThanWellFounded
<1>2. PICK x \in T : \A y \in T : ~ (<<y, x>> \in OpToRel(<, Nat))
  BY <1>1, WFMin, Zenon
<1>3. \A y \in T : ~ (y < x)
  <2> TAKE y \in T
  <2>1. <<y, x>> \in OpToRel(<, Nat) <=> y < x
    BY DEF OpToRel
  <2>. QED
    BY <2>1, <1>2
<1>. QED
  BY <1>3

Words == Seq([word : Seq(DOMAIN Fold), value : Int])

\* The loop that computes the size of the arrays has a result.
LEMMA SizesDef ==
  ASSUME NEW l \in Words
  PROVE  Sizes(l) = [k \in 0..Len(l) |-> IF k = 0 THEN 1 ELSE Sizes(l)[k - 1] + Len(l[k].word)]
<1> DEFINE Upto(f, n) == f = [k \in 0..n |-> IF k = 0 THEN 1 ELSE f[k - 1] + Len(l[k].word)]
           T == {n \in Nat : n <= Len(l) /\ ~ \E f : Upto(f, n)}
<1>0. Len(l) \in Nat
  BY DEF Words
<1>1. T = {}
  <2> SUFFICES ASSUME T # {} PROVE FALSE
    OBVIOUS
  <2>1. PICK x \in T : \A y \in T : x <= y
    <3> HIDE DEF Upto
    <3>. QED BY LeastNumber
  <2>2. x # 0
    <3> SUFFICES ASSUME x = 0 PROVE FALSE
      OBVIOUS
    <3>1. Upto([k \in 0..0 |-> 1], 0)
      OBVIOUS
    <3>. QED
      BY <3>1, <2>1
  <2>3. x - 1 \notin T /\ x - 1 \in Nat /\ x - 1 <= Len(l)
    <3> HIDE DEF Upto
    <3>. QED BY <1>0, <2>1, <2>2
  <2>4. PICK g : Upto(g, x - 1)
    BY <2>3
  <2> DEFINE f == [k \in 0..x |-> IF k = x THEN g[x - 1] + Len(l[x].word) ELSE g[k]]
  <2>5. Upto(f, x)
    <3>1. ASSUME NEW k \in 0..x
          PROVE  f[k] = IF k = 0 THEN 1 ELSE f[k - 1] + Len(l[k].word)
      <4>1. CASE k = x
        BY <4>1, <2>1, <2>2
      <4>2. CASE k # x
        <5>1. k \in 0..(x - 1)
          BY <4>2, <2>1
        <5>2. g[k] = IF k = 0 THEN 1 ELSE g[k - 1] + Len(l[k].word)
          BY <5>1, <2>4
        <5>. QED
          BY <5>1, <5>2, <4>2, <2>1
      <4>. QED
        BY <4>1, <4>2
    <3>. QED
      BY <3>1
  <2>. QED
    BY <2>5, <2>1
<1>2. \E f : Upto(f, Len(l))
  BY <1>0, <1>1
<1>3. Sizes(l) = CHOOSE f : Upto(f, Len(l))
  BY DEF Sizes
<1>. QED
  BY <1>2, <1>3

\* The sizes grow from word to word.
LEMMA SizesGrow ==
  ASSUME NEW l \in Words
  PROVE  /\ \A k \in 0..Len(l) : Sizes(l)[k] \in Nat \ {0} /\ Sizes(l)[k] <= Sizes(l)[Len(l)]
         /\ Sizes(l)[0] = 1
         /\ \A k \in 1..Len(l) : Sizes(l)[k] = Sizes(l)[k - 1] + Len(l[k].word)
<1> DEFINE S == Sizes(l)
<1>0. Len(l) \in Nat /\ \A k \in 1..Len(l) : Len(l[k].word) \in Nat
  BY DEF Words
<1>1. S[0] = 1 /\ \A k \in 1..Len(l) : S[k] = S[k - 1] + Len(l[k].word)
  <2> HIDE DEF S
  <2>1. S = [k \in 0..Len(l) |-> IF k = 0 THEN 1 ELSE S[k - 1] + Len(l[k].word)]
    BY SizesDef DEF S
  <2>2. \A k \in 0..Len(l) : S[k] = IF k = 0 THEN 1 ELSE S[k - 1] + Len(l[k].word)
    BY <2>1, Zenon
  <2>. QED
    BY <1>0, <2>2
<1> HIDE DEF S
<1>2. \A k \in 0..Len(l) : S[k] \in Nat \ {0}
  <2> DEFINE T == {k \in 0..Len(l) : S[k] \notin Nat \ {0}}
  <2> SUFFICES ASSUME T # {} PROVE FALSE
    OBVIOUS
  <2>1. PICK x \in T : \A y \in T : x <= y
    <3>1. T \in SUBSET Nat
      BY <1>0
    <3>. QED
      BY <3>1, LeastNumber
  <2>2. x # 0
    BY <1>1
  <2>3. S[x - 1] \in Nat \ {0}
    BY <1>0, <2>1, <2>2
  <2>. QED
    BY <1>0, <1>1, <2>2, <2>3
<1>3. \A k \in 0..Len(l) : S[k] <= S[Len(l)]
  <2> DEFINE T == {n \in Nat : n <= Len(l) /\ ~ (S[Len(l) - n] <= S[Len(l)])}
  <2> SUFFICES ASSUME T # {} PROVE FALSE
    <3> SUFFICES ASSUME NEW k \in 0..Len(l), ~ (S[k] <= S[Len(l)]) PROVE T # {}
      OBVIOUS
    <3>1. Len(l) - k \in T
      <4>1. Len(l) - (Len(l) - k) = k
        BY <1>0
      <4>. QED
        BY <1>0, <4>1
    <3>. QED
      BY <3>1
  <2>1. PICK x \in T : \A y \in T : x <= y
    BY LeastNumber
  <2>2. x # 0
    BY <1>0, <1>2
  <2>3. S[Len(l) - (x - 1)] <= S[Len(l)]
    <3>1. x - 1 \in Nat /\ x - 1 <= Len(l) /\ ~ (x <= x - 1)
      BY <1>0, <2>2
    <3>2. x - 1 \notin T
      BY <3>1, <2>1
    <3>. QED
      BY <3>1, <3>2
  <2>4. S[Len(l) - (x - 1)] = S[Len(l) - x] + Len(l[Len(l) - (x - 1)].word)
    <3>1. Len(l) - (x - 1) \in 1..Len(l) /\ Len(l) - (x - 1) - 1 = Len(l) - x
      BY <1>0, <2>2
    <3>. QED
      BY <3>1, <1>1
  <2>5. Len(l) - x \in 0..Len(l) /\ Len(l) - (x - 1) \in 1..Len(l)
    BY <1>0, <2>2
  <2>6. S[Len(l) - x] \in Nat /\ S[Len(l) - (x - 1)] \in Nat /\ S[Len(l)] \in Nat
    <3>1. Len(l) - (x - 1) \in 0..Len(l) /\ Len(l) \in 0..Len(l)
      BY <1>0, <2>5
    <3>. QED
      BY <3>1, <2>5, <1>2
  <2>7. Len(l[Len(l) - (x - 1)].word) \in Nat
    BY <2>5, <1>0
  <2>8. S[Len(l) - x] <= S[Len(l) - (x - 1)]
    BY <2>4, <2>6, <2>7
  <2>9. S[Len(l) - x] <= S[Len(l)]
    BY <2>3, <2>6, <2>8
  <2>. QED
    BY <2>9, <2>1
<1>. QED
  BY <1>1, <1>2, <1>3 DEF S
-----------------------------------------------------------------------------
\* Suffixes.
LEMMA SuffixEnds ==
  ASSUME NEW S, NEW s \in Seq(S), NEW t \in Seq(S)
  PROVE  IsSuffix(s, t) <=> Ends(s, t)
<1> DEFINE rs == Reverse(s)
           rt == Reverse(t)
<1>0. Len(s) \in Nat /\ Len(t) \in Nat
  OBVIOUS
<1>1. rs \in Seq(S) /\ Len(rs) = Len(s) /\ \A n \in 1..Len(s) : rs[n] = s[Len(s) - n + 1]
  BY DEF Reverse
<1>2. rt \in Seq(S) /\ Len(rt) = Len(t) /\ \A n \in 1..Len(t) : rt[n] = t[Len(t) - n + 1]
  BY DEF Reverse
<1> HIDE DEF rs, rt
<1>3. IsSuffix(s, t) <=> Len(s) <= Len(t) /\ SubSeq(rs, 1, Len(s)) = SubSeq(rt, 1, Len(s))
  BY <1>1, <1>2 DEF IsSuffix, IsPrefix, rs, rt
<1>4. ASSUME Len(s) <= Len(t)
      PROVE  SubSeq(rs, 1, Len(s)) = SubSeq(rt, 1, Len(s)) <=> \A n \in 1..Len(s) : rs[n] = rt[n]
  <2>1. SubSeq(rs, 1, Len(s)) = [n \in 1..Len(s) |-> rs[n]]
    BY <1>0, <1>1
  <2>2. SubSeq(rt, 1, Len(s)) = [n \in 1..Len(s) |-> rt[n]]
    BY <1>0, <1>2, <1>4
  <2>. QED
    BY <2>1, <2>2
<1>5. ASSUME Len(s) <= Len(t)
      PROVE  (\A n \in 1..Len(s) : rs[n] = rt[n]) <=> \A n \in 1..Len(s) : s[n] = t[n + (Len(t) - Len(s))]
  <2>1. ASSUME \A n \in 1..Len(s) : rs[n] = rt[n], NEW n \in 1..Len(s)
        PROVE  s[n] = t[n + (Len(t) - Len(s))]
    <3> DEFINE m == Len(s) - n + 1
    <3>1. m \in 1..Len(s) /\ m \in 1..Len(t)
      BY <1>0, <1>5
    <3>2. rs[m] = s[Len(s) - m + 1] /\ rt[m] = t[Len(t) - m + 1] /\ rs[m] = rt[m]
      BY <3>1, <2>1, <1>1, <1>2
    <3>3. Len(s) - m + 1 = n /\ Len(t) - m + 1 = n + (Len(t) - Len(s))
      BY <1>0
    <3>. QED
      BY <3>2, <3>3
  <2>2. ASSUME \A n \in 1..Len(s) : s[n] = t[n + (Len(t) - Len(s))], NEW n \in 1..Len(s)
        PROVE  rs[n] = rt[n]
    <3> DEFINE m == Len(s) - n + 1
    <3>1. m \in 1..Len(s) /\ n \in 1..Len(t) /\ m + (Len(t) - Len(s)) = Len(t) - n + 1
      BY <1>0, <1>5
    <3>2. s[m] = t[m + (Len(t) - Len(s))]
      BY <3>1, <2>2
    <3>. QED
      BY <3>1, <3>2, <1>1, <1>2
  <2>. QED
    BY <2>1, <2>2
<1>. QED
  BY <1>3, <1>4, <1>5 DEF Ends

LEMMA EndsTrans ==
  ASSUME NEW S, NEW s \in Seq(S), NEW t \in Seq(S), NEW u \in Seq(S), Ends(s, t), Ends(t, u)
  PROVE  Ends(s, u)
<1>0. Len(s) \in Nat /\ Len(t) \in Nat /\ Len(u) \in Nat /\ Len(s) <= Len(t) /\ Len(t) <= Len(u)
  BY DEF Ends
<1>1. ASSUME NEW n \in 1..Len(s) PROVE s[n] = u[n + (Len(u) - Len(s))]
  <2> DEFINE m == n + (Len(t) - Len(s))
  <2>1. m \in 1..Len(t) /\ m + (Len(u) - Len(t)) = n + (Len(u) - Len(s))
    BY <1>0
  <2>2. s[n] = t[m] /\ t[m] = u[m + (Len(u) - Len(t))]
    BY <2>1 DEF Ends
  <2>. QED
    BY <2>1, <2>2
<1>. QED
  BY <1>0, <1>1 DEF Ends

\* Of two suffixes the shorter one is a suffix of the longer one.
LEMMA EndsBoth ==
  ASSUME NEW S, NEW s \in Seq(S), NEW t \in Seq(S), NEW u \in Seq(S), Ends(s, u), Ends(t, u),
         Len(s) <= Len(t)
  PROVE  Ends(s, t)
<1>0. Len(s) \in Nat /\ Len(t) \in Nat /\ Len(u) \in Nat /\ Len(t) <= Len(u)
  BY DEF Ends
<1>1. ASSUME NEW n \in 1..Len(s) PROVE s[n] = t[n + (Len(t) - Len(s))]
  <2> DEFINE m == n + (Len(t) - Len(s))
  <2>1. m \in 1..Len(t) /\ m + (Len(u) - Len(t)) = n + (Len(u) - Len(s))
    BY <1>0
  <2>2. t[m] = u[m + (Len(u) - Len(t))] /\ s[n] = u[n + (Len(u) - Len(s))]
    BY <2>1 DEF Ends
  <2>. QED
    BY <2>1, <2>2
<1>. QED
  BY <1>0, <1>1 DEF Ends

LEMMA EndsSame ==
  ASSUME NEW S, NEW s \in Seq(S), NEW t \in Seq(S), Ends(s, t), Len(s) = Len(t)
  PROVE  s = t
<1>1. ASSUME NEW n \in 1..Len(s) PROVE s[n] = t[n]
  <2>1. n + (Len(t) - Len(s)) = n
    OBVIOUS
  <2>. QED
    BY <2>1 DEF Ends
<1>. QED
  BY <1>1, SeqEqual

LEMMA EndsAppend ==
  ASSUME NEW S, NEW s \in Seq(S), NEW u \in Seq(S), NEW c \in S, NEW d \in S
  PROVE  Ends(Append(s, c), Append(u, d)) <=> c = d /\ Ends(s, u)
<1> DEFINE sc == Append(s, c)
           ud == Append(u, d)
<1>0. /\ Len(s) \in Nat /\ Len(u) \in Nat /\ Len(sc) = Len(s) + 1 /\ Len(ud) = Len(u) + 1
      /\ \A n \in 1..Len(s) : sc[n] = s[n]
      /\ \A n \in 1..Len(u) : ud[n] = u[n]
      /\ sc[Len(s) + 1] = c /\ ud[Len(u) + 1] = d
  OBVIOUS
<1> HIDE DEF sc, ud
<1>1. ASSUME c = d, Ends(s, u) PROVE Ends(sc, ud)
  <2>1. ASSUME NEW n \in 1..Len(sc) PROVE sc[n] = ud[n + (Len(ud) - Len(sc))]
    <3>1. CASE n = Len(s) + 1
      BY <3>1, <1>0, <1>1
    <3>2. CASE n # Len(s) + 1
      <4>1. n \in 1..Len(s) /\ n + (Len(u) - Len(s)) \in 1..Len(u)
        BY <3>2, <1>0, <1>1 DEF Ends
      <4>2. s[n] = u[n + (Len(u) - Len(s))]
        BY <4>1, <1>1 DEF Ends
      <4>3. Len(ud) - Len(sc) = Len(u) - Len(s)
        BY <1>0
      <4>. QED
        BY <4>1, <4>2, <4>3, <1>0
    <3>. QED
      BY <3>1, <3>2
  <2>. QED
    BY <2>1, <1>0, <1>1 DEF Ends
<1>2. ASSUME Ends(sc, ud) PROVE c = d /\ Ends(s, u)
  <2>0. Len(sc) <= Len(ud) /\ Len(s) <= Len(u)
    BY <1>0, <1>2 DEF Ends
  <2>1. c = d
    <3>1. Len(s) + 1 \in 1..Len(sc) /\ Len(s) + 1 + (Len(ud) - Len(sc)) = Len(u) + 1
      BY <1>0
    <3>. QED
      BY <3>1, <1>0, <1>2 DEF Ends
  <2>2. ASSUME NEW n \in 1..Len(s) PROVE s[n] = u[n + (Len(u) - Len(s))]
    <3>1. n \in 1..Len(sc) /\ n + (Len(u) - Len(s)) \in 1..Len(u) /\ Len(ud) - Len(sc) = Len(u) - Len(s)
      BY <1>0, <2>0
    <3>2. sc[n] = ud[n + (Len(ud) - Len(sc))]
      BY <3>1, <1>2 DEF Ends
    <3>. QED
      BY <3>1, <3>2, <1>0
  <2>. QED
    BY <2>0, <2>1, <2>2 DEF Ends
<1>. QED
  BY <1>1, <1>2 DEF sc, ud

\* The proper suffixes are the suffixes of the tail.
LEMMA EndsTail ==
  ASSUME NEW S, NEW s \in Seq(S), NEW u \in Seq(S), u # << >>
  PROVE  Ends(s, Tail(u)) <=> Ends(s, u) /\ Len(s) < Len(u)
<1> DEFINE t == Tail(u)
<1>0. /\ Len(s) \in Nat /\ Len(u) \in Nat \ {0} /\ Len(t) = Len(u) - 1
      /\ \A n \in 1..Len(t) : t[n] = u[n + 1]
  OBVIOUS
<1> HIDE DEF t
<1>1. ASSUME Len(s) <= Len(t), NEW n \in 1..Len(s)
      PROVE  t[n + (Len(t) - Len(s))] = u[n + (Len(u) - Len(s))]
  <2>1. n + (Len(t) - Len(s)) \in 1..Len(t) /\ n + (Len(t) - Len(s)) + 1 = n + (Len(u) - Len(s))
    BY <1>0, <1>1
  <2>. QED
    BY <2>1, <1>0
<1>. QED
  BY <1>0, <1>1 DEF Ends, t

LEMMA TailAppend ==
  ASSUME NEW S, NEW u \in Seq(S), u # << >>, NEW c \in S
  PROVE  Tail(Append(u, c)) = Append(Tail(u), c) /\ Tail(u) \in Seq(S) /\ Append(u, c) # << >>
<1>1. Tail(u) \in Seq(S) /\ Append(u, c) \in Seq(S) /\ Append(u, c) # << >>
  OBVIOUS
<1>. QED
  BY <1>1

LEMMA AppendSame ==
  ASSUME NEW S, NEW s \in Seq(S), NEW t \in Seq(S), NEW c \in S, NEW d \in S,
         Append(s, c) = Append(t, d)
  PROVE  s = t /\ c = d
<1>1. Len(s) = Len(t)
  <2>1. Len(Append(s, c)) = Len(s) + 1 /\ Len(Append(t, d)) = Len(t) + 1
    OBVIOUS
  <2>. QED
    BY <2>1
<1>2. c = d
  <2>1. Append(s, c)[Len(s) + 1] = c /\ Append(t, d)[Len(t) + 1] = d
    OBVIOUS
  <2>. QED
    BY <2>1, <1>1
<1>3. \A n \in 1..Len(s) : s[n] = t[n]
  <2>1. /\ \A n \in 1..Len(s) : Append(s, c)[n] = s[n]
        /\ \A n \in 1..Len(t) : Append(t, d)[n] = t[n]
    OBVIOUS
  <2>. QED
    BY <2>1, <1>1
<1>. QED
  BY <1>1, <1>2, <1>3, SeqEqual

LEMMA EndsEmpty ==
  ASSUME NEW S, NEW u \in Seq(S)
  PROVE  Ends(<< >>, u)
BY DEF Ends
-----------------------------------------------------------------------------
\* Only the root has the empty path.
LEMMA DeepNodes ==
  ASSUME Trie, NEW n \in Nodes
  PROVE  /\ path[n] \in Seq(Chars) /\ Depth(n) \in Nat
         /\ n # 0 => path[n] # << >> /\ Depth(n) > 0 /\ Tail(path[n]) \in Seq(Chars)
<1>1. n \in 0..(msize - 1) /\ 0 \in Nodes
  BY SMT DEF Trie, Arrays, Nodes
<1>2. path[n] \in Seq(Chars)
  BY <1>1, Zenon DEF Trie, Arrays, Tree
<1>3. n # 0 => path[n] # << >>
  <2>1. path[0] = << >> /\ \A m \in Nodes : path[m] = path[n] => m = n
    BY Zenon DEF Trie, Tree
  <2>. QED
    BY <2>1, <1>1, Zenon
<1>. QED
  BY <1>2, <1>3 DEF Depth

\* Every other node has a parent, whose path it continues.
LEMMA Parent ==
  ASSUME Trie, NEW n \in Nodes, n # 0
  PROVE  \E p \in Nodes, c \in Chars : gotos[p][c] = n /\ path[n] = Append(path[p], c)
<1>1. PICK p \in Nodes, c \in Chars : gotos[p][c] = n
  BY Zenon DEF Trie, Arrays, Tree
<1>2. n > 0
  BY SMT DEF Nodes, Trie, Arrays
<1>3. path[n] = Append(path[p], c)
  BY <1>1, <1>2, Zenon DEF Trie, Arrays, Tree
<1>. QED
  BY <1>1, <1>3

\* One round of a loop along the failures.
LEMMA Backs ==
  ASSUME Trie, NEW c \in Chars, NEW u \in Seq(Chars), NEW f, LongestWith(f, u, c),
         gotos[f][c] = -1, f # 0, Longest(failures[f], Tail(path[f]))
  PROVE  LongestWith(failures[f], u, c)
<1> DEFINE g == failures[f]
<1>1. f \in Nodes /\ g \in Nodes /\ Ends(path[f], u) /\ Ends(path[g], Tail(path[f]))
  BY DEF LongestWith, Longest
<1> HIDE DEF g
<1>2. /\ path[f] \in Seq(Chars) /\ path[g] \in Seq(Chars) /\ path[f] # << >>
      /\ Tail(path[f]) \in Seq(Chars)
  BY <1>1, DeepNodes
<1>3. Ends(path[g], u)
  <2>1. Ends(path[g], path[f])
    BY <1>1, <1>2, EndsTail
  <2>. QED
    BY <2>1, <1>1, <1>2, EndsTrans
<1>4. ASSUME NEW m \in Nodes, Ends(path[m], u), gotos[m][c] # -1
      PROVE  Depth(m) <= Depth(g)
  <2>1. path[m] \in Seq(Chars) /\ Depth(m) \in Nat /\ Depth(f) \in Nat
    BY <1>1, DeepNodes
  <2>2. Depth(m) <= Depth(f)
    BY <1>4 DEF LongestWith
  <2>3. Ends(path[m], path[f])
    BY <2>1, <2>2, <1>1, <1>2, <1>4, EndsBoth DEF Depth
  <2>4. Depth(m) # Depth(f)
    <3> SUFFICES ASSUME Depth(m) = Depth(f) PROVE FALSE
      OBVIOUS
    <3>1. path[m] = path[f]
      BY <2>1, <2>3, <1>2, EndsSame DEF Depth
    <3>2. m = f
      BY <3>1, <1>1, Zenon DEF Trie, Arrays, Tree
    <3>. QED
      BY <3>2, <1>4
  <2>5. Ends(path[m], Tail(path[f]))
    BY <2>1, <2>2, <2>3, <2>4, <1>2, EndsTail DEF Depth
  <2>. QED
    BY <2>5, Zenon DEF Longest, g
<1>. QED
  BY <1>1, <1>3, <1>4 DEF LongestWith, g

\* The edge at its end leads to the longest suffix with the character.
LEMMA Advances ==
  ASSUME Trie, NEW c \in Chars, NEW u \in Seq(Chars), NEW f, LongestWith(f, u, c),
         gotos[f][c] # -1
  PROVE  Longest(gotos[f][c], Append(u, c))
<1> DEFINE g == gotos[f][c]
<1>0. f \in Nodes /\ 0 \in Nodes /\ Ends(path[f], u)
  BY SMT DEF LongestWith, Trie, Arrays, Nodes
<1>1. g \in Nodes /\ (g # 0 => g > 0)
  <2>1. g \in -1..(last - 1) /\ last \in 1..msize
    BY <1>0, Zenon DEF Trie, Arrays, Tree
  <2>. QED
    BY <2>1 DEF Nodes
<1> HIDE DEF g
<1>2. Append(u, c) \in Seq(Chars) /\ path[f] \in Seq(Chars) /\ path[g] \in Seq(Chars)
  BY <1>0, <1>1, DeepNodes
<1>3. Ends(path[g], Append(u, c))
  <2>1. CASE g = 0
    <3>1. path[g] = << >>
      BY <2>1 DEF Trie, Tree
    <3>. QED
      BY <3>1, <1>2, EndsEmpty
  <2>2. CASE g # 0
    <3>1. path[g] = Append(path[f], c)
      BY <2>2, <1>0, <1>1, Zenon DEF Trie, Tree, g
    <3>. QED
      BY <3>1, <1>0, <1>2, EndsAppend
  <2>. QED
    BY <2>1, <2>2
<1>4. ASSUME NEW m \in Nodes, Ends(path[m], Append(u, c))
      PROVE  Depth(m) <= Depth(g)
  <2>0. path[m] \in Seq(Chars) /\ Depth(m) \in Nat /\ Depth(g) \in Nat
    BY <1>1, DeepNodes
  <2>1. CASE m = 0
    <3>1. path[m] = << >>
      BY <2>1 DEF Trie, Tree
    <3>. QED
      BY <3>1, <2>0 DEF Depth
  <2>2. CASE m # 0
    <3>1. PICK p \in Nodes, d \in Chars : gotos[p][d] = m /\ path[m] = Append(path[p], d)
      BY <2>2, Parent
    <3>2. path[p] \in Seq(Chars) /\ Depth(p) \in Nat /\ Depth(f) \in Nat
      BY <1>0, DeepNodes
    <3>3. d = c /\ Ends(path[p], u)
      BY <3>1, <3>2, <1>4, EndsAppend
    <3>4. gotos[p][c] # -1
      <4>1. m # -1
        BY DEF Nodes
      <4>. QED
        BY <4>1, <3>1, <3>3
    <3>5. Depth(p) <= Depth(f)
      BY <3>3, <3>4, Zenon DEF LongestWith
    <3>6. Depth(m) = Depth(p) + 1
      BY <3>1, <3>2 DEF Depth
    <3>7. CASE g = 0
      <4>1. f = 0
        BY <3>7, <1>0, Zenon DEF Trie, Tree, g
      <4>2. Depth(f) = 0
        BY <4>1 DEF Depth, Trie, Tree
      <4>3. path[p] = << >>
        BY <4>2, <3>2, <3>5 DEF Depth
      <4>4. p = 0
        <5>1. path[p] = path[0]
          BY <4>3 DEF Trie, Tree
        <5>. QED
          BY <5>1, <1>0, Zenon DEF Trie, Arrays, Tree
      <4>. QED
        BY <4>1, <4>4, <3>1, <3>3, <3>7, <2>2 DEF g
    <3>8. CASE g # 0
      <4>1. path[g] = Append(path[f], c)
        BY <3>8, <1>0, <1>1, Zenon DEF Trie, Tree, g
      <4>2. Depth(g) = Depth(f) + 1
        BY <4>1, <1>2 DEF Depth
      <4>. QED
        BY <4>2, <3>2, <3>5, <3>6
    <3>. QED
      BY <3>7, <3>8
  <2>. QED
    BY <2>1, <2>2
<1>. QED
  BY <1>1, <1>3, <1>4 DEF Longest, g
-----------------------------------------------------------------------------
\* What the assumptions say of the words of the list.
LEMMA ListFacts ==
  ASSUME list \in Lists
  PROVE  /\ list \in Words /\ Len(list) \in Nat /\ DOMAIN list = 1..Len(list)
         /\ \A k \in 1..Len(list) :
               /\ Word(k) \in Seq(DOMAIN Fold) /\ Word(k) = list[k].word
               /\ Folded(Word(k)) \in Seq(Chars) /\ Len(Folded(Word(k))) = Len(Word(k))
               /\ DOMAIN Word(k) = 1..Len(Word(k))
               /\ \A j \in 1..Len(Word(k)) :
                     /\ Fold[Word(k)[j]] \in Chars
                     /\ Folded(Word(k))[j] = Fold[Word(k)[j]]
<1>1. list \in Words /\ Len(list) \in Nat /\ DOMAIN list = 1..Len(list)
  <2>1. list \in Words
    BY AhoAssumption, Zenon DEF Words
  <2>. QED
    BY <2>1 DEF Words
<1>2. ASSUME NEW k \in 1..Len(list)
      PROVE  /\ Word(k) \in Seq(DOMAIN Fold) /\ Word(k) = list[k].word
             /\ Folded(Word(k)) \in Seq(Chars) /\ Len(Folded(Word(k))) = Len(Word(k))
             /\ DOMAIN Word(k) = 1..Len(Word(k))
             /\ \A j \in 1..Len(Word(k)) :
                   /\ Fold[Word(k)[j]] \in Chars
                   /\ Folded(Word(k))[j] = Fold[Word(k)[j]]
  <2>1. Word(k) \in Seq(DOMAIN Fold) /\ Word(k) = list[k].word
    <3>1. list[k] \in [word : Seq(DOMAIN Fold), value : Int]
      BY <1>1, ElementOfSeq, Zenon DEF Words
    <3>. QED
      BY <3>1 DEF Word
  <2> DEFINE w == Word(k)
  <2> HIDE DEF w
  <2>2. w \in Seq(DOMAIN Fold)
    BY <2>1 DEF w
  <2>3. DOMAIN w = 1..Len(w) /\ Len(w) \in Nat /\ \A j \in 1..Len(w) : w[j] \in DOMAIN Fold
    BY <2>2
  <2>4. \A d \in DOMAIN Fold : Fold[d] \in Chars
    BY AhoAssumption
  <2>5. Folded(w) = [j \in 1..Len(w) |-> Fold[w[j]]]
    BY <2>3 DEF Folded
  <2>6. Folded(w) \in Seq(Chars) /\ Len(Folded(w)) = Len(w) /\ \A j \in 1..Len(w) : Folded(w)[j] = Fold[w[j]]
    BY <2>3, <2>4, <2>5
  <2>. QED
    BY <2>1, <2>3, <2>4, <2>6 DEF w
<1>. QED
  BY <1>1, <1>2

\* prepare allocates its arrays.
LEMMA AllocStep ==
  ASSUME BuildInv, Alloc
  PROVE  BuildInv'
<1> USE DEF Alloc, scan, visiting
<1>1. /\ list \in Lists /\ pc = "alloc" /\ msize = 0
      /\ last = 1 /\ at = <<1, 1, 0>> /\ queued = << >>
  BY DEF BuildInv, Fresh
<1>2. /\ list' = list /\ last' = 1 /\ at' = <<1, 1, 0>> /\ queued' = << >> /\ pc' = "add"
      /\ msize' = Size
  BY <1>1
<1>3. msize' \in Nat \ {0} /\ Sizes(list)[0] = 1
  BY <1>1, <1>2, ListFacts, SizesGrow DEF Size
<1>4. Nodes' = {0} /\ 0 \in 0..(msize' - 1)
  BY <1>2, <1>3 DEF Nodes
<1>5. Arrays'
  <2>1. msize' = Size'
    BY <1>2 DEF Size
  <2>2. << >> \in Seq(Chars) /\ -1 \in Int
    OBVIOUS
  <2>3. /\ gotos' \in [0..(msize' - 1) -> [Chars -> Int]]
        /\ failures' \in [0..(msize' - 1) -> Int]
        /\ path' \in [0..(msize' - 1) -> Seq(Chars)]
        /\ DOMAIN matches' = 0..(msize' - 1)
    BY <2>2
  <2>4. \A n \in last'..(msize' - 1) : matches'[n] = {} /\ \A c \in Chars : gotos'[n][c] = -1
    BY <1>2, <1>3
  <2>. QED
    BY <2>1, <2>3, <2>4, <1>2, <1>3 DEF Arrays
<1>6. Tree'
  BY <1>2, <1>4 DEF Tree
<1>7. Recorded'
  BY <1>2, <1>4 DEF Recorded
<1>8. FailuresRight'
  BY <1>4 DEF FailuresRight
<1>9. Adding'
  <2>1. ASSUME 1 <= Len(list)
        PROVE  /\ 1 \in 1..(Len(Word(1)) + 1) /\ SubSeq(Folded(Word(1)), 1, 0) = << >>
    BY <2>1, <1>1, ListFacts
  <2>2. Len(list) \in Nat /\ at'[1] = 1 /\ at'[2] = 1 /\ at'[3] = 0 /\ at' \in Nat \X Nat \X Nat
    BY <1>1, <1>2, ListFacts
  <2>3. \A n \in 0..(msize' - 1) : failures'[n] = -1 /\ \A c \in Chars : gotos'[n][c] # 0
    OBVIOUS
  <2>4. path'[0] = << >>
    BY <1>4
  <2>. QED
    BY <2>1, <2>2, <2>3, <2>4, <1>2, <1>3, <1>4 DEF Adding, Word
<1>. QED
  BY <1>1, <1>2, <1>3, <1>5, <1>6, <1>7, <1>8, <1>9 DEF BuildInv, Trie, Fresh, Building

\* prepare ends a word.
LEMMA AddEndStep ==
  ASSUME BuildInv, AddEnd
  PROVE  BuildInv'
<1> DEFINE k == at[1]
           r == at[3]
           w == Folded(Word(k))
<1>1. /\ pc = "add" /\ k <= Len(list) /\ at[2] > Len(Word(k))
      /\ matches' = [matches EXCEPT ![r] = @ \cup {Bit(k)}]
      /\ at' = <<k + 1, 1, 0>>
      /\ UNCHANGED <<list, msize, gotos, failures, last, queued, node, left, failure, path, pc>>
  BY DEF AddEnd, visiting
<1>2. list \in Lists /\ msize # 0 /\ Arrays /\ Tree /\ Recorded /\ Adding
  BY <1>1 DEF BuildInv, Building, Trie
<1>3. k \in 1..Len(list) /\ Len(list) \in Nat /\ DOMAIN list = 1..Len(list)
  BY <1>1, <1>2, ListFacts DEF Adding
<1>4. /\ at[2] \in 1..(Len(Word(k)) + 1) /\ r \in Nodes /\ path[r] = SubSeq(w, 1, at[2] - 1)
      /\ last <= Sizes(list)[k - 1] + at[2] - 1
  BY <1>1, <1>2 DEF Adding
<1>5. w \in Seq(Chars) /\ Len(w) = Len(Word(k)) /\ Len(w) \in Nat
  BY <1>2, <1>3, ListFacts
<1>6. path[r] = w /\ at[2] - 1 = Len(w)
  BY <1>4, <1>5, <1>1
<1>7. Nodes' = Nodes /\ msize \in Nat /\ last \in 1..msize /\ r \in 0..(msize - 1) /\ DOMAIN matches = 0..(msize - 1)
  <2>1. msize \in Nat /\ last \in 1..msize /\ DOMAIN matches = 0..(msize - 1)
    BY <1>2, Zenon DEF Trie, Arrays
  <2>2. r \in 0..(msize - 1)
    BY <2>1, <1>4 DEF Nodes
  <2>. QED
    BY <2>1, <2>2, <1>1 DEF Nodes
<1>8. Arrays'
  <2>1. Size' = Size
    BY <1>1 DEF Size
  <2>2. ASSUME NEW n \in last..(msize - 1) PROVE matches'[n] = {}
    <3>1. n # r /\ n \in 0..(msize - 1)
      BY <1>4, <1>7 DEF Nodes
    <3>. QED
      BY <3>1, <1>1, <1>2, <1>7 DEF Arrays
  <2>. QED
    BY <2>1, <2>2, <1>1, <1>2, <1>7 DEF Arrays
<1>9. Tree'
  BY <1>1, <1>2, <1>7 DEF Tree
<1>10. Recorded'
  <2>1. ASSUME NEW j \in 1..(at'[1] - 1)
        PROVE  \E n \in Nodes : path[n] = Folded(Word(j)) /\ Bit(j) \in matches'[n]
    <3>1. CASE j = k
      BY <3>1, <1>1, <1>4, <1>6, <1>7
    <3>2. CASE j # k
      <4>1. j \in 1..(k - 1)
        BY <3>2, <1>1, <1>3
      <4>2. PICK n \in Nodes : path[n] = Folded(Word(j)) /\ Bit(j) \in matches[n]
        BY <4>1, <1>2 DEF Recorded
      <4>3. n \in 0..(msize - 1)
        BY <1>7 DEF Nodes
      <4>. QED
        BY <4>2, <4>3, <1>1, <1>7
    <3>. QED
      BY <3>1, <3>2
  <2>2. ASSUME NEW n \in Nodes, NEW b \in matches'[n] \ EmptyBits
        PROVE  \E j \in DOMAIN list : Bit(j) = b /\ Ends(Folded(Word(j)), path[n])
    <3>0. n \in 0..(msize - 1)
      BY <1>7 DEF Nodes
    <3>1. CASE b \in matches[n]
      BY <3>1, <2>2, <1>2, Zenon DEF Recorded
    <3>2. CASE b \notin matches[n]
      <4>1. n = r /\ b = Bit(k)
        BY <3>0, <3>2, <2>2, <1>1, <1>7
      <4>2. Ends(w, path[r])
        BY <1>5, <1>6 DEF Ends
      <4>. QED
        BY <4>1, <4>2, <1>3
    <3>. QED
      BY <3>1, <3>2
  <2>3. EmptyBits' = EmptyBits
    BY <1>1 DEF EmptyBits, Word
  <2>. QED
    BY <2>1, <2>2, <2>3, <1>1, <1>7 DEF Recorded, Word
<1>11. FailuresRight'
  <2>1. \A n \in Nodes : failures[n] = -1
    BY <1>2, <1>7 DEF Adding, Nodes
  <2>. QED
    BY <2>1, <1>1, <1>7 DEF FailuresRight
<1>12. Adding'
  <2>1. /\ at'[1] = k + 1 /\ at'[2] = 1 /\ at'[3] = 0 /\ at' \in Nat \X Nat \X Nat
    BY <1>1, <1>3
  <2>2. 0 \in Nodes /\ path[0] = << >>
    BY <1>2, <1>7 DEF Tree, Nodes
  <2>3. last <= Sizes(list)[k]
    <3>1. Sizes(list)[k] = Sizes(list)[k - 1] + Len(Word(k))
      BY <1>2, <1>3, ListFacts, SizesGrow
    <3>. QED
      BY <3>1, <1>4, <1>5, <1>6
  <2>4. ASSUME k + 1 <= Len(list)
        PROVE  1 \in 1..(Len(Word(k + 1)) + 1) /\ SubSeq(Folded(Word(k + 1)), 1, 0) = << >>
               /\ Sizes(list)[k] \in Nat
    <3>1. k + 1 \in 1..Len(list) /\ k \in 0..Len(list)
      BY <2>4, <1>3
    <3>2. /\ Len(Word(k + 1)) \in Nat /\ Folded(Word(k + 1)) \in Seq(Chars)
          /\ Sizes(list)[k] \in Nat
      BY <3>1, <1>2, ListFacts, SizesGrow
    <3>. QED
      BY <3>2
  <2>5. at'[1] - 1 = k /\ at'[1] \in 1..(Len(list) + 1)
    BY <2>1, <1>3
  <2>6. \A j : Folded(Word(j))' = Folded(Word(j))
    BY <1>1 DEF Word, Folded
  <2>7. k + 1 <= Len(list) =>
          /\ at'[2] \in 1..(Len(Word(k + 1)) + 1)
          /\ at'[3] \in Nodes
          /\ path[at'[3]] = SubSeq(Folded(Word(k + 1)), 1, at'[2] - 1)
          /\ last <= Sizes(list)[at'[1] - 1] + at'[2] - 1
    <3> SUFFICES ASSUME k + 1 <= Len(list)
                 PROVE  /\ at'[2] \in 1..(Len(Word(k + 1)) + 1)
                        /\ at'[3] \in Nodes
                        /\ path[at'[3]] = SubSeq(Folded(Word(k + 1)), 1, at'[2] - 1)
                        /\ last <= Sizes(list)[at'[1] - 1] + at'[2] - 1
      OBVIOUS
    <3>. QED
      BY <2>1, <2>2, <2>3, <2>4, <2>5, <1>7
  <2> HIDE DEF k
  <2>8. (at[1] <= Len(list) =>
          /\ at[2] \in 1..(Len(Word(at[1])) + 1)
          /\ at[3] \in Nodes
          /\ path[at[3]] = SubSeq(Folded(Word(at[1])), 1, at[2] - 1)
          /\ last <= Sizes(list)[at[1] - 1] + at[2] - 1)'
    BY <2>1, <2>7, <1>1, <1>7 DEF Word, Folded
  <2>. QED
    BY <2>1, <2>5, <2>8, <1>1, <1>2 DEF Adding
<1>. QED
  BY <1>1, <1>2, <1>8, <1>9, <1>10, <1>11, <1>12 DEF BuildInv, Trie, Fresh, Building

\* prepare has a node to spare for the next character, and is about to follow
\* or make the right edge.
LEMMA AddCharFacts ==
  ASSUME BuildInv, AddChar
  PROVE  LET k == at[1]  j == at[2]  r == at[3]  c == Fold[Word(k)[j]]
         IN /\ list \in Lists /\ msize # 0 /\ Trie /\ Recorded /\ Adding
            /\ k \in 1..Len(list) /\ j \in 1..Len(Word(k)) /\ r \in Nodes /\ c \in Chars
            /\ Folded(Word(k)) \in Seq(Chars) /\ Len(Folded(Word(k))) = Len(Word(k))
            /\ Append(path[r], c) = SubSeq(Folded(Word(k)), 1, j)
            /\ last < msize /\ last + 1 <= Sizes(list)[k - 1] + j
            /\ Len(Word(k)) \in Nat /\ Len(list) \in Nat /\ Sizes(list)[k - 1] \in Nat
            /\ gotos[r][c] # 0
<1> DEFINE k == at[1]
           j == at[2]
           r == at[3]
           w == Folded(Word(k))
           c == Fold[Word(k)[j]]
<1>1. pc = "add" /\ k <= Len(list) /\ j <= Len(Word(k))
  BY DEF AddChar
<1>2. list \in Lists /\ msize # 0 /\ Trie /\ Arrays /\ Tree /\ Recorded /\ Adding
  BY <1>1 DEF BuildInv, Building, Trie
<1>3. k \in 1..Len(list) /\ Len(list) \in Nat
  BY <1>1, <1>2, ListFacts DEF Adding
<1>4. w \in Seq(Chars) /\ Len(w) = Len(Word(k)) /\ Len(w) \in Nat
  BY <1>2, <1>3, ListFacts
<1>5. j \in 1..Len(w) /\ r \in Nodes /\ path[r] = SubSeq(w, 1, j - 1) /\ last <= Sizes(list)[k - 1] + j - 1
  BY <1>1, <1>2, <1>4 DEF Adding
<1>6. w[j] = c /\ c \in Chars
  BY <1>2, <1>3, <1>4, <1>5, ListFacts
<1>7. Append(path[r], c) = SubSeq(w, 1, j)
  <2> HIDE DEF w, j, c
  <2>1. SubSeq(w, 1, j) = Append(SubSeq(w, 1, j - 1), w[j])
    BY <1>4, <1>5, SubSeqRecursiveSecond, SubSeqProperties
  <2>. QED
    BY <2>1, <1>5, <1>6
<1>8. /\ Sizes(list)[k] = Sizes(list)[k - 1] + Len(w) /\ Sizes(list)[k - 1] \in Nat
      /\ Sizes(list)[k] <= msize /\ msize \in Nat /\ last \in Nat
  <2>1. k - 1 \in 0..Len(list) /\ k \in 0..Len(list)
    BY <1>3
  <2>2. list \in Words /\ Word(k) = list[k].word
    BY <1>2, <1>3, ListFacts
  <2>. QED
    BY <2>1, <2>2, <1>2, <1>3, <1>4, SizesGrow DEF Arrays, Size
<1>9. last < msize /\ last + 1 <= Sizes(list)[k - 1] + j
  <2> HIDE DEF w, j, k
  <2>. QED
    BY <1>4, <1>5, <1>8
<1>10. gotos[r][c] # 0
  <2>1. \A n \in 0..(msize - 1) : \A d \in Chars : gotos[n][d] # 0
    BY <1>2, Zenon DEF Adding
  <2>2. r \in 0..(msize - 1)
    BY <1>2, <1>5 DEF Trie, Arrays, Nodes
  <2>. QED
    BY <2>1, <2>2, <1>6, Zenon
<1>. QED
  BY <1>2, <1>3, <1>4, <1>5, <1>6, <1>7, <1>8, <1>9, <1>10

\* prepare adds a character to the tree.
LEMMA AddCharStep ==
  ASSUME BuildInv, AddChar
  PROVE  BuildInv'
<1> DEFINE k == at[1]
           j == at[2]
           r == at[3]
           w == Folded(Word(k))
           c == Fold[Word(k)[j]]
           g == gotos[r][c]
<1>1. /\ pc = "add" /\ at' = <<k, j + 1, gotos'[r][c]>>
      /\ UNCHANGED <<list, msize, failures, matches, queued, node, left, failure, pc>>
      /\ \/ /\ g = -1
            /\ gotos' = [gotos EXCEPT ![r][c] = last]
            /\ path' = [path EXCEPT ![last] = Append(path[r], c)]
            /\ last' = last + 1
         \/ g # -1 /\ UNCHANGED <<gotos, path, last>>
  BY DEF AddChar, visiting
<1>2. list \in Lists /\ msize # 0 /\ Trie /\ Recorded /\ Adding
  BY AddCharFacts
<1>e. r \in Nodes /\ c \in Chars /\ g # 0
  BY AddCharFacts
<1>w. Append(path[r], c) = SubSeq(w, 1, j)
  BY AddCharFacts
<1>n. /\ k \in 1..Len(list) /\ j \in 1..Len(Word(k)) /\ Len(list) \in Nat /\ Len(Word(k)) \in Nat
      /\ last < msize /\ last + 1 <= Sizes(list)[k - 1] + j /\ Sizes(list)[k - 1] \in Nat
  BY AddCharFacts
<1> HIDE DEF k, j, r, w, c
<1>3. /\ msize \in Nat /\ last \in 1..msize /\ last \in 0..(msize - 1) /\ r \in 0..(msize - 1)
      /\ gotos \in [0..(msize - 1) -> [Chars -> Int]]
      /\ path \in [0..(msize - 1) -> Seq(Chars)]
      /\ path[r] \in Seq(Chars)
  <2>1. /\ msize \in Nat /\ last \in 1..msize
        /\ gotos \in [0..(msize - 1) -> [Chars -> Int]]
        /\ path \in [0..(msize - 1) -> Seq(Chars)]
    BY <1>2 DEF Trie, Arrays
  <2>2. r \in 0..(msize - 1) /\ last \in 0..(msize - 1)
    BY <2>1, <1>e, <1>n DEF Nodes
  <2>. QED
    BY <2>1, <2>2
<1>i. msize \in Nat /\ last \in 1..msize /\ last \in 0..(msize - 1)
  BY <1>3
<1>p. path[r] \in Seq(Chars) /\ c \in Chars
  BY <1>3, <1>e
<1> DEFINE Follows == /\ last' \in 1..msize /\ last' <= Sizes(list)[k - 1] + j
                      /\ gotos'[r][c] \in Nodes'
                      /\ path'[gotos'[r][c]] = SubSeq(w, 1, j)
                      /\ \A n \in 0..(msize - 1), d \in Chars : gotos'[n][d] # 0
<1>4. ASSUME g = -1 PROVE Arrays' /\ Tree' /\ Recorded' /\ Follows
  <2>1. /\ gotos' = [gotos EXCEPT ![r][c] = last]
        /\ path' = [path EXCEPT ![last] = Append(path[r], c)]
        /\ last' = last + 1
    BY <1>1, <1>4
  <2>2. Nodes' = Nodes \cup {last} /\ last \notin Nodes /\ 0 \in Nodes /\ last' \in 1..msize /\ last > 0
    BY <2>1, <1>3 DEF Nodes
  <2>3. /\ gotos' \in [0..(msize - 1) -> [Chars -> Int]]
        /\ path' \in [0..(msize - 1) -> Seq(Chars)]
        /\ \A n \in 0..(msize - 1), d \in Chars :
              gotos'[n][d] = IF n = r /\ d = c THEN last ELSE gotos[n][d]
        /\ \A n \in 0..(msize - 1) : path'[n] = IF n = last THEN Append(path[r], c) ELSE path[n]
    <3>1. Append(path[r], c) \in Seq(Chars)
      BY <1>e, <1>3
    <3>. QED
      BY <3>1, <2>1, <1>e, <1>3
  <2>4. Nodes \subseteq 0..(msize - 1) /\ Nodes' \subseteq 0..(msize - 1)
    <3>1. \A n \in Nodes : n \in 0..(msize - 1)
      BY <1>i DEF Nodes
    <3>. QED
      BY <3>1, <2>2, <1>i
  <2>5. Arrays'
    <3>1. Size' = Size
      BY <1>1 DEF Size
    <3>2. ASSUME NEW n \in last'..(msize - 1)
          PROVE  matches'[n] = {} /\ \A d \in Chars : gotos'[n][d] = -1
      <4>1. n \in 0..(msize - 1) /\ n \in last..(msize - 1) /\ n # r
        BY <2>1, <1>e, <1>3 DEF Nodes
      <4>2. matches[n] = {} /\ \A d \in Chars : gotos[n][d] = -1
        BY <4>1, <1>2 DEF Trie, Arrays
      <4>. QED
        BY <4>1, <4>2, <2>3, <1>1
    <3>. QED
      BY <3>1, <3>2, <2>2, <2>3, <1>1, <1>2, <1>3 DEF Trie, Arrays
  <2>6. ASSUME NEW n \in Nodes PROVE path'[n] = path[n]
    BY <2>2, <2>3, <2>4
  <2>7. ASSUME NEW m \in Nodes PROVE path[m] # Append(path[r], c)
    <3> SUFFICES ASSUME path[m] = Append(path[r], c) PROVE FALSE
      OBVIOUS
    <3>1. m # 0
      <4>1. Append(path[r], c) # << >>
        BY <1>p
      <4>. QED
        BY <4>1, <1>2 DEF Trie, Tree
    <3>2. PICK p \in Nodes, d \in Chars : gotos[p][d] = m /\ path[m] = Append(path[p], d)
      BY <3>1, <1>2, Parent
    <3>3. path[p] \in Seq(Chars)
      BY <2>4, <1>3
    <3>4. path[p] = path[r] /\ d = c
      <4>1. Append(path[p], d) = Append(path[r], c)
        BY <3>2
      <4>. QED
        <5> DEFINE sp == path[p]
                   sr == path[r]
        <5> HIDE DEF sp, sr
        <5>1. sp \in Seq(Chars) /\ sr \in Seq(Chars) /\ c \in Chars /\ Append(sp, d) = Append(sr, c)
          BY <4>1, <3>3, <1>p DEF sp, sr
        <5>2. sp = sr /\ d = c
          BY <5>1, AppendSame
        <5>. QED
          BY <5>2 DEF sp, sr
    <3>5. p = r
      BY <3>4, <1>2, <1>e, Zenon DEF Trie, Tree
    <3>6. m = -1
      BY <3>2, <3>4, <3>5, <1>4
    <3>. QED
      BY <3>6 DEF Nodes
  <2>8. ASSUME NEW n \in Nodes', NEW d \in Chars
        PROVE  /\ gotos'[n][d] \in -1..(last' - 1)
               /\ gotos'[n][d] > 0 => path'[gotos'[n][d]] = Append(path'[n], d)
               /\ gotos'[n][d] = 0 => n = 0
    <3>1. CASE n = r /\ d = c
      BY <3>1, <2>1, <2>2, <2>3, <2>6, <1>e, <1>3
    <3>2. CASE n = last
      <4>1. gotos[n][d] = -1 /\ gotos'[n][d] = -1
        <5>1. n \in last..(msize - 1) /\ n \in 0..(msize - 1) /\ n # r
          BY <3>2, <2>2, <1>e, <1>3
        <5>2. gotos[n][d] = -1
          BY <5>1, <1>2, Zenon DEF Trie, Arrays
        <5>. QED
          BY <5>1, <5>2, <2>3
      <4>. QED
        BY <4>1, <2>1, <1>3
    <3>3. CASE n # last /\ ~(n = r /\ d = c)
      <4>1. n \in Nodes /\ gotos'[n][d] = gotos[n][d] /\ path'[n] = path[n]
        BY <3>3, <2>2, <2>3, <2>4, <2>6
      <4>2. /\ gotos[n][d] \in -1..(last - 1)
            /\ gotos[n][d] > 0 => path[gotos[n][d]] = Append(path[n], d)
            /\ gotos[n][d] = 0 => n = 0
        BY <4>1, <1>2, Zenon DEF Trie, Tree
      <4>3. gotos[n][d] > 0 => gotos[n][d] \in Nodes
        <5>1. PICK x : x = gotos[n][d]
          OBVIOUS
        <5>2. x \in -1..(last - 1) /\ last \in Int
          BY <5>1, <4>2, <1>i
        <5>3. x > 0 => x \in Nodes
          BY <5>2 DEF Nodes
        <5>. QED
          BY <5>1, <5>3
      <4>4. gotos[n][d] > 0 => path'[gotos[n][d]] = path[gotos[n][d]]
        BY <4>3, <2>6
      <4>. QED
        BY <4>1, <4>2, <4>4, <2>1, <1>i
    <3>. QED
      BY <3>1, <3>2, <3>3
  <2>9. ASSUME NEW m \in Nodes', NEW n \in Nodes', path'[m] = path'[n] PROVE m = n
    <3>1. CASE m = last /\ n = last
      BY <3>1
    <3>2. CASE m = last /\ n # last
      BY <3>2, <2>2, <2>3, <2>4, <2>6, <2>7, <2>9
    <3>3. CASE m # last /\ n = last
      BY <3>3, <2>2, <2>3, <2>4, <2>6, <2>7, <2>9
    <3>4. CASE m # last /\ n # last
      <4>1. m \in Nodes /\ n \in Nodes /\ path[m] = path[n]
        BY <3>4, <2>2, <2>6, <2>9
      <4>. QED
        BY <4>1, <1>2, Zenon DEF Trie, Tree
    <3>. QED
      BY <3>1, <3>2, <3>3, <3>4
  <2>10. ASSUME NEW n \in Nodes' \ {0} PROVE \E m \in Nodes', d \in Chars : gotos'[m][d] = n
    <3>1. CASE n = last
      BY <3>1, <2>2, <2>3, <1>e, <1>3
    <3>2. CASE n # last
      <4>1. n \in Nodes \ {0}
        BY <3>2, <2>2
      <4>2. PICK m \in Nodes, d \in Chars : gotos[m][d] = n
        BY <4>1, <1>2, Zenon DEF Trie, Tree
      <4>3. n # -1
        BY <4>1 DEF Nodes
      <4>4. ~(m = r /\ d = c)
        BY <4>2, <4>3, <1>4
      <4>5. gotos'[m][d] = n
        BY <4>2, <4>4, <2>3, <2>4
      <4>. QED
        BY <4>5, <2>2
    <3>. QED
      BY <3>1, <3>2
  <2>11. Tree'
    <3>1. path'[0] = << >> /\ failures'[0] = -1
      BY <2>2, <2>6, <1>1, <1>2 DEF Trie, Tree
    <3>. QED
      BY <3>1, <2>8, <2>9, <2>10 DEF Tree
  <2>12. Recorded'
    <3>1. EmptyBits' = EmptyBits
      BY <1>1 DEF EmptyBits, Word
    <3>2. ASSUME NEW h \in 1..(at[1] - 1)
          PROVE  \E n \in Nodes' : path'[n] = Folded(Word(h)) /\ Bit(h) \in matches[n]
      <4>1. PICK n \in Nodes : path[n] = Folded(Word(h)) /\ Bit(h) \in matches[n]
        BY <1>2 DEF Recorded
      <4>. QED
        BY <4>1, <2>2, <2>6
    <3>3. ASSUME NEW n \in Nodes', NEW b \in matches[n] \ EmptyBits
          PROVE  \E h \in DOMAIN list : Bit(h) = b /\ Ends(Folded(Word(h)), path'[n])
      <4>1. n # last
        <5>1. matches[last] = {}
          BY <1>2, <1>3 DEF Trie, Arrays
        <5>. QED
          BY <5>1
      <4>2. n \in Nodes /\ path'[n] = path[n]
        BY <4>1, <2>2, <2>6
      <4>. QED
        BY <4>2, <3>3, <1>2, Zenon DEF Recorded
    <3>4. at'[1] = at[1]
      BY <1>1 DEF k
    <3>. QED
      BY <3>1, <3>2, <3>3, <3>4, <1>1 DEF Recorded, Word
  <2>13. Follows
    <3>1. gotos'[r][c] = last /\ path'[last] = Append(path[r], c)
      BY <2>3, <1>e, <1>3
    <3>2. \A n \in 0..(msize - 1), d \in Chars : gotos'[n][d] # 0
      <4>1. \A n \in 0..(msize - 1), d \in Chars : gotos[n][d] # 0
        BY <1>2 DEF Adding
      <4>. QED
        BY <4>1, <2>2, <2>3
    <3>. QED
      BY <3>1, <3>2, <2>1, <2>2, <1>w, <1>n
  <2>. QED
    BY <2>5, <2>11, <2>12, <2>13
<1>5. ASSUME g # -1 PROVE Arrays' /\ Tree' /\ Recorded' /\ Follows
  <2>1. UNCHANGED <<gotos, path, last>>
    BY <1>1, <1>5
  <2>2. Nodes' = Nodes
    BY <2>1 DEF Nodes
  <2>3. Arrays'
    BY <2>1, <1>1, <1>2 DEF Trie, Arrays, Size
  <2>4. Tree'
    BY <2>1, <2>2, <1>1, <1>2 DEF Trie, Tree
  <2>5. Recorded'
    <3>1. EmptyBits' = EmptyBits
      BY <1>1 DEF EmptyBits, Word
    <3>2. at'[1] = at[1]
      BY <1>1 DEF k
    <3>. QED
      BY <3>1, <3>2, <2>1, <2>2, <1>1, <1>2 DEF Recorded, Word
  <2>6. Follows
    <3>1. g \in -1..(last - 1)
      BY <1>2, <1>e, Zenon DEF Trie, Tree
    <3>2. g > 0 /\ g \in Nodes
      <4> HIDE DEF g
      <4>. QED
        BY <3>1, <1>e, <1>i, <1>5 DEF Nodes
    <3>3. path[g] = Append(path[r], c)
      BY <3>2, <1>2, <1>e, Zenon DEF Trie, Tree
    <3>4. \A n \in 0..(msize - 1), d \in Chars : gotos[n][d] # 0
      BY <1>2 DEF Adding
    <3>5. last \in 1..msize /\ last <= Sizes(list)[k - 1] + j
      BY <1>n, <1>3
    <3>. QED
      BY <3>2, <3>3, <3>4, <3>5, <2>1, <2>2, <1>w
  <2>. QED
    BY <2>3, <2>4, <2>5, <2>6
<1>6. Arrays' /\ Tree' /\ Recorded' /\ Follows
  BY <1>4, <1>5
<1>7. FailuresRight'
  <2>1. \A n \in Nodes' : failures'[n] = -1
    <3>1. Nodes' \subseteq 0..(msize - 1)
      <4>1. last' \in 1..msize
        BY <1>6, Zenon
      <4>2. PICK x : x = last'
        OBVIOUS
      <4>3. x \in 1..msize /\ Nodes' = 0..(x - 1)
        BY <4>1, <4>2 DEF Nodes
      <4>4. 0..(x - 1) \subseteq 0..(msize - 1)
        BY <4>3, <1>i
      <4>. QED
        BY <4>3, <4>4
    <3>. QED
      BY <3>1, <1>1, <1>2 DEF Adding
  <2>. QED
    BY <2>1 DEF FailuresRight
<1>8. Adding'
  <2>1. at'[1] = k /\ at'[2] = j + 1 /\ at'[3] = gotos'[r][c] /\ at'[2] - 1 = j
    BY <1>1, <1>n
  <2>2. at' \in Nat \X Nat \X Nat /\ at'[1] \in 1..(Len(list) + 1)
    <3>1. gotos'[r][c] \in Nat /\ k \in Nat /\ j + 1 \in Nat
      BY <1>n, <1>6 DEF Nodes
    <3>. QED
      BY <3>1, <2>1, <1>1, <1>n
  <2>3. j + 1 \in 1..(Len(Word(k)) + 1)
    BY <1>n
  <2>4. (at[1] <= Len(list) =>
          /\ at[2] \in 1..(Len(Word(at[1])) + 1)
          /\ at[3] \in Nodes
          /\ path[at[3]] = SubSeq(Folded(Word(at[1])), 1, at[2] - 1)
          /\ last <= Sizes(list)[at[1] - 1] + at[2] - 1)'
    <3>1. last' <= Sizes(list)[k - 1] + (j + 1) - 1
      BY <1>n, <1>6
    <3>. QED
      BY <3>1, <2>1, <2>3, <1>1, <1>6 DEF Word, w
  <2>5. (\A n \in 0..(msize - 1) : failures[n] = -1 /\ \A d \in Chars : gotos[n][d] # 0)'
    BY <1>1, <1>2, <1>6 DEF Adding
  <2>6. queued' = << >>
    BY <1>1, <1>2 DEF Adding
  <2>. QED
    BY <2>2, <2>4, <2>5, <2>6, <1>1 DEF Adding
<1>. QED
  BY <1>1, <1>2, <1>6, <1>7, <1>8 DEF BuildInv, Trie, Fresh, Building

\* The loops over characters have a next one.
LEMMA NextCh ==
  ASSUME left \subseteq Chars, left # {}
  PROVE  Ch \in left
<1>1. left \in SUBSET Nat
  BY AhoAssumption
<1>2. \E c \in left : \A d \in left : c <= d
  BY <1>1, LeastNumber
<1>. QED
  BY <1>2 DEF Ch

\* prepare gives the root its edges.
LEMMA RootStep ==
  ASSUME BuildInv, Root
  PROVE  BuildInv'
<1>1. /\ pc = "add" /\ at[1] > Len(list) /\ pc' = "root"
      /\ gotos' = [gotos EXCEPT ![0] = [c \in Chars |-> IF @[c] = -1 THEN 0 ELSE @[c]]]
      /\ node' = 0 /\ left' = {c \in Chars : gotos'[0][c] # 0}
      /\ UNCHANGED <<list, msize, failures, matches, last, at, queued, path>>
  BY DEF Root
<1>2. list \in Lists /\ msize # 0 /\ Arrays /\ Tree /\ Trie /\ Recorded /\ Adding
  BY <1>1 DEF BuildInv, Building, Trie
<1>3. /\ msize \in Nat /\ last \in 1..msize /\ 0 \in 0..(msize - 1) /\ 0 \in Nodes
      /\ Nodes' = Nodes /\ Nodes \subseteq 0..(msize - 1)
  <2>1. msize \in Nat /\ last \in 1..msize
    BY <1>2 DEF Arrays
  <2>. QED
    BY <2>1, <1>1 DEF Nodes
<1>4. /\ gotos' \in [0..(msize - 1) -> [Chars -> Int]]
      /\ \A n \in 0..(msize - 1), c \in Chars :
            gotos'[n][c] = IF n = 0 /\ gotos[n][c] = -1 THEN 0 ELSE gotos[n][c]
  <2>1. gotos \in [0..(msize - 1) -> [Chars -> Int]]
    BY <1>2 DEF Arrays
  <2>. QED
    BY <2>1, <1>1, <1>3
<1>5. Arrays'
  <2>1. Size' = Size
    BY <1>1 DEF Size
  <2>2. ASSUME NEW n \in last..(msize - 1), NEW c \in Chars PROVE gotos'[n][c] = -1
    <3>1. n \in 0..(msize - 1) /\ n # 0
      BY <1>3
    <3>2. gotos[n][c] = -1
      BY <1>2, Zenon DEF Arrays
    <3>. QED
      BY <3>1, <3>2, <1>4
  <2>. QED
    BY <2>1, <2>2, <1>1, <1>2, <1>4 DEF Arrays
<1>6. Tree'
  <2>1. ASSUME NEW n \in Nodes, NEW c \in Chars
        PROVE  /\ gotos'[n][c] \in -1..(last - 1)
               /\ gotos'[n][c] > 0 => path[gotos'[n][c]] = Append(path[n], c)
               /\ gotos'[n][c] = 0 => n = 0
    <3>1. /\ gotos[n][c] \in -1..(last - 1)
          /\ gotos[n][c] > 0 => path[gotos[n][c]] = Append(path[n], c)
          /\ gotos[n][c] = 0 => n = 0
      BY <1>2, Zenon DEF Tree
    <3>2. gotos'[n][c] = IF n = 0 /\ gotos[n][c] = -1 THEN 0 ELSE gotos[n][c]
      BY <1>3, <1>4
    <3>. QED
      BY <3>1, <3>2, <1>3
  <2>2. ASSUME NEW n \in Nodes \ {0} PROVE \E m \in Nodes, c \in Chars : gotos'[m][c] = n
    <3>1. PICK m \in Nodes, c \in Chars : gotos[m][c] = n
      BY <1>2, Zenon DEF Tree
    <3>2. n # -1
      BY DEF Nodes
    <3>. QED
      BY <3>1, <3>2, <1>3, <1>4
  <2>. QED
    BY <2>1, <2>2, <1>1, <1>2, <1>3 DEF Tree
<1>7. Recorded'
  <2>1. EmptyBits' = EmptyBits
    BY <1>1 DEF EmptyBits, Word
  <2>. QED
    BY <2>1, <1>1, <1>2, <1>3 DEF Recorded, Word
<1>8. \A n \in Nodes : failures'[n] = -1
  BY <1>1, <1>2, <1>3 DEF Adding
<1>9. FailuresRight'
  BY <1>3, <1>8 DEF FailuresRight
<1>10. Rooted'
  <2>1. at[1] = Len(list) + 1
    BY <1>1, <1>2, ListFacts DEF Adding
  <2>. QED
    BY <2>1, <1>1, <1>3, <1>4 DEF Rooted
<1>11. Queue'
  <2>1. queued' = << >>
    BY <1>1, <1>2 DEF Adding
  <2>. QED
    BY <2>1 DEF Queue
<1>12. Frontier'
  <2>1. ASSUME NEW c \in left' PROVE gotos'[0][c] > 0
    <3>1. c \in Chars /\ gotos'[0][c] # 0
      BY <1>1
    <3>2. gotos[0][c] \in -1..(last - 1)
      BY <3>1, <1>2, <1>3, Zenon DEF Tree
    <3>. QED
      BY <3>1, <3>2, <1>3, <1>4
  <2>2. ASSUME NEW n \in Nodes \ {0} PROVE Depth(n)' > Depth(0)'
    <3>1. Depth(n) > 0 /\ Depth(n) \in Nat
      BY <1>2, DeepNodes
    <3>2. path[0] = << >>
      BY <1>2 DEF Tree
    <3>. QED
      BY <3>1, <3>2, <1>1 DEF Depth
  <2>3. ASSUME NEW p \in Nodes, NEW c \in Chars, gotos'[p][c] > 0
        PROVE  \/ p # 0 /\ failures'[p] = -1
               \/ p = 0 /\ c \in left'
    <3>1. CASE p = 0
      BY <3>1, <2>3, <1>1
    <3>2. CASE p # 0
      BY <3>2, <1>8
    <3>. QED
      BY <3>1, <3>2
  <2>4. left' \subseteq Chars
    BY <1>1
  <2>. QED
    BY <2>1, <2>2, <2>3, <2>4, <1>1, <1>3 DEF Frontier, Depth
<1>13. Visiting'
  BY <1>1 DEF Visiting
<1>. QED
  BY <1>1, <1>2, <1>5, <1>6, <1>7, <1>9, <1>10, <1>11, <1>12, <1>13 DEF BuildInv, Trie, Fresh, Building

\* A child of the node visited gets its failure node f and is queued.
LEMMA ChildStep ==
  ASSUME Trie, Recorded, FailuresRight, Rooted, Queue, Frontier, list \in Lists,
         NEW c \in left, NEW f \in Nodes,
         failures' = [failures EXCEPT ![gotos[node][c]] = f],
         queued' = Append(queued, gotos[node][c]), left' = left \ {c},
         UNCHANGED <<list, msize, gotos, last, at, node, path>>,
         DOMAIN matches' = DOMAIN matches,
         \A n \in DOMAIN matches : n # gotos[node][c] => matches'[n] = matches[n],
         matches[gotos[node][c]] \subseteq matches'[gotos[node][c]],
         \A b \in matches'[gotos[node][c]] \ EmptyBits :
             \E k \in DOMAIN list : Bit(k) = b /\ Ends(Folded(Word(k)), path[gotos[node][c]]),
         Right(gotos[node][c])'
  PROVE  Trie' /\ Recorded' /\ FailuresRight' /\ Rooted' /\ Queue' /\ Frontier'
<1> DEFINE s == gotos[node][c]
<1>1. /\ msize \in Nat /\ last \in 1..msize /\ Nodes' = Nodes /\ Nodes \subseteq 0..(msize - 1)
      /\ 0 \in Nodes /\ DOMAIN matches = 0..(msize - 1)
  <2>1. msize \in Nat /\ last \in 1..msize /\ DOMAIN matches = 0..(msize - 1)
    BY DEF Trie, Arrays
  <2>. QED
    BY <2>1 DEF Nodes
<1>2. node \in Nodes /\ c \in Chars /\ s > 0
  BY DEF Frontier
<1>3. s \in Nodes \ {0} /\ path[s] = Append(path[node], c)
  <2>1. s \in -1..(last - 1) /\ path[s] = Append(path[node], c)
    BY <1>2, Zenon DEF Trie, Tree
  <2>. QED
    BY <2>1, <1>1, <1>2 DEF Nodes
<1> HIDE DEF s
<1>4. \A n \in Nodes : failures'[n] = IF n = s THEN f ELSE failures[n]
  <2>1. failures \in [0..(msize - 1) -> Int]
    BY DEF Trie, Arrays
  <2>. QED
    BY <2>1, <1>1, <1>3 DEF s
<1>5. failures' \in [0..(msize - 1) -> Int] /\ f # -1
  <2>1. failures \in [0..(msize - 1) -> Int]
    BY DEF Trie, Arrays
  <2>2. f \in Int /\ f # -1
    BY DEF Nodes
  <2>. QED
    BY <2>1, <2>2, <1>1
<1>6. \A n \in Nodes : matches[n] \subseteq matches'[n]
  BY <1>1, <1>3 DEF s
<1>7. Arrays'
  <2>1. Size' = Size
    BY DEF Size
  <2>2. ASSUME NEW n \in last..(msize - 1) PROVE matches'[n] = {}
    <3>1. n # s /\ n \in 0..(msize - 1)
      BY <1>1, <1>3 DEF Nodes
    <3>2. matches[n] = {}
      BY DEF Trie, Arrays
    <3>. QED
      BY <3>1, <3>2, <1>1 DEF s
  <2>. QED
    BY <2>1, <2>2, <1>5 DEF Trie, Arrays
<1>8. Tree'
  <2>1. failures'[0] = -1
    BY <1>1, <1>3, <1>4 DEF Trie, Tree
  <2>. QED
    BY <2>1, <1>1 DEF Trie, Tree
<1>9. Recorded'
  <2>1. EmptyBits' = EmptyBits
    BY DEF EmptyBits, Word
  <2>2. ASSUME NEW k \in 1..(at[1] - 1)
        PROVE  \E n \in Nodes : path[n] = Folded(Word(k)) /\ Bit(k) \in matches'[n]
    <3>1. PICK n \in Nodes : path[n] = Folded(Word(k)) /\ Bit(k) \in matches[n]
      BY DEF Recorded
    <3>. QED
      BY <3>1, <1>6
  <2>3. ASSUME NEW n \in Nodes, NEW b \in matches'[n] \ EmptyBits
        PROVE  \E k \in DOMAIN list : Bit(k) = b /\ Ends(Folded(Word(k)), path[n])
    <3>1. CASE n = s
      BY <3>1, <2>3, Zenon DEF s
    <3>2. CASE n # s
      <4>1. matches'[n] = matches[n]
        BY <3>2, <1>1 DEF s
      <4>. QED
        BY <4>1, <2>3, Zenon DEF Recorded
    <3>. QED
      BY <3>1, <3>2
  <2>. QED
    BY <2>1, <2>2, <2>3, <1>1 DEF Recorded, Word
<1>10. FailuresRight'
  <2> SUFFICES ASSUME NEW n \in Nodes \ {0}, failures'[n] # -1 PROVE Right(n)'
    BY <1>1 DEF FailuresRight
  <2>1. CASE n = s
    BY <2>1 DEF s
  <2>2. CASE n # s
    <3>1. failures'[n] = failures[n] /\ matches'[n] = matches[n]
      BY <2>2, <1>1, <1>4 DEF s
    <3>2. Right(n)
      BY <3>1 DEF FailuresRight
    <3>. QED
      BY <3>1, <3>2, <1>1 DEF Right, Longest, Depth, Word
  <2>. QED
    BY <2>1, <2>2
<1>11. Rooted'
  BY DEF Rooted
<1>12. Depth(s) = Depth(node) + 1 /\ Depth(node) \in Nat
  <2>1. path[node] \in Seq(Chars) /\ Depth(node) \in Nat
    BY <1>2, DeepNodes
  <2>. QED
    BY <2>1, <1>2, <1>3 DEF Depth
<1>13. Queue'
  <2>0. queued \in Seq(Nodes \ {0}) /\ queued' = Append(queued, s) /\ Len(queued) \in Nat
    BY DEF Queue, s
  <2>1. /\ queued' \in Seq(Nodes \ {0}) /\ Len(queued') = Len(queued) + 1
        /\ \A a \in 1..Len(queued) : queued'[a] = queued[a] /\ queued[a] \in Nodes
        /\ queued'[Len(queued) + 1] = s
    BY <2>0, <1>3
  <2>2. ASSUME NEW a \in 1..Len(queued')
        PROVE  /\ failures'[queued'[a]] # -1
               /\ Depth(node) <= Depth(queued'[a])
               /\ Depth(queued'[a]) <= Depth(node) + 1
    <3>1. CASE a = Len(queued) + 1
      BY <3>1, <2>1, <1>3, <1>4, <1>5, <1>12
    <3>2. CASE a # Len(queued) + 1
      <4>1. a \in 1..Len(queued)
        BY <3>2, <2>0, <2>1
      <4>2. /\ failures[queued[a]] # -1
            /\ Depth(node) <= Depth(queued[a])
            /\ Depth(queued[a]) <= Depth(node) + 1
        BY <4>1 DEF Queue
      <4>. QED
        BY <4>1, <4>2, <2>1, <1>4, <1>5
    <3>. QED
      BY <3>1, <3>2
  <2>3. ASSUME NEW a \in 1..Len(queued'), NEW b \in 1..Len(queued'), a <= b
        PROVE  Depth(queued'[a]) <= Depth(queued'[b])
    <3>1. CASE b = Len(queued) + 1
      BY <3>1, <2>1, <2>2, <1>12
    <3>2. CASE b # Len(queued) + 1
      <4>1. a \in 1..Len(queued) /\ b \in 1..Len(queued)
        BY <3>2, <2>0, <2>1, <2>3
      <4>. QED
        BY <4>1, <2>1, <2>3 DEF Queue
    <3>. QED
      BY <3>1, <3>2
  <2>. QED
    BY <2>1, <2>2, <2>3, <1>1 DEF Queue, Depth
<1>14. Frontier'
  <2>1. left' \subseteq Chars /\ \A d \in left' : gotos[node][d] > 0
    BY DEF Frontier
  <2>2. ASSUME NEW n \in Nodes \ {0}, failures'[n] = -1 PROVE Depth(n) > Depth(node)
    <3>1. failures[n] = -1
      BY <2>2, <1>4, <1>5
    <3>. QED
      BY <3>1 DEF Frontier
  <2>3. ASSUME NEW p \in Nodes, NEW d \in Chars, gotos[p][d] > 0, failures'[gotos[p][d]] = -1
        PROVE  \/ p # 0 /\ failures'[p] = -1
               \/ \E a \in 1..Len(queued') : queued'[a] = p
               \/ p = node /\ d \in left'
    <3>1. gotos[p][d] \in Nodes
      <4>1. gotos[p][d] \in -1..(last - 1)
        BY Zenon DEF Trie, Tree
      <4>. QED
        BY <4>1, <2>3, <1>1 DEF Nodes
    <3>2. gotos[p][d] # s /\ failures[gotos[p][d]] = -1
      BY <3>1, <2>3, <1>4, <1>5
    <3>3. CASE p # 0 /\ failures[p] = -1
      <4>1. CASE p = s
        <5>1. queued \in Seq(Nodes \ {0}) /\ queued' = Append(queued, s)
          BY DEF Queue, s
        <5>2. Len(queued) + 1 \in 1..Len(queued') /\ queued'[Len(queued) + 1] = s
          BY <5>1
        <5>. QED
          BY <5>2, <4>1
      <4>2. CASE p # s
        BY <4>2, <3>3, <1>4
      <4>. QED
        BY <4>1, <4>2
    <3>4. CASE \E a \in 1..Len(queued) : queued[a] = p
      <4>1. PICK a \in 1..Len(queued) : queued[a] = p
        BY <3>4
      <4>2. queued \in Seq(Nodes \ {0}) /\ queued' = Append(queued, s)
        BY DEF Queue, s
      <4>3. a \in 1..Len(queued') /\ queued'[a] = queued[a]
        BY <4>1, <4>2
      <4>. QED
        BY <4>1, <4>3
    <3>5. CASE p = node /\ d \in left
      BY <3>5, <3>2 DEF s
    <3>. QED
      BY <3>2, <3>3, <3>4, <3>5, <2>3 DEF Frontier
  <2>. QED
    BY <2>1, <2>2, <2>3, <1>1, <1>2 DEF Frontier, Depth
<1>. QED
  BY <1>7, <1>8, <1>9, <1>10, <1>11, <1>13, <1>14 DEF Trie

\* Every word has its node, which reports it.
LEMMA WordNode ==
  ASSUME Trie, Recorded, Rooted, list \in Lists, NEW k \in DOMAIN list
  PROVE  /\ \E n \in Nodes : path[n] = Folded(Word(k))
         /\ \A n \in Nodes : path[n] = Folded(Word(k)) => Bit(k) \in matches[n]
<1>1. k \in 1..(at[1] - 1)
  BY ListFacts DEF Rooted
<1>2. PICK n \in Nodes : path[n] = Folded(Word(k)) /\ Bit(k) \in matches[n]
  BY <1>1 DEF Recorded
<1>3. \A m \in Nodes : path[m] = path[n] => m = n
  BY Zenon DEF Trie, Tree
<1>. QED
  BY <1>2, <1>3, Zenon

\* What prepare knows while it visits nodes.
LEMMA VisitFacts ==
  ASSUME BuildInv, pc \in {"root", "visit", "fail"}
  PROVE  /\ list \in Lists /\ msize # 0 /\ Trie /\ Recorded /\ FailuresRight
         /\ Rooted /\ Queue /\ Frontier /\ Visiting
BY DEF BuildInv, Building

\* prepare queues the nodes below the root.
LEMMA RootChildStep ==
  ASSUME BuildInv, RootChild
  PROVE  BuildInv'
<1>0. PICK c : c = Ch
  OBVIOUS
<1> DEFINE s == gotos[node][c]
<1>1. pc = "root" /\ left # {}
  BY DEF RootChild
<1>2. /\ list \in Lists /\ msize # 0 /\ Trie /\ Recorded /\ FailuresRight
      /\ Rooted /\ Queue /\ Frontier /\ Visiting
  BY <1>1, VisitFacts
<1>3. node = 0
  BY <1>1, <1>2 DEF Visiting
<1>4. /\ failures' = [failures EXCEPT ![s] = 0]
      /\ queued' = Append(queued, s) /\ left' = left \ {c}
      /\ UNCHANGED <<list, msize, gotos, matches, last, at, node, path, pc>>
  BY <1>0, <1>3 DEF RootChild
<1>5. c \in left
  BY <1>0, <1>1, <1>2, NextCh DEF Frontier
<1>6. 0 \in Nodes /\ Nodes' = Nodes /\ c \in Chars /\ s > 0
  BY <1>2, <1>4, <1>5 DEF Frontier, Trie, Arrays, Nodes
<1>7. /\ s \in Nodes /\ path[s] = <<c>> /\ path[0] = << >> /\ failures'[s] = 0
  <2>1. s \in -1..(last - 1) /\ path[s] = Append(path[node], c) /\ path[0] = << >>
    BY <1>2, <1>3, <1>6, Zenon DEF Trie, Tree
  <2>2. last \in 1..msize /\ msize \in Nat /\ failures \in [0..(msize - 1) -> Int]
    BY <1>2 DEF Trie, Arrays
  <2>3. s \in Nodes /\ s \in 0..(msize - 1)
    BY <2>1, <2>2, <1>6 DEF Nodes
  <2>4. path[s] = <<c>>
    <3>1. Append(<< >>, c) = <<c>>
      OBVIOUS
    <3>. QED
      BY <3>1, <2>1, <1>3
  <2>. QED
    BY <2>1, <2>2, <2>3, <2>4, <1>4
<1> HIDE DEF s
<1>8. path[s] \in Seq(Chars) /\ Len(path[s]) = 1 /\ Tail(path[s]) = << >> /\ << >> \in Seq(Chars)
  BY <1>6, <1>7
<1>9. Longest(0, Tail(path[s]))
  <2>1. Ends(path[0], << >>)
    BY <1>7, <1>8, EndsEmpty
  <2>2. ASSUME NEW m \in Nodes, Ends(path[m], << >>) PROVE Depth(m) <= Depth(0)
    <3>1. path[m] \in Seq(Chars)
      BY <1>2, DeepNodes
    <3>. QED
      BY <3>1, <2>2, <1>7 DEF Ends, Depth
  <2>. QED
    BY <2>1, <2>2, <1>6, <1>8 DEF Longest
<1>10. ASSUME NEW k \in DOMAIN list, Word(k) # << >>, Ends(Folded(Word(k)), path[s])
       PROVE  Bit(k) \in matches[s]
  <2>1. /\ Folded(Word(k)) \in Seq(Chars) /\ Len(Folded(Word(k))) = Len(Word(k))
        /\ Word(k) \in Seq(DOMAIN Fold)
    BY <1>2, ListFacts
  <2>2. Len(Folded(Word(k))) = 1
    BY <2>1, <1>8, <1>10 DEF Ends
  <2>3. path[s] = Folded(Word(k))
    BY <2>1, <2>2, <1>8, <1>10, EndsSame
  <2>. QED
    BY <2>3, <1>2, <1>7, WordNode
<1>11. Right(s)'
  <2>1. s' = s
    BY <1>4 DEF s
  <2>. QED
    BY <2>1, <1>4, <1>6, <1>7, <1>9, <1>10 DEF Right, Longest, Depth, Word
<1>12. \A b \in matches'[s] \ EmptyBits :
          \E k \in DOMAIN list : Bit(k) = b /\ Ends(Folded(Word(k)), path[s])
  BY <1>2, <1>4, <1>7, Zenon DEF Recorded
<1>13. Trie' /\ Recorded' /\ FailuresRight' /\ Rooted' /\ Queue' /\ Frontier'
  <2>1. UNCHANGED <<list, msize, gotos, last, at, node, path>> /\ matches' = matches
    BY <1>4
  <2>. QED
    BY <2>1, <1>2, <1>4, <1>5, <1>6, <1>11, <1>12, ChildStep DEF s
<1>14. Visiting'
  BY <1>1, <1>2, <1>4 DEF Visiting
<1>. QED
  BY <1>1, <1>2, <1>4, <1>13, <1>14 DEF BuildInv, Fresh, Building

\* prepare takes the next edge.
LEMMA EdgeStep ==
  ASSUME BuildInv, Edge
  PROVE  BuildInv'
<1>1. /\ pc = "visit" /\ left # {} /\ failure' = failures[node] /\ pc' = "fail"
      /\ UNCHANGED <<list, msize, gotos, failures, matches, last, at, queued, node, left, path>>
  BY DEF Edge
<1>2. /\ list \in Lists /\ msize # 0 /\ Trie /\ Recorded /\ FailuresRight
      /\ Rooted /\ Queue /\ Frontier /\ Visiting
  BY <1>1, VisitFacts
<1>3. node \in Nodes \ {0} /\ failures[node] # -1
  BY <1>1, <1>2 DEF Visiting, Frontier
<1>4. Longest(failures[node], Tail(path[node]))
  BY <1>2, <1>3 DEF FailuresRight, Right
<1>5. LongestWith(failures[node], Tail(path[node]), Ch)
  BY <1>4 DEF Longest, LongestWith
<1>6. Ch' = Ch /\ Nodes' = Nodes
  BY <1>1 DEF Ch, Nodes
<1>7. Visiting'
  BY <1>1, <1>3, <1>5, <1>6 DEF Visiting, LongestWith, Depth
<1>8. Trie' /\ Rooted' /\ Queue' /\ Frontier'
  BY <1>1, <1>2, <1>6 DEF Trie, Arrays, Tree, Rooted, Queue, Frontier, Depth, Size
<1>9. Recorded' /\ FailuresRight'
  <2>1. EmptyBits' = EmptyBits
    BY <1>1 DEF EmptyBits, Word
  <2>. QED
    BY <2>1, <1>1, <1>2, <1>6 DEF Recorded, FailuresRight, Right, Longest, Depth, Word
<1>. QED
  BY <1>1, <1>2, <1>7, <1>8, <1>9 DEF BuildInv, Fresh, Building

\* prepare takes the next node off the queue.
LEMMA VisitStep ==
  ASSUME BuildInv, Visit
  PROVE  BuildInv'
<1>1. /\ pc \in {"root", "visit"} /\ left = {} /\ queued # << >>
      /\ node' = Head(queued) /\ queued' = Tail(queued) /\ pc' = "visit"
      /\ left' = {c \in Chars : gotos[node'][c] # -1}
      /\ UNCHANGED <<list, msize, gotos, failures, matches, last, at, path>>
  BY DEF Visit
<1>2. /\ list \in Lists /\ msize # 0 /\ Trie /\ Recorded /\ FailuresRight
      /\ Rooted /\ Queue /\ Frontier /\ Visiting
  BY <1>1, VisitFacts
<1>3. /\ queued \in Seq(Nodes \ {0}) /\ Len(queued) \in Nat \ {0} /\ node' = queued[1]
      /\ queued' \in Seq(Nodes \ {0}) /\ Len(queued') = Len(queued) - 1
      /\ \A a \in 1..Len(queued') : queued'[a] = queued[a + 1]
  <2>1. queued \in Seq(Nodes \ {0})
    BY <1>2 DEF Queue
  <2>. QED
    BY <2>1, <1>1
<1>4. /\ node' \in Nodes \ {0} /\ failures[node'] # -1
      /\ Depth(node) <= Depth(node') /\ Depth(node') <= Depth(node) + 1
  <2>1. 1 \in 1..Len(queued)
    BY <1>3
  <2>. QED
    BY <2>1, <1>2, <1>3 DEF Queue
<1>5. Nodes' = Nodes /\ 0 \in Nodes /\ node \in Nodes
  BY <1>1, <1>2 DEF Nodes, Trie, Arrays, Frontier
<1>6. Depth(node) \in Nat /\ Depth(node') \in Nat
  BY <1>2, <1>4, <1>5, DeepNodes
<1>7. Queue'
  <2>1. ASSUME NEW a \in 1..Len(queued')
        PROVE  /\ failures[queued'[a]] # -1
               /\ Depth(node') <= Depth(queued'[a])
               /\ Depth(queued'[a]) <= Depth(node') + 1
    <3>1. a + 1 \in 1..Len(queued) /\ 1 \in 1..Len(queued) /\ 1 <= a + 1 /\ queued'[a] = queued[a + 1]
      BY <1>3
    <3>2. /\ failures[queued[a + 1]] # -1
          /\ Depth(queued[a + 1]) <= Depth(node) + 1
          /\ Depth(queued[1]) <= Depth(queued[a + 1])
      BY <3>1, <1>2 DEF Queue
    <3>3. Depth(queued[a + 1]) \in Nat
      BY <3>1, <1>2, <1>3, DeepNodes
    <3>. QED
      BY <3>1, <3>2, <3>3, <1>3, <1>4, <1>6
  <2>2. ASSUME NEW a \in 1..Len(queued'), NEW b \in 1..Len(queued'), a <= b
        PROVE  Depth(queued'[a]) <= Depth(queued'[b])
    <3>1. a + 1 \in 1..Len(queued) /\ b + 1 \in 1..Len(queued) /\ a + 1 <= b + 1
      BY <1>3, <2>2
    <3>. QED
      BY <3>1, <1>2, <1>3 DEF Queue
  <2>. QED
    BY <2>1, <2>2, <1>1, <1>3, <1>5 DEF Queue, Depth
<1>8. ASSUME NEW p \in Nodes, NEW c \in Chars, gotos[p][c] > 0, failures[gotos[p][c]] = -1
      PROVE  \/ p # 0 /\ failures[p] = -1
             \/ \E a \in 1..Len(queued) : queued[a] = p
  BY <1>1, <1>2, <1>8 DEF Frontier
<1>9. ASSUME NEW n \in Nodes \ {0}, failures[n] = -1
      PROVE  Depth(n) > Depth(node')
  <2> SUFFICES ASSUME Depth(n) <= Depth(node') PROVE FALSE
    BY <1>2, <1>6, DeepNodes
  <2>1. PICK p \in Nodes, c \in Chars : gotos[p][c] = n /\ path[n] = Append(path[p], c)
    BY <1>2, Parent
  <2>2. path[p] \in Seq(Chars) /\ Depth(p) \in Nat /\ Depth(n) \in Nat /\ Depth(n) > 0
    BY <1>2, DeepNodes
  <2>3. Depth(n) = Depth(p) + 1 /\ n > 0
    BY <2>1, <2>2 DEF Depth, Nodes
  <2>4. Depth(n) > Depth(node)
    BY <1>2, <1>9 DEF Frontier
  <2>5. CASE p # 0 /\ failures[p] = -1
    <3>1. Depth(p) > Depth(node)
      BY <2>5, <1>2 DEF Frontier
    <3>. QED
      BY <3>1, <2>2, <2>3, <2>4, <1>4, <1>6
  <2>6. CASE \E a \in 1..Len(queued) : queued[a] = p
    <3>1. PICK a \in 1..Len(queued) : queued[a] = p
      BY <2>6
    <3>2. 1 \in 1..Len(queued) /\ 1 <= a
      BY <1>3
    <3>3. Depth(queued[1]) <= Depth(p)
      BY <3>1, <3>2, <1>2 DEF Queue
    <3>. QED
      BY <3>3, <2>2, <2>3, <1>3, <1>6
  <2>. QED
    BY <2>1, <2>3, <2>5, <2>6, <1>8, <1>9
<1>10. Frontier'
  <2>1. left' \subseteq Chars /\ \A c \in left' : gotos[node'][c] > 0
    <3>1. ASSUME NEW c \in left' PROVE gotos[node'][c] > 0
      <4>1. c \in Chars /\ gotos[node'][c] # -1
        BY <1>1
      <4>2. gotos[node'][c] \in -1..(last - 1) /\ gotos[node'][c] # 0
        BY <4>1, <1>2, <1>4, Zenon DEF Trie, Tree
      <4>. QED
        BY <4>1, <4>2
    <3>. QED
      BY <3>1, <1>1
  <2>2. ASSUME NEW p \in Nodes, NEW c \in Chars, gotos[p][c] > 0, failures[gotos[p][c]] = -1
        PROVE  \/ p # 0 /\ failures[p] = -1
               \/ \E a \in 1..Len(queued') : queued'[a] = p
               \/ p = node' /\ c \in left'
    <3>1. CASE \E a \in 1..Len(queued) : queued[a] = p
      <4>1. PICK a \in 1..Len(queued) : queued[a] = p
        BY <3>1
      <4>2. CASE a = 1
        BY <4>1, <4>2, <2>2, <1>1, <1>3
      <4>3. CASE a # 1
        <5>1. a - 1 \in 1..Len(queued') /\ (a - 1) + 1 = a
          BY <4>3, <1>3
        <5>2. queued'[a - 1] = p
          BY <5>1, <4>1, <1>3
        <5>. QED
          BY <5>1, <5>2
      <4>. QED
        BY <4>2, <4>3
    <3>. QED
      BY <3>1, <2>2, <1>8
  <2>. QED
    BY <2>1, <2>2, <1>1, <1>4, <1>5, <1>9 DEF Frontier, Depth
<1>11. Visiting'
  BY <1>1, <1>4 DEF Visiting
<1>12. Trie' /\ Rooted'
  <2>1. UNCHANGED <<list, msize, gotos, failures, matches, last, at, path>>
    BY <1>1
  <2>2. Arrays'
    BY <2>1, <1>2 DEF Trie, Arrays, Size
  <2>3. Tree'
    BY <2>1, <1>2, <1>5 DEF Trie, Tree
  <2>. QED
    BY <2>1, <2>2, <2>3, <1>2 DEF Trie, Rooted
<1>13. Recorded' /\ FailuresRight'
  <2>1. EmptyBits' = EmptyBits
    BY <1>1 DEF EmptyBits, Word
  <2>. QED
    BY <2>1, <1>1, <1>2, <1>5 DEF Recorded, FailuresRight, Right, Longest, Depth, Word
<1>. QED
  BY <1>1, <1>2, <1>7, <1>10, <1>11, <1>12, <1>13 DEF BuildInv, Fresh, Building

\* The node the loop along the failures is on has a failure, if it is not the
\* root, and lies above the node visited.
LEMMA FailFacts ==
  ASSUME BuildInv, pc = "fail"
  PROVE  /\ Ch \in left /\ Ch \in Chars /\ node \in Nodes \ {0} /\ failure \in Nodes
         /\ LongestWith(failure, Tail(path[node]), Ch)
         /\ path[node] # << >> /\ Tail(path[node]) \in Seq(Chars) /\ path[node] \in Seq(Chars)
         /\ \A n \in Nodes : n # 0 /\ Depth(n) <= Depth(node) => failures[n] # -1 /\ Right(n)
         /\ gotos[failure][Ch] = -1 => failure # 0
         /\ Depth(failure) <= Depth(node)
<1>1. /\ list \in Lists /\ Trie /\ FailuresRight /\ Rooted /\ Frontier /\ Visiting
  BY VisitFacts
<1>2. /\ node \in Nodes \ {0} /\ left # {} /\ left \subseteq Chars
      /\ LongestWith(failure, Tail(path[node]), Ch)
  BY <1>1 DEF Visiting, Frontier
<1>3. Ch \in left /\ Ch \in Chars
  BY <1>2, NextCh
<1>4. failure \in Nodes /\ Ends(path[failure], Tail(path[node]))
  BY <1>2 DEF LongestWith
<1>5. path[node] # << >> /\ Tail(path[node]) \in Seq(Chars) /\ path[node] \in Seq(Chars) /\ path[failure] \in Seq(Chars)
      /\ Depth(node) \in Nat
  BY <1>1, <1>2, <1>4, DeepNodes
<1>6. ASSUME NEW n \in Nodes, n # 0, Depth(n) <= Depth(node)
      PROVE  failures[n] # -1 /\ Right(n)
  <2>1. Depth(n) \in Nat
    BY <1>1, DeepNodes
  <2>2. failures[n] # -1
    BY <2>1, <1>1, <1>5, <1>6 DEF Frontier
  <2>. QED
    BY <2>2, <1>1, <1>6 DEF FailuresRight
<1>7. gotos[failure][Ch] = -1 => failure # 0
  BY <1>1, <1>3 DEF Rooted
<1>8. Depth(failure) <= Depth(node)
  <2>1. Ends(path[failure], path[node])
    BY <1>4, <1>5, EndsTail
  <2>. QED
    BY <2>1 DEF Ends, Depth
<1>. QED
  BY <1>2, <1>3, <1>4, <1>5, <1>6, <1>7, <1>8

\* prepare falls back.
LEMMA FallBackStep ==
  ASSUME BuildInv, FallBack
  PROVE  BuildInv'
<1>1. /\ pc = "fail" /\ gotos[failure][Ch] = -1 /\ failure' = failures[failure]
      /\ UNCHANGED <<list, msize, gotos, failures, matches, last, at, queued, node, left, path, pc>>
  BY DEF FallBack
<1>2. /\ list \in Lists /\ msize # 0 /\ Trie /\ Recorded /\ FailuresRight
      /\ Rooted /\ Queue /\ Frontier /\ Visiting
  BY <1>1, VisitFacts
<1>3. /\ Ch \in Chars /\ failure \in Nodes /\ failure # 0
      /\ LongestWith(failure, Tail(path[node]), Ch)
      /\ Tail(path[node]) \in Seq(Chars)
      /\ Right(failure)
  BY <1>1, FailFacts
<1>4. LongestWith(failures[failure], Tail(path[node]), Ch)
  BY <1>1, <1>2, <1>3, Backs DEF Right
<1>5. Ch' = Ch /\ Nodes' = Nodes
  BY <1>1 DEF Ch, Nodes
<1>6. Visiting'
  BY <1>1, <1>2, <1>4, <1>5 DEF Visiting, LongestWith, Depth
<1>7. Trie' /\ Rooted' /\ Queue' /\ Frontier'
  BY <1>1, <1>2, <1>5 DEF Trie, Arrays, Tree, Rooted, Queue, Frontier, Depth, Size
<1>8. Recorded' /\ FailuresRight'
  <2>1. EmptyBits' = EmptyBits
    BY <1>1 DEF EmptyBits, Word
  <2>. QED
    BY <2>1, <1>1, <1>2, <1>5 DEF Recorded, FailuresRight, Right, Longest, Depth, Word
<1>. QED
  BY <1>1, <1>2, <1>6, <1>7, <1>8 DEF BuildInv, Fresh, Building

\* prepare sets the failure of a node and merges the words.
LEMMA SetFailureStep ==
  ASSUME BuildInv, SetFailure
  PROVE  BuildInv'
<1>0. PICK c : c = Ch
  OBVIOUS
<1> DEFINE s == gotos[node][c]
           f == gotos[failure][c]
           u == Tail(path[node])
<1>1. /\ pc = "fail" /\ f # -1 /\ pc' = "visit"
      /\ failures' = [failures EXCEPT ![s] = f]
      /\ matches' = [matches EXCEPT ![s] = @ \cup matches[f]]
      /\ queued' = Append(queued, s) /\ left' = left \ {c}
      /\ UNCHANGED <<list, msize, gotos, last, at, node, path>>
  BY <1>0 DEF SetFailure
<1>2. /\ list \in Lists /\ msize # 0 /\ Trie /\ Recorded /\ FailuresRight
      /\ Rooted /\ Queue /\ Frontier /\ Visiting
  BY <1>1, VisitFacts
<1>3. /\ c \in left /\ c \in Chars /\ node \in Nodes \ {0} /\ LongestWith(failure, u, c)
      /\ path[node] # << >> /\ u \in Seq(Chars) /\ path[node] \in Seq(Chars)
  BY <1>0, <1>1, FailFacts
<1>4. \A n \in Nodes : n # 0 /\ Depth(n) <= Depth(node) => failures[n] # -1 /\ Right(n)
  BY <1>1, FailFacts
<1>5. Longest(f, Append(u, c))
  BY <1>1, <1>2, <1>3, Advances
<1>6. /\ msize \in Nat /\ last \in 1..msize /\ DOMAIN matches = 0..(msize - 1)
      /\ failures \in [0..(msize - 1) -> Int]
  BY <1>2 DEF Trie, Arrays
<1>7. /\ s \in Nodes \ {0} /\ s \in 0..(msize - 1) /\ path[s] = Append(path[node], c)
  <2>1. s > 0
    BY <1>2, <1>3 DEF Frontier
  <2>2. s \in -1..(last - 1) /\ path[s] = Append(path[node], c)
    BY <2>1, <1>2, <1>3, Zenon DEF Trie, Tree
  <2>. QED
    BY <2>1, <2>2, <1>6 DEF Nodes
<1>8. f \in Nodes /\ Ends(path[f], Append(u, c))
  BY <1>5 DEF Longest
<1> HIDE DEF s, f, u
<1>9. /\ Tail(path[s]) = Append(u, c) /\ path[s] # << >> /\ path[s] \in Seq(Chars)
      /\ Append(u, c) \in Seq(Chars) /\ path[f] \in Seq(Chars)
  <2>1. Tail(Append(path[node], c)) = Append(Tail(path[node]), c) /\ Append(path[node], c) # << >>
    BY <1>3, TailAppend
  <2>2. path[f] \in Seq(Chars) /\ path[s] \in Seq(Chars)
    BY <1>2, <1>7, <1>8, DeepNodes
  <2>. QED
    BY <2>1, <2>2, <1>3, <1>7 DEF u
<1>10. Ends(path[f], path[s]) /\ Len(path[f]) < Len(path[s])
  BY <1>8, <1>9, EndsTail
<1>11. Depth(f) <= Depth(node)
  <2>1. Len(path[s]) = Len(path[node]) + 1 /\ Len(path[node]) \in Nat /\ Len(path[f]) \in Nat
    BY <1>3, <1>7, <1>9
  <2>. QED
    BY <2>1, <1>10 DEF Depth
<1>12. Nodes' = Nodes /\ failures'[s] = f /\ matches'[s] = matches[s] \cup matches[f]
  BY <1>1, <1>6, <1>7 DEF Nodes
<1>13. ASSUME NEW k \in DOMAIN list, Word(k) # << >>, Ends(Folded(Word(k)), path[s])
       PROVE  Bit(k) \in matches[s] \cup matches[f]
  <2> DEFINE w == Folded(Word(k))
  <2>1. w \in Seq(Chars) /\ Len(w) = Len(Word(k)) /\ Word(k) \in Seq(DOMAIN Fold)
    BY <1>2, ListFacts
  <2>2. Len(w) # 0
    BY <2>1, <1>13
  <2>3. PICK m \in Nodes : path[m] = w
    BY <1>2, WordNode
  <2> HIDE DEF w
  <2>4. CASE Len(w) = Len(path[s])
    <3>1. w = path[s]
      BY <2>1, <2>4, <1>9, <1>13, EndsSame DEF w
    <3>. QED
      BY <3>1, <1>2, <1>7, WordNode DEF w
  <2>5. CASE Len(w) # Len(path[s])
    <3>1. Ends(w, path[s]) /\ Len(w) < Len(path[s])
      BY <2>1, <2>5, <1>9, <1>13 DEF Ends, w
    <3>2. Ends(w, Append(u, c))
      BY <3>1, <2>1, <1>9, EndsTail
    <3>3. Len(w) <= Len(path[f])
      BY <3>2, <2>3, <1>5 DEF Longest, Depth
    <3>4. Ends(w, path[f])
      BY <3>2, <3>3, <2>1, <1>8, <1>9, EndsBoth
    <3>5. f # 0
      <4> SUFFICES ASSUME f = 0 PROVE FALSE
        OBVIOUS
      <4>1. path[f] = << >>
        BY <1>2 DEF Trie, Tree
      <4>. QED
        BY <4>1, <3>3, <2>1, <2>2
    <3>6. Right(f)
      BY <3>5, <1>4, <1>8, <1>11
    <3>. QED
      BY <3>4, <3>6, <1>13 DEF Right, w
  <2>. QED
    BY <2>4, <2>5
<1>14. Right(s)'
  <2>1. s' = s
    BY <1>1 DEF s
  <2>2. Longest(f, Tail(path[s]))
    BY <1>5, <1>9
  <2>. QED
    BY <2>1, <2>2, <1>1, <1>12, <1>13 DEF Right, Longest, Depth, Word
<1>15. ASSUME NEW b \in matches'[s] \ EmptyBits
       PROVE  \E k \in DOMAIN list : Bit(k) = b /\ Ends(Folded(Word(k)), path[s])
  <2>1. CASE b \in matches[s]
    BY <2>1, <1>2, <1>7, <1>15, Zenon DEF Recorded
  <2>2. CASE b \in matches[f]
    <3>1. PICK k \in DOMAIN list : Bit(k) = b /\ Ends(Folded(Word(k)), path[f])
      BY <2>2, <1>2, <1>8, <1>15, Zenon DEF Recorded
    <3>2. Folded(Word(k)) \in Seq(Chars)
      BY <1>2, ListFacts
    <3>3. Ends(Folded(Word(k)), path[s])
      BY <3>1, <3>2, <1>9, <1>10, EndsTrans
    <3>. QED
      BY <3>1, <3>3
  <2>. QED
    BY <2>1, <2>2, <1>12, <1>15
<1>16. Trie' /\ Recorded' /\ FailuresRight' /\ Rooted' /\ Queue' /\ Frontier'
  <2>1. UNCHANGED <<list, msize, gotos, last, at, node, path>>
    BY <1>1
  <2>2. /\ DOMAIN matches' = DOMAIN matches
        /\ \A n \in DOMAIN matches : n # s => matches'[n] = matches[n]
        /\ matches[s] \subseteq matches'[s]
    BY <1>1, <1>12
  <2>3. failures' = [failures EXCEPT ![s] = f] /\ queued' = Append(queued, s) /\ left' = left \ {c}
    BY <1>1
  <2>. QED
    BY <2>1, <2>2, <2>3, <1>2, <1>3, <1>8, <1>14, <1>15, ChildStep DEF s
<1>17. Visiting'
  <2>1. node # 0 /\ failures[node] # -1
    BY <1>1, <1>2 DEF Visiting
  <2>2. failures'[node] # -1
    <3>1. f # -1 /\ node \in 0..(msize - 1)
      BY <1>1, <1>3, <1>6 DEF Nodes
    <3>. QED
      BY <3>1, <2>1, <1>1, <1>6
  <2>. QED
    BY <2>1, <2>2, <1>1 DEF Visiting
<1>. QED
  BY <1>1, <1>2, <1>16, <1>17 DEF BuildInv, Fresh, Building

\* When the queue is empty every node has its failure: else take one of least
\* depth without; its parent has one, and is not queued any more.
LEMMA PreparedStep ==
  ASSUME BuildInv, Prepared
  PROVE  BuildInv'
<1>1. /\ pc \in {"root", "visit"} /\ left = {} /\ queued = << >> /\ pc' = "scan"
      /\ UNCHANGED <<list, msize, gotos, failures, matches, last, at, path>>
  BY DEF Prepared, auto
<1>2. /\ list \in Lists /\ msize # 0 /\ Trie /\ Recorded /\ FailuresRight
      /\ Rooted /\ Queue /\ Frontier /\ Visiting
  BY <1>1, VisitFacts
<1>3. AllSet
  <2> DEFINE T == {Depth(n) : n \in {m \in Nodes \ {0} : failures[m] = -1}}
  <2> SUFFICES ASSUME T # {} PROVE FALSE
    BY DEF AllSet
  <2>1. T \in SUBSET Nat
    BY <1>2, DeepNodes
  <2>2. PICK x \in T : \A y \in T : x <= y
    BY <2>1, LeastNumber
  <2>3. PICK n \in Nodes \ {0} : failures[n] = -1 /\ Depth(n) = x
    BY <2>2
  <2>4. PICK p \in Nodes, c \in Chars : gotos[p][c] = n /\ path[n] = Append(path[p], c)
    BY <1>2, Parent
  <2>5. path[p] \in Seq(Chars) /\ Depth(p) \in Nat
    BY <1>2, DeepNodes
  <2>6. Depth(n) = Depth(p) + 1 /\ n > 0
    BY <2>4, <2>5 DEF Depth, Nodes
  <2>7. p # 0 /\ failures[p] = -1
    <3>1. Len(queued) = 0
      BY <1>1
    <3>. QED
      BY <3>1, <2>3, <2>4, <2>6, <1>1, <1>2 DEF Frontier
  <2>8. Depth(p) \in T
    BY <2>7
  <2>9. x <= Depth(p)
    <3> HIDE DEF T
    <3>. QED
      BY <2>2, <2>8
  <2>. QED
    BY <2>3, <2>5, <2>6, <2>9
<1>4. Nodes' = Nodes
  BY <1>1 DEF Nodes
<1>5. Trie' /\ Rooted' /\ AllSet'
  BY <1>1, <1>2, <1>3, <1>4 DEF Trie, Arrays, Tree, Rooted, AllSet, Size
<1>6. Recorded' /\ FailuresRight'
  <2>1. EmptyBits' = EmptyBits
    BY <1>1 DEF EmptyBits, Word
  <2>. QED
    BY <2>1, <1>1, <1>2, <1>4 DEF Recorded, FailuresRight, Right, Longest, Depth, Word
<1>. QED
  BY <1>1, <1>2, <1>5, <1>6 DEF BuildInv, Fresh, Building

\* A step that leaves the automaton alone: search's own.
LEMMA ScanFrame ==
  ASSUME BuildInv, UNCHANGED <<list, auto>>,
         \/ pc' = pc
         \/ pc \in {"ready", "scan", "combine"} /\ pc' \in {"ready", "scan", "combine", "alloc"}
            /\ (pc' = "alloc" => msize = 0) /\ (pc' \in {"scan", "combine"} => msize # 0)
  PROVE  BuildInv'
<1>1. UNCHANGED <<list, msize, gotos, failures, matches, last, at, queued, node, left, failure, path>>
  BY DEF auto, visiting
<1>2. Nodes' = Nodes
  BY <1>1 DEF Nodes
<1>3. EmptyBits' = EmptyBits /\ Ch' = Ch
  BY <1>1 DEF EmptyBits, Word, Ch
<1>4. /\ Fresh => (msize = 0 => last = 1 /\ at = <<1, 1, 0>> /\ queued = << >>)
      /\ Trie' = Trie
  BY <1>1, <1>2 DEF Fresh, Trie, Arrays, Tree, Size
<1>5. Recorded => Recorded'
  BY <1>1, <1>2, <1>3 DEF Recorded, Word
<1>6. FailuresRight => FailuresRight'
  BY <1>1, <1>2 DEF FailuresRight, Right, Longest, Depth, Word
<1>7. (Adding => Adding') /\ (Rooted => Rooted') /\ (Queue => Queue') /\ (AllSet => AllSet')
  BY <1>1, <1>2 DEF Adding, Rooted, Queue, Depth, Word, AllSet
<1>8. Frontier => Frontier'
  BY <1>1, <1>2 DEF Frontier, Depth
<1>9. CASE pc' = pc
  <2>1. Visiting => Visiting'
    BY <1>1, <1>2, <1>3, <1>9 DEF Visiting, LongestWith, Depth
  <2>. QED
    BY <2>1, <1>1, <1>4, <1>5, <1>6, <1>7, <1>8, <1>9 DEF BuildInv, Fresh
<1>10. CASE /\ pc \in {"ready", "scan", "combine"} /\ pc' \in {"ready", "scan", "combine", "alloc"}
            /\ (pc' = "alloc" => msize = 0) /\ (pc' \in {"scan", "combine"} => msize # 0)
  <2>1. /\ list \in Lists /\ (msize # 0 => Trie /\ Recorded /\ FailuresRight /\ Rooted /\ AllSet)
        /\ (msize = 0 => last = 1 /\ at = <<1, 1, 0>> /\ queued = << >>)
        /\ (pc \in {"scan", "combine"} => msize # 0)
    BY <1>10 DEF BuildInv, Fresh
  <2>. QED
    BY <2>1, <1>1, <1>4, <1>5, <1>6, <1>7, <1>10 DEF BuildInv, Fresh, Building
<1>. QED
  BY <1>9, <1>10

LEMMA BuildInit == Init => BuildInv
  BY DEF Init, BuildInv, Fresh, Building

LEMMA BuildNext == BuildInv /\ [Next]_vars => BuildInv'
<1> SUFFICES ASSUME BuildInv, [Next]_vars PROVE BuildInv'
  OBVIOUS
<1>1. CASE UNCHANGED vars
  BY <1>1, ScanFrame DEF vars
<1>2. CASE Prepare
  BY <1>2, AllocStep, AddCharStep, AddEndStep, RootStep, RootChildStep, VisitStep,
     EdgeStep, FallBackStep, SetFailureStep, PreparedStep DEF Prepare
<1>3. CASE ScanBack \/ Scan \/ Finish \/ CombineWord \/ Return
  <2>1. UNCHANGED <<list, auto>> /\ pc \in {"scan", "combine"} /\ pc' \in {"scan", "combine", "ready"}
    BY <1>3 DEF ScanBack, Scan, Finish, CombineWord, Return
  <2>2. msize # 0
    BY <2>1 DEF BuildInv
  <2>. QED
    BY <2>1, <2>2, ScanFrame
<1>4. ASSUME NEW t \in Texts[list], NEW m \in Modes[list], Search(t, m) PROVE BuildInv'
  <2>1. /\ UNCHANGED <<list, auto>> /\ pc = "ready"
        /\ pc' \in {"scan", "ready", "alloc"}
        /\ (pc' = "alloc" => msize = 0) /\ (pc' = "scan" => msize # 0)
    BY <1>4 DEF Search
  <2>. QED
    BY <2>1, ScanFrame
<1>. QED
  BY <1>1, <1>2, <1>3, <1>4 DEF Next, Step
-----------------------------------------------------------------------------
\* The automaton when all failures are set: the words reported at a node.
LEMMA Reported ==
  ASSUME Trie, FailuresRight, AllSet, list \in Lists, NEW n \in Nodes, NEW k \in DOMAIN list,
         Word(k) # << >>, Ends(Folded(Word(k)), path[n])
  PROVE  Bit(k) \in matches[n]
<1>1. n # 0
  <2> SUFFICES ASSUME n = 0 PROVE FALSE
    OBVIOUS
  <2>1. path[n] = << >>
    BY DEF Trie, Tree
  <2>2. Word(k) \in Seq(DOMAIN Fold) /\ Len(Folded(Word(k))) = Len(Word(k))
    BY ListFacts
  <2>3. Len(Word(k)) <= 0
    BY <2>1, <2>2 DEF Ends
  <2>. QED
    BY <2>2, <2>3
<1>. QED
  BY <1>1 DEF AllSet, FailuresRight, Right

LEMMA AutomatonFacts == BuildInv => AutomatonRight
<1> SUFFICES ASSUME BuildInv, pc = "scan" PROVE AutomatonRight
  BY DEF AutomatonRight
<1>1. list \in Lists /\ Trie /\ Recorded /\ FailuresRight /\ Rooted /\ AllSet
  BY DEF BuildInv, Building
<1>2. ASSUME NEW n \in Nodes \ {0}
      PROVE  /\ failures[n] \in Nodes \ {n} /\ IsSuffix(path[failures[n]], path[n])
             /\ LongestSuffix(n)
  <2> DEFINE f == failures[n]
  <2>1. Longest(f, Tail(path[n]))
    BY <1>1 DEF AllSet, FailuresRight, Right
  <2>2. f \in Nodes /\ Ends(path[f], Tail(path[n]))
    BY <2>1 DEF Longest
  <2>3. path[n] \in Seq(Chars) /\ path[n] # << >> /\ path[f] \in Seq(Chars)
    BY <1>1, <2>2, DeepNodes
  <2>4. Ends(path[f], path[n]) /\ Len(path[f]) < Len(path[n])
    BY <2>2, <2>3, EndsTail
  <2>5. ASSUME NEW m \in Nodes, m # n, IsSuffix(path[m], path[n])
        PROVE  Len(path[m]) <= Len(path[f])
    <3>1. path[m] \in Seq(Chars) /\ path[m] # path[n]
      BY <2>5, <1>1, DeepNodes DEF Trie, Tree
    <3>2. Ends(path[m], path[n])
      BY <2>3, <2>5, <3>1, SuffixEnds
    <3>3. Len(path[m]) # Len(path[n])
      BY <3>1, <3>2, <2>3, EndsSame
    <3>4. Len(path[m]) < Len(path[n])
      BY <3>1, <3>2, <3>3, <2>3 DEF Ends
    <3>5. Ends(path[m], Tail(path[n]))
      BY <3>1, <3>2, <3>4, <2>3, EndsTail
    <3>. QED
      BY <3>5, <2>1 DEF Longest, Depth
  <2>6. f # n
    BY <2>3, <2>4
  <2>7. IsSuffix(path[f], path[n])
    BY <2>3, <2>4, SuffixEnds
  <2>. QED
    BY <2>2, <2>5, <2>6, <2>7 DEF LongestSuffix
<1>3. ASSUME NEW n \in Nodes, NEW k \in DOMAIN list
      PROVE  IsSuffix(Folded(Word(k)), path[n]) <=> Ends(Folded(Word(k)), path[n])
  <2>1. Folded(Word(k)) \in Seq(Chars) /\ path[n] \in Seq(Chars)
    BY <1>1, DeepNodes, ListFacts
  <2>. QED
    BY <2>1, SuffixEnds
<1>4. ASSUME NEW n \in Nodes, NEW k \in DOMAIN list,
             Word(k) # << >>, IsSuffix(Folded(Word(k)), path[n])
      PROVE  Bit(k) \in matches[n]
  BY <1>1, <1>3, <1>4, Reported
<1>5. ASSUME NEW n \in Nodes, NEW b \in matches[n] \ EmptyBits
      PROVE  \E k \in DOMAIN list : Bit(k) = b /\ IsSuffix(Folded(Word(k)), path[n])
  <2>1. PICK k \in DOMAIN list : Bit(k) = b /\ Ends(Folded(Word(k)), path[n])
    BY <1>1, Zenon DEF Recorded
  <2>. QED
    BY <2>1, <1>3
<1>. QED
  BY <1>2, <1>4, <1>5 DEF AutomatonRight

\* For every word list, prepare leaves an automaton whose failure nodes are
\* those of the longest proper suffixes and which reports at each node the
\* words that end there, and no others.
THEOREM BuildsAutomaton == Spec => []AutomatonRight
  BY BuildInit, BuildNext, AutomatonFacts, PTL DEF Spec
-----------------------------------------------------------------------------
\* No two words of a list share a bit.
NoWrap == \A l \in Lists : Len(l) <= Bits

\* The first e characters of the text, as the automaton reads them.
Read(e) == [n \in 1..e |-> Fold[text[n]]]

\* search is on a node that ends what is read, and no longer one has an edge
\* for the next character.
Reading ==
    /\ state \in Nodes /\ Ends(path[state], Read(i - 1))
    /\ i <= Len(text) => LongestWith(state, Read(i - 1), Lower)

ScanInv ==
    /\ text \in Seq(DOMAIN Fold) /\ i \in 1..(Len(text) + 1)
    /\ pc \in Building \cup {"alloc"} => i = 1 /\ state = 0
    /\ pc = "scan" => Reading

\* The counters and their sum, for the part of the text that is read.
Counting ==
    /\ counters \in [DOMAIN list -> Nat]
    /\ \A k \in DOMAIN list :
          counters[k] \in
              IF Word(k) = << >> THEN {0}
              ELSE Cardinality(Places(k, Token \cup High, i - 1))
                     ..Cardinality(Places(k, Token, i - 1))
    /\ IsFiniteSet(Counted) /\ count = Cardinality(Counted)

CountInv ==
    /\ pc \in {"ready", "combine"} => i = Len(text) + 1 \/ list = << >>
    /\ pc # "ready" \/ counters # << >> => Counting

\* What search reads.
LEMMA TextFacts ==
  ASSUME text \in Seq(DOMAIN Fold), NEW e \in 0..Len(text)
  PROVE  /\ Read(e) \in Seq(Chars) /\ Len(Read(e)) = e
         /\ \A n \in 1..e : Read(e)[n] = Fold[text[n]]
         /\ e < Len(text) => /\ Fold[text[e + 1]] \in Chars
                             /\ Read(e + 1) = Append(Read(e), Fold[text[e + 1]])
<1>1. /\ Len(text) \in Nat /\ e \in Nat /\ \A n \in 1..Len(text) : text[n] \in DOMAIN Fold
  OBVIOUS
<1>2. \A n \in 1..Len(text) : Fold[text[n]] \in Chars
  BY <1>1, AhoAssumption
<1>3. ASSUME NEW d \in 0..Len(text)
      PROVE  Read(d) \in Seq(Chars) /\ Len(Read(d)) = d /\ \A n \in 1..d : Read(d)[n] = Fold[text[n]]
  BY <1>1, <1>2 DEF Read
<1>4. ASSUME e < Len(text)
      PROVE  /\ Fold[text[e + 1]] \in Chars
             /\ Read(e + 1) = Append(Read(e), Fold[text[e + 1]])
  <2>1. e + 1 \in 0..Len(text) /\ e + 1 \in 1..Len(text)
    BY <1>1, <1>4
  <2>2. Fold[text[e + 1]] \in Chars
    BY <1>2, <2>1
  <2> DEFINE a == Append(Read(e), Fold[text[e + 1]])
  <2>3. Read(e) \in Seq(Chars) /\ Len(Read(e)) = e
    BY <1>3
  <2>4. a \in Seq(Chars) /\ Len(a) = e + 1
    BY <2>2, <2>3
  <2>5. ASSUME NEW n \in 1..(e + 1) PROVE Read(e + 1)[n] = a[n]
    BY <2>1, <2>2, <2>3, <1>3
  <2>6. Read(e + 1) \in Seq(Chars) /\ Len(Read(e + 1)) = e + 1
    BY <2>1, <1>3
  <2>7. Read(e + 1) = a
    <3> HIDE DEF a
    <3>. QED BY <2>4, <2>5, <2>6, SeqEqual
  <2>. QED
    BY <2>2, <2>7
<1>. QED
  BY <1>3, <1>4

\* Before the first character search is on the root.
LEMMA StartReading ==
  ASSUME Trie, NEW c
  PROVE  0 \in Nodes /\ LongestWith(0, << >>, c)
<1>1. 0 \in Nodes /\ path[0] = << >>
  BY DEF Trie, Arrays, Tree, Nodes
<1>2. ASSUME NEW m \in Nodes, Ends(path[m], << >>) PROVE Depth(m) <= Depth(0)
  BY <1>1, <1>2 DEF Ends, Depth
<1>3. Ends(path[0], << >>)
  BY <1>1 DEF Ends
<1>. QED
  BY <1>1, <1>2, <1>3 DEF LongestWith

\* What search knows while it reads.
LEMMA ReadFacts ==
  ASSUME BuildInv, ScanInv, pc = "scan", i <= Len(text)
  PROVE  /\ list \in Lists /\ Trie /\ Recorded /\ FailuresRight /\ Rooted /\ AllSet
         /\ text \in Seq(DOMAIN Fold) /\ i \in 1..Len(text) /\ Len(text) \in Nat
         /\ i - 1 \in 0..Len(text) /\ i \in 0..Len(text)
         /\ state \in Nodes /\ LongestWith(state, Read(i - 1), Lower)
         /\ Lower \in Chars /\ Read(i - 1) \in Seq(Chars) /\ Read(i) = Append(Read(i - 1), Lower)
         /\ Read(i) \in Seq(Chars) /\ Len(Read(i)) = i
<1>1. list \in Lists /\ Trie /\ Recorded /\ FailuresRight /\ Rooted /\ AllSet
  BY DEF BuildInv, Building
<1>2. /\ text \in Seq(DOMAIN Fold) /\ i \in 1..Len(text) /\ Len(text) \in Nat
      /\ state \in Nodes /\ LongestWith(state, Read(i - 1), Lower)
  BY DEF ScanInv, Reading
<1>3. i - 1 \in 0..Len(text) /\ i - 1 < Len(text) /\ i - 1 + 1 = i /\ i \in 0..Len(text)
  BY <1>2
<1>4. Lower \in Chars /\ Read(i - 1) \in Seq(Chars) /\ Read(i) = Append(Read(i - 1), Lower)
  BY <1>2, <1>3, TextFacts DEF Lower
<1>5. Read(i) \in Seq(Chars) /\ Len(Read(i)) = i
  BY <1>2, <1>3, TextFacts
<1>. QED
  BY <1>1, <1>2, <1>3, <1>4, <1>5

\* The node search moves to is that of the longest suffix of what it has read.
LEMMA Moves ==
  ASSUME BuildInv, ScanInv, pc = "scan", i <= Len(text), gotos[state][Lower] # -1
  PROVE  Longest(gotos[state][Lower], Read(i))
BY ReadFacts, Advances

LEMMA ScanInvInit == Init => ScanInv
BY EmptySeq DEF Init, ScanInv, Building

LEMMA ScanInvNext ==
  ASSUME BuildInv, ScanInv, [Next]_vars
  PROVE  ScanInv'
<1>1. CASE UNCHANGED vars
  BY <1>1 DEF vars, auto, scan, ScanInv, Reading, LongestWith, Nodes, Depth, Read, Lower
<1>2. CASE Prepare
  <2>1. CASE pc \in Building \cup {"alloc"} /\ pc' \in Building
    <3>1. UNCHANGED <<text, i, state>>
      BY <1>2, <2>1 DEF Prepare, Alloc, AddChar, AddEnd, Root, RootChild, Visit, Edge, FallBack,
                        SetFailure, Prepared, scan
    <3>. QED
      BY <3>1, <2>1 DEF ScanInv, Building
  <2>2. CASE Prepared
    <3>1. /\ pc \in {"root", "visit"} /\ pc' = "scan"
          /\ UNCHANGED <<text, i, state, last, path, gotos>>
      BY <2>2 DEF Prepared, auto, scan
    <3>2. Trie
      BY <3>1, VisitFacts
    <3>3. text \in Seq(DOMAIN Fold) /\ i = 1 /\ state = 0
      BY <3>1 DEF ScanInv, Building
    <3>4. Read(i - 1) = << >>
      BY <3>3 DEF Read
    <3>5. Reading
      BY <3>2, <3>3, <3>4, StartReading DEF Reading, LongestWith
    <3>6. Reading'
      BY <3>1, <3>5 DEF Reading, LongestWith, Nodes, Depth, Read, Lower
    <3>. QED
      BY <3>1, <3>6 DEF ScanInv, Building
  <2>3. Prepared \/ (pc \in Building \cup {"alloc"} /\ pc' \in Building)
    BY <1>2 DEF Prepare, Alloc, AddChar, AddEnd, Root, RootChild, Visit, Edge, FallBack,
                SetFailure, Building
  <2>. QED
    BY <2>1, <2>2, <2>3
<1>3. CASE ScanBack
  <2>1. /\ pc = "scan" /\ pc' = "scan" /\ i <= Len(text) /\ gotos[state][Lower] = -1
        /\ state' = failures[state]
        /\ UNCHANGED <<text, i, last, path, gotos>>
    BY <1>3 DEF ScanBack, auto
  <2>2. state # 0
    BY <2>1, ReadFacts DEF Rooted
  <2>3. Longest(failures[state], Tail(path[state]))
    BY <2>1, <2>2, ReadFacts DEF AllSet, FailuresRight, Right
  <2>4. LongestWith(failures[state], Read(i - 1), Lower)
    BY <2>1, <2>2, <2>3, ReadFacts, Backs
  <2>5. Read(i - 1)' = Read(i - 1) /\ Lower' = Lower /\ Nodes' = Nodes
    BY <2>1 DEF Read, Lower, Nodes
  <2>6. Reading'
    BY <2>1, <2>4, <2>5 DEF Reading, LongestWith, Depth
  <2>. QED
    BY <2>1, <2>6 DEF ScanInv, Building
<1>4. CASE Scan
  <2>1. /\ pc = "scan" /\ pc' = "scan" /\ i <= Len(text) /\ gotos[state][Lower] # -1
        /\ state' = gotos[state][Lower] /\ i' = i + 1
        /\ UNCHANGED <<text, last, path, gotos>>
    BY <1>4 DEF Scan, auto
  <2>2. Longest(state', Read(i))
    BY <2>1, Moves
  <2>3. i' \in 1..(Len(text') + 1) /\ i' - 1 = i /\ text' \in Seq(DOMAIN Fold)
    BY <2>1, ReadFacts
  <2>4. Read(i - 1)' = Read(i) /\ Nodes' = Nodes
    BY <2>1, <2>3 DEF Read, Nodes
  <2>5. Reading'
    <3>1. PICK f : f = gotos[state][Lower]
      OBVIOUS
    <3>2. f \in Nodes /\ Ends(path[f], Read(i)) /\ \A m \in Nodes : Ends(path[m], Read(i)) => Len(path[m]) <= Len(path[f])
      BY <2>1, <2>2, <3>1 DEF Longest, Depth
    <3>. QED
      BY <2>1, <2>4, <3>1, <3>2 DEF Reading, LongestWith, Depth
  <2>. QED
    BY <2>1, <2>3, <2>5 DEF ScanInv, Building
<1>5. CASE Finish \/ CombineWord \/ Return
  BY <1>5 DEF Finish, CombineWord, Return, ScanInv, Building
<1>6. ASSUME NEW t \in Texts[list], NEW m \in Modes[list], Search(t, m) PROVE ScanInv'
  <2>1. /\ text' = t /\ i' = 1 /\ state' = 0 /\ pc' \in {"ready", "alloc", "scan"}
        /\ (pc' = "scan" => msize # 0) /\ pc = "ready"
        /\ UNCHANGED <<msize, last, path, gotos>>
    BY <1>6 DEF Search, auto
  <2>2. t \in Seq(DOMAIN Fold)
    BY AhoAssumption DEF BuildInv
  <2>3. ASSUME msize # 0 PROVE Reading'
    <3>1. Trie
      BY <2>3 DEF BuildInv
    <3>2. PICK c : c = Lower'
      OBVIOUS
    <3>3. 0 \in Nodes /\ LongestWith(0, << >>, c)
      BY <3>1, StartReading
    <3>4. Read(i - 1)' = << >> /\ Nodes' = Nodes
      BY <2>1 DEF Read, Nodes
    <3>. QED
      BY <3>2, <3>3, <3>4, <2>1 DEF Reading, LongestWith, Depth
  <2>. QED
    BY <2>1, <2>2, <2>3 DEF ScanInv, Building
<1>. QED
  BY <1>1, <1>2, <1>3, <1>4, <1>5, <1>6 DEF Next, Step

LEMMA SmallRest ==
  ASSUME NEW a \in Nat, NEW b \in Nat, a < b
  PROVE  a % b = a
OBVIOUS

\* When the list has no more words than bits the bit of a word is its own.
LEMMA OwnBit ==
  ASSUME Len(list) <= Bits, list \in Lists, NEW j \in DOMAIN list, NEW k \in DOMAIN list, Bit(j) = Bit(k)
  PROVE  j = k
<1>1. Len(list) \in Nat /\ Len(list) <= Bits /\ DOMAIN list = 1..Len(list) /\ Bits \in Nat
  BY ListFacts, AhoAssumption
<1>2. j - 1 \in Nat /\ k - 1 \in Nat /\ j - 1 < Bits /\ k - 1 < Bits
  BY <1>1
<1>3. Bit(j) = j - 1 /\ Bit(k) = k - 1
  BY <1>1, <1>2, SmallRest DEF Bit
<1>4. j \in Int /\ k \in Int
  BY <1>1
<1>5. j - 1 = k - 1
  BY <1>3, Zenon
<1>. QED
  BY <1>4, <1>5

\* The text compares equal exactly where the word ends what is read.
LEMMA SameEnds ==
  ASSUME BuildInv, ScanInv, pc = "scan", i <= Len(text), NEW k \in DOMAIN list
  PROVE  Ends(Folded(Word(k)), Read(i)) <=> Start(k) >= 1 /\ Same(k)
<1> DEFINE w == Word(k)
<1>1. /\ Len(w) \in Nat /\ Len(Folded(w)) = Len(w) /\ i \in Nat
      /\ \A n \in 1..Len(w) : Folded(w)[n] = Fold[w[n]]
  <2>1. list \in Lists /\ i \in 1..Len(text) /\ Len(text) \in Nat
    BY ReadFacts
  <2>2. i \in Nat
    BY <2>1
  <2>. QED
    BY <2>1, <2>2, ListFacts
<1>2. Len(Read(i)) = i /\ \A n \in 1..i : Read(i)[n] = Fold[text[n]]
  BY ReadFacts, TextFacts
<1>3. Start(k) = i - Len(w) + 1
  BY DEF Start
<1>4. ASSUME Len(w) <= i, NEW n \in 1..Len(w)
      PROVE  Read(i)[n + (i - Len(w))] = Fold[text[Start(k) + n - 1]]
  <2>1. n + (i - Len(w)) \in 1..i /\ Start(k) + n - 1 = n + (i - Len(w))
    BY <1>1, <1>3, <1>4
  <2>. QED
    BY <2>1, <1>2
<1> HIDE DEF w
<1>5. Start(k) >= 1 <=> Len(w) <= i
  BY <1>1, <1>3
<1>6. Ends(Folded(w), Read(i)) <=> Len(w) <= i /\ \A n \in 1..Len(w) : Fold[w[n]] = Read(i)[n + (i - Len(w))]
  BY <1>1, <1>2 DEF Ends
<1>7. Same(k) <=> \A n \in 1..Len(w) : Fold[text[Start(k) + n - 1]] = Fold[w[n]]
  BY DEF Same, w
<1>8. Len(w) <= i => (Same(k) <=> \A n \in 1..Len(w) : Fold[w[n]] = Read(i)[n + (i - Len(w))])
  BY <1>4, <1>7
<1>. QED
  BY <1>5, <1>6, <1>8 DEF w

\* The words search tests are those that end here and those that share the bit
\* of one: the automaton misses none, and reports no others.
LEMMA CandidateFacts ==
  ASSUME BuildInv, ScanInv, pc = "scan", i <= Len(text), gotos[state][Lower] # -1,
         NEW k \in DOMAIN list, Word(k) # << >>
  PROVE  /\ Start(k) >= 1 /\ Same(k) => k \in Candidates(gotos[state][Lower])
         /\ k \in Candidates(gotos[state][Lower]) =>
               \E j \in DOMAIN list : Bit(j) = Bit(k) /\ EndsHere(j)
<1> DEFINE s == gotos[state][Lower]
           w == Folded(Word(k))
<1>1. list \in Lists /\ Trie /\ Recorded /\ FailuresRight /\ Rooted /\ AllSet
  BY ReadFacts
<1>2. Longest(s, Read(i)) /\ Read(i) \in Seq(Chars)
  BY Moves, ReadFacts
<1>3. w \in Seq(Chars)
  BY <1>1, ListFacts
<1> HIDE DEF s
<1>4. s \in Nodes /\ path[s] \in Seq(Chars) /\ Ends(path[s], Read(i))
  BY <1>1, <1>2, DeepNodes DEF Longest
<1>5. ASSUME Start(k) >= 1, Same(k) PROVE k \in Candidates(s)
  <2>1. Ends(w, Read(i))
    BY <1>5, SameEnds
  <2>2. PICK n \in Nodes : path[n] = w
    BY <1>1, WordNode
  <2>3. Depth(n) <= Depth(s)
    BY <2>1, <2>2, <1>2 DEF Longest
  <2>4. Ends(w, path[s])
    BY <2>1, <2>2, <2>3, <1>2, <1>3, <1>4, EndsBoth DEF Depth
  <2>5. Bit(k) \in matches[s]
    BY <2>4, <1>1, <1>4, Reported
  <2>. QED
    BY <2>5 DEF Candidates
<1>6. ASSUME k \in Candidates(s) PROVE \E j \in DOMAIN list : Bit(j) = Bit(k) /\ EndsHere(j)
  <2>1. Bit(k) \in matches[s]
    BY <1>6 DEF Candidates
  <2>2. CASE Bit(k) \in EmptyBits
    <3>1. PICK j \in DOMAIN list : Bit(j) = Bit(k) /\ Word(j) = << >>
      BY <2>2, Zenon DEF EmptyBits
    <3>2. Start(j) >= 1 /\ Same(j)
      <4>1. Len(Word(j)) = 0 /\ i \in 1..Len(text) /\ Len(text) \in Nat
        BY <3>1, ReadFacts
      <4>. QED
        BY <4>1 DEF Start, Same
    <3>. QED
      BY <3>1, <3>2 DEF EndsHere
  <2>3. CASE Bit(k) \notin EmptyBits
    <3>1. PICK j \in DOMAIN list : Bit(j) = Bit(k) /\ Ends(Folded(Word(j)), path[s])
      BY <2>1, <2>3, <1>1, <1>4, Zenon DEF Recorded
    <3>2. Folded(Word(j)) \in Seq(Chars)
      BY <1>1, ListFacts
    <3>3. Ends(Folded(Word(j)), Read(i))
      BY <3>1, <3>2, <1>2, <1>4, EndsTrans
    <3>. QED
      BY <3>1, <3>3, SameEnds DEF EndsHere
  <2>. QED
    BY <2>2, <2>3
<1>. QED
  BY <1>5, <1>6 DEF s

\* When no bit wraps they are exactly the words that end here.
LEMMA CandidateEnds ==
  ASSUME Len(list) <= Bits, BuildInv, ScanInv, pc = "scan", i <= Len(text),
         gotos[state][Lower] # -1, NEW k \in DOMAIN list, Word(k) # << >>
  PROVE  k \in Candidates(gotos[state][Lower]) <=> EndsHere(k)
<1>1. ASSUME k \in Candidates(gotos[state][Lower]) PROVE EndsHere(k)
  <2>1. PICK j \in DOMAIN list : Bit(j) = Bit(k) /\ EndsHere(j)
    BY <1>1, CandidateFacts, Zenon
  <2>2. list \in Lists
    BY ReadFacts
  <2>3. j = k
    BY <2>1, <2>2, OwnBit
  <2>. QED
    BY <2>1, <2>3
<1>. QED
  BY <1>1, CandidateFacts DEF EndsHere

LEMMA BoundFacts == BuildInv /\ ScanInv => InBounds
<1> SUFFICES ASSUME BuildInv, ScanInv PROVE InBounds
  OBVIOUS
<1>1. msize # 0 => last <= msize
  BY DEF BuildInv, Trie, Arrays
<1>2. pc = "fail" => failure \in Nodes
  BY FailFacts
<1>3. pc = "scan" => state \in Nodes
  BY DEF ScanInv, Reading
<1>4. ASSUME pc = "scan", i <= Len(text), gotos[state][Lower] # -1,
             NEW k \in Candidates(gotos[state][Lower])
      PROVE  /\ \E j \in DOMAIN list : Bit(j) = Bit(k) /\ EndsHere(j)
             /\ Start(k) < 1 => Shared(k)
             /\ Len(list) <= Bits => EndsHere(k)
  <2>1. k \in DOMAIN list /\ Word(k) # << >>
    BY DEF Candidates
  <2>2. PICK j \in DOMAIN list : Bit(j) = Bit(k) /\ EndsHere(j)
    BY <2>1, <1>4, CandidateFacts, Zenon
  <2>3. ASSUME Start(k) < 1 PROVE Shared(k)
    <3>1. i \in Int /\ Len(Word(k)) \in Nat
      BY <2>1, <1>4, ReadFacts, ListFacts
    <3>2. ~(Start(k) >= 1)
      BY <3>1, <2>3 DEF Start
    <3>3. j # k
      BY <3>2, <2>2 DEF EndsHere
    <3>. QED
      BY <3>3, <2>2 DEF Shared
  <2>4. ASSUME Len(list) <= Bits PROVE EndsHere(k)
    BY <2>1, <2>4, <1>4, CandidateEnds
  <2>. QED
    BY <2>2, <2>3, <2>4
<1>. QED
  BY <1>1, <1>2, <1>3, <1>4 DEF InBounds

\* For every word list, one of more words than bits included, and every text,
\* prepare and search index the arrays of the automaton with no node that was
\* not allocated and no failure that is not set; a word is tested only where a
\* word of its bit ends, and the text is read in front of its first character
\* only for a word that shares its bit with another.
THEOREM StaysInBounds == Spec => []InBounds
<1>1. Init => BuildInv /\ ScanInv
  BY BuildInit, ScanInvInit
<1>2. BuildInv /\ ScanInv /\ [Next]_vars => (BuildInv /\ ScanInv)'
  BY BuildNext, ScanInvNext
<1>3. BuildInv /\ ScanInv => InBounds
  BY BoundFacts
<1>. QED
  BY <1>1, <1>2, <1>3, PTL DEF Spec
-----------------------------------------------------------------------------
\* One pair for each time an element of D was counted.
Pairs(D, f) == UNION {{k} \X (1..f[k]) : k \in D}

\* Counting the elements of a set F adds as many pairs as F has elements.
LEMMA PairsStep ==
  ASSUME NEW D, NEW f \in [D -> Nat], NEW F \in SUBSET D, IsFiniteSet(F),
         IsFiniteSet(Pairs(D, f)), NEW g, g = [k \in D |-> f[k] + IF k \in F THEN 1 ELSE 0]
  PROVE  /\ g \in [D -> Nat] /\ IsFiniteSet(Pairs(D, g))
         /\ Cardinality(Pairs(D, g)) = Cardinality(Pairs(D, f)) + Cardinality(F)
<1> DEFINE new == {<<k, f[k] + 1>> : k \in F}
           b == [k \in F |-> <<k, f[k] + 1>>]
<1>1. g \in [D -> Nat]
  OBVIOUS
<1>2. ASSUME NEW h \in [D -> Nat], NEW x
      PROVE  x \in Pairs(D, h) <=> \E k \in D : \E n \in 1..h[k] : x = <<k, n>>
  BY DEF Pairs
<1>3. ASSUME NEW k \in D
      PROVE  /\ k \in F => 1..g[k] = (1..f[k]) \cup {f[k] + 1}
             /\ k \notin F => g[k] = f[k]
             /\ f[k] + 1 \notin 1..f[k]
  <2>1. f[k] \in Nat /\ g[k] = f[k] + IF k \in F THEN 1 ELSE 0
    OBVIOUS
  <2>. QED
    BY <2>1
<1>4. Pairs(D, g) = Pairs(D, f) \cup new
  <2>1. ASSUME NEW x \in Pairs(D, g) PROVE x \in Pairs(D, f) \cup new
    <3>0. PICK k \in D : \E n \in 1..g[k] : x = <<k, n>>
      BY <1>1, <1>2, <2>1
    <3>1. PICK n \in 1..g[k] : x = <<k, n>>
      BY <3>0
    <3>2. n \in 1..f[k] \/ (k \in F /\ n = f[k] + 1)
      BY <1>3, <3>1
    <3>3. n \in 1..f[k] => x \in Pairs(D, f)
      BY <1>2, <3>1
    <3>. QED
      BY <3>1, <3>2, <3>3
  <2>2. ASSUME NEW x \in Pairs(D, f) PROVE x \in Pairs(D, g)
    <3>0. PICK k \in D : \E n \in 1..f[k] : x = <<k, n>>
      BY <1>2
    <3>1. PICK n \in 1..f[k] : x = <<k, n>>
      BY <3>0
    <3>2. n \in 1..g[k]
      BY <1>3
    <3>. QED
      BY <3>1, <3>2, <1>1, <1>2
  <2>3. ASSUME NEW x \in new PROVE x \in Pairs(D, g)
    <3>1. PICK k \in F : x = <<k, f[k] + 1>>
      OBVIOUS
    <3>2. f[k] + 1 \in 1..g[k] /\ k \in D
      BY <1>3
    <3>. QED
      BY <3>1, <3>2, <1>1, <1>2
  <2>. QED
    BY <2>1, <2>2, <2>3
<1>5. Pairs(D, f) \cap new = {}
  <2> SUFFICES ASSUME NEW x \in Pairs(D, f), x \in new PROVE FALSE
    OBVIOUS
  <2>0. PICK k \in D : \E n \in 1..f[k] : x = <<k, n>>
    BY <1>2
  <2>1. PICK n \in 1..f[k] : x = <<k, n>>
    BY <2>0
  <2>2. PICK j \in F : x = <<j, f[j] + 1>>
    OBVIOUS
  <2>3. j = k /\ n = f[k] + 1
    BY <2>1, <2>2
  <2>. QED
    BY <2>3, <1>3
<1>6. IsFiniteSet(new) /\ Cardinality(new) = Cardinality(F)
  <2>1. b \in Bijection(F, new)
    BY DEF Bijection, Injection, Surjection, IsInjective
  <2>2. ExistsBijection(F, new)
    BY <2>1 DEF ExistsBijection
  <2> HIDE DEF new
  <2>. QED
    BY <2>2, FS_Bijection
<1> HIDE DEF new
<1>7. IsFiniteSet(Pairs(D, f) \cup new) /\ Cardinality(Pairs(D, f) \cup new) =
         Cardinality(Pairs(D, f)) + Cardinality(new) - Cardinality(Pairs(D, f) \cap new)
  BY <1>6, FS_Union
<1>8. Cardinality(Pairs(D, f) \cap new) = 0 /\ Cardinality(Pairs(D, f)) \in Nat /\ Cardinality(F) \in Nat
  BY <1>5, FS_EmptySet, FS_CardinalityType
<1>9. IsFiniteSet(Pairs(D, g)) /\ Cardinality(Pairs(D, g)) = Cardinality(Pairs(D, f) \cup new)
  BY <1>4, <1>7
<1>10. Cardinality(Pairs(D, f) \cup new) = Cardinality(Pairs(D, f)) + Cardinality(F)
  BY <1>6, <1>7, <1>8
<1>. QED
  BY <1>1, <1>9, <1>10, Zenon

\* Word k stands where search is, between characters that are not inner.
Here(k, inner) ==
    /\ Start(k) >= 1 /\ Same(k)
    /\ Start(k) = 1 \/ text[Start(k) - 1] \notin inner
    /\ i = Len(text) \/ text[i + 1] \notin inner

LEMMA PlacesFinite ==
  ASSUME list \in Lists, NEW k \in DOMAIN list, NEW inner, NEW e \in Int
  PROVE  IsFiniteSet(Places(k, inner, e)) /\ Cardinality(Places(k, inner, e)) \in Nat
<1>1. e - Len(Word(k)) + 1 \in Int
  BY ListFacts
<1>2. IsFiniteSet(1..(e - Len(Word(k)) + 1))
  BY <1>1, FS_Interval
<1>3. Places(k, inner, e) \in SUBSET (1..(e - Len(Word(k)) + 1))
  BY DEF Places
<1>. QED
  BY <1>2, <1>3, FS_Subset, FS_CardinalityType

\* One more character: at most one more place.
LEMMA PlacesStep ==
  ASSUME list \in Lists, NEW k \in DOMAIN list, NEW inner, i \in Nat
  PROVE  Cardinality(Places(k, inner, i)) =
            Cardinality(Places(k, inner, i - 1)) + IF Here(k, inner) THEN 1 ELSE 0
<1> DEFINE old == Places(k, inner, i - 1)
           now == Places(k, inner, i)
<1>1. /\ Len(Word(k)) \in Nat /\ DOMAIN Word(k) = 1..Len(Word(k)) /\ Start(k) \in Int
      /\ Start(k) = i - Len(Word(k)) + 1
      /\ (i - 1) - Len(Word(k)) + 1 = Start(k) - 1 /\ Start(k) + Len(Word(k)) - 1 = i
  BY ListFacts DEF Start
<1>2. old = {p \in now : p # Start(k)} /\ Start(k) \notin old
  BY <1>1 DEF Places
<1>3. Start(k) \in now <=> Here(k, inner)
  BY <1>1 DEF Places, Here, Same
<1>4. IsFiniteSet(old) /\ Cardinality(old) \in Nat
  BY PlacesFinite
<1> HIDE DEF old, now
<1>5. Cardinality(old \cup {Start(k)}) = Cardinality(old) + 1
  BY <1>2, <1>4, FS_AddElement
<1>6. CASE Here(k, inner)
  <2>1. now = old \cup {Start(k)}
    BY <1>2, <1>3, <1>6
  <2>. QED
    BY <2>1, <1>5, <1>6 DEF old, now
<1>7. CASE ~ Here(k, inner)
  <2>1. now = old
    BY <1>2, <1>3, <1>7
  <2>. QED
    BY <2>1, <1>4, <1>7 DEF old, now
<1>. QED
  BY <1>6, <1>7

\* The outcomes of the tests of a candidate that stands in the text.
LEMMA OutcomeFacts ==
  ASSUME NEW k, Start(k) \in Int, Start(k) >= 1, Same(k)
  PROVE  /\ TRUE \in Outcomes(k) => Here(k, Token)
         /\ FALSE \in Outcomes(k) => ~ Here(k, Token \cup High)
<1> DEFINE L == IF Start(k) = 1 THEN {TRUE} ELSE {~b : b \in InToken(text[Start(k) - 1])}
           R == IF i = Len(text) THEN {TRUE} ELSE {~b : b \in InToken(text[i + 1])}
<1>1. Outcomes(k) = {x \in BOOLEAN : \E l \in L, r \in R : x = (l /\ r /\ Same(k))}
  <2>1. ~ (Start(k) < 1)
    OBVIOUS
  <2>. QED
    BY <2>1, Zenon DEF Outcomes
<1>2. ASSUME NEW c
      PROVE  /\ TRUE \in {~b : b \in InToken(c)} => c \notin Token
             /\ FALSE \in {~b : b \in InToken(c)} => c \in Token \cup High
  <2>1. CASE c \in High
    BY <2>1, AhoAssumption
  <2>2. CASE c \notin High
    <3>1. InToken(c) = {c \in Token}
      BY <2>2 DEF InToken
    <3>. QED
      BY <3>1, Zenon
  <2>. QED
    BY <2>1, <2>2
<1>3. /\ TRUE \in L => Start(k) = 1 \/ text[Start(k) - 1] \notin Token
      /\ FALSE \in L => Start(k) # 1 /\ text[Start(k) - 1] \in Token \cup High
  BY <1>2, Zenon
<1>4. /\ TRUE \in R => i = Len(text) \/ text[i + 1] \notin Token
      /\ FALSE \in R => i # Len(text) /\ text[i + 1] \in Token \cup High
  BY <1>2, Zenon
<1>5. L \subseteq BOOLEAN /\ R \subseteq BOOLEAN
  BY Zenon
<1> HIDE DEF L, R
<1>6. ASSUME TRUE \in Outcomes(k) PROVE TRUE \in L /\ TRUE \in R
  <2>1. PICK l \in L, r \in R : TRUE = (l /\ r /\ Same(k))
    BY <1>1, <1>6, Zenon
  <2>. QED
    BY <2>1, <1>5, Zenon
<1>7. ASSUME FALSE \in Outcomes(k) PROVE FALSE \in L \/ FALSE \in R
  <2>1. PICK l \in L, r \in R : FALSE = (l /\ r /\ Same(k))
    BY <1>1, <1>7, Zenon
  <2>. QED
    BY <2>1, <1>5, Zenon
<1>. QED
  BY <1>3, <1>4, <1>6, <1>7, Zenon DEF Here

\* search counts a word only where it stands as a token, and wherever nothing
\* can take a neighbour for part of a token.
LEMMA Decides ==
  ASSUME NoWrap, BuildInv, ScanInv, pc = "scan", i <= Len(text), gotos[state][Lower] # -1,
         NEW found \in SUBSET Candidates(gotos[state][Lower]),
         \A k \in Candidates(gotos[state][Lower]) : (k \in found) \in Outcomes(k),
         NEW k \in DOMAIN list, Word(k) # << >>
  PROVE  /\ k \in found => Here(k, Token)
         /\ Here(k, Token \cup High) => k \in found
<1> DEFINE C == Candidates(gotos[state][Lower])
<1>1. /\ Start(k) >= 1 /\ Same(k) => k \in C
      /\ k \in C => Start(k) >= 1 /\ Same(k)
  <2>1. Len(list) <= Bits
    BY ReadFacts DEF NoWrap
  <2>. QED
    BY <2>1, CandidateEnds DEF EndsHere
<1>2. Start(k) \in Int
  <2>1. i \in Int /\ Len(Word(k)) \in Nat
    BY ReadFacts, ListFacts
  <2>. QED
    BY <2>1 DEF Start
<1> HIDE DEF C
<1>3. ASSUME k \in found PROVE Here(k, Token)
  <2>1. k \in C
    BY <1>3 DEF C
  <2>2. TRUE \in Outcomes(k)
    <3>1. (k \in found) = TRUE
      BY <1>3
    <3>. QED
      BY <3>1, <2>1, Zenon DEF C
  <2>. QED
    BY <2>1, <2>2, <1>1, <1>2, OutcomeFacts
<1>4. ASSUME Here(k, Token \cup High), k \notin found PROVE FALSE
  <2>1. Start(k) >= 1 /\ Same(k)
    BY <1>4 DEF Here
  <2>2. FALSE \in Outcomes(k)
    <3>1. (k \in found) = FALSE
      BY <1>4
    <3>. QED
      BY <3>1, <2>1, <1>1, Zenon DEF C
  <2>. QED
    BY <2>1, <2>2, <1>2, <1>4, OutcomeFacts
<1>. QED
  BY <1>3, <1>4

\* Reading one more character keeps the counters right.
LEMMA CountScan ==
  ASSUME NoWrap, BuildInv, ScanInv, CountInv, Scan
  PROVE  Counting'
<1> DEFINE s == gotos[state][Lower]
           D == DOMAIN list
<1>1. /\ pc = "scan" /\ i <= Len(text) /\ s # -1 /\ i' = i + 1
      /\ UNCHANGED <<list, text>>
  BY DEF Scan
<1>2. PICK found \in SUBSET Candidates(s) :
         /\ \A k \in Candidates(s) : (k \in found) \in Outcomes(k)
         /\ counters' = [k \in D |-> counters[k] + IF k \in found THEN 1 ELSE 0]
         /\ count' = count + Cardinality(found)
  BY Zenon DEF Scan
<1> HIDE DEF s
<1>3. Counting
  BY <1>1 DEF CountInv
<1>4. list \in Lists /\ i \in Nat /\ i \in 1..Len(text)
  BY <1>1, ReadFacts
<1>5. found \in SUBSET D /\ IsFiniteSet(found)
  <2>1. found \in SUBSET D
    BY <1>2 DEF Candidates
  <2>2. IsFiniteSet(D)
    BY <1>4, ListFacts, FS_Interval
  <2>. QED
    BY <2>1, <2>2, FS_Subset
<1>6. Counted = Pairs(D, counters) /\ Counted' = Pairs(D, counters')
  BY <1>1 DEF Counted, Pairs
<1>7. /\ counters' \in [D -> Nat] /\ IsFiniteSet(Counted') /\ count' = Cardinality(Counted')
  <2>1. counters \in [D -> Nat] /\ IsFiniteSet(Pairs(D, counters)) /\ count = Cardinality(Pairs(D, counters))
    BY <1>3, <1>6 DEF Counting
  <2> HIDE DEF D
  <2>2. /\ counters' \in [D -> Nat] /\ IsFiniteSet(Pairs(D, counters'))
        /\ Cardinality(Pairs(D, counters')) = Cardinality(Pairs(D, counters)) + Cardinality(found)
    BY <2>1, <1>2, <1>5, PairsStep
  <2>. QED
    BY <2>1, <2>2, <1>2, <1>6
<1>8. ASSUME NEW k \in D
      PROVE  counters'[k] \in IF Word(k) = << >> THEN {0}
                              ELSE Cardinality(Places(k, Token \cup High, i))
                                     ..Cardinality(Places(k, Token, i))
  <2>1. counters'[k] = counters[k] + IF k \in found THEN 1 ELSE 0
    BY <1>2
  <2>2. CASE Word(k) = << >>
    <3>1. k \notin found
      BY <2>2, <1>2 DEF Candidates
    <3>2. counters[k] = 0
      BY <2>2, <1>3 DEF Counting
    <3>. QED
      BY <3>1, <3>2, <2>1, <2>2
  <2>3. CASE Word(k) # << >>
    <3>1. counters[k] \in Cardinality(Places(k, Token \cup High, i - 1))..Cardinality(Places(k, Token, i - 1))
      BY <2>3, <1>3 DEF Counting
    <3>2. (k \in found => Here(k, Token)) /\ (Here(k, Token \cup High) => k \in found)
      BY <2>3, <1>1, <1>2, Decides DEF s
    <3>3. /\ Cardinality(Places(k, Token \cup High, i)) =
                Cardinality(Places(k, Token \cup High, i - 1)) + IF Here(k, Token \cup High) THEN 1 ELSE 0
          /\ Cardinality(Places(k, Token, i)) =
                Cardinality(Places(k, Token, i - 1)) + IF Here(k, Token) THEN 1 ELSE 0
      BY <1>4, PlacesStep
    <3>4. i - 1 \in Int
      BY <1>4
    <3>5. /\ Cardinality(Places(k, Token \cup High, i - 1)) \in Nat
          /\ Cardinality(Places(k, Token, i - 1)) \in Nat
      BY <1>4, <3>4, PlacesFinite
    <3>. QED
      BY <3>1, <3>2, <3>3, <3>5, <2>1, <2>3
  <2>. QED
    BY <2>2, <2>3
<1>9. i' - 1 = i
  BY <1>1, <1>4
<1>10. ASSUME NEW k, NEW inner PROVE Places(k, inner, i - 1)' = Places(k, inner, i) /\ Word(k)' = Word(k)
  BY <1>1, <1>9 DEF Places, Word
<1>11. \A k \in D : counters'[k] \in
          IF Word(k)' = << >> THEN {0}
          ELSE Cardinality(Places(k, Token \cup High, i - 1)')..Cardinality(Places(k, Token, i - 1)')
  BY <1>8, <1>10
<1>. QED
  BY <1>1, <1>7, <1>11 DEF Counting

LEMMA CountInit == Init => CountInv
BY DEF Init, CountInv

LEMMA CountNext ==
  ASSUME NoWrap, BuildInv, ScanInv, CountInv, [Next]_vars
  PROVE  CountInv'
<1>1. ASSUME UNCHANGED <<list, text, i, counters, count>> PROVE Counting => Counting'
  <2>1. ASSUME NEW k, NEW inner
        PROVE  Places(k, inner, i - 1)' = Places(k, inner, i - 1) /\ Word(k)' = Word(k)
    BY <1>1 DEF Places, Word
  <2>2. Counted' = Counted
    BY <1>1 DEF Counted
  <2>. QED
    BY <1>1, <2>1, <2>2 DEF Counting
<1>2. CASE UNCHANGED vars
  BY <1>1, <1>2 DEF vars, scan, CountInv
<1>3. CASE Prepare \/ ScanBack
  <2>1. /\ UNCHANGED <<list, text, i, counters, count>> /\ pc # "ready"
        /\ pc' \notin {"ready", "combine"}
    BY <1>3 DEF Prepare, Alloc, AddChar, AddEnd, Root, RootChild, Visit, Edge, FallBack,
                SetFailure, Prepared, ScanBack, scan
  <2>. QED
    BY <2>1, <1>1 DEF CountInv
<1>4. CASE Finish
  <2>1. UNCHANGED <<list, text, i, counters, count>> /\ pc = "scan" /\ i > Len(text)
    BY <1>4 DEF Finish
  <2>2. i = Len(text) + 1
    BY <2>1 DEF ScanInv
  <2>. QED
    BY <2>1, <2>2, <1>1 DEF CountInv
<1>7. CASE CombineWord \/ Return
  <2>1. UNCHANGED <<list, text, i, counters, count>> /\ pc = "combine"
    BY <1>7 DEF CombineWord, Return
  <2>. QED
    BY <2>1, <1>1 DEF CountInv
<1>5. CASE Scan
  <2>1. pc' = "scan"
    BY <1>5 DEF Scan
  <2>. QED
    BY <2>1, <1>5, CountScan DEF CountInv
<1>6. ASSUME NEW t \in Texts[list], NEW m \in Modes[list], Search(t, m) PROVE CountInv'
  <2>1. /\ text' = t /\ i' = 1 /\ count' = 0 /\ counters' = [k \in DOMAIN list |-> 0]
        /\ (pc' \in {"ready", "combine"} => t = << >> \/ list = << >>) /\ list' = list
    BY <1>6 DEF Search, ZeroCounters
  <2>2. list \in Lists
    BY DEF BuildInv
  <2>3. Counted' = {}
    <3>1. \A k \in DOMAIN list : 1..counters'[k] = {}
      BY <2>1
    <3>. QED
      BY <3>1, <2>1 DEF Counted
  <2>4. IsFiniteSet(Counted') /\ count' = Cardinality(Counted')
    BY <2>1, <2>3, FS_EmptySet
  <2>5. ASSUME NEW k \in DOMAIN list, Word(k) # << >>, NEW inner
        PROVE  Cardinality(Places(k, inner, i - 1)') = 0
    <3>1. Word(k)' = Word(k) /\ Len(Word(k)) \in Nat /\ Len(Word(k)) # 0
      BY <2>1, <2>2, <2>5, ListFacts DEF Word
    <3>2. Places(k, inner, i - 1)' = {}
      <4>1. 1..(1 - 1 - Len(Word(k)) + 1) = {}
        BY <3>1
      <4>. QED
        BY <4>1, <3>1, <2>1 DEF Places
    <3>. QED
      BY <3>2, FS_EmptySet
  <2>6. \A k \in DOMAIN list : counters'[k] \in
           IF Word(k)' = << >> THEN {0}
           ELSE Cardinality(Places(k, Token \cup High, i - 1)')..Cardinality(Places(k, Token, i - 1)')
    <3> SUFFICES ASSUME NEW k \in DOMAIN list
                 PROVE  counters'[k] \in
                           IF Word(k)' = << >> THEN {0}
                           ELSE Cardinality(Places(k, Token \cup High, i - 1)')
                                  ..Cardinality(Places(k, Token, i - 1)')
      OBVIOUS
    <3>1. counters'[k] = 0 /\ Word(k)' = Word(k)
      BY <2>1 DEF Word
    <3>. QED
      BY <3>1, <2>5
  <2>7. Counting'
    BY <2>1, <2>4, <2>6 DEF Counting
  <2>8. pc' \in {"ready", "combine"} => i' = Len(text') + 1 \/ list' = << >>
    BY <2>1
  <2>. QED
    BY <2>7, <2>8 DEF CountInv
<1>. QED
  BY <1>2, <1>3, <1>4, <1>5, <1>6, <1>7 DEF Next, Step

LEMMA CountFacts == BuildInv /\ CountInv => CountsRight
<1> SUFFICES ASSUME BuildInv, CountInv, pc = "ready", counters # << >> PROVE CountsRight
  BY DEF CountsRight
<1>1. Counting
  BY DEF CountInv
<1>2. CASE i = Len(text) + 1 /\ Len(text) \in Int
  <2>1. i - 1 = Len(text)
    BY <1>2
  <2>2. ASSUME NEW k \in DOMAIN list, Word(k) # << >>
        PROVE  counters[k] \in Cardinality(Places(k, Token \cup High, Len(text)))
                                 ..(Cardinality(Places(k, Token, Len(text))) + Extra(k))
    <3>1. Len(Word(k)) \in Nat /\ Len(Word(k)) # 0
      BY <2>2, ListFacts DEF BuildInv
    <3>2. Len(text) - Len(Word(k)) + 1 \in Int /\ 1 \in Int
      BY <3>1, <1>2
    <3>3. Places(k, Token, Len(text)) \subseteq 1..(Len(text) - Len(Word(k)) + 1)
      BY DEF Places
    <3>4. IsFiniteSet(Places(k, Token, Len(text)))
      BY <3>2, <3>3, FS_Interval, FS_Subset
    <3>5. PICK a, b, x, n : /\ a = Cardinality(Places(k, Token \cup High, Len(text)))
                            /\ b = Cardinality(Places(k, Token, Len(text)))
                            /\ x = Extra(k) /\ n = counters[k]
      OBVIOUS
    <3>6. b \in Nat /\ x \in Nat
      BY <3>1, <3>4, <3>5, FS_CardinalityType DEF Extra
    <3>7. n \in a..b
      BY <3>5, <2>1, <2>2, <1>1, Zenon DEF Counting
    <3>8. n \in a..(b + x)
      BY <3>6, <3>7
    <3>. QED
      BY <3>5, <3>8
  <2>3. /\ count = Cardinality(Counted)
        /\ \A k \in DOMAIN list : Word(k) = << >> => counters[k] \in {0}
    BY <1>1 DEF Counting
  <2>. QED
    BY <2>2, <2>3 DEF CountsRight
<1>3. CASE list = << >>
  BY <1>1, <1>3 DEF CountsRight, Counting
<1>. QED
  BY <1>2, <1>3 DEF CountInv

\* For every word list that has a bit for each word and every sequence of
\* searches, the counters search returns are the numbers of places where the
\* words stand as tokens, and count is their sum: the automaton misses no
\* occurrence, reports none twice, and keeps nothing of the search before.
THEOREM CountsTokens == NoWrap /\ Spec => []CountsRight
<1> SUFFICES ASSUME NoWrap PROVE Spec => []CountsRight
  OBVIOUS
<1> DEFINE Inv == BuildInv /\ ScanInv /\ CountInv
<1>1. Init => Inv
  BY BuildInit, ScanInvInit, CountInit
<1>2. Inv /\ [Next]_vars => Inv'
  BY BuildNext, ScanInvNext, CountNext
<1>3. Inv => CountsRight
  BY CountFacts
<1>. QED
  BY <1>1, <1>2, <1>3, PTL DEF Spec
-----------------------------------------------------------------------------
\* The values of the words, and their products with the counters, are ints.
TotalsFit ==
    \A l \in Lists : \A t \in Texts[l] : \A k \in DOMAIN l, n \in 1..Len(t) :
        l[k].value * n \in (-IntMax - 1)..IntMax

Totals == Each(Total)
Values == Each(Value)

\* v is the least, or the greatest, value of f for the words of S, the greatest
\* of 0 and of these values, or one of them.
Down(S, f, v) ==
    (\A k \in S : v <= f[k]) /\ IF S = {} THEN v = IntMax ELSE \E k \in S : v = f[k]
Up(S, f, v) ==
    (\A k \in S : v >= f[k]) /\ IF S = {} THEN v = -IntMax - 1 ELSE \E k \in S : v = f[k]
Peak(S, f, v) == (\A k \in S : v >= f[k]) /\ v >= 0 /\ (v = 0 \/ \E k \in S : v = f[k])
One(S, f, v) == (S = {} /\ v = 0) \/ \E k \in S : v = f[k]

\* The modes that add up the totals: SUM, AVG and the default of the code.
Adds(m) == m \notin {"MIN", "MINV", "MAX", "MAXV", "MUL", "MULV", "SUMV", "AVGV", "ANY", "ANYV"}

\* What mode m made of the words S before word n, given the totals f and the
\* values g.
Partial(m, S, n, v, f, g) ==
    /\ m = "MIN" => Down(S, f, v)
    /\ m = "MINV" => Down(S, g, v)
    /\ m = "MAX" => Up(S, f, v)
    /\ m = "MAXV" => Peak(S, g, v)
    /\ m \in {"MUL", "MULV"} => v = 0
    /\ Adds(m) => v = Sums(f)[n - 1]
    /\ m \in {"SUMV", "AVGV"} => v = Sums(g)[n - 1]
    /\ m = "ANY" => One(S, f, v)
    /\ m = "ANYV" => One(S, g, v)

\* The words found before word n.
Before(n) == {k \in Found : k < n}

\* No word is counted twice at one place, and count says if any was found.
Tallying ==
    /\ text \in Texts[list] /\ i \in 1..(Len(text) + 1)
    /\ counters \in [DOMAIN list -> Nat]
    /\ \A k \in DOMAIN list : counters[k] < i
    /\ count > 0 => Found # {}

TallyInv ==
    /\ list \in Lists /\ count \in Nat /\ value \in Int
    /\ pc # "ready" \/ count > 0 => Tallying
    /\ pc = "combine" => /\ count > 0 /\ nth \in 1..(Len(list) + 1)
                         /\ Partial(mode, Before(nth), nth, value, Totals, Values)
    /\ ValueRight

\* The loop that adds up has a result.
LEMMA SumsDef ==
  ASSUME NEW l, Len(l) \in Nat
  PROVE  Sums(l) = [k \in 0..Len(l) |-> IF k = 0 THEN 0 ELSE Sums(l)[k - 1] + l[k]]
<1> DEFINE Upto(f, n) == f = [k \in 0..n |-> IF k = 0 THEN 0 ELSE f[k - 1] + l[k]]
           T == {n \in Nat : n <= Len(l) /\ ~ \E f : Upto(f, n)}
<1>1. T = {}
  <2> SUFFICES ASSUME T # {} PROVE FALSE
    OBVIOUS
  <2>1. PICK x \in T : \A y \in T : x <= y
    <3> HIDE DEF Upto
    <3>. QED BY LeastNumber
  <2>2. x # 0
    <3> SUFFICES ASSUME x = 0 PROVE FALSE
      OBVIOUS
    <3>1. Upto([k \in 0..0 |-> 0], 0)
      OBVIOUS
    <3>. QED
      BY <3>1, <2>1
  <2>3. x - 1 \notin T /\ x - 1 \in Nat /\ x - 1 <= Len(l)
    <3> HIDE DEF Upto
    <3>. QED BY <2>1, <2>2
  <2>4. PICK g : Upto(g, x - 1)
    BY <2>3
  <2> DEFINE f == [k \in 0..x |-> IF k = x THEN g[x - 1] + l[x] ELSE g[k]]
  <2>5. Upto(f, x)
    <3>1. ASSUME NEW k \in 0..x
          PROVE  f[k] = IF k = 0 THEN 0 ELSE f[k - 1] + l[k]
      <4>1. CASE k = x
        BY <4>1, <2>1, <2>2
      <4>2. CASE k # x
        <5>1. k \in 0..(x - 1)
          BY <4>2, <2>1
        <5>2. g[k] = IF k = 0 THEN 0 ELSE g[k - 1] + l[k]
          BY <5>1, <2>4
        <5>. QED
          BY <5>1, <5>2, <4>2, <2>1
      <4>. QED
        BY <4>1, <4>2
    <3>. QED
      BY <3>1
  <2>. QED
    BY <2>5, <2>1
<1>2. \E f : Upto(f, Len(l))
  BY <1>1
<1>3. Sums(l) = CHOOSE f : Upto(f, Len(l))
  BY DEF Sums
<1>. QED
  BY <1>2, <1>3

\* The division of C leaves a remainder smaller than the divisor.
LEMMA QuotientNear ==
  ASSUME NEW a \in Int, NEW b \in Nat, b > 0, NEW q, q = Quotient(a, b)
  PROVE  q \in Int /\ a - q * b < b /\ -(a - q * b) < b
<1>1. ASSUME NEW c \in Nat PROVE /\ c \div b \in Nat
                                 /\ (c \div b) * b <= c /\ c < (c \div b) * b + b
  OBVIOUS
<1>2. CASE a >= 0
  <2>1. q = a \div b /\ a \in Nat
    BY <1>2 DEF Quotient
  <2>2. PICK p : p = a \div b
    OBVIOUS
  <2>3. p \in Nat /\ p * b <= a /\ a < p * b + b
    BY <2>1, <2>2, <1>1
  <2>4. PICK r : r = p * b
    OBVIOUS
  <2>5. r \in Int /\ r <= a /\ a < r + b
    BY <2>3, <2>4
  <2>6. a - r < b /\ -(a - r) < b
    BY <2>5
  <2>. QED
    BY <2>1, <2>2, <2>3, <2>4, <2>6
<1>3. CASE a < 0
  <2>1. q = -((-a) \div b) /\ -a \in Nat
    BY <1>3 DEF Quotient
  <2>2. PICK p : p = (-a) \div b
    OBVIOUS
  <2>3. p \in Nat /\ p * b <= -a /\ -a < p * b + b
    BY <2>1, <2>2, <1>1
  <2>4. PICK r : r = p * b
    OBVIOUS
  <2>5. r \in Int /\ r <= -a /\ -a < r + b /\ q * b = -r /\ q \in Int
    BY <2>1, <2>2, <2>3, <2>4
  <2>6. a - (-r) < b /\ -(a - (-r)) < b
    BY <2>5
  <2>. QED
    BY <2>5, <2>6
<1>. QED
  BY <1>2, <1>3

\* Word k, of value x and counted c times, joins the words S before it to make
\* the words T before word n; ANY and ANYV leave out the words between.
Joins(m, S, k, f, g, x, c, T, n) ==
    /\ f[k] = x * c /\ g[k] = x
    /\ f[k] \in (-IntMax - 1)..IntMax /\ g[k] \in (-IntMax - 1)..IntMax
    /\ \A a \in S : f[a] \in Int /\ g[a] \in Int
    /\ Sums(f)[k] = Sums(f)[k - 1] + f[k] /\ Sums(g)[k] = Sums(g)[k - 1] + g[k]
    /\ k \in T /\ S \subseteq T
    /\ m \in {"ANY", "ANYV"} \/ (T = S \cup {k} /\ n = k + 1)

\* One more word.
LEMMA PartialWord ==
  ASSUME NEW m, NEW S, NEW k \in Nat, NEW v \in Int, NEW f, NEW g, NEW x \in Int, NEW c \in Nat,
         NEW T, NEW n, Partial(m, S, k, v, f, g), Joins(m, S, k, f, g, x, c, T, n)
  PROVE  Partial(m, T, n, Combine(m, v, x, c), f, g) /\ Combine(m, v, x, c) \in Int
<1> USE DEF Joins
<1>0. IntMax \in Nat
  BY AhoAssumption
<1>1. PICK y : y = x * c
  OBVIOUS
<1>2. y \in Int /\ f[k] = y
  BY <1>1
<1>3. PICK z : z = Combine(m, v, x, c)
  OBVIOUS
<1>4. /\ m = "ANY" => z = IF v = 0 THEN y ELSE v
      /\ m = "ANYV" => z = IF v = 0 THEN x ELSE v
      /\ m = "MIN" => z = IF y < v THEN y ELSE v
      /\ m = "MINV" => z = IF x < v THEN x ELSE v
      /\ m = "MAX" => z = IF y > v THEN y ELSE v
      /\ m = "MAXV" => z = IF x > v THEN x ELSE v
      /\ m \in {"MUL", "MULV"} /\ v = 0 => z = 0
      /\ Adds(m) => z = v + y
      /\ m \in {"SUMV", "AVGV"} => z = v + x
  BY <1>1, <1>3 DEF Combine, Adds
<1>5. z \in Int
  BY <1>1, <1>2, <1>3 DEF Combine
<1>6. ASSUME NEW h, h[k] \in (-IntMax - 1)..IntMax, \A a \in S : h[a] \in Int, T = S \cup {k}
      PROVE  /\ Down(S, h, v) => Down(T, h, IF h[k] < v THEN h[k] ELSE v)
             /\ Up(S, h, v) => Up(T, h, IF h[k] > v THEN h[k] ELSE v)
             /\ Peak(S, h, v) => Peak(T, h, IF h[k] > v THEN h[k] ELSE v)
  <2>1. PICK u : u = h[k]
    OBVIOUS
  <2>2. u \in Int /\ u <= IntMax /\ -IntMax - 1 <= u
    BY <2>1, <1>6, <1>0
  <2>3. ASSUME Down(S, h, v) PROVE Down(T, h, IF u < v THEN u ELSE v)
    <3>1. CASE u < v
      <4>1. \A a \in T : u <= h[a]
        BY <3>1, <2>1, <2>2, <2>3, <1>6 DEF Down
      <4>. QED
        BY <4>1, <3>1, <2>1 DEF Down
    <3>2. CASE ~(u < v)
      <4>1. \A a \in T : v <= h[a]
        BY <3>2, <2>1, <2>2, <2>3, <1>6 DEF Down
      <4>2. \E a \in T : v = h[a]
        <5>1. CASE S = {}
          BY <5>1, <3>2, <2>1, <2>2, <2>3, <1>0 DEF Down
        <5>2. CASE S # {}
          BY <5>2, <2>3 DEF Down
        <5>. QED
          BY <5>1, <5>2
      <4>. QED
        BY <4>1, <4>2, <3>2 DEF Down
    <3>. QED
      BY <3>1, <3>2
  <2>4. ASSUME Up(S, h, v) PROVE Up(T, h, IF u > v THEN u ELSE v)
    <3>1. CASE u > v
      <4>1. \A a \in T : u >= h[a]
        BY <3>1, <2>1, <2>2, <2>4, <1>6 DEF Up
      <4>. QED
        BY <4>1, <3>1, <2>1 DEF Up
    <3>2. CASE ~(u > v)
      <4>1. \A a \in T : v >= h[a]
        BY <3>2, <2>1, <2>2, <2>4, <1>6 DEF Up
      <4>2. \E a \in T : v = h[a]
        <5>1. CASE S = {}
          BY <5>1, <3>2, <2>1, <2>2, <2>4, <1>0 DEF Up
        <5>2. CASE S # {}
          BY <5>2, <2>4 DEF Up
        <5>. QED
          BY <5>1, <5>2
      <4>. QED
        BY <4>1, <4>2, <3>2 DEF Up
    <3>. QED
      BY <3>1, <3>2
  <2>5. ASSUME Peak(S, h, v) PROVE Peak(T, h, IF u > v THEN u ELSE v)
    BY <2>1, <2>2, <2>5, <1>6 DEF Peak
  <2>. QED
    BY <2>1, <2>3, <2>4, <2>5
<1>7. ASSUME m = "MIN" PROVE Down(T, f, z)
  <2>1. Down(S, f, v) /\ T = S \cup {k}
    BY <1>7 DEF Partial
  <2>. QED
    BY <2>1, <1>2, <1>4, <1>6, <1>7
<1>8. ASSUME m = "MINV" PROVE Down(T, g, z)
  <2>1. Down(S, g, v) /\ T = S \cup {k}
    BY <1>8 DEF Partial
  <2>. QED
    BY <2>1, <1>4, <1>6, <1>8
<1>9. ASSUME m = "MAX" PROVE Up(T, f, z)
  <2>1. Up(S, f, v) /\ T = S \cup {k}
    BY <1>9 DEF Partial
  <2>. QED
    BY <2>1, <1>2, <1>4, <1>6, <1>9
<1>10. ASSUME Adds(m) PROVE z = Sums(f)[n - 1]
  <2>1. v = Sums(f)[k - 1] /\ n - 1 = k
    BY <1>10 DEF Partial, Adds
  <2>. QED
    BY <2>1, <1>2, <1>4, <1>10
<1>11. ASSUME m \in {"SUMV", "AVGV"} PROVE z = Sums(g)[n - 1]
  <2>1. v = Sums(g)[k - 1] /\ n - 1 = k
    BY <1>11 DEF Partial
  <2>. QED
    BY <2>1, <1>4, <1>11
<1>12. ASSUME m = "ANY" PROVE One(T, f, z)
  BY <1>2, <1>4, <1>12 DEF Partial, One
<1>13. ASSUME m = "ANYV" PROVE One(T, g, z)
  BY <1>4, <1>13 DEF Partial, One
<1>14. ASSUME m = "MAXV" PROVE Peak(T, g, z)
  <2>1. Peak(S, g, v) /\ T = S \cup {k}
    BY <1>14 DEF Partial
  <2>. QED
    BY <2>1, <1>4, <1>6, <1>14
<1>15. ASSUME m \in {"MUL", "MULV"} PROVE z = 0
  BY <1>4, <1>15 DEF Partial
<1>16. Partial(m, T, n, z, f, g)
  BY <1>7, <1>8, <1>9, <1>10, <1>11, <1>12, <1>13, <1>14, <1>15 DEF Partial
<1>. QED
  BY <1>3, <1>5, <1>16

\* The totals and the values, word by word, and their sums.
LEMMA TallyFacts ==
  ASSUME TotalsFit, list \in Lists, Tallying
  PROVE  /\ Len(list) \in Nat /\ DOMAIN list = 1..Len(list) /\ Found \subseteq 1..Len(list)
         /\ \A k \in DOMAIN list : counters[k] \in Nat /\ Value(k) \in Int
         /\ \A k \in Found : /\ Totals[k] = Value(k) * counters[k] /\ Values[k] = Value(k)
                             /\ Totals[k] \in (-IntMax - 1)..IntMax
                             /\ Values[k] \in (-IntMax - 1)..IntMax
         /\ \A k \in DOMAIN list \ Found : Totals[k] = 0 /\ Values[k] = 0
         /\ \A h \in {Totals, Values} :
               /\ Sums(h)[0] = 0
               /\ \A k \in 1..Len(list) : Sums(h)[k] = Sums(h)[k - 1] + h[k]
<1>1. list \in Words /\ Len(list) \in Nat /\ DOMAIN list = 1..Len(list)
  BY ListFacts
<1>2. Found \subseteq 1..Len(list) /\ \A k \in DOMAIN list : counters[k] \in Nat
  BY <1>1 DEF Found, Tallying
<1>3. ASSUME NEW k \in DOMAIN list PROVE Value(k) \in Int
  <2>1. list[k] \in [word : Seq(DOMAIN Fold), value : Int]
    BY <1>1, ElementOfSeq, Zenon DEF Words
  <2>. QED
    BY <2>1 DEF Value
<1>4. ASSUME NEW k \in DOMAIN list
      PROVE  /\ Totals[k] = IF counters[k] = 0 THEN 0 ELSE Value(k) * counters[k]
             /\ Values[k] = IF counters[k] = 0 THEN 0 ELSE Value(k)
  BY DEF Totals, Values, Each, Total, Value
<1>5. ASSUME NEW k \in Found
      PROVE  /\ Totals[k] \in (-IntMax - 1)..IntMax
             /\ Values[k] \in (-IntMax - 1)..IntMax
  <2>0. k \in DOMAIN list /\ counters[k] # 0
    BY DEF Found
  <2>1. text \in Texts[list] /\ Len(text) \in Nat
    BY AhoAssumption DEF Tallying
  <2>2. counters[k] \in 1..Len(text) /\ 1 \in 1..Len(text)
    BY <2>0, <2>1, <1>2 DEF Tallying
  <2>3. /\ Value(k) * counters[k] \in (-IntMax - 1)..IntMax
        /\ Value(k) * 1 \in (-IntMax - 1)..IntMax
    BY <2>0, <2>1, <2>2 DEF TotalsFit, Value
  <2>4. Value(k) * 1 = Value(k)
    BY <2>0, <1>3
  <2>. QED
    BY <2>0, <2>3, <2>4, <1>4
<1>6. ASSUME NEW h \in {Totals, Values}
      PROVE  /\ Sums(h)[0] = 0
             /\ \A k \in 1..Len(list) : Sums(h)[k] = Sums(h)[k - 1] + h[k]
  <2>1. Len(h) = Len(list)
    <3>1. h \in [1..Len(list) -> Int]
      BY <1>1, <1>2, <1>3, <1>4 DEF Totals, Values, Each
    <3>. QED
      BY <3>1, <1>1
  <2>2. PICK S : S = Sums(h)
    OBVIOUS
  <2>3. S = [k \in 0..Len(list) |-> IF k = 0 THEN 0 ELSE S[k - 1] + h[k]]
    BY <2>1, <2>2, <1>1, SumsDef
  <2>4. \A k \in 0..Len(list) : S[k] = IF k = 0 THEN 0 ELSE S[k - 1] + h[k]
    BY <2>3, Zenon
  <2>. QED
    BY <2>2, <2>4, <1>1
<1>7. \A k \in DOMAIN list \ Found : counters[k] = 0
  BY DEF Found
<1>8. \A k \in Found : k \in DOMAIN list /\ counters[k] # 0
  BY DEF Found
<1>. QED
  BY <1>1, <1>2, <1>3, <1>4, <1>5, <1>6, <1>7, <1>8

\* Without the words read nothing but the initial value is there.
LEMMA PartialFirst ==
  ASSUME NEW m, NEW f, NEW g, Sums(f)[0] = 0, Sums(g)[0] = 0
  PROVE  Partial(m, {}, 1, First(m), f, g) /\ First(m) \in Int
<1>1. IntMax \in Nat
  BY AhoAssumption
<1>. QED
  BY <1>1 DEF Partial, Adds, First, Down, Up, Peak, One

\* A word that was not found changes nothing.
LEMMA PartialSkip ==
  ASSUME NEW m, NEW S, NEW k \in Nat, NEW v, NEW f, NEW g, Partial(m, S, k, v, f, g), v \in Int,
         f[k] = 0, g[k] = 0,
         Sums(f)[k] = Sums(f)[k - 1] + f[k], Sums(g)[k] = Sums(g)[k - 1] + g[k]
  PROVE  Partial(m, S, k + 1, v, f, g)
<1>1. (k + 1) - 1 = k
  OBVIOUS
<1>2. Adds(m) => v = Sums(f)[k]
  BY DEF Partial
<1>3. m \in {"SUMV", "AVGV"} => v = Sums(g)[k]
  BY DEF Partial
<1>. QED
  BY <1>1, <1>2, <1>3 DEF Partial

\* What search makes of all the words that were found is what its mode names.
LEMMA FinalRight ==
  ASSUME TotalsFit, list \in Lists, Tallying, count \in Nat, count > 0, value \in Int,
         Partial(mode, Found, Len(list) + 1, value, Totals, Values),
         NEW r, r = Final(mode, value)
  PROVE  /\ r \in Int
         /\ CASE mode = "MIN"  -> Least(r, Total)
              [] mode = "MINV" -> Least(r, Value)
              [] mode = "MAX"  -> Greatest(r, Total)
              [] mode = "MAXV" -> IF \E k \in Found : Value(k) > 0
                                  THEN Greatest(r, Value) ELSE r = 0
              [] mode \in {"MUL", "MULV"} -> r = 0
              [] mode = "SUMV" -> r = SumOf(Value)
              [] mode = "AVG"  -> LET d == SumOf(Total) - r * count IN d < count /\ -d < count
              [] mode = "AVGV" -> LET d == SumOf(Value) - r * count IN d < count /\ -d < count
              [] mode = "ANY"  -> (\E k \in Found : r = Total(k)) \/ r = list[1].value * count
              [] mode = "ANYV" -> (\E k \in Found : r = Value(k)) \/ r = list[1].value
              [] OTHER -> r = SumOf(Total)
<1>1. /\ Len(list) \in Nat /\ DOMAIN list = 1..Len(list) /\ Found # {}
      /\ \A k \in Found : Totals[k] = Total(k) /\ Values[k] = Value(k)
  BY TallyFacts DEF Tallying, Total, Value
<1>2. (Len(list) + 1) - 1 = Len(list)
  BY <1>1
<1>3. list[1].value \in Int
  <2>1. 1 \in DOMAIN list
    BY <1>1, TallyFacts
  <2>. QED
    BY <2>1, TallyFacts DEF Value
<1>4. SumOf(Total) = Sums(Totals)[Len(list)] /\ SumOf(Value) = Sums(Values)[Len(list)]
  BY DEF SumOf, Totals, Values
<1>5. CASE mode = "MIN"
  <2>1. Down(Found, Totals, value) /\ r = value
    BY <1>5 DEF Partial, Final
  <2>2. Least(r, Total)
    BY <2>1, <1>1 DEF Down, Least
  <2>. QED
    BY <2>1, <2>2, <1>5
<1>6. CASE mode = "MINV"
  <2>1. Down(Found, Values, value) /\ r = value
    BY <1>6 DEF Partial, Final
  <2>2. Least(r, Value)
    BY <2>1, <1>1 DEF Down, Least
  <2>. QED
    BY <2>1, <2>2, <1>6
<1>7. CASE mode = "MAX"
  <2>1. Up(Found, Totals, value) /\ r = value
    BY <1>7 DEF Partial, Final
  <2>2. Greatest(r, Total)
    BY <2>1, <1>1 DEF Up, Greatest
  <2>. QED
    BY <2>1, <2>2, <1>7
<1>8. CASE Adds(mode) /\ mode # "AVG"
  <2>1. r = value /\ value = SumOf(Total)
    BY <1>2, <1>4, <1>8 DEF Partial, Final, Adds
  <2>. QED
    BY <2>1, <1>8 DEF Adds
<1>9. CASE mode = "SUMV"
  <2>1. r = value /\ value = SumOf(Value)
    BY <1>2, <1>4, <1>9 DEF Partial, Final
  <2>. QED
    BY <2>1, <1>9
<1>10. CASE mode = "AVG"
  <2>1. r = Quotient(value, count) /\ value = SumOf(Total)
    BY <1>2, <1>4, <1>10 DEF Partial, Final, Adds
  <2>2. r \in Int /\ value - r * count < count /\ -(value - r * count) < count
    BY <2>1, QuotientNear
  <2>. QED
    BY <2>1, <2>2, <1>10
<1>11. CASE mode = "AVGV"
  <2>1. r = Quotient(value, count) /\ value = SumOf(Value)
    BY <1>2, <1>4, <1>11 DEF Partial, Final
  <2>2. r \in Int /\ value - r * count < count /\ -(value - r * count) < count
    BY <2>1, QuotientNear
  <2>. QED
    BY <2>1, <2>2, <1>11
<1>12. CASE mode = "ANY"
  <2>1. \E k \in Found : value = Total(k)
    BY <1>1, <1>12 DEF Partial, One
  <2>2. r = value \/ r = list[1].value * count
    BY <1>12 DEF Final
  <2>3. r \in Int
    BY <2>2, <1>3
  <2>. QED
    BY <2>1, <2>2, <2>3, <1>12
<1>13. CASE mode = "ANYV"
  <2>1. \E k \in Found : value = Value(k)
    BY <1>1, <1>13 DEF Partial, One
  <2>2. r = value \/ r = list[1].value
    BY <1>13 DEF Final
  <2>. QED
    BY <2>1, <2>2, <1>3, <1>13
<1>14. CASE mode = "MAXV"
  <2>1. Peak(Found, Values, value) /\ r = value
    BY <1>14 DEF Partial, Final
  <2>2. \A k \in Found : Values[k] = Value(k) /\ Value(k) \in Int
    BY TallyFacts DEF Found
  <2>3. IF \E k \in Found : Value(k) > 0 THEN Greatest(r, Value) ELSE r = 0
    BY <2>1, <2>2 DEF Peak, Greatest
  <2>. QED
    BY <2>1, <2>3, <1>14
<1>15. CASE mode = "MUL"
  <2>1. r = 0
    BY <1>15 DEF Partial, Final
  <2>. QED
    BY <2>1, <1>15
<1>16. CASE mode = "MULV"
  <2>1. r = 0
    BY <1>16 DEF Partial, Final
  <2>. QED
    BY <2>1, <1>16
<1>. QED
  BY <1>5, <1>6, <1>7, <1>8, <1>9, <1>10, <1>11, <1>12, <1>13, <1>14, <1>15, <1>16 DEF Adds

\* The step of the loop over the counters.
LEMMA TallyWord ==
  ASSUME TotalsFit, TallyInv, CombineWord
  PROVE  TallyInv'
<1>1. /\ pc = "combine" /\ nth <= Len(list) /\ pc' = pc
      /\ UNCHANGED <<list, text, mode, i, counters, count>>
  BY DEF CombineWord
<1>2. /\ list \in Lists /\ Tallying /\ count \in Nat /\ count > 0 /\ value \in Int
      /\ nth \in 1..(Len(list) + 1) /\ Partial(mode, Before(nth), nth, value, Totals, Values)
  BY <1>1 DEF TallyInv
<1>3. /\ Tallying' /\ Totals' = Totals /\ Values' = Values /\ Found' = Found
      /\ ValueRight'
  <2>1. ValueRight'
    BY <1>1 DEF ValueRight
  <2>. QED
    BY <2>1, <1>1, <1>2 DEF Tallying, Totals, Values, Each, Total, Value, Found
<1>4. PICK k : k = nth
  OBVIOUS
<1>5. PICK f, g : f = Totals /\ g = Values
  OBVIOUS
<1>6. /\ Len(list) \in Nat /\ k \in 1..Len(list) /\ k \in DOMAIN list /\ k \in Nat
      /\ counters[k] \in Nat /\ Value(k) \in Int /\ Found \subseteq 1..Len(list)
      /\ Sums(f)[k] = Sums(f)[k - 1] + f[k] /\ Sums(g)[k] = Sums(g)[k - 1] + g[k]
  <2>1. Len(list) \in Nat /\ DOMAIN list = 1..Len(list) /\ Found \subseteq 1..Len(list)
    BY <1>2, TallyFacts
  <2>2. k \in 1..Len(list) /\ k \in Nat
    BY <2>1, <1>1, <1>2, <1>4
  <2>. QED
    BY <2>1, <2>2, <1>2, <1>5, TallyFacts
<1>7. Partial(mode, Before(k), k, value, f, g)
  BY <1>2, <1>4, <1>5
<1>8. ASSUME NEW n, NEW T, NEW v, n = nth', v = value', T = {j \in Found : j < n},
             n \in 1..(Len(list) + 1), v \in Int, Partial(mode, T, n, v, f, g)
      PROVE  TallyInv'
  <2>1. Before(nth)' = T
    BY <1>3, <1>8 DEF Before
  <2>2. Partial(mode, Before(nth), nth, value, Totals, Values)'
    <3>1. mode' = mode /\ Totals' = f /\ Values' = g
      BY <1>1, <1>3, <1>5
    <3>. QED
      BY <3>1, <2>1, <1>8 DEF Partial, Adds, Down, Up, Peak, One, Sums
  <2>. QED
    BY <2>2, <1>1, <1>2, <1>3, <1>8 DEF TallyInv
<1>9. CASE counters[k] = 0
  <2>1. nth' = k + 1 /\ value' = value
    BY <1>4, <1>9 DEF CombineWord
  <2>2. k \notin Found /\ f[k] = 0 /\ g[k] = 0
    <3>1. k \notin Found
      BY <1>9 DEF Found
    <3>. QED
      BY <3>1, <1>2, <1>5, <1>6, TallyFacts
  <2>3. Partial(mode, Before(k), k + 1, value, f, g)
    BY <2>2, <1>2, <1>6, <1>7, PartialSkip
  <2>4. Before(k) = {j \in Found : j < k + 1}
    <3>1. \A j \in Found : j < k <=> j < k + 1
      BY <2>2, <1>6
    <3>. QED
      BY <3>1 DEF Before
  <2>5. k + 1 \in 1..(Len(list) + 1)
    BY <1>6
  <2>. QED
    BY <2>1, <2>3, <2>4, <2>5, <1>2, <1>8
<1>10. CASE counters[k] # 0
  <2>1. k \in Found
    BY <1>6, <1>10 DEF Found
  <2>2. /\ f[k] = Value(k) * counters[k] /\ g[k] = Value(k)
        /\ f[k] \in (-IntMax - 1)..IntMax /\ g[k] \in (-IntMax - 1)..IntMax
    BY <2>1, <1>2, <1>5, TallyFacts
  <2>3. \A a \in Before(k) : f[a] \in Int /\ g[a] \in Int
    <3>1. IntMax \in Nat
      BY AhoAssumption
    <3>. QED
      BY <3>1, <1>2, <1>5, TallyFacts DEF Before
  <2>4. PICK v : v = Combine(mode, value, Value(k), counters[k])
    OBVIOUS
  <2>5. value' = v
    BY <2>4, <1>4, <1>10 DEF CombineWord, Value
  <2>6. PICK n : n = IF mode \in {"ANY", "ANYV"} THEN Len(list) + 1 ELSE k + 1
    OBVIOUS
  <2>7. nth' = n
    BY <2>6, <1>4, <1>10 DEF CombineWord
  <2>8. n \in 1..(Len(list) + 1) /\ n > k
    BY <2>6, <1>6
  <2>9. PICK T : T = {j \in Found : j < n}
    OBVIOUS
  <2>10. k \in T /\ Before(k) \subseteq T
    BY <2>1, <2>8, <2>9, <1>6 DEF Before
  <2>11. mode \in {"ANY", "ANYV"} \/ (T = Before(k) \cup {k} /\ n = k + 1)
    <3> SUFFICES ASSUME mode \notin {"ANY", "ANYV"} PROVE T = Before(k) \cup {k} /\ n = k + 1
      OBVIOUS
    <3>1. n = k + 1
      BY <2>6
    <3>2. \A j \in Found : j < k + 1 <=> j < k \/ j = k
      BY <1>6
    <3>. QED
      BY <3>1, <3>2, <2>1, <2>9 DEF Before
  <2>12. Partial(mode, T, n, v, f, g) /\ v \in Int
    <3>1. PICK m, S, u, x, c : m = mode /\ S = Before(k) /\ u = value /\ x = Value(k) /\ c = counters[k]
      OBVIOUS
    <3>2. u \in Int /\ x \in Int /\ c \in Nat /\ Partial(m, S, k, u, f, g)
      BY <3>1, <1>2, <1>6, <1>7
    <3>3. f[k] = x * c /\ g[k] = x /\ \A a \in S : f[a] \in Int /\ g[a] \in Int
      BY <3>1, <2>2, <2>3
    <3>4. S \subseteq T /\ (m \in {"ANY", "ANYV"} \/ (T = S \cup {k} /\ n = k + 1))
      BY <3>1, <2>10, <2>11
    <3>5. Partial(m, T, n, Combine(m, u, x, c), f, g) /\ Combine(m, u, x, c) \in Int
      <4>1. /\ f[k] \in (-IntMax - 1)..IntMax /\ g[k] \in (-IntMax - 1)..IntMax /\ k \in T /\ k \in Nat
            /\ Sums(f)[k] = Sums(f)[k - 1] + f[k] /\ Sums(g)[k] = Sums(g)[k - 1] + g[k]
        BY <2>2, <2>10, <1>6
      <4>2. Joins(m, S, k, f, g, x, c, T, n)
        BY <4>1, <3>3, <3>4 DEF Joins
      <4>. QED
        BY <4>1, <4>2, <3>2, PartialWord
    <3>. QED
      BY <3>1, <3>5, <2>4
  <2>. QED
    BY <2>5, <2>7, <2>8, <2>9, <2>12, <1>8
<1>. QED
  BY <1>9, <1>10

\* The step that ends the scan.
LEMMA TallyFinish ==
  ASSUME TotalsFit, TallyInv, Finish
  PROVE  TallyInv'
<1>1. /\ pc = "scan" /\ UNCHANGED <<list, text, mode, i, counters, count>>
      /\ list \in Lists /\ Tallying /\ count \in Nat /\ value \in Int
  BY DEF Finish, TallyInv
<1>2. Tallying'
  BY <1>1 DEF Tallying, Found
<1>3. CASE count = 0
  <2>1. pc' = "ready" /\ value' = value
    BY <1>3 DEF Finish
  <2>2. ~(count' > 0)
    BY <1>1, <1>3
  <2>. QED
    BY <2>1, <2>2, <1>1, <1>2 DEF TallyInv, ValueRight
<1>4. CASE count # 0
  <2>1. pc' = "combine" /\ value' = First(mode) /\ nth' = 1
    BY <1>4 DEF Finish
  <2>2. Len(list) \in Nat /\ Found \subseteq 1..Len(list)
    BY <1>1, TallyFacts
  <2>3. Totals' = Totals /\ Values' = Values /\ Found' = Found
    BY <1>1 DEF Totals, Values, Each, Total, Value, Found
  <2>4. PICK f, g : f = Totals /\ g = Values
    OBVIOUS
  <2>5. Partial(mode, {}, 1, First(mode), f, g) /\ First(mode) \in Int
    <3>1. Sums(f)[0] = 0 /\ Sums(g)[0] = 0
      BY <2>4, <1>1, TallyFacts
    <3>. QED
      BY <3>1, PartialFirst
  <2>6. Before(nth)' = {}
    <3>1. \A k \in Found : ~(k < 1)
      BY <2>2
    <3>. QED
      BY <3>1, <2>1, <2>3 DEF Before
  <2>7. PICK v : v = First(mode)
    OBVIOUS
  <2>8. Partial(mode, Before(nth), nth, value, Totals, Values)'
    <3>1. mode' = mode /\ Totals' = f /\ Values' = g /\ value' = v /\ nth' = 1
      BY <1>1, <2>1, <2>3, <2>4, <2>7
    <3>2. Partial(mode, {}, 1, v, f, g)
      BY <2>5, <2>7
    <3>. QED
      BY <3>1, <3>2, <2>6 DEF Partial, Adds, Down, Up, Peak, One, Sums
  <2>9. count' > 0 /\ nth' \in 1..(Len(list') + 1)
    BY <2>1, <2>2, <1>1, <1>4
  <2>. QED
    BY <2>1, <2>5, <2>8, <2>9, <1>1, <1>2 DEF TallyInv, ValueRight
<1>. QED
  BY <1>3, <1>4

\* The step that returns.
LEMMA TallyReturn ==
  ASSUME TotalsFit, TallyInv, Return
  PROVE  TallyInv'
<1>1. /\ pc = "combine" /\ nth > Len(list) /\ pc' = "ready" /\ value' = Final(mode, value)
      /\ UNCHANGED <<list, text, mode, i, counters, count>>
  BY DEF Return
<1>2. /\ list \in Lists /\ Tallying /\ count \in Nat /\ count > 0 /\ value \in Int
      /\ nth \in 1..(Len(list) + 1) /\ Partial(mode, Before(nth), nth, value, Totals, Values)
  BY <1>1 DEF TallyInv
<1>3. Tallying'
  BY <1>1, <1>2 DEF Tallying, Found
<1>4. Len(list) \in Nat /\ Found \subseteq 1..Len(list)
  BY <1>2, TallyFacts
<1>5. nth = Len(list) + 1
  BY <1>1, <1>2, <1>4
<1>6. Before(nth) = Found
  <2>1. \A k \in Found : k < Len(list) + 1
    BY <1>4
  <2>. QED
    BY <2>1, <1>5 DEF Before
<1>7. Partial(mode, Found, Len(list) + 1, value, Totals, Values)
  BY <1>2, <1>5, <1>6
<1>8. PICK r : r = Final(mode, value)
  OBVIOUS
<1>9. /\ r \in Int
      /\ CASE mode = "MIN"  -> Least(r, Total)
           [] mode = "MINV" -> Least(r, Value)
           [] mode = "MAX"  -> Greatest(r, Total)
           [] mode = "MAXV" -> IF \E k \in Found : Value(k) > 0
                               THEN Greatest(r, Value) ELSE r = 0
           [] mode \in {"MUL", "MULV"} -> r = 0
           [] mode = "SUMV" -> r = SumOf(Value)
           [] mode = "AVG"  -> LET d == SumOf(Total) - r * count IN d < count /\ -d < count
           [] mode = "AVGV" -> LET d == SumOf(Value) - r * count IN d < count /\ -d < count
           [] mode = "ANY"  -> (\E k \in Found : r = Total(k)) \/ r = list[1].value * count
           [] mode = "ANYV" -> (\E k \in Found : r = Value(k)) \/ r = list[1].value
           [] OTHER -> r = SumOf(Total)
  BY <1>2, <1>7, <1>8, FinalRight
<1>10. ValueRight'
  <2>1. value' = r
    BY <1>1, <1>8
  <2>. QED
    BY <2>1, <1>1, <1>9 DEF ValueRight, Least, Greatest, SumOf, Sums, Each, Total, Value, Found
<1>. QED
  BY <1>1, <1>2, <1>3, <1>8, <1>9, <1>10 DEF TallyInv

\* Reading one more character counts a word at most once.
LEMMA TallyScan ==
  ASSUME TallyInv, Scan
  PROVE  TallyInv'
<1> DEFINE s == gotos[state][Lower]
           D == DOMAIN list
<1>1. /\ pc = "scan" /\ i <= Len(text) /\ i' = i + 1 /\ pc' = pc
      /\ UNCHANGED <<list, text, mode, value>>
  BY DEF Scan
<1>2. PICK found \in SUBSET Candidates(s) :
         /\ counters' = [k \in D |-> counters[k] + IF k \in found THEN 1 ELSE 0]
         /\ count' = count + Cardinality(found)
  BY Zenon DEF Scan
<1> HIDE DEF s
<1>3. list \in Lists /\ Tallying /\ count \in Nat /\ value \in Int
  BY <1>1 DEF TallyInv
<1>4. Len(text) \in Nat /\ i \in 1..(Len(text) + 1) /\ D = 1..Len(list) /\ Len(list) \in Nat
  BY <1>3, AhoAssumption, ListFacts DEF Tallying
<1>5. found \in SUBSET D /\ IsFiniteSet(found)
  <2>1. found \in SUBSET D
    BY <1>2 DEF Candidates
  <2>2. IsFiniteSet(D)
    BY <1>4, FS_Interval
  <2>. QED
    BY <2>1, <2>2, FS_Subset
<1>6. Cardinality(found) \in Nat /\ (found = {} => Cardinality(found) = 0)
  BY <1>5, FS_CardinalityType, FS_EmptySet
<1>7. PICK cs : cs = counters'
  OBVIOUS
<1>8. ASSUME NEW k \in D
      PROVE  /\ cs[k] \in Nat /\ cs[k] < i + 1 /\ (counters[k] # 0 \/ k \in found => cs[k] # 0)
  <2>1. cs[k] = counters[k] + IF k \in found THEN 1 ELSE 0
    BY <1>2, <1>7
  <2>2. counters[k] \in Nat /\ counters[k] < i
    BY <1>3 DEF Tallying
  <2>. QED
    BY <2>1, <2>2, <1>4
<1>9. cs \in [D -> Nat]
  <2>1. cs = [k \in D |-> counters[k] + IF k \in found THEN 1 ELSE 0]
    BY <1>2, <1>7
  <2>. QED
    BY <2>1, <1>8
<1>10. Found' = {k \in D : cs[k] # 0}
  BY <1>1, <1>7 DEF Found
<1>11. count' \in Nat /\ (count' > 0 => Found' # {})
  <2>1. count' \in Nat /\ (count' > 0 => count > 0 \/ found # {})
    <3>1. PICK c, d : c = count' /\ d = Cardinality(found)
      OBVIOUS
    <3>2. c = count + d /\ d \in Nat /\ (found = {} => d = 0)
      BY <3>1, <1>2, <1>6
    <3>3. c \in Nat /\ (c > 0 => count > 0 \/ found # {})
      BY <3>2, <1>3
    <3>. QED
      BY <3>1, <3>3
  <2>2. count > 0 \/ found # {} => \E k \in D : counters[k] # 0 \/ k \in found
    <3>1. count > 0 => \E k \in D : counters[k] # 0
      BY <1>3 DEF Tallying, Found
    <3>2. found # {} => \E k \in D : k \in found
      BY <1>5
    <3>. QED
      BY <3>1, <3>2
  <2>. QED
    BY <2>1, <2>2, <1>8, <1>10
<1>12. Tallying'
  <2>1. i + 1 \in 1..(Len(text) + 1)
    BY <1>1, <1>4
  <2>2. text' \in Texts[list'] /\ i' \in 1..(Len(text') + 1)
    BY <2>1, <1>1, <1>3 DEF Tallying
  <2>3. counters' \in [DOMAIN list' -> Nat] /\ \A k \in DOMAIN list' : counters'[k] < i'
    BY <1>1, <1>7, <1>8, <1>9
  <2>. QED
    BY <2>2, <2>3, <1>11 DEF Tallying
<1>. QED
  BY <1>1, <1>3, <1>11, <1>12 DEF TallyInv, ValueRight

\* The invariant is inductive.
LEMMA TallyNext ==
  ASSUME TotalsFit, TallyInv, [Next]_vars
  PROVE  TallyInv'
<1>1. CASE UNCHANGED vars
  <2>1. UNCHANGED <<list, pc, text, mode, i, counters, count, value, nth>>
    BY <1>1 DEF vars, scan
  <2>2. Tallying' = Tallying /\ ValueRight' = ValueRight
    BY <2>1 DEF Tallying, Found, ValueRight, Least, Greatest, SumOf, Sums, Each, Total, Value
  <2>3. Partial(mode, Before(nth), nth, value, Totals, Values)'
           = Partial(mode, Before(nth), nth, value, Totals, Values)
    BY <2>1 DEF Partial, Adds, Down, Up, Peak, One, Before, Found, Totals, Values, Sums, Each, Total, Value
  <2>. QED
    BY <2>1, <2>2, <2>3 DEF TallyInv
<1>2. CASE Prepare \/ ScanBack
  <2>1. /\ UNCHANGED <<list, text, mode, i, counters, count, value>> /\ pc # "ready"
        /\ pc' \notin {"ready", "combine"}
    BY <1>2 DEF Prepare, Alloc, AddChar, AddEnd, Root, RootChild, Visit, Edge, FallBack,
                SetFailure, Prepared, ScanBack, scan
  <2>2. Tallying'
    BY <2>1 DEF TallyInv, Tallying, Found
  <2>. QED
    BY <2>1, <2>2 DEF TallyInv, ValueRight
<1>3. ASSUME NEW t \in Texts[list], NEW m \in Modes[list], Search(t, m) PROVE TallyInv'
  <2>1. /\ text' = t /\ i' = 1 /\ count' = 0 /\ counters' = [k \in DOMAIN list |-> 0]
        /\ list' = list /\ value' = 0 /\ pc' # "combine"
    BY <1>3 DEF Search, ZeroCounters
  <2>2. list \in Lists /\ Len(t) \in Nat
    BY AhoAssumption DEF TallyInv
  <2>3. 1 \in 1..(Len(t) + 1) /\ ~(0 > 0)
    BY <2>2
  <2>4. Tallying'
    BY <2>1, <2>2, <2>3 DEF Tallying
  <2>. QED
    BY <2>1, <2>2, <2>3, <2>4 DEF TallyInv, ValueRight
<1>. QED
  BY <1>1, <1>2, <1>3, TallyScan, TallyFinish, TallyWord, TallyReturn DEF Next, Step

\* For every word list whose totals are ints and every sequence of searches,
\* the value search returns is the least, the greatest, the sum or the average
\* its mode names over exactly the words found, or that of one of them; with
\* MAXV the greatest value found or 0 if none is above, with MUL and MULV 0.
THEOREM CombinesRight == TotalsFit /\ Spec => []ValueRight
<1> SUFFICES ASSUME TotalsFit PROVE Spec => []ValueRight
  OBVIOUS
<1>1. Init => TallyInv
  BY DEF Init, TallyInv, ValueRight
<1>2. TallyInv /\ [Next]_vars => TallyInv'
  BY TallyNext
<1>3. TallyInv => ValueRight
  BY DEF TallyInv
<1>. QED
  BY <1>1, <1>2, <1>3, PTL DEF Spec
=============================================================================
