-------------------------- MODULE JsonValueProofs --------------------------
(***************************************************************************)
(* Proofs about JsonValue: the links of a tree are sound for every text    *)
(* and every sequence of calls, and the parser accepts the texts whose     *)
(* brackets match.                                                         *)
(*                                                                         *)
(* Nodes are numbered in the order they are made.  A list is in this order *)
(* and a parent is made before its elements, which is what the induction   *)
(* along next and along parent goes by.                                    *)
(***************************************************************************)
EXTENDS JsonValue, WellFoundedInduction, FiniteSetTheorems, TLAPS

\* The fields of a node that are pointers, and its type.
Links == {"type", "parent", "next", "first", "last"}

\* The nodes in c.
Elements(ns, c) == {n \in DOMAIN ns : ns[n].parent = c}

\* The nodes are made, and all but the root r have a parent made before.
Tree(ns, k, r) ==
    /\ k \in Nat /\ DOMAIN ns \subseteq 1..k
    /\ \A n \in DOMAIN ns : Links \subseteq DOMAIN ns[n] /\ ns[n].last \in 0..k
    /\ \A n \in DOMAIN ns : IF n = r THEN ns[n].parent = None /\ ns[n].next = None
                            ELSE ns[n].parent \in DOMAIN ns /\ ns[n].parent < n

\* x is the least element of S, None if there is none.
Least(x, S) == IF x = None THEN S = {} ELSE x \in S /\ \A m \in S : x <= m

\* first and next lead through the elements of c in order, and last is the
\* greatest; it may be left over when the only element was deleted.
List(ns, c) ==
    /\ Least(ns[c].first, Elements(ns, c))
    /\ \A n \in Elements(ns, c) : Least(ns[n].next, {m \in Elements(ns, c) : n < m})
    /\ \/ ns[c].last = None /\ Elements(ns, c) = {}
       \/ ns[c].last \in Elements(ns, c) /\ \A m \in Elements(ns, c) : m <= ns[c].last
       \/ ns[c].last \notin DOMAIN ns /\ Elements(ns, c) = {}

\* A tree all of whose lists are in order.
Good(ns, k, r) == Tree(ns, k, r) /\ \A c \in DOMAIN ns : List(ns, c)

\* The inductive invariant: the tree is good whenever there is one, the
\* parser is in it, and only calls of bkJsonDel leave a last pointer over.
JInv ==
    /\ edits \in Nat
    /\ Good(node, made, root)
    /\ root = None => DOMAIN node = {}
    /\ root # None => root \in DOMAIN node
    /\ top # None => top \in DOMAIN node
    /\ pc = "parse" => edits = 0
    /\ pc = "ok" => top = None
    /\ \A c \in DOMAIN node : Dangling(c) => edits > 0
-----------------------------------------------------------------------------
\* Induction: a set of numbers with an element has a least one.
LEMMA LeastNumber ==
  ASSUME NEW T \in SUBSET Nat, T # {}
  PROVE  \E x \in T : \A y \in T : x <= y
<1>1. IsWellFoundedOn(OpToRel(<, Nat), Nat)
  BY NatLessThanWellFounded
<1>2. PICK x \in T : \A y \in T : ~ (<<y, x>> \in OpToRel(<, Nat))
  BY <1>1, WFMin, Zenon
<1>3. ASSUME NEW y \in T PROVE ~ (y < x)
  <2>1. <<y, x>> \in OpToRel(<, Nat) <=> y < x
    BY DEF OpToRel
  <2>. QED
    BY <2>1, <1>2
<1>. QED
  BY <1>3

\* next leads to nodes made later.
Forward(ns, k) ==
    /\ k \in Nat /\ DOMAIN ns \subseteq 1..k
    /\ \A n \in DOMAIN ns : ns[n].next = None \/ (ns[n].next \in DOMAIN ns /\ n < ns[n].next)

\* So the walk along next ends, and From is what it collects.
LEMMA FromDef ==
  ASSUME NEW ns, NEW k, Forward(ns, k)
  PROVE  /\ From(ns, None) = << >>
         /\ \A n \in DOMAIN ns : From(ns, n) = <<n>> \o From(ns, ns[n].next)
<1> DEFINE D == DOMAIN ns \cup {None}
           Rec(f, S) == f = [m \in S |-> IF m = None THEN << >> ELSE <<m>> \o f[ns[m].next]]
           Up(j) == {m \in D : m = None \/ m > k - j}
           T == {j \in Nat : j <= k /\ ~ \E f : Rec(f, Up(j))}
<1>1. k \in Nat /\ \A m \in DOMAIN ns : m \in 1..k /\ m # None
  BY DEF Forward, None
<1>2. T = {}
  <2> SUFFICES ASSUME T # {} PROVE FALSE
    OBVIOUS
  <2>1. PICK x \in T : \A y \in T : x <= y
    <3> HIDE DEF Rec, Up
    <3>. QED
      BY LeastNumber
  <2>2. x # 0
    <3> SUFFICES ASSUME x = 0 PROVE FALSE
      OBVIOUS
    <3>1. Up(0) = {None}
      BY <1>1
    <3>2. Rec([m \in {None} |-> << >>], {None})
      OBVIOUS
    <3> HIDE DEF Rec, Up
    <3>. QED
      BY <3>1, <3>2, <2>1
  <2>3. x \in Nat /\ x - 1 \notin T /\ x - 1 \in Nat /\ x - 1 <= k
    <3> HIDE DEF Rec, Up
    <3>. QED
      BY <1>1, <2>1, <2>2
  <2>4. PICK g : Rec(g, Up(x - 1))
    <3> HIDE DEF Rec, Up
    <3>. QED
      BY <2>3
  <2> DEFINE f == [m \in Up(x) |-> IF m = None THEN << >> ELSE <<m>> \o g[ns[m].next]]
  <2>5. \A m \in Up(x - 1) : m \in Up(x) /\ f[m] = g[m]
    <3> TAKE m \in Up(x - 1)
    <3>1. m \in Up(x)
      BY <2>3, <1>1
    <3>2. g[m] = IF m = None THEN << >> ELSE <<m>> \o g[ns[m].next]
      <4> HIDE DEF Up
      <4>. QED
        BY <2>4, Zenon
    <3> HIDE DEF Up
    <3>. QED
      BY <3>1, <3>2
  <2>6. ASSUME NEW m \in Up(x), m # None PROVE ns[m].next \in Up(x - 1)
    <3>1. m \in DOMAIN ns /\ m > k - x
      BY <2>6
    <3>2. ns[m].next = None \/ (ns[m].next \in DOMAIN ns /\ m < ns[m].next)
      BY <3>1 DEF Forward
    <3>3. ns[m].next = None => ns[m].next \in Up(x - 1)
      OBVIOUS
    <3>4. ASSUME NEW q \in DOMAIN ns, m < q PROVE q \in Up(x - 1)
      <4>1. q > k - (x - 1)
        BY <3>1, <3>4, <1>1, <2>3
      <4>. QED
        BY <4>1
    <3>. QED
      BY <3>2, <3>3, <3>4
  <2>7. Rec(f, Up(x))
    <3>1. ASSUME NEW m \in Up(x) PROVE f[m] = IF m = None THEN << >> ELSE <<m>> \o f[ns[m].next]
      <4> HIDE DEF Up
      <4>. QED
        BY <2>5, <2>6
    <3> HIDE DEF Up
    <3>. QED
      BY <3>1
  <2> HIDE DEF Rec, Up
  <2>. QED
    BY <2>7, <2>1
<1>3. \E f : Rec(f, D)
  <2>1. Up(k) = D
    BY <1>1
  <2>2. k \notin T /\ k <= k
    <3> HIDE DEF T
    <3>. QED
      BY <1>1, <1>2
  <2>3. k \in Nat
    BY <1>1
  <2> HIDE DEF Rec, Up
  <2>4. \E f : Rec(f, Up(k))
    BY <2>2, <2>3
  <2>. QED
    BY <2>1, <2>4, Zenon
<1> DEFINE w == CHOOSE f : Rec(f, D)
<1>4. Rec(w, D)
  <2> HIDE DEF Rec, D
  <2>. QED
    BY <1>3, Zenon
<1>5. \A m \in D : w[m] = IF m = None THEN << >> ELSE <<m>> \o w[ns[m].next]
  <2> HIDE DEF w
  <2>. QED
    BY <1>4, Zenon
<1>6. ASSUME NEW n PROVE From(ns, n) = w[n]
  BY Zenon DEF From
<1> HIDE DEF w
<1>. QED
  BY <1>1, <1>5, <1>6, Zenon

\* s lists the set R, and ends in its greatest element.
Walked(s, R) ==
    /\ s \in Seq(Nat) /\ Len(s) > 0
    /\ {s[i] : i \in DOMAIN s} = R
    /\ \A m \in R : m <= s[Len(s)]

\* A walk of one step, and a step in front of a walk.
LEMMA WalkedOne ==
  ASSUME NEW n \in Nat
  PROVE  Walked(<<n>>, {n})
<1>1. <<n>> \in Seq(Nat) /\ Len(<<n>>) = 1 /\ DOMAIN <<n>> = {1} /\ <<n>>[1] = n
  OBVIOUS
<1>. QED
  BY <1>1 DEF Walked

LEMMA WalkedMore ==
  ASSUME NEW n \in Nat, NEW s, NEW R \in SUBSET Nat, Walked(s, R), \A m \in R : n <= m
  PROVE  Walked(<<n>> \o s, R \cup {n})
<1> DEFINE t == <<n>> \o s
<1>1. s \in Seq(Nat) /\ Len(s) \in Nat /\ Len(s) > 0 /\ DOMAIN s = 1..Len(s)
  BY DEF Walked
<1>2. t \in Seq(Nat) /\ Len(t) = Len(s) + 1 /\ t[1] = n /\ \A i \in 1..Len(s) : t[i + 1] = s[i]
  BY <1>1
<1>3. DOMAIN t = 1..Len(s) + 1
  BY <1>2, <1>1
<1> HIDE DEF t
<1>4. \A x \in {t[i] : i \in DOMAIN t} : x \in R \cup {n}
  <2> SUFFICES ASSUME NEW i \in DOMAIN t PROVE t[i] \in R \cup {n}
    OBVIOUS
  <2>1. i = 1 \/ (i - 1 \in 1..Len(s) /\ i = (i - 1) + 1)
    BY <1>3, <1>1
  <2>2. ASSUME NEW j \in 1..Len(s), i = j + 1 PROVE t[i] \in R
    <3>1. s[j] \in R
      BY <1>1 DEF Walked
    <3>. QED
      BY <3>1, <2>2, <1>2
  <2>. QED
    BY <2>1, <2>2, <1>2
<1>5. \A x \in R \cup {n} : x \in {t[i] : i \in DOMAIN t}
  <2> SUFFICES ASSUME NEW x \in R \cup {n} PROVE \E i \in DOMAIN t : t[i] = x
    OBVIOUS
  <2>1. CASE x = n
    <3>1. 1 \in DOMAIN t
      BY <1>1, <1>3
    <3>. QED
      BY <2>1, <3>1, <1>2
  <2>2. CASE x \in R
    <3>1. PICK i \in DOMAIN s : s[i] = x
      BY <2>2 DEF Walked
    <3>2. i + 1 \in DOMAIN t /\ t[i + 1] = x
      BY <3>1, <1>1, <1>2, <1>3
    <3>. QED
      BY <3>2
  <2>. QED
    BY <2>1, <2>2
<1>6. t[Len(t)] = s[Len(s)] /\ s[Len(s)] \in R
  BY <1>1, <1>2 DEF Walked
<1>7. \A m \in R \cup {n} : m <= t[Len(t)]
  BY <1>6 DEF Walked
<1>8. {t[i] : i \in DOMAIN t} = R \cup {n}
  BY <1>4, <1>5, Zenon
<1>9. Len(t) > 0
  BY <1>1, <1>2
<1>10. Walked(t, R \cup {n})
  BY <1>2, <1>7, <1>8, <1>9 DEF Walked
<1>. QED
  BY <1>10 DEF t

\* The walk from an element of a list collects it and the ones after it.
LEMMA FromList ==
  ASSUME NEW ns, NEW k, Forward(ns, k), NEW S \in SUBSET DOMAIN ns,
         \A n \in S : Least(ns[n].next, {m \in S : n < m})
  PROVE  \A n \in S : Walked(From(ns, n), {m \in S : n <= m})
<1> DEFINE P(n) == Walked(From(ns, n), {m \in S : n <= m})
           T == {j \in Nat : \E n \in S : j = k - n /\ ~ P(n)}
<1>1. k \in Nat /\ S \subseteq 1..k /\ None = 0
  BY DEF Forward, None
<1> SUFFICES ASSUME NEW bad \in S, ~ P(bad) PROVE FALSE
  OBVIOUS
<1>2. k - bad \in T
  <2> HIDE DEF P
  <2>. QED
    BY <1>1
<1>3. PICK x \in T : \A y \in T : x <= y
  <2> HIDE DEF P
  <2>. QED
    BY <1>2, LeastNumber
<1>4. PICK n \in S : x = k - n /\ ~ P(n)
  <2> HIDE DEF P
  <2>. QED
    BY <1>3
<1>5. n \in 1..k /\ n \in DOMAIN ns
  BY <1>1
<1> DEFINE q == ns[n].next
<1>6. Least(q, {m \in S : n < m})
  BY <1>4
<1>7. From(ns, n) = <<n>> \o From(ns, q)
  BY <1>5, FromDef
<1>8. CASE q = None
  <2>1. From(ns, n) = <<n>>
    <3>1. From(ns, q) = << >>
      BY <1>8, FromDef
    <3>. QED
      BY <3>1, <1>7
  <2>2. {m \in S : n <= m} = {n}
    BY <1>8, <1>6, <1>1 DEF Least
  <2>. QED
    BY <2>1, <2>2, <1>4, <1>5, WalkedOne
<1>9. CASE q # None
  <2>1. q \in S /\ n < q /\ \A m \in S : n < m => q <= m
    BY <1>9, <1>6 DEF Least
  <2>2. P(q)
    <3>1. k - q \in Nat /\ k - q < x /\ ~ (x <= k - q)
      BY <2>1, <1>1, <1>4, <1>5
    <3>2. k - q \notin T
      <4> HIDE DEF T
      <4>. QED
        BY <3>1, <1>3, Zenon
    <3> HIDE DEF P, q
    <3>. QED
      BY <3>1, <3>2, <2>1
  <2>3. {m \in S : n <= m} = {m \in S : q <= m} \cup {n}
    BY <2>1, <1>1, <1>5
  <2>4. {m \in S : q <= m} \in SUBSET Nat /\ \A m \in {m \in S : q <= m} : n <= m
    BY <2>1, <1>1, <1>5
  <2>5. n \in Nat
    BY <1>5
  <2>6. Walked(<<n>> \o From(ns, q), {m \in S : q <= m} \cup {n})
    <3> HIDE DEF q
    <3>. QED
      BY <2>2, <2>4, <2>5, WalkedMore
  <2>. QED
    BY <2>6, <2>3, <1>7, <1>4
<1>. QED
  BY <1>8, <1>9

\* In a good tree next leads forward: elements are appended as they are made.
LEMMA GoodForward ==
  ASSUME NEW ns, NEW k, NEW r, Good(ns, k, r)
  PROVE  Forward(ns, k)
<1> SUFFICES ASSUME NEW n \in DOMAIN ns
             PROVE  ns[n].next = None \/ (ns[n].next \in DOMAIN ns /\ n < ns[n].next)
  BY DEF Good, Tree, Forward
<1>1. CASE n = r
  BY <1>1 DEF Good, Tree
<1>2. CASE n # r
  <2> DEFINE c == ns[n].parent
  <2>1. c \in DOMAIN ns
    BY <1>2 DEF Good, Tree
  <2>2. n \in Elements(ns, c)
    BY DEF Elements
  <2>3. Least(ns[n].next, {m \in Elements(ns, c) : n < m})
    BY <2>1, <2>2 DEF Good, List
  <2>. QED
    BY <2>3 DEF Least, Elements
<1>. QED
  BY <1>1, <1>2

\* bkJsonGet and the rest find the elements of a container along its links.
LEMMA KidsList ==
  ASSUME NEW ns, NEW k, NEW r, Good(ns, k, r), NEW c \in DOMAIN ns
  PROVE  /\ Elements(ns, c) = {} => Kids(ns, c) = << >>
         /\ Elements(ns, c) # {} => Walked(Kids(ns, c), Elements(ns, c))
<1>1. Forward(ns, k)
  BY GoodForward
<1>2. Elements(ns, c) \subseteq DOMAIN ns /\ Elements(ns, c) \subseteq Nat
  BY DEF Elements, Good, Tree
<1>3. List(ns, c)
  BY DEF Good
<1>4. ASSUME Elements(ns, c) = {} PROVE Kids(ns, c) = << >>
  <2>1. ns[c].first = None
    BY <1>3, <1>4 DEF List, Least
  <2>. QED
    BY <2>1, <1>1, FromDef DEF Kids
<1>5. ASSUME Elements(ns, c) # {} PROVE Walked(Kids(ns, c), Elements(ns, c))
  <2>1. /\ ns[c].first \in Elements(ns, c)
        /\ \A m \in Elements(ns, c) : ns[c].first <= m
    BY <1>3, <1>5 DEF List, Least
  <2>2. Walked(From(ns, ns[c].first), {m \in Elements(ns, c) : ns[c].first <= m})
    <3>1. \A n \in Elements(ns, c) : Least(ns[n].next, {m \in Elements(ns, c) : n < m})
      BY <1>3 DEF List
    <3>. QED
      BY <3>1, <2>1, <1>1, <1>2, FromList
  <2>3. {m \in Elements(ns, c) : ns[c].first <= m} = Elements(ns, c)
    BY <2>1
  <2>. QED
    BY <2>2, <2>3 DEF Kids
<1>. QED
  BY <1>4, <1>5
-----------------------------------------------------------------------------
\* Going up from a node ends, since a parent was made before its elements.
LEMMA BelowDef ==
  ASSUME Tree(node, made, root), NEW n
  PROVE  /\ Below(n) \subseteq DOMAIN node
         /\ \A m \in DOMAIN node :
               m \in Below(n) <=> (m = n \/ (node[m].parent # None /\ node[m].parent \in Below(n)))
<1> DEFINE D == DOMAIN node
           Rec(f, S) == f = [m \in S |-> m = n \/ (node[m].parent # None /\ f[node[m].parent])]
           To(j) == {m \in D : m <= j}
           T == {j \in Nat : ~ \E f : Rec(f, To(j))}
<1>1. /\ made \in Nat /\ D \subseteq 1..made /\ None = 0
      /\ \A m \in D : node[m].parent = None \/ (node[m].parent \in D /\ node[m].parent < m)
  BY DEF Tree, None
<1>2. T = {}
  <2> SUFFICES ASSUME T # {} PROVE FALSE
    OBVIOUS
  <2>1. PICK x \in T : \A y \in T : x <= y
    <3> HIDE DEF Rec, To
    <3>. QED
      BY LeastNumber
  <2>2. x # 0
    <3> SUFFICES ASSUME x = 0 PROVE FALSE
      OBVIOUS
    <3>1. To(0) = {}
      BY <1>1
    <3>2. Rec([m \in {} |-> TRUE], {})
      BY Zenon
    <3> HIDE DEF Rec, To
    <3>. QED
      BY <3>1, <3>2, <2>1
  <2>3. x \in Nat /\ x - 1 \notin T /\ x - 1 \in Nat
    <3> HIDE DEF Rec, To
    <3>. QED
      BY <1>1, <2>1, <2>2
  <2>4. PICK g : Rec(g, To(x - 1))
    <3> HIDE DEF Rec, To
    <3>. QED
      BY <2>3
  <2> DEFINE f == [m \in To(x) |-> m = n \/ (node[m].parent # None /\ g[node[m].parent])]
  <2>5. \A m \in To(x - 1) : m \in To(x) /\ f[m] = g[m]
    <3> TAKE m \in To(x - 1)
    <3>1. m \in To(x)
      BY <2>3, <1>1
    <3> HIDE DEF To
    <3>2. g[m] = (m = n \/ (node[m].parent # None /\ g[node[m].parent]))
      BY <2>4, Zenon
    <3>3. f[m] = (m = n \/ (node[m].parent # None /\ g[node[m].parent]))
      BY <3>1, Zenon
    <3> HIDE DEF f
    <3>. QED
      BY <3>1, <3>2, <3>3, Zenon
  <2>6. ASSUME NEW m \in To(x), node[m].parent # None PROVE node[m].parent \in To(x - 1)
    <3>1. node[m].parent \in D /\ node[m].parent < m /\ m <= x /\ m \in Nat
      BY <2>6, <1>1
    <3>2. ASSUME NEW p \in D, p < m PROVE p <= x - 1
      BY <3>1, <3>2, <1>1, <2>3
    <3>. QED
      BY <3>1, <3>2
  <2>7. Rec(f, To(x))
    <3> HIDE DEF To
    <3>1. ASSUME NEW m \in To(x)
          PROVE  (m = n \/ (node[m].parent # None /\ g[node[m].parent]))
                    = (m = n \/ (node[m].parent # None /\ f[node[m].parent]))
      <4>1. CASE node[m].parent # None
        <5>1. f[node[m].parent] = g[node[m].parent]
          <6> HIDE DEF f
          <6>. QED
            BY <4>1, <2>5, <2>6, Zenon
        <5> HIDE DEF f
        <5>. QED
          BY <5>1, Zenon
      <4>2. CASE node[m].parent = None
        BY <4>2, Zenon
      <4>. QED
        BY <4>1, <4>2
    <3>2. f = [m \in To(x) |-> m = n \/ (node[m].parent # None /\ f[node[m].parent])]
      BY <3>1, Zenon
    <3>. QED
      BY <3>2, Zenon
  <2> HIDE DEF Rec, To
  <2>. QED
    BY <2>7, <2>1
<1>3. \E f : Rec(f, D)
  <2>1. To(made) = D
    BY <1>1
  <2>2. made \notin T /\ made \in Nat
    <3> HIDE DEF T
    <3>. QED
      BY <1>1, <1>2
  <2> HIDE DEF Rec, To
  <2>3. \E f : Rec(f, To(made))
    BY <2>2
  <2>. QED
    BY <2>1, <2>3, Zenon
<1> DEFINE u == CHOOSE f : Rec(f, D)
<1>4. Rec(u, D)
  <2> HIDE DEF Rec, D
  <2>. QED
    BY <1>3, Zenon
<1>5. \A m \in D : u[m] = (m = n \/ (node[m].parent # None /\ u[node[m].parent]))
  <2> HIDE DEF u
  <2>. QED
    BY <1>4, Zenon
<1>6. Below(n) = {m \in D : u[m]}
  BY Zenon DEF Below
<1> HIDE DEF u
<1>7. \A m \in D : m \in Below(n) <=> u[m]
  BY <1>6, Zenon
<1>8. Below(n) \subseteq D
  BY <1>6, Zenon
<1>9. ASSUME NEW m \in D
      PROVE  m \in Below(n) <=> (m = n \/ (node[m].parent # None /\ node[m].parent \in Below(n)))
  <2>1. node[m].parent # None => (node[m].parent \in Below(n) <=> u[node[m].parent])
    BY <1>1, <1>7, Zenon
  <2>. QED
    BY <2>1, <1>5, <1>7, Zenon
<1>. QED
  BY <1>8, <1>9, Zenon

\* Every node hangs below the root.
LEMMA BelowRoot ==
  ASSUME Tree(node, made, root), root \in DOMAIN node
  PROVE  Below(root) = DOMAIN node
<1> DEFINE T == DOMAIN node \ Below(root)
<1>1. T \in SUBSET Nat
  BY DEF Tree
<1> SUFFICES ASSUME T # {} PROVE FALSE
  BY BelowDef
<1>2. PICK x \in T : \A y \in T : x <= y
  BY <1>1, LeastNumber
<1>3. x # root
  BY <1>2, BelowDef
<1>4. node[x].parent \in DOMAIN node /\ node[x].parent < x /\ node[x].parent # None
  BY <1>3 DEF Tree, None
<1>5. node[x].parent \in Below(root)
  <2> DEFINE p == node[x].parent
  <2>1. p \in Nat /\ x \in Nat /\ p < x
    BY <1>4, <1>1 DEF Tree
  <2>2. ~ (x <= p)
    BY <2>1
  <2>. QED
    BY <2>2, <1>2, <1>4
<1>. QED
  BY <1>4, <1>5, BelowDef

\* What hangs below a node was made after it.
LEMMA BelowLater ==
  ASSUME Tree(node, made, root), NEW n \in DOMAIN node
  PROVE  \A m \in Below(n) : n <= m
<1> DEFINE T == {m \in Below(n) : m < n}
<1>1. T \in SUBSET Nat /\ n \in Nat /\ Below(n) \subseteq DOMAIN node /\ DOMAIN node \subseteq Nat
  BY BelowDef DEF Tree
<1> SUFFICES ASSUME T # {} PROVE FALSE
  BY <1>1
<1>2. PICK x \in T : \A y \in T : x <= y
  BY <1>1, LeastNumber
<1>3. x # n /\ x \in DOMAIN node /\ x < n /\ x \in Nat
  BY <1>1, <1>2
<1>4. node[x].parent # None /\ node[x].parent \in Below(n)
  BY <1>2, <1>3, BelowDef
<1>5. node[x].parent < x
  BY <1>3, <1>4 DEF Tree
<1>6. PICK p \in Below(n) : p = node[x].parent
  BY <1>4
<1>7. p \in T /\ ~ (x <= p)
  BY <1>1, <1>3, <1>5, <1>6
<1>. QED
  BY <1>2, <1>7

\* What LinksSound says of one container.
LEMMA ListsSound ==
  ASSUME JInv, NEW c \in DOMAIN node
  PROVE  /\ Dangling(c) \/ ListSound(c)
         /\ Dangling(c) => node[c].first = None /\ edits > 0
<1> DEFINE S == Elements(node, c)
           kids == Kids(node, c)
<1>1. Good(node, made, root) /\ List(node, c)
  BY DEF JInv, Good
<1>2. (S = {} => kids = << >>) /\ (S # {} => Walked(kids, S))
  BY <1>1, KidsList
<1>3. None \notin DOMAIN node /\ S \subseteq DOMAIN node /\ DOMAIN node \subseteq Nat
  BY <1>1 DEF Good, Tree, None, Elements
<1>4. S = {n \in DOMAIN node : node[n].parent = c}
  BY DEF Elements
<1>5. CASE S = {}
  <2>1. kids = << >> /\ {kids[i] : i \in DOMAIN kids} = {}
    BY <1>2, <1>5
  <2>2. node[c].first = None
    BY <1>5, <1>1 DEF List, Least
  <2>3. node[c].last = None \/ node[c].last \notin DOMAIN node
    BY <1>5, <1>1 DEF List
  <2>4. node[c].last = None => ListSound(c)
    BY <2>1, <1>4, <1>5 DEF ListSound
  <2>. QED
    BY <2>2, <2>3, <2>4 DEF Dangling, JInv
<1>6. CASE S # {}
  <2>1. node[c].last \in S /\ \A m \in S : m <= node[c].last
    BY <1>6, <1>1 DEF List
  <2>2. kids \in Seq(Nat) /\ Len(kids) > 0 /\ {kids[i] : i \in DOMAIN kids} = S
        /\ \A m \in S : m <= kids[Len(kids)]
    BY <1>2, <1>6 DEF Walked
  <2>3. kids # << >> /\ kids[Len(kids)] \in S
    <3>1. Len(kids) \in DOMAIN kids
      BY <2>2
    <3>. QED
      BY <2>2, <3>1
  <2>4. node[c].last = kids[Len(kids)]
    <3>1. PICK a \in S : a = node[c].last
      BY <2>1
    <3>2. PICK b \in S : b = kids[Len(kids)]
      BY <2>3
    <3>3. a <= b /\ b <= a /\ a \in Nat /\ b \in Nat
      BY <3>1, <3>2, <2>1, <2>2, <1>3
    <3>. QED
      BY <3>1, <3>2, <3>3
  <2>5. ListSound(c)
    BY <2>2, <2>3, <2>4, <1>4 DEF ListSound
  <2>6. ~ Dangling(c)
    BY <2>1, <1>3 DEF Dangling
  <2>. QED
    BY <2>5, <2>6
<1>. QED
  BY <1>5, <1>6

\* The invariant is enough for LinksSound.
LEMMA JInvLinks ==
  ASSUME JInv
  PROVE  LinksSound
<1>1. root # None => Below(root) = DOMAIN node
  BY BelowRoot DEF JInv, Good
<1>2. top # None => top \in Below(root)
  BY <1>1 DEF JInv
<1>. QED
  BY <1>1, <1>2, ListsSound DEF LinksSound
-----------------------------------------------------------------------------
\* What Append1 does to the links when it puts v at the end of c.
Appended(ns, l, c, v) ==
    /\ DOMAIN l = DOMAIN ns \cup {v}
    /\ \A n \in DOMAIN l : Links \subseteq DOMAIN l[n]
    /\ l[v].parent = c /\ l[v].next = None /\ l[v].first = None /\ l[v].last = None
    /\ l[c].last = v
    /\ l[c].first = IF ns[c].last = None THEN v ELSE ns[c].first
    /\ \A n \in DOMAIN ns :
          /\ l[n].parent = ns[n].parent
          /\ l[n].next = IF n = ns[c].last THEN v ELSE ns[n].next
          /\ n # c => l[n].first = ns[n].first /\ l[n].last = ns[n].last

\* bkJsonAppend of a new node changes the links as Appended says.
LEMMA AppendLinks ==
  ASSUME Good(node, made, root), NEW c \in DOMAIN node, ~ Dangling(c),
         NEW type, NEW nm, NEW value
  PROVE  Appended(node, Append1(With(Fresh, NewNode(type, nm, value)), c, Fresh), c, Fresh)
<1> DEFINE v == Fresh
           ns == With(v, NewNode(type, nm, value))
           l == Linked(ns, c, v)
           z == node[c].last
<1>1. /\ None \notin DOMAIN node /\ v \notin DOMAIN node /\ c # v /\ v # None
      /\ \A n \in DOMAIN node : Links \subseteq DOMAIN node[n]
      /\ z \in DOMAIN node \cup {None} /\ z # v
  BY DEF Good, Tree, Fresh, None, Dangling
<1>2. /\ DOMAIN ns = DOMAIN node \cup {v} /\ ns[v] = NewNode(type, nm, value)
      /\ \A n \in DOMAIN node : ns[n] = node[n]
  BY <1>1 DEF With
<1>3. /\ ns[v].parent = None /\ ns[v].next = None /\ ns[v].first = None /\ ns[v].last = None
      /\ Links \subseteq DOMAIN ns[v] /\ "name" \in DOMAIN ns[v]
  BY <1>2 DEF NewNode, Links
<1> HIDE DEF v, ns
<1>4. z # c
  <2>1. z \in DOMAIN node => z \in Elements(node, c)
    <3>1. List(node, c)
      BY DEF Good
    <3>. QED
      BY <3>1, <1>1 DEF List
  <2>2. ASSUME z = c PROVE FALSE
    <3>1. c = node[c].parent
      BY <2>1, <2>2 DEF Elements
    <3>2. node[c].parent # None
      BY <3>1, <1>1
    <3>. QED
      BY <3>1, <3>2 DEF Good, Tree
  <2>. QED
    BY <2>2
<1>5. Appended(node, l, c, v) /\ "name" \in DOMAIN l[v]
  <2>1. ASSUME NEW a \in DOMAIN node PROVE Links \subseteq DOMAIN node[a]
    BY <1>1
  <2>2. /\ l[v].parent = c /\ l[v].next = None /\ l[v].first = None /\ l[v].last = None
        /\ DOMAIN l[v] = DOMAIN ns[v] /\ DOMAIN l = DOMAIN ns
    <3>1. CASE z = None
      BY <3>1, <1>1, <1>2, <1>3 DEF Linked, Links
    <3>2. CASE z # None
      BY <3>2, <1>1, <1>2, <1>3, <1>4 DEF Linked, Links
    <3>. QED
      BY <3>1, <3>2
  <2>3. /\ l[c].last = v /\ l[c].first = IF z = None THEN v ELSE node[c].first
        /\ l[c].parent = node[c].parent /\ l[c].next = node[c].next /\ DOMAIN l[c] = DOMAIN node[c]
    <3>1. CASE z = None
      BY <3>1, <1>1, <1>2, <2>1 DEF Linked, Links
    <3>2. CASE z # None
      BY <3>2, <1>1, <1>2, <1>4, <2>1 DEF Linked, Links
    <3>. QED
      BY <3>1, <3>2
  <2>4. ASSUME z # None
        PROVE  /\ l[z].next = v /\ l[z].parent = node[z].parent
               /\ l[z].first = node[z].first /\ l[z].last = node[z].last
               /\ DOMAIN l[z] = DOMAIN node[z]
    <3>1. z \in DOMAIN node /\ Links \subseteq DOMAIN node[z] /\ ns[z] = node[z] /\ z \in DOMAIN ns
      BY <2>4, <1>1, <1>2
    <3>2. l = [ns EXCEPT ![z].next = v, ![c].last = v, ![v].parent = c]
      BY <2>4, <1>2 DEF Linked
    <3>3. l[z] = [node[z] EXCEPT !.next = v]
      BY <3>1, <3>2, <1>1, <1>4
    <3> HIDE DEF l, z
    <3>. QED
      BY <3>1, <3>3 DEF Links
  <2>5. ASSUME NEW n \in DOMAIN node, n # c, n # z PROVE l[n] = node[n]
    <3>1. CASE z = None
      BY <2>5, <3>1, <1>1, <1>2 DEF Linked
    <3>2. CASE z # None
      BY <2>5, <3>2, <1>1, <1>2 DEF Linked
    <3>. QED
      BY <3>1, <3>2
  <2> HIDE DEF l
  <2>6. \A n \in DOMAIN l : Links \subseteq DOMAIN l[n]
    <3> SUFFICES ASSUME NEW n \in DOMAIN l PROVE DOMAIN l[n] = DOMAIN ns[n]
      BY <2>1, <2>2, <1>2, <1>3
    <3>1. CASE n = v
      BY <3>1, <2>2
    <3>2. CASE n = c
      BY <3>2, <2>3, <1>2
    <3>3. CASE n # v /\ n # c /\ n = z
      BY <3>3, <2>4, <2>2, <1>1, <1>2
    <3>4. CASE n # v /\ n # c /\ n # z
      BY <3>4, <2>5, <2>2, <1>2
    <3>. QED
      BY <3>1, <3>2, <3>3, <3>4
  <2>7. \A n \in DOMAIN node :
          /\ l[n].parent = node[n].parent
          /\ l[n].next = IF n = z THEN v ELSE node[n].next
          /\ n # c => l[n].first = node[n].first /\ l[n].last = node[n].last
    <3> TAKE n \in DOMAIN node
    <3>1. CASE n = c
      BY <3>1, <2>3, <1>4
    <3>2. CASE n # c /\ n = z
      BY <3>2, <2>4, <1>1
    <3>3. CASE n # c /\ n # z
      BY <3>3, <2>5
    <3>. QED
      BY <3>1, <3>2, <3>3
  <2>. QED
    BY <2>2, <2>3, <2>6, <2>7, <1>2, <1>3 DEF Appended
<1> HIDE DEF l
<1>6. CASE l[c].type = "array" /\ l[v].name = ""
  <2>1. PICK x : x = IndexName(l, c)
    OBVIOUS
  <2>2. Append1(ns, c, v) = [l EXCEPT ![v].name = x]
    BY <1>6, <2>1 DEF Append1, l
  <2>3. DOMAIN [l EXCEPT ![v].name = x] = DOMAIN l
        /\ [l EXCEPT ![v].name = x][v] = [l[v] EXCEPT !.name = x]
        /\ \A n \in DOMAIN node : [l EXCEPT ![v].name = x][n] = l[n]
    BY <1>5, <1>1 DEF Appended
  <2>4. PICK q : q = Append1(ns, c, v)
    OBVIOUS
  <2>5. DOMAIN q = DOMAIN l /\ q[v] = [l[v] EXCEPT !.name = x] /\ \A n \in DOMAIN node : q[n] = l[n]
    BY <2>2, <2>3, <2>4
  <2>6. Appended(node, q, c, v)
    BY <2>5, <1>5, <1>1 DEF Appended, Links
  <2>. QED
    BY <2>6, <2>4 DEF v, ns
<1>7. CASE ~ (l[c].type = "array" /\ l[v].name = "")
  <2>1. Append1(ns, c, v) = l
    BY <1>7 DEF Append1, l
  <2>. QED
    BY <2>1, <1>5 DEF v, ns
<1>. QED
  BY <1>6, <1>7

\* A new node at the end of a list whose last is not left over.
LEMMA AppendGood ==
  ASSUME NEW ns, NEW k, NEW r, Good(ns, k, r), r \in DOMAIN ns,
         NEW c \in DOMAIN ns, ns[c].last = None \/ ns[c].last \in DOMAIN ns,
         NEW l, NEW v, v = k + 1, Appended(ns, l, c, v)
  PROVE  /\ Good(l, v, r)
         /\ \A n \in DOMAIN l : \/ l[n].last = None \/ l[n].last \in DOMAIN l
                                \/ n \in DOMAIN ns /\ ns[n].last # None /\ ns[n].last \notin DOMAIN ns
<1> DEFINE S == Elements(ns, c)
<1>1. /\ k \in Nat /\ v \in Nat /\ v \notin DOMAIN ns /\ c # v /\ v # None /\ r # v /\ None = 0
      /\ DOMAIN ns \subseteq 1..k /\ None \notin DOMAIN ns /\ c # None
      /\ \A n \in DOMAIN ns : n \in Nat /\ n < v
      /\ \A n \in DOMAIN ns : ns[n].last # v /\ ns[n].parent # v /\ ns[n].last \in 0..k
  BY DEF Good, Tree, None
<1>2. DOMAIN l = DOMAIN ns \cup {v}
  BY DEF Appended
<1>3. /\ l[v].parent = c /\ l[v].next = None /\ l[v].first = None /\ l[v].last = None
      /\ l[c].last = v
      /\ l[c].first = IF ns[c].last = None THEN v ELSE ns[c].first
  BY DEF Appended
<1>4. \A n \in DOMAIN ns :
          /\ l[n].parent = ns[n].parent
          /\ l[n].next = IF n = ns[c].last THEN v ELSE ns[n].next
          /\ n # c => l[n].first = ns[n].first /\ l[n].last = ns[n].last
  BY DEF Appended
<1>5. Tree(l, v, r)
  <2>1. DOMAIN l \subseteq 1..v
    BY <1>1, <1>2
  <2>2. \A n \in DOMAIN l : Links \subseteq DOMAIN l[n]
    BY DEF Appended
  <2>3. ASSUME NEW n \in DOMAIN l PROVE l[n].last \in 0..v
    <3>1. CASE n = v
      BY <3>1, <1>1, <1>3
    <3>2. CASE n = c
      BY <3>2, <1>1, <1>3
    <3>3. CASE n # v /\ n # c
      BY <3>3, <1>1, <1>2, <1>4
    <3>. QED
      BY <3>1, <3>2, <3>3
  <2>4. ASSUME NEW n \in DOMAIN l
        PROVE  IF n = r THEN l[n].parent = None /\ l[n].next = None
               ELSE l[n].parent \in DOMAIN l /\ l[n].parent < n
    <3>1. CASE n = v
      BY <3>1, <1>1, <1>2, <1>3
    <3>2. CASE n = r
      <4>1. r # ns[c].last
        <5>1. ASSUME r = ns[c].last PROVE FALSE
          <6>1. List(ns, c)
            BY DEF Good
          <6>2. r \in S
            BY <6>1, <5>1, <1>1 DEF List
          <6>3. ns[r].parent = c /\ ns[r].parent = None
            BY <6>2 DEF Elements, Good, Tree
          <6>. QED
            BY <6>3, <1>1
        <5>. QED
          BY <5>1
      <4>2. ns[r].parent = None /\ ns[r].next = None
        BY DEF Good, Tree
      <4>. QED
        BY <3>2, <4>1, <4>2, <1>4
    <3>3. CASE n # v /\ n # r
      <4>1. ns[n].parent \in DOMAIN ns /\ ns[n].parent < n /\ n \in DOMAIN ns
        BY <3>3, <1>2 DEF Good, Tree
      <4>. QED
        BY <3>3, <4>1, <1>2, <1>4
    <3>. QED
      BY <3>1, <3>2, <3>3
  <2>. QED
    BY <2>1, <2>2, <2>3, <2>4, <1>1 DEF Tree
<1>6. ASSUME NEW d \in DOMAIN l PROVE List(l, d)
  <2>1. CASE d = v
    <3>1. Elements(l, v) = {}
      BY <1>1, <1>2, <1>3, <1>4 DEF Elements
    <3>. QED
      BY <2>1, <3>1, <1>3 DEF List, Least
  <2>2. CASE d = c
    <3>1. Elements(l, c) = S \cup {v}
      BY <1>1, <1>2, <1>3, <1>4 DEF Elements
    <3>2. List(ns, c) /\ S \subseteq DOMAIN ns
      BY DEF Good, Elements
    <3>3. \A m \in S : m \in DOMAIN ns /\ m \in Nat /\ m < v /\ m # v /\ m # None
      BY <3>2, <1>1
    <3>4. CASE ns[c].last = None
      <4>1. S = {}
        BY <3>2, <3>4, <1>1, <3>3 DEF List
      <4>2. Elements(l, c) = {v} /\ l[c].first = v
        BY <4>1, <3>1, <3>4, <1>3
      <4>3. Least(l[c].first, {v})
        BY <4>2, <1>1 DEF Least
      <4>4. Least(l[v].next, {m \in {v} : v < m})
        BY <1>1, <1>3 DEF Least
      <4>. QED
        BY <2>2, <4>2, <4>3, <4>4, <1>1, <1>3 DEF List
    <3>5. CASE ns[c].last # None
      <4>1. PICK z \in S : z = ns[c].last /\ \A m \in S : m <= z
        BY <3>2, <3>5 DEF List
      <4>2. Least(l[c].first, S \cup {v})
        <5>1. ns[c].first \in S /\ \A m \in S : ns[c].first <= m
          BY <3>2, <4>1 DEF List, Least
        <5>2. PICK f \in S : f = ns[c].first /\ \A m \in S : f <= m
          BY <5>1
        <5>3. f # None /\ f <= v /\ l[c].first = f
          BY <5>2, <3>3, <3>5, <1>1, <1>3
        <5>. QED
          BY <5>2, <5>3 DEF Least
      <4>3. ASSUME NEW n \in S \cup {v} PROVE Least(l[n].next, {m \in S \cup {v} : n < m})
        <5>1. CASE n = v
          <6>1. {m \in S \cup {v} : v < m} = {}
            BY <3>3, <1>1
          <6>. QED
            BY <5>1, <6>1, <1>3 DEF Least
        <5>2. CASE n = z
          <6>1. l[z].next = v
            BY <4>1, <3>3, <1>4
          <6>2. {m \in S \cup {v} : z < m} = {v}
            BY <4>1, <3>3, <1>1
          <6>. QED
            BY <5>2, <6>1, <6>2, <1>1 DEF Least
        <5>3. CASE n # v /\ n # z
          <6>1. n \in S /\ n < z /\ l[n].next = ns[n].next
            BY <5>3, <4>1, <3>3, <1>4
          <6>2. Least(ns[n].next, {m \in S : n < m})
            BY <6>1, <3>2 DEF List
          <6>3. PICK q \in S : q = ns[n].next /\ n < q /\ \A m \in S : n < m => q <= m
            BY <6>1, <6>2, <4>1 DEF Least
          <6>4. q <= v /\ q # None
            BY <3>3, <1>1
          <6>. QED
            BY <6>1, <6>3, <6>4 DEF Least
        <5>. QED
          BY <5>1, <5>2, <5>3
      <4>4. \A m \in S \cup {v} : m <= v
        BY <3>3, <1>1
      <4>. QED
        BY <2>2, <3>1, <4>2, <4>3, <4>4, <1>3 DEF List
    <3>. QED
      BY <3>4, <3>5
  <2>3. CASE d # v /\ d # c
    <3>1. d \in DOMAIN ns /\ l[d].first = ns[d].first /\ l[d].last = ns[d].last
      BY <2>3, <1>2, <1>4
    <3>2. Elements(l, d) = Elements(ns, d)
      BY <2>3, <1>1, <1>2, <1>3, <1>4 DEF Elements
    <3>3. List(ns, d) /\ List(ns, c)
      BY <3>1 DEF Good
    <3>4. ASSUME NEW n \in Elements(ns, d) PROVE l[n].next = ns[n].next
      <4>1. n \in DOMAIN ns /\ ns[n].parent = d
        BY DEF Elements
      <4>2. ASSUME n = ns[c].last PROVE FALSE
        <5>1. n \in S
          BY <4>1, <4>2, <3>3, <1>1 DEF List
        <5>. QED
          BY <4>1, <5>1, <2>3 DEF Elements
      <4>. QED
        BY <4>1, <4>2, <1>4
    <3>5. ns[d].last \in DOMAIN l => ns[d].last \in DOMAIN ns
      BY <3>1, <1>1, <1>2
    <3>. QED
      BY <3>1, <3>2, <3>3, <3>4, <3>5 DEF List
  <2>. QED
    BY <2>1, <2>2, <2>3
<1>7. ASSUME NEW n \in DOMAIN l
      PROVE  \/ l[n].last = None \/ l[n].last \in DOMAIN l
             \/ n \in DOMAIN ns /\ ns[n].last # None /\ ns[n].last \notin DOMAIN ns
  BY <1>1, <1>2, <1>3, <1>4
<1>. QED
  BY <1>5, <1>6, <1>7 DEF Good

\* A value or a name does not change the links.
LEMMA SameLinks ==
  ASSUME NEW ns, NEW k, NEW r, Good(ns, k, r), NEW j \in Nat, k <= j,
         NEW l, DOMAIN l = DOMAIN ns,
         \A n \in DOMAIN ns : /\ Links \subseteq DOMAIN l[n]
                              /\ l[n].parent = ns[n].parent /\ l[n].next = ns[n].next
                              /\ l[n].first = ns[n].first /\ l[n].last = ns[n].last
  PROVE  Good(l, j, r)
<1>1. Tree(l, j, r)
  <2>1. k \in Nat /\ \A n \in DOMAIN ns : n \in 1..k /\ ns[n].last \in 0..k
    BY DEF Good, Tree
  <2>2. \A n \in DOMAIN l : n \in 1..j /\ l[n].last \in 0..j
    BY <2>1
  <2>3. \A n \in DOMAIN l : IF n = r THEN l[n].parent = None /\ l[n].next = None
                            ELSE l[n].parent \in DOMAIN l /\ l[n].parent < n
    BY DEF Good, Tree
  <2>. QED
    BY <2>2, <2>3 DEF Tree
<1>2. ASSUME NEW c \in DOMAIN l PROVE List(l, c)
  <2>1. Elements(l, c) = Elements(ns, c)
    BY DEF Elements
  <2>2. List(ns, c) /\ Elements(ns, c) \subseteq DOMAIN ns
    BY <1>2 DEF Good, Elements
  <2>. QED
    BY <2>1, <2>2, <1>2 DEF List
<1>. QED
  BY <1>1, <1>2 DEF Good
-----------------------------------------------------------------------------
\* The element before n, when n is not the first.
LEMMA Previous ==
  ASSUME NEW ns, NEW k, NEW r, Good(ns, k, r), NEW c \in DOMAIN ns,
         NEW n \in Elements(ns, c), n # ns[c].first
  PROVE  /\ \E p \in DOMAIN ns : ns[p].next = n
         /\ \A p \in DOMAIN ns : ns[p].next = n =>
               p \in Elements(ns, c) /\ p < n /\ \A m \in Elements(ns, c) : m < n => m <= p
<1> DEFINE S == Elements(ns, c)
           B == {m \in S : m < n}
           T == {k - m : m \in B}
<1>1. /\ k \in Nat /\ None = 0 /\ None \notin DOMAIN ns /\ S \subseteq DOMAIN ns
      /\ \A m \in DOMAIN ns : m \in 1..k
  BY DEF Good, Tree, None, Elements
<1>2. List(ns, c)
  BY DEF Good
<1>3. ns[c].first \in B
  <2>1. ns[c].first \in S /\ \A m \in S : ns[c].first <= m
    BY <1>2 DEF List, Least
  <2>2. PICK f \in S : f = ns[c].first /\ f <= n
    BY <2>1
  <2>3. f \in B
    BY <2>2, <1>1
  <2>. QED
    BY <2>2, <2>3
<1>4. PICK x \in T : \A y \in T : x <= y
  <2>1. T \in SUBSET Nat
    BY <1>1
  <2>2. T # {}
    BY <1>3
  <2> HIDE DEF T
  <2>. QED
    BY <2>1, <2>2, LeastNumber
<1>5. PICK p \in B : x = k - p
  BY <1>4
<1>6. \A m \in S : m < n => m <= p
  <2> TAKE m \in S
  <2> HAVE m < n
  <2>1. k - m \in T
    OBVIOUS
  <2>2. k - p <= k - m
    BY <2>1, <1>4, <1>5
  <2>. QED
    BY <2>2, <1>1
<1>7. ns[p].next = n
  <2>1. Least(ns[p].next, {m \in S : p < m})
    BY <1>2 DEF List
  <2>2. PICK q \in S : q = ns[p].next /\ p < q /\ q <= n
    BY <2>1 DEF Least
  <2>3. q = n
    BY <2>2, <1>6, <1>1
  <2>. QED
    BY <2>2, <2>3
<1>8. ASSUME NEW a \in DOMAIN ns, ns[a].next = n
      PROVE  a \in S /\ a < n /\ \A m \in S : m < n => m <= a
  <2>1. a # r /\ n \in DOMAIN ns /\ n # None
    BY <1>8, <1>1 DEF Good, Tree
  <2>2. ns[a].parent \in DOMAIN ns /\ a \in Elements(ns, ns[a].parent)
    BY <2>1 DEF Good, Tree, Elements
  <2>3. List(ns, ns[a].parent)
    BY <2>2 DEF Good
  <2>4. Least(n, {m \in Elements(ns, ns[a].parent) : a < m})
    BY <2>2, <2>3, <1>8 DEF List
  <2>5. n \in Elements(ns, ns[a].parent) /\ a < n
    BY <2>1, <2>4 DEF Least
  <2>6. ns[a].parent = c
    BY <2>5 DEF Elements
  <2>7. \A m \in S : a < m => n <= m
    BY <2>1, <2>4, <2>6 DEF Least
  <2>. QED
    BY <2>2, <2>5, <2>6, <2>7, <1>1
<1>9. p \in DOMAIN ns
  BY <1>1
<1> HIDE DEF S
<1>10. /\ \E a \in DOMAIN ns : ns[a].next = n
       /\ \A a \in DOMAIN ns : ns[a].next = n =>
               a \in S /\ a < n /\ \A m \in S : m < n => m <= a
  BY <1>7, <1>8, <1>9
<1>. QED
  BY <1>10 DEF S

\* bkJsonGet returns an element of the container.
LEMMA GetElement ==
  ASSUME Good(node, made, root), NEW c \in DOMAIN node, NEW nm, Get(c, nm) # None
  PROVE  Get(c, nm) \in Elements(node, c)
<1> DEFINE kids == Kids(node, c)
           hits == {i \in DOMAIN kids : node[kids[i]].name = nm}
<1>1. hits # {} /\ Get(c, nm) = kids[CHOOSE i \in hits : \A j \in hits : i <= j]
  BY DEF Get
<1>2. Elements(node, c) # {} /\ Walked(kids, Elements(node, c))
  BY <1>1, KidsList
<1> HIDE DEF kids
<1>3. hits \in SUBSET Nat
  BY <1>2 DEF Walked
<1>4. \E i \in hits : \A j \in hits : i <= j
  <2> HIDE DEF hits
  <2>. QED
    BY <1>1, <1>3, LeastNumber
<1> DEFINE h == CHOOSE i \in hits : \A j \in hits : i <= j
<1>5. h \in hits
  <2> HIDE DEF hits
  <2>. QED
    BY <1>4
<1>6. Get(c, nm) = kids[h]
  BY <1>1
<1> HIDE DEF h
<1>7. kids[h] \in {kids[i] : i \in DOMAIN kids}
  BY <1>5
<1>. QED
  BY <1>2, <1>6, <1>7 DEF Walked

\* What bkJsonDel does to the links when it takes n out of c; B is what goes
\* with n.
Removed(ns, l, c, n, B) ==
    /\ DOMAIN l = DOMAIN ns \ B
    /\ \A m \in DOMAIN l : Links \subseteq DOMAIN l[m] /\ l[m].parent = ns[m].parent
    /\ \A m \in DOMAIN l : m # c => l[m].first = ns[m].first /\ l[m].last = ns[m].last
    /\ \/ /\ n = ns[c].first
          /\ l[c].first = ns[n].next /\ l[c].last = ns[c].last
          /\ \A m \in DOMAIN l : l[m].next = ns[m].next
       \/ /\ n # ns[c].first
          /\ \E p \in DOMAIN ns :
                /\ ns[p].next = n
                /\ l[c].first = ns[c].first
                /\ l[c].last = IF n = ns[c].last THEN p ELSE ns[c].last
                /\ \A m \in DOMAIN l : l[m].next = IF m = p THEN ns[n].next ELSE ns[m].next

\* bkJsonDel changes the links as Removed says.
LEMMA DelLinks ==
  ASSUME Good(node, made, root), NEW c \in DOMAIN node, NEW n \in Elements(node, c)
  PROVE  Removed(node, [m \in DOMAIN node \ Below(n) |-> Unlinked(c, n)[m]], c, n, Below(n))
<1> DEFINE B == Below(n)
           u == Unlinked(c, n)
           l == [m \in DOMAIN node \ B |-> u[m]]
<1>1. /\ n \in DOMAIN node /\ node[n].parent = c /\ None \notin DOMAIN node
      /\ \A m \in DOMAIN node : Links \subseteq DOMAIN node[m]
  BY DEF Elements, Good, Tree, None
<1>2. c \notin B
  <2>1. n # root /\ c < n /\ c \in Nat /\ n \in Nat
    BY <1>1 DEF Good, Tree
  <2>2. \A m \in B : n <= m
    BY <1>1, BelowLater DEF Good
  <2>. QED
    BY <2>1, <2>2
<1>3. DOMAIN l = DOMAIN node \ B /\ c \in DOMAIN l /\ \A m \in DOMAIN l : m \in DOMAIN node /\ l[m] = u[m]
  BY <1>2
<1> HIDE DEF l, B
<1>4. CASE n = node[c].first
  <2>1. u = [node EXCEPT ![c].first = node[n].next]
    BY <1>4 DEF Unlinked
  <2>2. /\ u[c] = [node[c] EXCEPT !.first = node[n].next]
        /\ \A m \in DOMAIN node : m # c => u[m] = node[m]
    BY <2>1
  <2>3. /\ u[c].first = node[n].next /\ u[c].last = node[c].last /\ u[c].next = node[c].next
        /\ u[c].parent = node[c].parent /\ DOMAIN u[c] = DOMAIN node[c]
    BY <2>2, <1>1 DEF Links
  <2> HIDE DEF u
  <2>4. ASSUME NEW m \in DOMAIN l
        PROVE  /\ Links \subseteq DOMAIN l[m] /\ l[m].parent = node[m].parent
               /\ m # c => l[m].first = node[m].first /\ l[m].last = node[m].last
               /\ l[m].next = node[m].next
    <3>1. CASE m = c
      BY <3>1, <2>3, <1>1, <1>3
    <3>2. CASE m # c
      BY <3>2, <2>2, <1>1, <1>3
    <3>. QED
      BY <3>1, <3>2
  <2>5. l[c].first = node[n].next /\ l[c].last = node[c].last
    BY <2>3, <1>3
  <2>6. Removed(node, l, c, n, B)
    BY <2>4, <2>5, <1>3, <1>4 DEF Removed
  <2>. QED
    BY <2>6 DEF l, u, B
<1>5. CASE n # node[c].first
  <2> DEFINE p == CHOOSE m \in DOMAIN node : node[m].next = n
  <2>1. p \in DOMAIN node /\ node[p].next = n
    BY <1>5, Previous, Zenon
  <2>2. p # c
    <3>1. p \in Elements(node, c)
      BY <2>1, <1>5, Previous, Zenon
    <3>2. p = c => node[c].parent = c
      BY <3>1 DEF Elements
    <3>. QED
      BY <3>2, <1>1 DEF Good, Tree
  <2>3. u = [node EXCEPT ![c].last = IF n = node[c].last THEN p ELSE node[c].last,
                         ![p].next = node[n].next]
    BY <1>1, <1>5, <2>2 DEF Unlinked, Links
  <2> HIDE DEF p
  <2>4. /\ u[c] = [node[c] EXCEPT !.last = IF n = node[c].last THEN p ELSE node[c].last]
        /\ u[p] = [node[p] EXCEPT !.next = node[n].next]
        /\ \A m \in DOMAIN node : m # c /\ m # p => u[m] = node[m]
    BY <2>1, <2>2, <2>3
  <2>5. /\ u[c].last = (IF n = node[c].last THEN p ELSE node[c].last)
        /\ u[c].first = node[c].first /\ u[c].next = node[c].next
        /\ u[c].parent = node[c].parent /\ DOMAIN u[c] = DOMAIN node[c]
    BY <2>4, <1>1 DEF Links
  <2>6. /\ u[p].next = node[n].next /\ u[p].first = node[p].first /\ u[p].last = node[p].last
        /\ u[p].parent = node[p].parent /\ DOMAIN u[p] = DOMAIN node[p]
    BY <2>1, <2>4, <1>1 DEF Links
  <2> HIDE DEF u
  <2>7. ASSUME NEW m \in DOMAIN l
        PROVE  /\ Links \subseteq DOMAIN l[m] /\ l[m].parent = node[m].parent
               /\ m # c => l[m].first = node[m].first /\ l[m].last = node[m].last
               /\ l[m].next = IF m = p THEN node[n].next ELSE node[m].next
    <3>1. CASE m = c
      BY <3>1, <2>2, <2>5, <1>1, <1>3
    <3>2. CASE m = p
      BY <3>2, <2>1, <2>6, <1>1, <1>3
    <3>3. CASE m # c /\ m # p
      BY <3>3, <2>4, <1>1, <1>3
    <3>. QED
      BY <3>1, <3>2, <3>3
  <2>8. l[c].first = node[c].first /\ l[c].last = IF n = node[c].last THEN p ELSE node[c].last
    BY <2>5, <1>3
  <2>9. Removed(node, l, c, n, B)
    BY <2>1, <2>7, <2>8, <1>3, <1>5 DEF Removed
  <2>. QED
    BY <2>9 DEF l, u, B
<1>. QED
  BY <1>4, <1>5

\* A list without its element n.
LEMMA LeastOfRest ==
  ASSUME NEW S \in SUBSET Nat, NEW n \in S, \A m \in S : n <= m,
         NEW x, Least(x, {m \in S : n < m})
  PROVE  Least(x, S \ {n})
  BY DEF Least

LEMMA LeastAbove ==
  ASSUME NEW S \in SUBSET Nat, NEW n, NEW a \in S, NEW x, x # n,
         Least(x, {m \in S : a < m})
  PROVE  Least(x, {m \in S \ {n} : a < m})
  BY DEF Least

LEMMA LeastAcross ==
  ASSUME NEW S \in SUBSET Nat, NEW n \in S, NEW a \in S, a < n,
         \A m \in S : a < m => n <= m,
         NEW x, Least(x, {m \in S : n < m})
  PROVE  Least(x, {m \in S \ {n} : a < m})
<1>1. \A m \in S : (m # n /\ a < m) <=> n < m
  OBVIOUS
<1>2. CASE x = None
  BY <1>1, <1>2 DEF Least
<1>3. CASE x # None
  <2>1. x \in S /\ n < x /\ \A m \in S : n < m => x <= m
    BY <1>3 DEF Least
  <2>. QED
    BY <1>1, <1>3, <2>1 DEF Least
<1>. QED
  BY <1>2, <1>3

\* What makes up a list.
LEMMA ListIs ==
  ASSUME NEW ns, NEW c, NEW S, Elements(ns, c) = S,
         Least(ns[c].first, S),
         \A n \in S : Least(ns[n].next, {m \in S : n < m}),
         \/ ns[c].last \in S /\ \A m \in S : m <= ns[c].last
         \/ ns[c].last \notin DOMAIN ns /\ S = {}
  PROVE  List(ns, c)
  BY DEF List

\* Taking out an element with all that hangs below it leaves a good tree.
LEMMA DelGood ==
  ASSUME NEW ns, NEW k, NEW r, Good(ns, k, r), r \in DOMAIN ns,
         NEW c \in DOMAIN ns, NEW n \in Elements(ns, c),
         NEW B \in SUBSET DOMAIN ns, n \in B, c \notin B, r \notin B,
         \A m \in DOMAIN ns : m # n /\ m # r => (m \in B <=> ns[m].parent \in B),
         NEW l, Removed(ns, l, c, n, B)
  PROVE  Good(l, k, r)
<1> DEFINE S == Elements(ns, c)
<1>1. /\ k \in Nat /\ None = 0 /\ None \notin DOMAIN ns
      /\ \A m \in DOMAIN ns : m \in Nat /\ ns[m].last \in 0..k
      /\ n \in DOMAIN ns /\ ns[n].parent = c /\ n # r
      /\ S \subseteq DOMAIN ns /\ List(ns, c)
  BY DEF Good, Tree, Elements, None
<1>2. DOMAIN l = DOMAIN ns \ B /\ c \in DOMAIN l /\ r \in DOMAIN l /\ n \notin DOMAIN l
  BY DEF Removed
<1>3. \A m \in DOMAIN l : /\ m \in DOMAIN ns /\ m \in Nat
                          /\ Links \subseteq DOMAIN l[m] /\ l[m].parent = ns[m].parent
                          /\ m # c => l[m].first = ns[m].first /\ l[m].last = ns[m].last
  BY <1>1, <1>2 DEF Removed
<1>4. \A m \in DOMAIN l : l[m].next # ns[m].next =>
                             n # ns[c].first /\ ns[m].next = n
  BY DEF Removed
<1>5. l[c].last \in 0..k
  <2>1. CASE n = ns[c].first
    BY <2>1, <1>1 DEF Removed
  <2>2. CASE n # ns[c].first
    <3>1. PICK p \in DOMAIN ns : l[c].last = IF n = ns[c].last THEN p ELSE ns[c].last
      BY <2>2 DEF Removed
    <3>2. p \in 0..k
      BY <3>1 DEF Good, Tree
    <3>. QED
      BY <3>1, <3>2, <1>1
  <2>. QED
    BY <2>1, <2>2
<1>6. Tree(l, k, r)
  <2>1. DOMAIN l \subseteq 1..k
    BY <1>2 DEF Good, Tree
  <2>2. \A m \in DOMAIN l : Links \subseteq DOMAIN l[m] /\ l[m].last \in 0..k
    BY <1>1, <1>3, <1>5
  <2>3. ASSUME NEW m \in DOMAIN l
        PROVE  IF m = r THEN l[m].parent = None /\ l[m].next = None
               ELSE l[m].parent \in DOMAIN l /\ l[m].parent < m
    <3>1. CASE m = r
      <4>1. ns[r].parent = None /\ ns[r].next = None /\ n # None
        BY <1>1 DEF Good, Tree
      <4>. QED
        BY <3>1, <4>1, <1>3, <1>4
    <3>2. CASE m # r
      <4>1. m \in DOMAIN ns /\ ns[m].parent \in DOMAIN ns /\ ns[m].parent < m /\ m # n /\ m \notin B
        BY <3>2, <1>2 DEF Good, Tree
      <4>. QED
        BY <3>2, <4>1, <1>2, <1>3
    <3>. QED
      BY <3>1, <3>2
  <2>. QED
    BY <2>1, <2>2, <2>3, <1>1 DEF Tree
<1>7. List(l, c)
  <2>1. Elements(l, c) = S \ {n}
    <3>1. ASSUME NEW m \in S, m # n PROVE m \in DOMAIN l /\ l[m].parent = c
      <4>1. m \in DOMAIN ns /\ ns[m].parent = c
        BY DEF Elements
      <4>2. m # r
        BY <4>1, <1>1 DEF Good, Tree
      <4>. QED
        BY <3>1, <4>1, <4>2, <1>2, <1>3
    <3>2. ASSUME NEW m \in DOMAIN l, l[m].parent = c PROVE m \in S /\ m # n
      BY <3>2, <1>2, <1>3 DEF Elements
    <3>. QED
      BY <3>1, <3>2 DEF Elements
  <2>2. S \subseteq Nat /\ n \in S /\ S \ {n} \subseteq DOMAIN l /\ n # None
    BY <2>1, <1>1 DEF Elements
  <2>3. \A m \in S : Least(ns[m].next, {x \in S : m < x})
    BY <1>1 DEF List
  <2>4. ns[c].last \in S /\ \A m \in S : m <= ns[c].last
    BY <1>1 DEF List
  <2>5. PICK z \in S : z = ns[c].last /\ \A m \in S : m <= z
    BY <2>4
  <2>6. ns[c].first \in S /\ \A m \in S : ns[c].first <= m
    BY <1>1 DEF List, Least
  <2>7. CASE n = ns[c].first
    <3>1. /\ l[c].first = ns[n].next /\ l[c].last = z
          /\ \A m \in DOMAIN l : l[m].next = ns[m].next
      BY <2>5, <2>7 DEF Removed
    <3>2. \A m \in S : n <= m
      BY <2>6, <2>7
    <3>3. Least(l[c].first, S \ {n})
      <4>1. Least(ns[n].next, {m \in S : n < m})
        BY <2>3
      <4>2. S \in SUBSET Nat /\ n \in S
        BY <2>2
      <4>3. Least(ns[n].next, S \ {n})
        BY <4>1, <4>2, <3>2, LeastOfRest
      <4>. QED
        BY <4>3, <3>1
    <3>4. ASSUME NEW m \in S \ {n} PROVE Least(l[m].next, {x \in S \ {n} : m < x})
      <4>1. m \in S /\ l[m].next = ns[m].next /\ Least(ns[m].next, {x \in S : m < x})
        BY <3>1, <2>2, <2>3
      <4>2. n < m
        BY <3>2, <2>2
      <4>3. ns[m].next # n
        BY <4>1, <4>2, <2>2 DEF Least
      <4>. QED
        BY <4>1, <4>3, <2>2, LeastAbove
    <3>5. z = n => S \ {n} = {}
      BY <3>2, <2>2, <2>5
    <3>6. \/ l[c].last \in S \ {n} /\ \A m \in S \ {n} : m <= l[c].last
          \/ l[c].last \notin DOMAIN l /\ S \ {n} = {}
      BY <3>1, <3>5, <2>5, <1>2
    <3>. QED
      BY <3>3, <3>4, <3>6, <2>1, ListIs
  <2>8. CASE n # ns[c].first
    <3>1. PICK p \in DOMAIN ns :
             /\ ns[p].next = n /\ l[c].first = ns[c].first
             /\ l[c].last = IF n = ns[c].last THEN p ELSE ns[c].last
             /\ \A m \in DOMAIN l : l[m].next = IF m = p THEN ns[n].next ELSE ns[m].next
      BY <2>8 DEF Removed
    <3>2. p \in S /\ p < n /\ (\A m \in S : m < n => m <= p)
      BY <2>8, <3>1, Previous DEF S
    <3>3. p \in S \ {n} /\ \A m \in S : p < m => n <= m
      BY <3>2, <2>2
    <3>4. Least(l[c].first, S \ {n})
      <4>1. PICK f \in S : f = ns[c].first /\ \A m \in S : f <= m
        BY <2>6
      <4>2. f # None /\ f \in S \ {n}
        BY <4>1, <2>8, <1>1, <2>2
      <4>. QED
        BY <4>1, <4>2, <3>1 DEF Least
    <3>5. ASSUME NEW m \in S \ {n} PROVE Least(l[m].next, {x \in S \ {n} : m < x})
      <4>1. CASE m = p
        <5>1. l[m].next = ns[n].next
          BY <4>1, <3>1, <2>2
        <5>2. Least(ns[n].next, {x \in S : n < x})
          BY <2>3
        <5>3. S \in SUBSET Nat /\ n \in S /\ p \in S /\ p < n /\ \A y \in S : p < y => n <= y
          BY <3>2, <3>3, <2>2
        <5>4. Least(ns[n].next, {x \in S \ {n} : p < x})
          BY <5>2, <5>3, LeastAcross
        <5>. QED
          BY <5>1, <5>4, <4>1
      <4>2. CASE m # p
        <5>1. m \in S /\ l[m].next = ns[m].next /\ Least(ns[m].next, {x \in S : m < x})
          BY <4>2, <3>1, <2>2, <2>3
        <5>2. ASSUME ns[m].next = n PROVE FALSE
          <6>1. m < n /\ \A x \in S : m < x => n <= x
            BY <5>1, <5>2, <2>2 DEF Least
          <6>. QED
            BY <6>1, <5>1, <4>2, <3>2, <3>3, <2>2
        <5>3. S \in SUBSET Nat /\ ns[m].next # n
          BY <5>2, <2>2
        <5>4. Least(ns[m].next, {x \in S \ {n} : m < x})
          BY <5>1, <5>3 DEF Least
        <5>. QED
          BY <5>1, <5>4
      <4>. QED
        BY <4>1, <4>2
    <3>6. l[c].last \in S \ {n} /\ \A m \in S \ {n} : m <= l[c].last
      <4>1. CASE z = n
        <5>1. l[c].last = p
          BY <4>1, <3>1, <2>5
        <5>2. \A m \in S \ {n} : m <= p
          BY <4>1, <3>2, <2>2, <2>5
        <5>. QED
          BY <5>1, <5>2, <3>3
      <4>2. CASE z # n
        BY <4>2, <3>1, <2>5
      <4>. QED
        BY <4>1, <4>2
    <3>7. \A m \in S \ {n} : Least(l[m].next, {x \in S \ {n} : m < x})
      BY <3>5
    <3>8. \/ l[c].last \in S \ {n} /\ \A m \in S \ {n} : m <= l[c].last
          \/ l[c].last \notin DOMAIN l /\ S \ {n} = {}
      BY <3>6
    <3>. QED
      BY <3>4, <3>7, <3>8, <2>1, ListIs
  <2>. QED
    BY <2>7, <2>8
<1>8. ASSUME NEW d \in DOMAIN l, d # c PROVE List(l, d)
  <2>1. d \in DOMAIN ns /\ d \notin B /\ l[d].first = ns[d].first /\ l[d].last = ns[d].last
    BY <1>8, <1>2, <1>3
  <2>2. Elements(l, d) = Elements(ns, d)
    <3>1. ASSUME NEW m \in DOMAIN ns, ns[m].parent = d PROVE m \in DOMAIN l
      <4>1. m # n /\ m # r
        BY <3>1, <2>1, <1>1, <1>8 DEF Good, Tree
      <4>. QED
        BY <3>1, <4>1, <2>1, <1>2
    <3>. QED
      BY <3>1, <1>3 DEF Elements
  <2>3. List(ns, d) /\ Elements(ns, d) \subseteq DOMAIN l
    BY <2>1, <2>2 DEF Good, Elements
  <2>4. ASSUME NEW m \in Elements(ns, d) PROVE l[m].next = ns[m].next
    <3>1. m \in DOMAIN l /\ m \in DOMAIN ns /\ ns[m].parent = d
      BY <2>3 DEF Elements
    <3>2. ASSUME n # ns[c].first, ns[m].next = n PROVE FALSE
      <4>1. m \in S
        BY <3>1, <3>2, Previous
      <4>. QED
        BY <4>1, <3>1, <1>8 DEF Elements
    <3>. QED
      BY <3>1, <3>2, <1>4
  <2>5. ns[d].last \in DOMAIN l => ns[d].last \in DOMAIN ns
    BY <1>2
  <2>. QED
    BY <2>1, <2>2, <2>3, <2>4, <2>5 DEF List
<1>. QED
  BY <1>6, <1>7, <1>8 DEF Good

\* bkJsonDel leaves a good tree with the same root.
LEMMA Deletes ==
  ASSUME JInv, NEW c \in DOMAIN node, NEW n \in Elements(node, c), root' = root, made' = made,
         node' = [m \in DOMAIN node \ Below(n) |-> Unlinked(c, n)[m]]
  PROVE  Good(node', made', root') /\ root' \in DOMAIN node'
<1> DEFINE B == Below(n)
<1>1. Good(node, made, root) /\ Tree(node, made, root) /\ root \in DOMAIN node
  BY DEF JInv, Good
<1>2. n \in DOMAIN node /\ node[n].parent = c /\ None \notin DOMAIN node
  BY <1>1 DEF Elements, Tree, None
<1>3. n # root /\ c < n /\ c \in Nat /\ n \in Nat
  BY <1>1, <1>2 DEF Tree
<1>4. B \subseteq DOMAIN node /\ n \in B
  BY <1>1, <1>2, BelowDef
<1>5. c \notin B
  <2>1. \A m \in B : n <= m
    BY <1>1, <1>2, BelowLater
  <2>. QED
    BY <2>1, <1>3
<1>6. root \notin B
  <2>1. node[root].parent = None
    BY <1>1 DEF Tree
  <2>. QED
    BY <2>1, <1>1, <1>3, BelowDef
<1>7. \A m \in DOMAIN node : m # n /\ m # root => (m \in B <=> node[m].parent \in B)
  <2> TAKE m \in DOMAIN node
  <2> HAVE m # n /\ m # root
  <2>1. node[m].parent # None
    BY <1>1, <1>2 DEF Tree
  <2>. QED
    BY <2>1, <1>1, BelowDef
<1>8. Removed(node, node', c, n, B)
  BY <1>1, DelLinks
<1> HIDE DEF B
<1>9. Good(node', made, root)
  BY <1>1, <1>4, <1>5, <1>6, <1>7, <1>8, DelGood
<1>10. root \in DOMAIN node'
  BY <1>1, <1>6, <1>8 DEF Removed
<1>. QED
  BY <1>9, <1>10

\* bkJsonAppend of a new node leaves a good tree, and no last left over.
LEMMA Appends ==
  ASSUME JInv, NEW c \in DOMAIN node, ~ Dangling(c), NEW type, NEW nm, NEW value,
         node' = Append1(With(Fresh, NewNode(type, nm, value)), c, Fresh),
         made' = Fresh, root' = root
  PROVE  /\ Good(node', made', root') /\ root' \in DOMAIN node'
         /\ DOMAIN node' = DOMAIN node \cup {Fresh}
         /\ \A d \in DOMAIN node' : Dangling(d)' => edits > 0
<1>1. Good(node, made, root) /\ root \in DOMAIN node
  BY DEF JInv
<1>2. Appended(node, node', c, Fresh)
  BY <1>1, AppendLinks
<1>3. PICK v : v = Fresh
  OBVIOUS
<1>4. v = made + 1 /\ Appended(node, node', c, v)
  BY <1>2, <1>3 DEF Fresh
<1>5. node[c].last = None \/ node[c].last \in DOMAIN node
  BY DEF Dangling
<1>6. PICK l : l = node'
  OBVIOUS
<1>7. Appended(node, l, c, v)
  BY <1>4, <1>6
<1>8. /\ Good(l, v, root)
      /\ \A n \in DOMAIN l : \/ l[n].last = None \/ l[n].last \in DOMAIN l
                             \/ n \in DOMAIN node /\ node[n].last # None /\ node[n].last \notin DOMAIN node
  BY <1>1, <1>4, <1>5, <1>7, AppendGood
<1>9. DOMAIN node' = DOMAIN node \cup {Fresh}
  BY <1>2 DEF Appended
<1>10. \A d \in DOMAIN node' : Dangling(d)' => edits > 0
  BY <1>6, <1>8 DEF Dangling, JInv
<1>. QED
  BY <1>1, <1>3, <1>6, <1>8, <1>9, <1>10
-----------------------------------------------------------------------------
\* A new node has no links.
LEMMA NewLinks ==
  ASSUME NEW type, NEW nm, NEW value, NEW q, q = NewNode(type, nm, value)
  PROVE  /\ q.parent = None /\ q.next = None /\ q.first = None /\ q.last = None
         /\ Links \subseteq DOMAIN q
  BY DEF NewNode, Links

\* When the parser gives up nothing is left of the tree.
LEMMA Rejects ==
  ASSUME JInv, Reject
  PROVE  JInv'
<1>1. node' = << >> /\ root' = None /\ top' = None /\ made' = made /\ edits' = edits
      /\ pc' \in {"error", "undefined"}
  BY DEF Reject
<1>2. DOMAIN node' = {}
  BY <1>1
<1>3. made \in Nat
  BY DEF JInv, Good, Tree
<1>4. Good(node', made', root')
  BY <1>1, <1>2, <1>3 DEF Good, Tree
<1>. QED
  BY <1>1, <1>2, <1>4 DEF JInv

\* A value that the parser puts in top.
LEMMA Adds ==
  ASSUME JInv, pc = "parse", top # None, NEW type, NEW value, Add(type, value),
         root' = root, Advance, top' = top \/ top' = Fresh
  PROVE  JInv'
<1>1. top \in DOMAIN node /\ edits = 0 /\ ~ Dangling(top)
  BY DEF JInv
<1>2. node' = Append1(With(Fresh, NewNode(type, name, value)), top, Fresh) /\ made' = Fresh
  BY DEF Add
<1>3. /\ Good(node', made', root') /\ root' \in DOMAIN node'
      /\ DOMAIN node' = DOMAIN node \cup {Fresh}
      /\ \A d \in DOMAIN node' : Dangling(d)' => edits > 0
  BY <1>1, <1>2, Appends
<1>4. edits' = edits /\ pc' = pc
  BY DEF Advance
<1>5. \A c \in DOMAIN node' : Dangling(c)' => edits' > 0
  BY <1>3, <1>4
<1>6. root' # None
  BY <1>3 DEF Good, Tree, None
<1>. QED
  BY <1>1, <1>3, <1>4, <1>5, <1>6 DEF JInv

\* JInv is inductive: no token the parser reads and no call of bkJsonSet or
\* bkJsonDel breaks the order of the nodes.
THEOREM JInvInvariant == Spec => []JInv
<1>1. Init => JInv
  <2> SUFFICES ASSUME Init PROVE JInv
    OBVIOUS
  <2>1. node = << >> /\ made = 0 /\ edits = 0 /\ root = None /\ top = None
    BY DEF Init
  <2>2. DOMAIN node = {}
    BY <2>1
  <2>3. Good(node, made, root)
    BY <2>1, <2>2 DEF Good, Tree
  <2>. QED
    BY <2>1, <2>2, <2>3 DEF JInv
<1>2. JInv /\ [Next]_vars => JInv'
  <2> SUFFICES ASSUME JInv, [Next]_vars PROVE JInv'
    OBVIOUS
  <2>1. ASSUME UNCHANGED <<root, top, node, made, edits>>, pc' # "parse" \/ pc' = pc,
               pc' = "ok" => top = None
        PROVE  JInv'
    <3>1. Good(node', made', root')
      BY <2>1 DEF JInv
    <3>2. \A c \in DOMAIN node' : Dangling(c)' => edits' > 0
      BY <2>1 DEF JInv, Dangling
    <3>. QED
      BY <2>1, <3>1, <3>2 DEF JInv
  <2>2. CASE Open
    <3> DEFINE type == IF tok.k = "{" THEN "object" ELSE "array"
    <3>1. CASE top # None /\ Add(type, "") /\ top' = Fresh /\ Advance /\ UNCHANGED root
      BY <2>2, <3>1, Adds DEF Open, Reading
    <3>2. CASE /\ top = None /\ root = None
               /\ node' = With(Fresh, NewNode(type, name, "")) /\ made' = Fresh
               /\ root' = Fresh /\ top' = Fresh /\ Advance
      <4>1. DOMAIN node = {} /\ made \in Nat /\ edits = 0 /\ pc = "parse"
        BY <2>2, <3>2 DEF JInv, Good, Tree, Open, Reading
      <4>2. edits' = edits /\ pc' = pc
        BY <3>2 DEF Advance
      <4>3. PICK v : v = Fresh /\ v = made + 1 /\ v \in Nat /\ v > 0
        BY <4>1 DEF Fresh
      <4>4. PICK l : l = node'
        OBVIOUS
      <4>5. DOMAIN l = {v} /\ l[v] = NewNode(type, name, "")
        BY <3>2, <4>1, <4>3, <4>4 DEF With
      <4> HIDE DEF type
      <4>6. /\ l[v].parent = None /\ l[v].next = None /\ l[v].first = None
            /\ l[v].last = None /\ Links \subseteq DOMAIN l[v]
        <5>1. PICK q : q = l[v]
          OBVIOUS
        <5>2. q = NewNode(type, name, "")
          BY <5>1, <4>5
        <5>3. /\ q.parent = None /\ q.next = None /\ q.first = None /\ q.last = None
              /\ Links \subseteq DOMAIN q
          BY <5>2, NewLinks
        <5>. QED
          BY <5>1, <5>3
      <4>7. v # None /\ None = 0
        BY <4>3 DEF None
      <4>8. Elements(l, v) = {}
        BY <4>5, <4>6, <4>7 DEF Elements
      <4>9. Tree(l, v, v)
        <5>1. v \in 1..v /\ 0 \in 0..v
          BY <4>3
        <5>2. \A n \in DOMAIN l : n = v
          BY <4>5
        <5>. QED
          BY <4>3, <4>6, <4>7, <5>1, <5>2 DEF Tree
      <4>10. List(l, v)
        BY <4>6, <4>8 DEF List, Least
      <4>11. Good(node', made', root')
        BY <3>2, <4>3, <4>4, <4>5, <4>9, <4>10 DEF Good
      <4>12. \A c \in DOMAIN node' : ~ Dangling(c)'
        BY <4>4, <4>5, <4>6 DEF Dangling
      <4>13. root' = v /\ top' = v /\ DOMAIN node' = {v}
        BY <3>2, <4>3, <4>4, <4>5
      <4>. QED
        BY <4>1, <4>2, <4>7, <4>11, <4>12, <4>13 DEF JInv
    <3>3. CASE Reject
      BY <3>3, Rejects
    <3>. QED
      BY <2>2, <3>1, <3>2, <3>3 DEF Open
  <2>3. CASE Close
    <3>1. CASE Closes /\ top' = node[top].parent /\ Advance /\ UNCHANGED <<name, root, node, made>>
      <4>1. edits' = edits /\ pc' = pc /\ pc = "parse" /\ top # None
        BY <2>3, <3>1 DEF Advance, Close, Reading, Closes
      <4>2. top' # None => top' \in DOMAIN node
        BY <3>1, <4>1 DEF JInv, Good, Tree
      <4>3. Good(node', made', root')
        BY <3>1 DEF JInv
      <4>4. \A c \in DOMAIN node' : Dangling(c)' => edits' > 0
        BY <3>1, <4>1 DEF JInv, Dangling
      <4>. QED
        BY <3>1, <4>1, <4>2, <4>3, <4>4 DEF JInv
    <3>2. CASE Reject
      BY <3>2, Rejects
    <3>. QED
      BY <2>3, <3>1, <3>2 DEF Close
  <2>4. CASE Punctuation
    <3>1. CASE Advance /\ UNCHANGED <<name, root, top, node, made>>
      <4>1. edits' = edits /\ pc' = pc /\ pc = "parse"
        BY <2>4, <3>1 DEF Advance, Punctuation, Reading
      <4>. QED
        BY <2>1, <3>1, <4>1
    <3>2. CASE Reject
      BY <3>2, Rejects
    <3>. QED
      BY <2>4, <3>1, <3>2 DEF Punctuation
  <2>5. CASE String
    <3>0. pc = "parse"
      BY <2>5 DEF String, Reading
    <3>1. CASE Advance /\ UNCHANGED <<root, top, node, made>>
      <4>1. edits' = edits /\ pc' = pc
        BY <3>1 DEF Advance
      <4>. QED
        BY <2>1, <3>0, <3>1, <4>1
    <3>2. CASE top # None /\ Add("string", tok.v) /\ Advance /\ UNCHANGED <<root, top>>
      BY <3>0, <3>2, Adds
    <3>3. CASE Reject
      BY <3>3, Rejects
    <3>. QED
      BY <2>5, <3>1, <3>2, <3>3 DEF String
  <2>6. CASE Atom
    <3>0. pc = "parse"
      BY <2>6 DEF Atom, Reading
    <3>1. CASE top # None /\ Add(tok.k, tok.v) /\ Advance /\ UNCHANGED <<root, top>>
      BY <3>0, <3>1, Adds
    <3>2. CASE Reject
      BY <3>2, Rejects
    <3>. QED
      BY <2>6, <3>1, <3>2 DEF Atom
  <2>13. CASE More
    <3>1. /\ edits' = edits /\ pc' = pc /\ pc = "parse"
          /\ UNCHANGED <<name, root, top, node, made>>
      BY <2>13 DEF More, Advance, Reading
    <3>. QED
      BY <2>1, <3>1
  <2>7. CASE NumberOverrun
    BY <2>1, <2>7 DEF NumberOverrun
  <2>8. CASE BadCharacter
    BY <2>8, Rejects DEF BadCharacter
  <2>9. CASE End
    <3>1. CASE top = None /\ pc' = "ok" /\ UNCHANGED <<root, top, node, made, edits>>
      BY <2>1, <3>1
    <3>2. CASE Reject
      BY <3>2, Rejects
    <3>. QED
      BY <2>9, <3>1, <3>2 DEF End
  <2>10. CASE Finished \/ UNCHANGED vars
    <3>1. UNCHANGED vars
      BY <2>10 DEF Finished
    <3>2. UNCHANGED <<root, top, node, made, edits, pc>>
      BY <3>1 DEF vars
    <3>. QED
      BY <2>1, <3>2 DEF JInv
  <2>11. ASSUME NEW c \in DOMAIN node, NEW nm \in SetNames, Del(c, nm) PROVE JInv'
    <3>1. PICK n : n = Get(c, nm) /\ n # None
      BY <2>11 DEF Del
    <3>2. n \in Elements(node, c)
      BY <3>1, GetElement DEF JInv
    <3>3. /\ node' = [m \in DOMAIN node \ Below(n) |-> Unlinked(c, n)[m]]
          /\ root' = root /\ made' = made /\ top' = top /\ edits' = edits + 1
          /\ pc' \in {"ok", "undefined"} /\ pc = "ok"
      BY <2>11, <3>1 DEF Del, Editable
    <3>4. Good(node', made', root') /\ root' \in DOMAIN node'
      BY <3>2, <3>3, Deletes
    <3>5. top' = None /\ edits' \in Nat /\ edits' > 0
      BY <3>3 DEF JInv
    <3>6. root' # None
      BY <3>4 DEF Good, Tree, None
    <3>. QED
      BY <3>3, <3>4, <3>5, <3>6 DEF JInv
  <2>12. ASSUME NEW c \in DOMAIN node, NEW nm \in SetNames, NEW value \in SetValues,
                Set(c, nm, value)
         PROVE  JInv'
    <3>1. /\ SetValue(c, nm, value) /\ made' = Fresh /\ edits' = edits + 1 /\ root' = root
          /\ top' = top /\ pc = "ok"
      BY <2>12 DEF Set, Editable
    <3>2. top' = None /\ edits' \in Nat /\ edits' > 0 /\ pc' \in {"ok", "undefined"}
      BY <3>1 DEF JInv, SetValue
    <3>3. made \in Nat /\ Fresh \in Nat /\ made <= Fresh
      BY DEF JInv, Good, Tree, Fresh
    <3>4. Good(node', made', root') /\ root' \in DOMAIN node'
      <4>0. root \in DOMAIN node /\ Good(node, made, root)
        BY DEF JInv
      <4>1. CASE Get(c, nm) # None /\ node' = [node EXCEPT ![Get(c, nm)].value = value]
        <5>1. PICK n : n = Get(c, nm) /\ node' = [node EXCEPT ![n].value = value]
          BY <4>1
        <5>2. DOMAIN node' = DOMAIN node
          BY <5>1
        <5>3. \A m \in DOMAIN node : Links \subseteq DOMAIN node[m]
          BY <4>0 DEF Good, Tree
        <5>4. \A m \in DOMAIN node :
                 /\ Links \subseteq DOMAIN node'[m]
                 /\ node'[m].parent = node[m].parent /\ node'[m].next = node[m].next
                 /\ node'[m].first = node[m].first /\ node'[m].last = node[m].last
          BY <5>1, <5>3 DEF Links
        <5>5. Good(node', Fresh, root)
          BY <5>2, <5>4, <4>0, <3>3, SameLinks
        <5>. QED
          BY <5>2, <5>5, <4>0, <3>1
      <4>2. CASE /\ ~ Dangling(c)
                 /\ node' = Append1(With(Fresh, NewNode("string", nm, value)), c, Fresh)
        BY <4>2, <3>1, Appends
      <4>3. CASE UNCHANGED node
        <5>1. Good(node, Fresh, root)
          <6>1. \A m \in DOMAIN node : Links \subseteq DOMAIN node[m]
            BY <4>0 DEF Good, Tree
          <6>. QED
            BY <6>1, <4>0, <3>3, SameLinks
        <5>. QED
          BY <5>1, <4>0, <4>3, <3>1
      <4>. QED
        BY <3>1, <4>1, <4>2, <4>3 DEF SetValue
    <3>5. root' # None
      BY <3>4 DEF Good, Tree, None
    <3>. QED
      BY <3>2, <3>4, <3>5 DEF JInv
  <2>. QED
    BY <2>2, <2>3, <2>4, <2>5, <2>6, <2>7, <2>8, <2>9, <2>10, <2>11, <2>12, <2>13 DEF Next, Parse
<1>. QED
  BY <1>1, <1>2, PTL DEF Spec

\* However a text is cut or nested and whatever calls of bkJsonSet and
\* bkJsonDel follow, the lists of the tree are well linked.
THEOREM LinksAlwaysSound == Spec => []LinksSound
<1>1. JInv => LinksSound
  BY JInvLinks
<1>. QED
  BY <1>1, JInvInvariant, PTL
-----------------------------------------------------------------------------
\* The elements of S up to j.
UpTo(S, j) == {i \in S : i <= j}

\* The brackets among the first j tokens that are still open when m says
\* which of them the closing ones close.
Pending(x, j, m) ==
    {u \in UpTo(Openers(x), j) : \A c \in UpTo(Closers(x), j) : m[c] # u}

\* The brackets at o and c are of the same kind.
Pair(x, o, c) == (x[o].k = "{") = (x[c].k = "}")

\* m closes brackets as a nesting does, and none around an open one.
Matches(x, j, m) ==
    /\ m \in [UpTo(Closers(x), j) -> UpTo(Openers(x), j)]
    /\ \A c \in UpTo(Closers(x), j) : m[c] < c /\ Pair(x, m[c], c)
    /\ \A c, d \in UpTo(Closers(x), j) : c < d => m[c] # m[d] /\ ~(m[c] < m[d] /\ m[d] < c)
    /\ \A c \in UpTo(Closers(x), j), u \in Pending(x, j, m) : ~(m[c] < u /\ u < c)

\* The token at p is directly in an object that is still open.
InOpen(x, j, m, p) ==
    \E u \in Pending(x, j, m) :
        /\ u < p /\ x[u].k = "{"
        /\ \A v \in Pending(x, j, m) : v < p => v <= u
        /\ \A d \in UpTo(Closers(x), j) : ~(m[d] < p /\ p < d)

\* The token at p is directly in an object that is closed.
InClosed(x, j, m, p) ==
    \E c \in UpTo(Closers(x), j) :
        /\ m[c] < p /\ p < c /\ x[c].k = "}"
        /\ \A d \in UpTo(Closers(x), j) : m[d] < p /\ p < d => m[d] <= m[c]

\* The nestings of a whole text that close every bracket.
Full(x) == {n \in Nestings(x) : \A o \in Openers(x) : \E c \in Closers(x) : n[c] = o}

\* They all agree with m.
Forced(x, j, m) == \A n \in Full(x) : \A c \in UpTo(Closers(x), j) : n[c] = m[c]

\* x is a sequence of tokens.
Text(x) == \E T : x \in Seq(T)

\* Which tokens are brackets.
LEMMA Brackets ==
  ASSUME NEW x, Text(x)
  PROVE  /\ Openers(x) \subseteq 1..Len(x) /\ Closers(x) \subseteq 1..Len(x)
         /\ \A i \in 1..Len(x) : /\ i \in Openers(x) <=> x[i].k \in {"{", "["}
                                 /\ i \in Closers(x) <=> x[i].k \in {"}", "]"}
         /\ \A i \in Openers(x) : i \in Nat /\ i \notin Closers(x)
         /\ \A i \in Closers(x) : i \in Nat
<1>1. Len(x) \in Nat /\ DOMAIN x = 1..Len(x)
  BY DEF Text
<1>2. /\ \A i : i \in Openers(x) <=> (i \in 1..Len(x) /\ x[i].k \in {"{", "["})
      /\ \A i : i \in Closers(x) <=> (i \in 1..Len(x) /\ x[i].k \in {"}", "]"})
  BY <1>1 DEF Openers, Closers
<1>3. \A i \in 1..Len(x) : i \in Nat
  BY <1>1
<1>. QED
  BY <1>2, <1>3

\* A token that is no bracket changes nothing.
LEMMA OtherStep ==
  ASSUME NEW x, Text(x), NEW j \in Nat, j + 1 \notin Openers(x), j + 1 \notin Closers(x),
         NEW m, Matches(x, j, m), Forced(x, j, m)
  PROVE  /\ Pending(x, j + 1, m) = Pending(x, j, m)
         /\ Matches(x, j + 1, m) /\ Forced(x, j + 1, m)
         /\ \A p \in 1..j : InOpen(x, j, m, p) => InOpen(x, j + 1, m, p)
         /\ \A p \in 1..j : InClosed(x, j, m, p) => InClosed(x, j + 1, m, p)
<1>0. (\A i \in Openers(x) : i \in Nat) /\ (\A i \in Closers(x) : i \in Nat)
  BY Brackets
<1>1. UpTo(Closers(x), j + 1) = UpTo(Closers(x), j)
  BY <1>0 DEF UpTo
<1>2. UpTo(Openers(x), j + 1) = UpTo(Openers(x), j)
  BY <1>0 DEF UpTo
<1>3. Pending(x, j + 1, m) = Pending(x, j, m)
  BY <1>1, <1>2 DEF Pending
<1>4. Matches(x, j + 1, m)
  BY <1>1, <1>2, <1>3, Zenon DEF Matches
<1>5. Forced(x, j + 1, m)
  BY <1>1, Zenon DEF Forced
<1>6. \A p \in 1..j : InOpen(x, j, m, p) => InOpen(x, j + 1, m, p)
  BY <1>1, <1>3, Zenon DEF InOpen
<1>7. \A p \in 1..j : InClosed(x, j, m, p) => InClosed(x, j + 1, m, p)
  BY <1>1, Zenon DEF InClosed
<1>. QED
  BY <1>3, <1>4, <1>5, <1>6, <1>7

\* An opening bracket is open.
LEMMA OpenStep ==
  ASSUME NEW x, Text(x), NEW j \in Nat, j + 1 \in Openers(x),
         NEW m, Matches(x, j, m), Forced(x, j, m)
  PROVE  /\ Pending(x, j + 1, m) = Pending(x, j, m) \cup {j + 1}
         /\ Matches(x, j + 1, m) /\ Forced(x, j + 1, m)
         /\ \A p \in 1..j : InOpen(x, j, m, p) => InOpen(x, j + 1, m, p)
         /\ \A p \in 1..j : InClosed(x, j, m, p) => InClosed(x, j + 1, m, p)
<1> DEFINE C == UpTo(Closers(x), j)
           O == UpTo(Openers(x), j)
<1>0. Openers(x) \subseteq Nat /\ Closers(x) \subseteq Nat /\ j + 1 \notin Closers(x)
  BY Brackets
<1>1. UpTo(Closers(x), j + 1) = C
  BY <1>0 DEF UpTo
<1>2. UpTo(Openers(x), j + 1) = O \cup {j + 1}
  BY <1>0 DEF UpTo
<1>3. /\ \A c \in C : c \in Nat /\ c <= j
      /\ \A u \in O : u \in Nat /\ u <= j
      /\ m \in [C -> O]
  BY <1>0 DEF UpTo, Matches
<1>4. Pending(x, j + 1, m) = Pending(x, j, m) \cup {j + 1}
  <2>1. \A c \in C : m[c] # j + 1
    BY <1>3
  <2>. QED
    BY <2>1, <1>1, <1>2 DEF Pending
<1>5. Matches(x, j + 1, m)
  <2>1. m \in [C -> O \cup {j + 1}]
    BY <1>3
  <2>2. \A c \in C, u \in Pending(x, j + 1, m) : ~(m[c] < u /\ u < c)
    <3> SUFFICES ASSUME NEW c \in C, NEW u \in Pending(x, j + 1, m) PROVE ~(m[c] < u /\ u < c)
      OBVIOUS
    <3>1. CASE u = j + 1
      BY <3>1, <1>3
    <3>2. CASE u \in Pending(x, j, m)
      BY <3>2 DEF Matches
    <3>. QED
      BY <3>1, <3>2, <1>4
  <2>. QED
    BY <2>1, <2>2, <1>1, <1>2 DEF Matches
<1>6. Forced(x, j + 1, m)
  BY <1>1, Zenon DEF Forced
<1>7. ASSUME NEW p \in 1..j, InOpen(x, j, m, p) PROVE InOpen(x, j + 1, m, p)
  <2>1. PICK u \in Pending(x, j, m) :
          /\ u < p /\ x[u].k = "{"
          /\ \A v \in Pending(x, j, m) : v < p => v <= u
          /\ \A d \in C : ~(m[d] < p /\ p < d)
    BY <1>7 DEF InOpen
  <2>2. \A v \in Pending(x, j + 1, m) : v < p => v <= u
    <3>1. p \in Nat /\ ~(j + 1 < p)
      OBVIOUS
    <3>. QED
      BY <2>1, <3>1, <1>4
  <2>3. u \in Pending(x, j + 1, m)
    BY <1>4
  <2>. QED
    BY <2>1, <2>2, <2>3, <1>1 DEF InOpen
<1>8. \A p \in 1..j : InClosed(x, j, m, p) => InClosed(x, j + 1, m, p)
  BY <1>1, Zenon DEF InClosed
<1>. QED
  BY <1>4, <1>5, <1>6, <1>7, <1>8

\* A closing bracket can only close the last one that is open.
LEMMA LastOpen ==
  ASSUME NEW x, Text(x), NEW j \in Nat, j + 1 \in Closers(x),
         NEW m, Matches(x, j, m), Forced(x, j, m), NEW n \in Full(x)
  PROVE  n[j + 1] \in Pending(x, j, m) /\ \A u \in Pending(x, j, m) : u <= n[j + 1]
<1> DEFINE o == n[j + 1]
<1>1. Openers(x) \subseteq Nat /\ Closers(x) \subseteq Nat
  BY Brackets
<1>2. /\ n \in [Closers(x) -> Openers(x)]
      /\ \A c \in Closers(x) : n[c] < c
      /\ \A c, d \in Closers(x) : c < d => n[c] # n[d] /\ ~(n[c] < n[d] /\ n[d] < c)
      /\ \A b \in Openers(x) : \E c \in Closers(x) : n[c] = b
  BY DEF Full, Nestings
<1>3. \A c \in Closers(x) : c <= j => n[c] = m[c]
  BY DEF Forced, UpTo
<1>4. o \in Openers(x) /\ o < j + 1 /\ o <= j
  BY <1>1, <1>2
<1>5. \A c \in UpTo(Closers(x), j) : m[c] # o
  BY <1>1, <1>2, <1>3 DEF UpTo
<1>6. o \in Pending(x, j, m)
  BY <1>4, <1>5 DEF Pending, UpTo
<1>7. ASSUME NEW u \in Pending(x, j, m), ~(u <= o) PROVE FALSE
  <2>1. u \in Openers(x) /\ u <= j /\ u \in Nat /\ \A c \in Closers(x) : c <= j => m[c] # u
    BY <1>1 DEF Pending, UpTo
  <2>2. PICK d \in Closers(x) : n[d] = u
    BY <2>1, <1>2
  <2>3. j + 1 < d
    BY <2>1, <2>2, <1>1, <1>3, <1>4, <1>7
  <2>4. o < u /\ u < j + 1
    BY <2>1, <1>1, <1>4, <1>7
  <2>. QED
    BY <2>2, <2>3, <2>4, <1>2
<1>. QED
  BY <1>6, <1>7

\* A closing bracket of the right kind closes the last one that is open.
LEMMA CloseStep ==
  ASSUME NEW x, Text(x), NEW j \in Nat, j + 1 \in Closers(x),
         NEW m, Matches(x, j, m), Forced(x, j, m),
         NEW u \in Pending(x, j, m), \A v \in Pending(x, j, m) : v <= u,
         Pair(x, u, j + 1)
  PROVE  LET e == [c \in UpTo(Closers(x), j + 1) |-> IF c = j + 1 THEN u ELSE m[c]]
         IN /\ Pending(x, j + 1, e) = Pending(x, j, m) \ {u}
            /\ Matches(x, j + 1, e) /\ Forced(x, j + 1, e)
            /\ \A p \in 1..j : x[p].k = ":" =>
                  (InOpen(x, j, m, p) \/ InClosed(x, j, m, p)
                      => InOpen(x, j + 1, e, p) \/ InClosed(x, j + 1, e, p))
<1>1. /\ \A i \in Openers(x) : i \in Nat /\ i \notin Closers(x) /\ x[i].k \in {"{", "["}
      /\ \A i \in Closers(x) : i \in Nat /\ x[i].k \in {"}", "]"}
  BY Brackets
<1>c. PICK C : C = UpTo(Closers(x), j)
  OBVIOUS
<1>d. PICK D : D = UpTo(Closers(x), j + 1)
  OBVIOUS
<1>o. PICK O : O = UpTo(Openers(x), j)
  OBVIOUS
<1>p. PICK P : P = Pending(x, j, m)
  OBVIOUS
<1>e. PICK e : e = [c \in D |-> IF c = j + 1 THEN u ELSE m[c]]
  OBVIOUS
<1>2. /\ \A c : c \in D <=> (c \in C \/ c = j + 1)
      /\ \A c \in C : c \in Nat /\ c <= j /\ c < j + 1 /\ c \in Closers(x)
  <2>0. \A c \in Closers(x) : c \in Nat
    BY <1>1
  <2>1. \A c \in Closers(x) : c \in Nat /\ (c <= j + 1 <=> (c <= j \/ c = j + 1))
    BY <2>0
  <2>2. \A c : c \in D <=> (c \in Closers(x) /\ c <= j + 1)
    BY <1>d DEF UpTo
  <2>3. \A c : c \in C <=> (c \in Closers(x) /\ c <= j)
    BY <1>c DEF UpTo
  <2>. QED
    BY <2>1, <2>2, <2>3
<1>3. /\ UpTo(Openers(x), j + 1) = O
      /\ \A b \in O : b \in Nat /\ b <= j /\ b < j + 1 /\ b \in Openers(x)
  <2>1. \A b \in Openers(x) : b \in Nat /\ b # j + 1
    BY <1>1
  <2>2. \A b \in Openers(x) : b <= j + 1 <=> b <= j
    BY <2>1
  <2>3. UpTo(Openers(x), j + 1) = UpTo(Openers(x), j)
    BY <2>2 DEF UpTo
  <2>4. \A b : b \in O <=> (b \in Openers(x) /\ b <= j)
    BY <1>o DEF UpTo
  <2>. QED
    BY <2>1, <2>3, <2>4, <1>o
<1>4. /\ \A v : v \in P <=> (v \in O /\ \A c \in C : m[c] # v)
      /\ u \in P /\ \A v \in P : v <= u
  BY <1>c, <1>o, <1>p DEF Pending
<1>5. /\ m \in [C -> O]
      /\ \A c \in C : m[c] < c /\ Pair(x, m[c], c)
      /\ \A c, d \in C : c < d => m[c] # m[d] /\ ~(m[c] < m[d] /\ m[d] < c)
      /\ \A c \in C, v \in P : ~(m[c] < v /\ v < c)
  BY <1>c, <1>o, <1>p DEF Matches
<1>6. e \in [D -> O] /\ e[j + 1] = u /\ \A c \in C : e[c] = m[c]
  <2>1. j + 1 \in D /\ u \in O /\ \A c \in C : m[c] \in O /\ c \in D
    BY <1>2, <1>4, <1>5
  <2>2. \A c \in C : c # j + 1
    BY <1>2
  <2>. QED
    BY <2>1, <2>2, <1>2, <1>e
<1>u. u \in O /\ u \in Nat /\ u <= j /\ u < j + 1 /\ u \in Openers(x)
  BY <1>3, <1>4
<1>m. \A c \in C : m[c] \in O /\ m[c] \in Nat /\ c \in Nat
  BY <1>2, <1>3, <1>5
<1>7. Pending(x, j + 1, e) = P \ {u}
  <2>1. \A v : v \in Pending(x, j + 1, e) <=> (v \in O /\ \A c \in D : e[c] # v)
    BY <1>3, <1>d DEF Pending
  <2>2. \A v : (\A c \in D : e[c] # v) <=> (u # v /\ \A c \in C : m[c] # v)
    BY <1>2, <1>6
  <2>3. \A v : v \in Pending(x, j + 1, e) <=> (v \in P /\ v # u)
    BY <2>1, <2>2, <1>4
  <2>. QED
    BY <2>3
<1>8. Matches(x, j + 1, e)
  <2>1. \A c \in D : e[c] < c /\ Pair(x, e[c], c)
    <3>1. ASSUME NEW c \in C PROVE e[c] < c /\ Pair(x, e[c], c)
      BY <1>5, <1>6
    <3>2. e[j + 1] < j + 1 /\ Pair(x, e[j + 1], j + 1)
      BY <1>u, <1>6
    <3>. QED
      BY <3>1, <3>2, <1>2
  <2>2. \A c, d \in D : c < d => e[c] # e[d] /\ ~(e[c] < e[d] /\ e[d] < c)
    <3> SUFFICES ASSUME NEW c \in D, NEW d \in D, c < d
                 PROVE  e[c] # e[d] /\ ~(e[c] < e[d] /\ e[d] < c)
      OBVIOUS
    <3>1. c \in C
      <4>1. c # j + 1
        <5>1. d \in Nat /\ d <= j + 1
          <6>1. d = j + 1 \/ (d \in Nat /\ d < j + 1)
            BY <1>2
          <6>. QED
            BY <6>1
        <5>. QED
          BY <5>1
      <4>. QED
        BY <4>1, <1>2
    <3>2. CASE d \in C
      BY <3>1, <3>2, <1>5, <1>6
    <3>3. CASE d = j + 1
      <4>1. e[c] = m[c] /\ e[d] = u
        BY <3>1, <3>3, <1>6
      <4>2. m[c] # u /\ ~(m[c] < u /\ u < c)
        BY <3>1, <1>4, <1>5
      <4>. QED
        BY <4>1, <4>2
    <3>. QED
      BY <3>2, <3>3, <1>2
  <2>3. \A c \in D, v \in P \ {u} : ~(e[c] < v /\ v < c)
    <3> SUFFICES ASSUME NEW c \in D, NEW v \in P \ {u} PROVE ~(e[c] < v /\ v < c)
      OBVIOUS
    <3>1. CASE c \in C
      BY <3>1, <1>5, <1>6
    <3>2. CASE c = j + 1
      <4>1. v <= u /\ v \in Nat /\ e[c] = u
        BY <3>2, <1>3, <1>4, <1>6
      <4>. QED
        BY <4>1, <1>u
    <3>. QED
      BY <3>1, <3>2, <1>2
  <2>. QED
    BY <2>1, <2>2, <2>3, <1>3, <1>6, <1>7, <1>d DEF Matches
<1>9. Forced(x, j + 1, e)
  <2> SUFFICES ASSUME NEW n \in Full(x), NEW c \in D PROVE n[c] = e[c]
    BY <1>d DEF Forced
  <2>1. CASE c \in C
    BY <2>1, <1>6, <1>c DEF Forced
  <2>2. CASE c = j + 1
    <3>1. PICK b : b = n[j + 1]
      OBVIOUS
    <3>2. b \in P /\ \A v \in P : v <= b
      BY <3>1, <1>p, LastOpen
    <3>3. b \in Nat /\ u <= b /\ b <= u
      BY <3>2, <1>3, <1>4
    <3>4. b = u
      BY <3>3, <1>u
    <3>. QED
      BY <3>1, <3>4, <2>2, <1>6
  <2>. QED
    BY <2>1, <2>2, <1>2
<1>10. ASSUME NEW p \in 1..j, x[p].k = ":", InOpen(x, j, m, p)
       PROVE  InOpen(x, j + 1, e, p) \/ InClosed(x, j + 1, e, p)
  <2>1. PICK w \in P : /\ w < p /\ x[w].k = "{"
                       /\ \A v \in P : v < p => v <= w
                       /\ \A d \in C : ~(m[d] < p /\ p < d)
    BY <1>10, <1>p, <1>c DEF InOpen
  <2>2. w \in Nat /\ w <= u /\ p \in Nat /\ p < j + 1
    BY <1>3, <1>4
  <2>3. u # p
    <3>1. x[u].k \in {"{", "["}
      BY <1>1, <1>u
    <3>. QED
      BY <3>1, <1>10
  <2>4. CASE w = u
    <3>1. j + 1 \in D /\ e[j + 1] < p /\ x[j + 1].k = "}"
      BY <2>1, <2>4, <1>2, <1>6 DEF Pair
    <3>2. \A d \in D : e[d] < p /\ p < d => e[d] <= e[j + 1]
      <4>1. \A d \in C : ~(e[d] < p /\ p < d)
        BY <2>1, <1>6
      <4>2. u <= u
        BY <1>u
      <4>. QED
        BY <4>1, <4>2, <1>2, <1>6
    <3>. QED
      BY <3>1, <3>2, <2>2, <1>d DEF InClosed
  <2>5. CASE w # u
    <3>1. p < u
      <4>1. ~(u < p)
        <5>1. ~(u <= w)
          BY <2>2, <2>5, <1>u
        <5>. QED
          BY <5>1, <2>1, <1>4
      <4>. QED
        BY <4>1, <2>2, <2>3, <1>u
    <3>2. \A d \in D : ~(e[d] < p /\ p < d)
      <4>1. \A d \in C : ~(e[d] < p /\ p < d)
        BY <2>1, <1>6
      <4>2. ~(u < p)
        BY <3>1, <2>2, <1>u
      <4>. QED
        BY <4>1, <4>2, <1>2, <1>6
    <3>3. w \in P \ {u} /\ \A v \in P \ {u} : v < p => v <= w
      BY <2>1, <2>5
    <3>. QED
      BY <3>2, <3>3, <2>1, <1>7, <1>d DEF InOpen
  <2>. QED
    BY <2>4, <2>5
<1>11. ASSUME NEW p \in 1..j, x[p].k = ":", InClosed(x, j, m, p)
       PROVE  InClosed(x, j + 1, e, p)
  <2>1. PICK c \in C : /\ m[c] < p /\ p < c /\ x[c].k = "}"
                       /\ \A d \in C : m[d] < p /\ p < d => m[d] <= m[c]
    BY <1>11, <1>c DEF InClosed
  <2>2. PICK b : b = m[c]
    OBVIOUS
  <2>a. b < p /\ p < c
    BY <2>1, <2>2
  <2>3. b \in Nat /\ c \in Nat /\ p \in Nat
    BY <2>2, <1>m
  <2>4. u < p => u <= b
    <3>1. ~(b < u /\ u < c)
      BY <2>2, <1>4, <1>5
    <3>. QED
      BY <3>1, <2>a, <2>3, <1>u
  <2>5. \A d \in D : e[d] < p /\ p < d => e[d] <= e[c]
    <3>1. \A d \in C : e[d] < p /\ p < d => e[d] <= b
      BY <2>1, <2>2, <1>6
    <3>. QED
      BY <3>1, <2>2, <2>4, <1>2, <1>6
  <2>6. c \in D /\ e[c] < p
    BY <2>1, <1>2, <1>6
  <2>. QED
    BY <2>1, <2>5, <2>6, <1>d DEF InClosed
<1>12. \A p \in 1..j : x[p].k = ":" =>
                  (InOpen(x, j, m, p) \/ InClosed(x, j, m, p)
                      => InOpen(x, j + 1, e, p) \/ InClosed(x, j + 1, e, p))
  BY <1>10, <1>11
<1>13. Pending(x, j + 1, e) = Pending(x, j, m) \ {u}
  BY <1>7, <1>p
<1>. QED
  BY <1>12, <1>13, <1>8, <1>9, <1>d, <1>e, Zenon

\* A nesting closes every bracket if and only if there are as many of each
\* kind.
LEMMA EveryBracket ==
  ASSUME NEW x, Text(x), NEW n \in [Closers(x) -> Openers(x)],
         \A c, d \in Closers(x) : c < d => n[c] # n[d]
  PROVE  Cardinality(Openers(x)) = Cardinality(Closers(x))
            <=> \A o \in Openers(x) : \E c \in Closers(x) : n[c] = o
<1>1. IsFiniteSet(1..Len(x))
  <2>1. Len(x) \in Nat
    BY DEF Text
  <2>. QED
    BY <2>1, FS_Interval
<1>2. IsFiniteSet(Openers(x))
  BY <1>1, Brackets, FS_Subset
<1>3. n \in Injection(Closers(x), Openers(x))
  <2>1. \A c, d \in Closers(x) : n[c] = n[d] => c = d
    <3> SUFFICES ASSUME NEW c \in Closers(x), NEW d \in Closers(x), n[c] = n[d], c # d PROVE FALSE
      OBVIOUS
    <3>1. c \in Nat /\ d \in Nat
      BY Brackets
    <3>2. c < d \/ d < c
      BY <3>1
    <3>. QED
      BY <3>2
  <2>. QED
    BY <2>1 DEF Injection, IsInjective
<1>4. Cardinality(Closers(x)) = Cardinality(Openers(x)) <=> n \in Surjection(Closers(x), Openers(x))
  BY <1>2, <1>3, FS_Injection
<1>5. n \in Surjection(Closers(x), Openers(x)) <=> \A o \in Openers(x) : \E c \in Closers(x) : n[c] = o
  BY DEF Surjection
<1>. QED
  BY <1>4, <1>5
\* g differs from f in fields other than type.
TypeKept(f, g) ==
    DOMAIN g = DOMAIN f
    /\ \A n \in DOMAIN f : DOMAIN g[n] = DOMAIN f[n] /\ g[n].type = f[n].type

\* Setting another field keeps the type.
LEMMA ExceptKept ==
  ASSUME NEW f, NEW a, NEW w, \A n \in DOMAIN f : "type" \in DOMAIN f[n]
  PROVE  /\ TypeKept(f, [f EXCEPT ![a].next = w]) /\ TypeKept(f, [f EXCEPT ![a].last = w])
         /\ TypeKept(f, [f EXCEPT ![a].parent = w]) /\ TypeKept(f, [f EXCEPT ![a].first = w])
         /\ TypeKept(f, [f EXCEPT ![a].name = w])
<1>1. TypeKept(f, [f EXCEPT ![a].next = w])
  BY DEF TypeKept
<1>2. TypeKept(f, [f EXCEPT ![a].last = w])
  BY DEF TypeKept
<1>3. TypeKept(f, [f EXCEPT ![a].parent = w])
  BY DEF TypeKept
<1>4. TypeKept(f, [f EXCEPT ![a].first = w])
  BY DEF TypeKept
<1>5. TypeKept(f, [f EXCEPT ![a].name = w])
  BY DEF TypeKept
<1>. QED
  BY <1>1, <1>2, <1>3, <1>4, <1>5

\* Two such changes.
LEMMA KeptTwice ==
  ASSUME NEW f, NEW g, NEW h, TypeKept(f, g), TypeKept(g, h)
  PROVE  TypeKept(f, h)
  BY DEF TypeKept

\* bkJsonAppend changes no type.
LEMMA AppendKept ==
  ASSUME NEW ns, NEW c, NEW v, \A n \in DOMAIN ns : "type" \in DOMAIN ns[n]
  PROVE  TypeKept(ns, Append1(ns, c, v))
<1>0. ASSUME NEW g, TypeKept(ns, g) PROVE \A n \in DOMAIN g : "type" \in DOMAIN g[n]
  BY <1>0 DEF TypeKept
<1>1. TypeKept(ns, Linked(ns, c, v))
  <2>1. CASE ns[c].last # None
    <3>1. PICK f : f = [ns EXCEPT ![ns[c].last].next = v]
      OBVIOUS
    <3>2. PICK g : g = [f EXCEPT ![c].last = v]
      OBVIOUS
    <3>3. PICK h : h = [g EXCEPT ![v].parent = c]
      OBVIOUS
    <3>4. Linked(ns, c, v) = h
      BY <2>1, <3>1, <3>2, <3>3 DEF Linked
    <3>5. TypeKept(ns, f)
      BY <3>1, ExceptKept
    <3>6. TypeKept(f, g)
      BY <3>2, <3>5, <1>0, ExceptKept
    <3>7. TypeKept(ns, g)
      BY <3>5, <3>6, KeptTwice
    <3>8. TypeKept(g, h)
      BY <3>3, <3>7, <1>0, ExceptKept
    <3>. QED
      BY <3>4, <3>7, <3>8, KeptTwice
  <2>2. CASE ns[c].last = None
    <3>1. PICK f : f = [ns EXCEPT ![c].first = v]
      OBVIOUS
    <3>2. PICK g : g = [f EXCEPT ![c].last = v]
      OBVIOUS
    <3>3. PICK h : h = [g EXCEPT ![v].parent = c]
      OBVIOUS
    <3>4. Linked(ns, c, v) = h
      BY <2>2, <3>1, <3>2, <3>3 DEF Linked
    <3>5. TypeKept(ns, f)
      BY <3>1, ExceptKept
    <3>6. TypeKept(f, g)
      BY <3>2, <3>5, <1>0, ExceptKept
    <3>7. TypeKept(ns, g)
      BY <3>5, <3>6, KeptTwice
    <3>8. TypeKept(g, h)
      BY <3>3, <3>7, <1>0, ExceptKept
    <3>. QED
      BY <3>4, <3>7, <3>8, KeptTwice
  <2>. QED
    BY <2>1, <2>2
<1>2. PICK l : l = Linked(ns, c, v)
  OBVIOUS
<1>3. PICK x : x = IndexName(l, c)
  OBVIOUS
<1>4. Append1(ns, c, v) = l \/ Append1(ns, c, v) = [l EXCEPT ![v].name = x]
  BY <1>2, <1>3 DEF Append1
<1>5. TypeKept(l, [l EXCEPT ![v].name = x])
  BY <1>0, <1>1, <1>2, ExceptKept
<1>. QED
  BY <1>1, <1>2, <1>4, <1>5, KeptTwice

\* The nodes of ns are in l, with their types and where they were.
Kept(ns, l) ==
    /\ DOMAIN ns \subseteq DOMAIN l
    /\ \A n \in DOMAIN ns : l[n].type = ns[n].type /\ l[n].parent = ns[n].parent

\* l has one more node f, in c.
NewIn(ns, l, f, c, type) ==
    DOMAIN l = DOMAIN ns \cup {f} /\ l[f].type = type /\ l[f].parent = c

\* The nodes and their places after a new one was put in c.
LEMMA AppendPlaces ==
  ASSUME Good(node, made, root), NEW c \in DOMAIN node, ~ Dangling(c),
         NEW type, NEW nm, NEW value, NEW l,
         l = Append1(With(Fresh, NewNode(type, nm, value)), c, Fresh)
  PROVE  Kept(node, l) /\ NewIn(node, l, Fresh, c, type)
<1>1. Appended(node, l, c, Fresh)
  BY AppendLinks
<1>2. PICK v : v = Fresh /\ v \notin DOMAIN node
  BY DEF Good, Tree, Fresh
<1>3. PICK q : q = NewNode(type, nm, value)
  OBVIOUS
<1>4. PICK ns : ns = With(v, q)
  OBVIOUS
<1>5. DOMAIN ns = DOMAIN node \cup {v} /\ ns[v] = q /\ \A n \in DOMAIN node : ns[n] = node[n]
  BY <1>2, <1>4 DEF With
<1>6. "type" \in DOMAIN q /\ q.type = type
  BY <1>3 DEF NewNode
<1>7. \A n \in DOMAIN ns : "type" \in DOMAIN ns[n]
  BY <1>5, <1>6 DEF Good, Tree, Links
<1>8. TypeKept(ns, l)
  BY <1>2, <1>3, <1>4, <1>7, AppendKept
<1>. QED
  BY <1>1, <1>2, <1>5, <1>6, <1>8 DEF TypeKept, Appended, Kept, NewIn

\* The type of the container that the bracket at p opens.
KindOf(x, p) == IF x[p].k = "{" THEN "object" ELSE "array"

\* And of the container that the one at p closes.
KindClosed(x, p) == IF x[p].k = "}" THEN "object" ELSE "array"

\* pos gives the brackets of the containers from the root r to t, which are
\* those that are still open.
Stack(x, j, m, pos, ns, r, t) ==
    /\ DOMAIN pos \subseteq DOMAIN ns
    /\ \A a \in DOMAIN pos :
          /\ pos[a] \in Pending(x, j, m) /\ ns[a].type = KindOf(x, pos[a])
          /\ a <= t
          /\ a # r => /\ ns[a].parent \in DOMAIN pos
                      /\ \A b \in DOMAIN pos : b < a => b <= ns[a].parent
    /\ \A u \in Pending(x, j, m) : \E a \in DOMAIN pos : pos[a] = u
    /\ \A a, b \in DOMAIN pos : a < b => pos[a] < pos[b]
    /\ t # None => t \in DOMAIN pos
    /\ r \in DOMAIN pos => pos[r] = 1

\* The first j tokens of x are parsed: m is the nesting they have and the
\* containers from r to t are open.
Parsed(x, j, m, pos, ns, r, t) ==
    /\ Matches(x, j, m) /\ Forced(x, j, m) /\ Stack(x, j, m, pos, ns, r, t)
    /\ \A p \in 1..j : x[p].k # "bad" /\ (x[p].k = ":" => InOpen(x, j, m, p) \/ InClosed(x, j, m, p))
    /\ r # None /\ t = None => j \in Closers(x) /\ m[j] = 1

\* Nothing is open when the parser is in no container.
LEMMA NoneOpen ==
  ASSUME NEW x, NEW j, NEW m, NEW pos, NEW ns, NEW r, NEW t, NEW k, Tree(ns, k, r),
         Stack(x, j, m, pos, ns, r, t)
  PROVE  t = None <=> Pending(x, j, m) = {}
<1>1. DOMAIN pos \subseteq DOMAIN ns /\ DOMAIN ns \subseteq 1..k /\ k \in Nat /\ \A a \in DOMAIN pos : a <= t
  BY DEF Stack, Tree
<1>2. ASSUME t = None PROVE Pending(x, j, m) = {}
  <2>1. DOMAIN pos = {}
    <3> SUFFICES ASSUME NEW a \in DOMAIN pos PROVE FALSE
      OBVIOUS
    <3>1. a \in 1..k /\ a <= 0
      BY <1>1, <1>2 DEF None
    <3>. QED
      BY <3>1, <1>1
  <2>. QED
    BY <2>1 DEF Stack
<1>3. ASSUME t # None PROVE Pending(x, j, m) # {}
  BY <1>3 DEF Stack
<1>. QED
  BY <1>2, <1>3

\* The bracket of the parser's container is the last one that is open.
LEMMA TopLast ==
  ASSUME NEW x, NEW j, NEW m, NEW pos, NEW ns, NEW r, NEW t, NEW k, Tree(ns, k, r),
         Stack(x, j, m, pos, ns, r, t), t # None, Pending(x, j, m) \subseteq Nat
  PROVE  /\ t \in DOMAIN pos /\ pos[t] \in Pending(x, j, m)
         /\ \A u \in Pending(x, j, m) : u <= pos[t]
<1>1. t \in DOMAIN pos /\ pos[t] \in Pending(x, j, m) /\ pos[t] \in Nat
  BY DEF Stack
<1>2. \A a \in DOMAIN pos : a \in Nat
  BY DEF Stack, Tree
<1>3. ASSUME NEW u \in Pending(x, j, m) PROVE u <= pos[t]
  <2>1. PICK a \in DOMAIN pos : pos[a] = u
    BY DEF Stack
  <2>2. a <= t
    BY DEF Stack
  <2>3. a < t => pos[a] < pos[t]
    BY <1>1 DEF Stack
  <2>4. u \in Nat
    OBVIOUS
  <2>5. a = t \/ a < t
    BY <2>2, <1>1, <1>2
  <2>6. CASE a = t
    BY <2>6, <2>1, <2>4
  <2>7. CASE a < t
    <3>1. u < pos[t]
      BY <2>7, <2>1, <2>3
    <3>. QED
      BY <3>1, <2>4, <1>1
  <2>. QED
    BY <2>5, <2>6, <2>7
<1>. QED
  BY <1>1, <1>3

\* A value, a name or a comma leaves the open containers alone.
LEMMA StackSame ==
  ASSUME NEW x, NEW j, NEW i, NEW m, NEW pos, NEW ns, NEW l, NEW r, NEW t,
         Stack(x, j, m, pos, ns, r, t), Pending(x, i, m) = Pending(x, j, m),
         DOMAIN ns \subseteq DOMAIN l,
         \A n \in DOMAIN ns : l[n].type = ns[n].type /\ l[n].parent = ns[n].parent
  PROVE  Stack(x, i, m, pos, l, r, t)
<1>1. DOMAIN pos \subseteq DOMAIN l
  BY DEF Stack
<1>2. \A a \in DOMAIN pos : l[a].type = ns[a].type /\ l[a].parent = ns[a].parent
  BY DEF Stack
<1>3. ASSUME NEW a \in DOMAIN pos
      PROVE  /\ pos[a] \in Pending(x, i, m) /\ l[a].type = KindOf(x, pos[a]) /\ a <= t
             /\ a # r => /\ l[a].parent \in DOMAIN pos
                         /\ \A b \in DOMAIN pos : b < a => b <= l[a].parent
  BY <1>2 DEF Stack
<1>4. \A u \in Pending(x, i, m) : \E a \in DOMAIN pos : pos[a] = u
  BY DEF Stack
<1>5. /\ \A a, b \in DOMAIN pos : a < b => pos[a] < pos[b]
      /\ t # None => t \in DOMAIN pos
      /\ r \in DOMAIN pos => pos[r] = 1
  BY DEF Stack
<1>. QED
  BY <1>1, <1>3, <1>4, <1>5, Zenon DEF Stack

\* A new container f in t is the innermost one.
LEMMA StackOpen ==
  ASSUME NEW x, NEW j \in Nat, NEW m, NEW pos, NEW ns, NEW l, NEW r, NEW t, NEW f \in Nat,
         NEW k, Tree(ns, k, r), k < f, f # r,
         Stack(x, j, m, pos, ns, r, t), t # None,
         Pending(x, j, m) \subseteq 1..j,
         Pending(x, j + 1, m) = Pending(x, j, m) \cup {j + 1},
         DOMAIN l = DOMAIN ns \cup {f}, l[f].type = KindOf(x, j + 1), l[f].parent = t,
         \A n \in DOMAIN ns : l[n].type = ns[n].type /\ l[n].parent = ns[n].parent
  PROVE  \E q : Stack(x, j + 1, m, q, l, r, f)
<1>1. PICK q : q = [a \in DOMAIN pos \cup {f} |-> IF a = f THEN j + 1 ELSE pos[a]]
  OBVIOUS
<1>2. /\ \A a \in DOMAIN ns : a \in Nat /\ a < f /\ a # f
      /\ DOMAIN pos \subseteq DOMAIN ns
  BY DEF Tree, Stack
<1>3. /\ DOMAIN q = DOMAIN pos \cup {f} /\ q[f] = j + 1
      /\ \A a \in DOMAIN pos : q[a] = pos[a] /\ a # f /\ a < f /\ a \in Nat /\ a <= f
  BY <1>1, <1>2
<1>4. t \in DOMAIN pos /\ t \in Nat
  BY <1>2 DEF Stack
<1>5. ASSUME NEW a \in DOMAIN pos
      PROVE  /\ q[a] \in Pending(x, j + 1, m) /\ l[a].type = KindOf(x, q[a])
             /\ a # r => /\ l[a].parent \in DOMAIN q
                         /\ \A b \in DOMAIN q : b < a => b <= l[a].parent
  <2>1. l[a].type = ns[a].type /\ l[a].parent = ns[a].parent
    BY <1>2
  <2>2. q[a] = pos[a] /\ ~(f < a)
    BY <1>3
  <2>3. /\ pos[a] \in Pending(x, j, m) /\ ns[a].type = KindOf(x, pos[a])
        /\ a # r => /\ ns[a].parent \in DOMAIN pos
                    /\ \A b \in DOMAIN pos : b < a => b <= ns[a].parent
    BY DEF Stack
  <2>. QED
    BY <2>1, <2>2, <2>3, <1>3
<1>6. /\ q[f] \in Pending(x, j + 1, m) /\ l[f].type = KindOf(x, q[f])
      /\ l[f].parent \in DOMAIN q
      /\ \A b \in DOMAIN q : b < f => b <= l[f].parent
  <2>1. ~(f < f)
    OBVIOUS
  <2>2. \A b \in DOMAIN pos : b <= t
    BY DEF Stack
  <2>. QED
    BY <2>1, <2>2, <1>3, <1>4
<1>7. \A u \in Pending(x, j + 1, m) : \E a \in DOMAIN q : q[a] = u
  <2> SUFFICES ASSUME NEW u \in Pending(x, j + 1, m) PROVE \E a \in DOMAIN q : q[a] = u
    OBVIOUS
  <2>1. CASE u = j + 1
    BY <2>1, <1>3
  <2>2. CASE u \in Pending(x, j, m)
    <3>1. PICK a \in DOMAIN pos : pos[a] = u
      BY <2>2 DEF Stack
    <3>. QED
      BY <3>1, <1>3
  <2>. QED
    BY <2>1, <2>2
<1>8. \A a, b \in DOMAIN q : a < b => q[a] < q[b]
  <2> SUFFICES ASSUME NEW a \in DOMAIN q, NEW b \in DOMAIN q, a < b PROVE q[a] < q[b]
    OBVIOUS
  <2>1. a \in DOMAIN pos
    <3>1. b <= f /\ b \in Nat
      BY <1>3
    <3>2. a # f
      BY <3>1
    <3>. QED
      BY <3>2, <1>3
  <2>2. CASE b = f
    <3>1. PICK d : d = pos[a]
      OBVIOUS
    <3>2. d \in 1..j
      BY <3>1, <2>1 DEF Stack
    <3>3. d < j + 1
      BY <3>2
    <3>. QED
      BY <3>1, <3>3, <2>1, <2>2, <1>3
  <2>3. CASE b \in DOMAIN pos
    <3>1. pos[a] < pos[b]
      BY <2>1, <2>3 DEF Stack
    <3>. QED
      BY <3>1, <2>1, <2>3, <1>3
  <2>. QED
    BY <2>2, <2>3, <1>3
<1>9. r \in DOMAIN q => q[r] = 1
  BY <1>3 DEF Stack
<1>10. DOMAIN q \subseteq DOMAIN l /\ f \in DOMAIN q /\ f <= f
  BY <1>2, <1>3
<1>11. Stack(x, j + 1, m, q, l, r, f)
  <2>1. ASSUME NEW a \in DOMAIN q
        PROVE  /\ q[a] \in Pending(x, j + 1, m) /\ l[a].type = KindOf(x, q[a]) /\ a <= f
               /\ a # r => /\ l[a].parent \in DOMAIN q
                           /\ \A b \in DOMAIN q : b < a => b <= l[a].parent
    <3>1. CASE a = f
      BY <3>1, <1>6, <1>10
    <3>2. CASE a \in DOMAIN pos
      BY <3>2, <1>5, <1>3
    <3>. QED
      BY <3>1, <3>2, <1>3
  <2>. QED
    BY <2>1, <1>7, <1>8, <1>9, <1>10, Zenon DEF Stack
<1>. QED
  BY <1>11

\* The first container.
LEMMA StackRoot ==
  ASSUME NEW x, NEW m, NEW l, Pending(x, 1, m) = {1}, DOMAIN l = {1}, l[1].type = KindOf(x, 1)
  PROVE  \E q : Stack(x, 1, m, q, l, 1, 1)
<1>1. PICK q : q = [a \in {1} |-> 1]
  OBVIOUS
<1>2. DOMAIN q = {1} /\ q[1] = 1
  BY <1>1
<1>3. Stack(x, 1, m, q, l, 1, 1)
  BY <1>2 DEF Stack
<1>. QED
  BY <1>3

\* Closing the innermost container leaves its parent.
LEMMA StackClose ==
  ASSUME NEW x, NEW j, NEW i, NEW m, NEW e, NEW pos, NEW ns, NEW t, NEW k,
         Tree(ns, k, 1), 1 \in DOMAIN ns,
         Stack(x, j, m, pos, ns, 1, t), t # None, Pending(x, j, m) \subseteq Nat,
         Pending(x, i, e) = Pending(x, j, m) \ {pos[t]}
  PROVE  /\ \E q : Stack(x, i, e, q, ns, 1, ns[t].parent)
         /\ ns[t].parent = None => pos[t] = 1
<1>1. PICK q : q = [a \in DOMAIN pos \ {t} |-> pos[a]]
  OBVIOUS
<1>2. DOMAIN q = DOMAIN pos \ {t} /\ \A a \in DOMAIN q : q[a] = pos[a]
  BY <1>1
<1>3. /\ t \in DOMAIN pos /\ DOMAIN pos \subseteq DOMAIN ns
      /\ \A a \in DOMAIN ns : a \in Nat /\ a >= 1
      /\ \A a \in DOMAIN pos : a <= t
  BY DEF Stack, Tree
<1>4. \A a \in DOMAIN q : a < t /\ a \in DOMAIN pos
  BY <1>2, <1>3
<1>5. PICK p : p = ns[t].parent
  OBVIOUS
<1>6. CASE t = 1
  <2>1. DOMAIN q = {}
    BY <1>3, <1>4, <1>6
  <2>2. Pending(x, i, e) = {}
    <3>1. \A u \in Pending(x, j, m) : u = pos[t]
      <4>1. \A a \in DOMAIN pos : a = t
        BY <2>1, <1>2
      <4>. QED
        BY <4>1 DEF Stack
    <3>. QED
      BY <3>1
  <2>3. p = None
    BY <1>5, <1>6 DEF Tree
  <2>4. Stack(x, i, e, q, ns, 1, p)
    BY <2>1, <2>2, <2>3, Zenon DEF Stack
  <2>5. pos[t] = 1
    BY <1>3, <1>6 DEF Stack
  <2>. QED
    BY <2>4, <2>5, <1>5
<1>7. CASE t # 1
  <2>1. p \in DOMAIN pos /\ \A b \in DOMAIN pos : b < t => b <= p
    BY <1>3, <1>5, <1>7 DEF Stack
  <2>2. p \in DOMAIN ns /\ p < t /\ p # t
    BY <1>3, <1>5, <1>7 DEF Tree
  <2>3. p \in DOMAIN q /\ p # None
    BY <2>1, <2>2, <1>2, <1>3 DEF None
  <2>4. ASSUME NEW a \in DOMAIN q
        PROVE  /\ q[a] \in Pending(x, i, e) /\ ns[a].type = KindOf(x, q[a]) /\ a <= p
               /\ a # 1 => /\ ns[a].parent \in DOMAIN q
                           /\ \A b \in DOMAIN q : b < a => b <= ns[a].parent
    <3>1. a \in DOMAIN pos /\ a < t /\ q[a] = pos[a] /\ a <= p
      BY <1>2, <1>4, <2>1
    <3>2. pos[a] \in Pending(x, j, m) /\ ns[a].type = KindOf(x, pos[a])
      BY <3>1 DEF Stack
    <3>3. pos[a] # pos[t]
      <4>1. pos[a] < pos[t]
        BY <3>1, <1>3 DEF Stack
      <4>2. PICK y, z : y = pos[a] /\ z = pos[t]
        OBVIOUS
      <4>3. y \in Nat
        BY <3>2, <4>2
      <4>. QED
        BY <4>1, <4>2, <4>3
    <3>4. ASSUME a # 1 PROVE /\ ns[a].parent \in DOMAIN q
                             /\ \A b \in DOMAIN q : b < a => b <= ns[a].parent
      <4>1. ns[a].parent \in DOMAIN pos /\ \A b \in DOMAIN pos : b < a => b <= ns[a].parent
        BY <3>1, <3>4 DEF Stack
      <4>2. PICK y : y = ns[a].parent
        OBVIOUS
      <4>3. y < a /\ y \in Nat
        BY <3>1, <3>4, <4>1, <4>2, <1>3 DEF Tree
      <4>4. y # t
        BY <4>3, <3>1, <1>3
      <4>. QED
        BY <4>1, <4>2, <4>4, <1>2, <1>4
    <3>. QED
      BY <3>1, <3>2, <3>3, <3>4
  <2>5. \A u \in Pending(x, i, e) : \E a \in DOMAIN q : q[a] = u
    <3> SUFFICES ASSUME NEW u \in Pending(x, j, m), u # pos[t] PROVE \E a \in DOMAIN q : q[a] = u
      OBVIOUS
    <3>1. PICK a \in DOMAIN pos : pos[a] = u
      BY DEF Stack
    <3>. QED
      BY <3>1, <1>2
  <2>6. \A a, b \in DOMAIN q : a < b => q[a] < q[b]
    <3> SUFFICES ASSUME NEW a \in DOMAIN q, NEW b \in DOMAIN q, a < b PROVE q[a] < q[b]
      OBVIOUS
    <3>1. pos[a] < pos[b]
      BY <1>4 DEF Stack
    <3>. QED
      BY <3>1, <1>2
  <2>7. 1 \in DOMAIN q => q[1] = 1
    BY <1>2, <1>4 DEF Stack
  <2>8. DOMAIN q \subseteq DOMAIN ns
    BY <1>2, <1>3
  <2>9. Stack(x, i, e, q, ns, 1, p)
    BY <2>3, <2>4, <2>5, <2>6, <2>7, <2>8, Zenon DEF Stack
  <2>. QED
    BY <2>3, <2>9, <1>5
<1>. QED
  BY <1>6, <1>7

\* Brackets that are open were read.
LEMMA PendingRead ==
  ASSUME NEW x, Text(x), NEW j \in Nat, NEW m
  PROVE  /\ Pending(x, j, m) \subseteq 1..j /\ Pending(x, j, m) \subseteq Nat
         /\ Pending(x, j, m) \subseteq Openers(x)
<1>0. Len(x) \in Nat
  BY DEF Text
<1>1. \A o \in Openers(x) : o \in 1..Len(x) /\ Len(x) \in Nat
  BY <1>0, Brackets
<1>2. \A o \in Pending(x, j, m) : o \in Openers(x) /\ o <= j
  BY DEF Pending, UpTo
<1>3. ASSUME NEW o \in Pending(x, j, m) PROVE o \in 1..j /\ o \in Nat
  <2>1. o \in 1..Len(x) /\ Len(x) \in Nat /\ o <= j
    BY <1>1, <1>2
  <2>. QED
    BY <2>1
<1>. QED
  BY <1>2, <1>3

\* A token that is no bracket, in a container.
LEMMA ParsedOther ==
  ASSUME NEW x, Text(x), NEW j \in Nat, j + 1 \notin Openers(x), j + 1 \notin Closers(x),
         NEW m, NEW pos, NEW ns, NEW l, NEW r, NEW t, NEW k, Tree(ns, k, r),
         Parsed(x, j, m, pos, ns, r, t), t # None,
         x[j + 1].k # "bad", x[j + 1].k = ":" => ns[t].type = "object",
         DOMAIN ns \subseteq DOMAIN l,
         \A n \in DOMAIN ns : l[n].type = ns[n].type /\ l[n].parent = ns[n].parent
  PROVE  Parsed(x, j + 1, m, pos, l, r, t)
<1>1. Matches(x, j, m) /\ Forced(x, j, m) /\ Stack(x, j, m, pos, ns, r, t)
  BY DEF Parsed
<1>2. /\ Pending(x, j + 1, m) = Pending(x, j, m)
      /\ Matches(x, j + 1, m) /\ Forced(x, j + 1, m)
      /\ \A p \in 1..j : InOpen(x, j, m, p) => InOpen(x, j + 1, m, p)
      /\ \A p \in 1..j : InClosed(x, j, m, p) => InClosed(x, j + 1, m, p)
  BY <1>1, OtherStep
<1>3. Stack(x, j + 1, m, pos, l, r, t)
  BY <1>1, <1>2, StackSame
<1>4. ASSUME x[j + 1].k = ":" PROVE InOpen(x, j + 1, m, j + 1)
  <2>1. PICK u : u = pos[t]
    OBVIOUS
  <2>2. Pending(x, j, m) \subseteq Nat /\ Pending(x, j, m) \subseteq 1..j
    BY PendingRead
  <2>3. t \in DOMAIN pos /\ u \in Pending(x, j, m) /\ \A v \in Pending(x, j, m) : v <= u
    BY <2>1, <2>2, <1>1, TopLast
  <2>4. u < j + 1
    <3>1. u \in 1..j
      BY <2>2, <2>3
    <3>. QED
      BY <3>1
  <2>5. x[u].k = "{"
    <3>1. ns[t].type = KindOf(x, u)
      BY <2>1, <2>3, <1>1 DEF Stack
    <3>. QED
      BY <3>1, <1>4 DEF KindOf
  <2>6. \A d \in UpTo(Closers(x), j + 1) : ~(j + 1 < d)
    <3>1. \A d \in UpTo(Closers(x), j + 1) : d \in Nat /\ d <= j + 1
      BY Brackets DEF UpTo
    <3>. QED
      BY <3>1
  <2>. QED
    BY <2>3, <2>4, <2>5, <2>6, <1>2 DEF InOpen
<1>5. ASSUME NEW p \in 1..(j + 1)
      PROVE  x[p].k # "bad" /\ (x[p].k = ":" => InOpen(x, j + 1, m, p) \/ InClosed(x, j + 1, m, p))
  <2>1. p = j + 1 \/ p \in 1..j
    OBVIOUS
  <2>2. CASE p = j + 1
    BY <2>2, <1>4
  <2>3. CASE p \in 1..j
    <3>1. x[p].k # "bad" /\ (x[p].k = ":" => InOpen(x, j, m, p) \/ InClosed(x, j, m, p))
      BY <2>3 DEF Parsed
    <3>. QED
      BY <3>1, <2>3, <1>2
  <2>. QED
    BY <2>1, <2>2, <2>3
<1>. QED
  BY <1>2, <1>3, <1>5 DEF Parsed

\* An opening bracket: what m says of the tokens before it still holds.
LEMMA ParsedOpener ==
  ASSUME NEW x, Text(x), NEW j \in Nat, j + 1 \in Openers(x),
         NEW m, NEW pos, NEW ns, NEW r, NEW t, Parsed(x, j, m, pos, ns, r, t),
         NEW q, NEW l, NEW s, NEW f, Stack(x, j + 1, m, q, l, s, f), f # None
  PROVE  Parsed(x, j + 1, m, q, l, s, f)
<1>1. Matches(x, j, m) /\ Forced(x, j, m)
  BY DEF Parsed
<1>2. /\ Matches(x, j + 1, m) /\ Forced(x, j + 1, m)
      /\ \A p \in 1..j : InOpen(x, j, m, p) => InOpen(x, j + 1, m, p)
      /\ \A p \in 1..j : InClosed(x, j, m, p) => InClosed(x, j + 1, m, p)
  BY <1>1, OpenStep
<1>3. x[j + 1].k \in {"{", "["}
  BY Brackets
<1>4. ASSUME NEW p \in 1..(j + 1)
      PROVE  x[p].k # "bad" /\ (x[p].k = ":" => InOpen(x, j + 1, m, p) \/ InClosed(x, j + 1, m, p))
  <2>1. p = j + 1 \/ p \in 1..j
    OBVIOUS
  <2>2. CASE p = j + 1
    BY <2>2, <1>3
  <2>3. CASE p \in 1..j
    <3>1. x[p].k # "bad" /\ (x[p].k = ":" => InOpen(x, j, m, p) \/ InClosed(x, j, m, p))
      BY <2>3 DEF Parsed
    <3>. QED
      BY <3>1, <2>3, <1>2
  <2>. QED
    BY <2>1, <2>2, <2>3
<1>. QED
  BY <1>2, <1>4 DEF Parsed

\* An opening bracket in a container.
LEMMA ParsedOpen ==
  ASSUME NEW x, Text(x), NEW j \in Nat, j + 1 \in Openers(x),
         NEW m, NEW pos, NEW ns, NEW l, NEW r, NEW t, NEW k, Tree(ns, k, r), NEW f, f = k + 1,
         r \in DOMAIN ns, Parsed(x, j, m, pos, ns, r, t), t # None,
         DOMAIN l = DOMAIN ns \cup {f}, l[f].type = KindOf(x, j + 1), l[f].parent = t,
         \A n \in DOMAIN ns : l[n].type = ns[n].type /\ l[n].parent = ns[n].parent
  PROVE  \E q : Parsed(x, j + 1, m, q, l, r, f)
<1>1. Matches(x, j, m) /\ Forced(x, j, m) /\ Stack(x, j, m, pos, ns, r, t)
  BY DEF Parsed
<1>2. Pending(x, j + 1, m) = Pending(x, j, m) \cup {j + 1} /\ Pending(x, j, m) \subseteq 1..j
  BY <1>1, OpenStep, PendingRead
<1>3. f \in Nat /\ k < f /\ f # r /\ f # None
  <2>1. k \in Nat /\ r \in 1..k
    BY DEF Tree
  <2>. QED
    BY <2>1 DEF None
<1>4. PICK q : Stack(x, j + 1, m, q, l, r, f)
  BY <1>1, <1>2, <1>3, StackOpen
<1>. QED
  BY <1>3, <1>4, ParsedOpener

\* The bracket that opens the text.
LEMMA ParsedRoot ==
  ASSUME NEW x, Text(x), 1 \in Openers(x), NEW m, NEW pos, NEW ns, NEW l, NEW r, NEW k,
         Tree(ns, k, r), Parsed(x, 0, m, pos, ns, r, None),
         DOMAIN l = {1}, l[1].type = KindOf(x, 1)
  PROVE  \E q : Parsed(x, 1, m, q, l, 1, 1)
<1>1. Matches(x, 0, m) /\ Forced(x, 0, m) /\ Stack(x, 0, m, pos, ns, r, None)
  BY DEF Parsed
<1>2. PICK j : j = 0 /\ j \in Nat /\ j + 1 = 1
  OBVIOUS
<1>3. Pending(x, j + 1, m) = Pending(x, j, m) \cup {j + 1}
  BY <1>1, <1>2, OpenStep
<1>4. Pending(x, 0, m) = {}
  BY <1>1, NoneOpen
<1>5. Pending(x, 1, m) = {1}
  BY <1>2, <1>3, <1>4
<1>6. PICK q : Stack(x, 1, m, q, l, 1, 1)
  BY <1>5, StackRoot
<1>7. Parsed(x, j + 1, m, q, l, 1, 1)
  BY <1>2, <1>6, ParsedOpener DEF None
<1>. QED
  BY <1>2, <1>7

\* A closing bracket of the right kind.
LEMMA ParsedClose ==
  ASSUME NEW x, Text(x), NEW j \in Nat, j + 1 \in Closers(x),
         NEW m, NEW pos, NEW ns, NEW t, NEW k, Tree(ns, k, 1), 1 \in DOMAIN ns,
         Parsed(x, j, m, pos, ns, 1, t), t # None,
         ns[t].type = KindClosed(x, j + 1)
  PROVE  \E e, q : Parsed(x, j + 1, e, q, ns, 1, ns[t].parent)
<1>1. Matches(x, j, m) /\ Forced(x, j, m) /\ Stack(x, j, m, pos, ns, 1, t)
  BY DEF Parsed
<1>2. PICK u : u = pos[t]
  OBVIOUS
<1>3. Pending(x, j, m) \subseteq Nat /\ Pending(x, j, m) \subseteq Openers(x)
  BY PendingRead
<1>4. t \in DOMAIN pos /\ u \in Pending(x, j, m) /\ \A v \in Pending(x, j, m) : v <= u
  BY <1>1, <1>2, <1>3, TopLast
<1>5. Pair(x, u, j + 1)
  <2>1. ns[t].type = KindOf(x, u)
    BY <1>1, <1>2, <1>4 DEF Stack
  <2>. QED
    BY <2>1 DEF KindOf, KindClosed, Pair
<1>6. PICK e : e = [c \in UpTo(Closers(x), j + 1) |-> IF c = j + 1 THEN u ELSE m[c]]
  OBVIOUS
<1>7. /\ Pending(x, j + 1, e) = Pending(x, j, m) \ {u}
      /\ Matches(x, j + 1, e) /\ Forced(x, j + 1, e)
      /\ \A p \in 1..j : x[p].k = ":" =>
            (InOpen(x, j, m, p) \/ InClosed(x, j, m, p)
                => InOpen(x, j + 1, e, p) \/ InClosed(x, j + 1, e, p))
  BY <1>1, <1>4, <1>5, <1>6, CloseStep
<1>8. /\ \E q : Stack(x, j + 1, e, q, ns, 1, ns[t].parent)
      /\ ns[t].parent = None => u = 1
  BY <1>1, <1>2, <1>3, <1>7, StackClose
<1>9. PICK q : Stack(x, j + 1, e, q, ns, 1, ns[t].parent)
  BY <1>8
<1>10. x[j + 1].k \in {"}", "]"}
  BY Brackets
<1>11. ASSUME NEW p \in 1..(j + 1)
       PROVE  x[p].k # "bad" /\ (x[p].k = ":" => InOpen(x, j + 1, e, p) \/ InClosed(x, j + 1, e, p))
  <2>1. p = j + 1 \/ p \in 1..j
    OBVIOUS
  <2>2. CASE p = j + 1
    BY <2>2, <1>10
  <2>3. CASE p \in 1..j
    <3>1. x[p].k # "bad" /\ (x[p].k = ":" => InOpen(x, j, m, p) \/ InClosed(x, j, m, p))
      BY <2>3 DEF Parsed
    <3>. QED
      BY <3>1, <2>3, <1>7
  <2>. QED
    BY <2>1, <2>2, <2>3
<1>12. e[j + 1] = u
  <2>1. j + 1 \in UpTo(Closers(x), j + 1)
    BY DEF UpTo
  <2>. QED
    BY <2>1, <1>6
<1>13. Parsed(x, j + 1, e, q, ns, 1, ns[t].parent)
  BY <1>7, <1>8, <1>9, <1>11, <1>12 DEF Parsed
<1>. QED
  BY <1>13

\* A nesting that a text to accept has.
Witness(x, n) ==
    /\ n \in Full(x) /\ Len(x) \in Closers(x) /\ n[Len(x)] = 1
    /\ \A i \in DOMAIN x : x[i].k # "bad"
    /\ \A p \in DOMAIN x : x[p].k = ":" =>
          \E c \in Closers(x) :
             /\ n[c] < p /\ p < c /\ x[c].k = "}"
             /\ \A d \in Closers(x) : n[d] < p /\ p < d => n[d] <= n[c]

\* A text is accepted if it is empty or has such a nesting, which closes
\* every bracket since there are as many of each kind.
LEMMA AcceptFull ==
  ASSUME NEW x, Text(x)
  PROVE  Acceptable(x) <=> (x = << >> \/ \E n : Witness(x, n))
<1>1. ASSUME NEW n \in Nestings(x)
      PROVE  Cardinality(Openers(x)) = Cardinality(Closers(x)) <=> n \in Full(x)
  <2>1. n \in [Closers(x) -> Openers(x)] /\ \A c, d \in Closers(x) : c < d => n[c] # n[d]
    BY DEF Nestings
  <2>2. Cardinality(Openers(x)) = Cardinality(Closers(x))
            <=> \A o \in Openers(x) : \E c \in Closers(x) : n[c] = o
    BY <2>1, EveryBracket
  <2>. QED
    BY <2>2 DEF Full
<1>2. \A n \in Full(x) : n \in Nestings(x)
  BY DEF Full
<1>3. ASSUME Acceptable(x), x # << >> PROVE \E n : Witness(x, n)
  <2>1. PICK n \in Nestings(x) :
          /\ Len(x) \in Closers(x) /\ n[Len(x)] = 1
          /\ \A p \in DOMAIN x : x[p].k = ":" =>
                \E c \in Closers(x) :
                   /\ n[c] < p /\ p < c /\ x[c].k = "}"
                   /\ \A d \in Closers(x) : n[d] < p /\ p < d => n[d] <= n[c]
    BY <1>3, Zenon DEF Acceptable
  <2>2. n \in Full(x) /\ \A i \in DOMAIN x : x[i].k # "bad"
    BY <1>1, <1>3, Zenon DEF Acceptable
  <2>3. Witness(x, n)
    BY <2>1, <2>2, Zenon DEF Witness
  <2>. QED
    BY <2>3
<1>4. ASSUME NEW n, Witness(x, n) PROVE Acceptable(x)
  <2>1. n \in Nestings(x) /\ Cardinality(Openers(x)) = Cardinality(Closers(x))
    BY <1>1, <1>2, <1>4 DEF Witness
  <2>. QED
    BY <2>1, <1>4, Zenon DEF Acceptable, Witness
<1>5. x = << >> => Acceptable(x)
  BY Zenon DEF Acceptable
<1>. QED
  BY <1>3, <1>4, <1>5

\* What a nesting of the whole text is.
LEMMA FullIs ==
  ASSUME NEW x, Text(x), NEW n \in Full(x)
  PROVE  /\ n \in [Closers(x) -> Openers(x)]
         /\ \A c \in Closers(x) : n[c] < c /\ Pair(x, n[c], c)
         /\ \A c, d \in Closers(x) : c < d => n[c] # n[d] /\ ~(n[c] < n[d] /\ n[d] < c)
         /\ \A o \in Openers(x) : \E c \in Closers(x) : n[c] = o
  BY DEF Full, Nestings, Pair

\* The parser does not stop at a closing bracket of an acceptable text.
LEMMA ClosesRight ==
  ASSUME NEW x, Text(x), NEW j \in Nat, j + 1 \in Closers(x),
         NEW m, NEW pos, NEW ns, NEW r, NEW t, NEW k, Tree(ns, k, r),
         Parsed(x, j, m, pos, ns, r, t), NEW n \in Full(x)
  PROVE  t # None /\ ns[t].type = KindClosed(x, j + 1)
<1>1. Matches(x, j, m) /\ Forced(x, j, m) /\ Stack(x, j, m, pos, ns, r, t)
  BY DEF Parsed
<1>2. PICK o : o = n[j + 1]
  OBVIOUS
<1>3. o \in Pending(x, j, m) /\ \A u \in Pending(x, j, m) : u <= o
  BY <1>1, <1>2, LastOpen
<1>4. t # None
  BY <1>1, <1>3, NoneOpen
<1>5. PICK u : u = pos[t]
  OBVIOUS
<1>6. Pending(x, j, m) \subseteq Nat
  BY PendingRead
<1>7. t \in DOMAIN pos /\ u \in Pending(x, j, m) /\ \A v \in Pending(x, j, m) : v <= u
  BY <1>1, <1>4, <1>5, <1>6, TopLast
<1>8. u = o
  <2>1. u \in Nat /\ o \in Nat /\ u <= o /\ o <= u
    BY <1>3, <1>6, <1>7
  <2>. QED
    BY <2>1
<1>9. ns[t].type = KindOf(x, u)
  BY <1>1, <1>5, <1>7 DEF Stack
<1>10. Pair(x, n[j + 1], j + 1)
  BY FullIs
<1>11. KindOf(x, o) = KindClosed(x, j + 1)
  BY <1>10, <1>2, Zenon DEF KindOf, KindClosed, Pair
<1>. QED
  BY <1>4, <1>8, <1>9, <1>11

\* Nor at a ":".
LEMMA ColonRight ==
  ASSUME NEW x, Text(x), NEW j \in Nat, j + 1 \in DOMAIN x, x[j + 1].k = ":",
         NEW m, NEW pos, NEW ns, NEW r, NEW t, NEW k, Tree(ns, k, r),
         Parsed(x, j, m, pos, ns, r, t), t # None, NEW n, Witness(x, n)
  PROVE  ns[t].type = "object"
<1>1. Matches(x, j, m) /\ Forced(x, j, m) /\ Stack(x, j, m, pos, ns, r, t) /\ n \in Full(x)
  BY DEF Parsed, Witness
<1>2. /\ n \in [Closers(x) -> Openers(x)]
      /\ \A c \in Closers(x) : n[c] < c /\ Pair(x, n[c], c)
      /\ \A c, d \in Closers(x) : c < d => n[c] # n[d] /\ ~(n[c] < n[d] /\ n[d] < c)
      /\ \A o \in Openers(x) : \E c \in Closers(x) : n[c] = o
  BY <1>1, FullIs
<1>3. PICK c \in Closers(x) :
        /\ n[c] < j + 1 /\ j + 1 < c /\ x[c].k = "}"
        /\ \A d \in Closers(x) : n[d] < j + 1 /\ j + 1 < d => n[d] <= n[c]
  BY DEF Witness
<1>4. Openers(x) \subseteq Nat /\ Closers(x) \subseteq Nat /\ j + 1 \notin Closers(x)
  BY Brackets DEF Closers
<1>5. \A d \in Closers(x) : d <= j => n[d] = m[d]
  BY <1>1 DEF Forced, UpTo
<1>6. PICK o : o = n[c]
  OBVIOUS
<1>7. o \in Openers(x) /\ o \in Nat /\ o < j + 1 /\ j + 1 < c /\ c \in Nat
  BY <1>2, <1>3, <1>4, <1>6
<1>8. o \in Pending(x, j, m)
  <2>1. o <= j
    BY <1>7
  <2>2. ASSUME NEW d \in Closers(x), d <= j PROVE m[d] # o
    <3>1. d < c
      BY <2>2, <1>4, <1>7
    <3>. QED
      BY <3>1, <2>2, <1>2, <1>5, <1>6
  <2>. QED
    BY <2>1, <2>2, <1>7 DEF Pending, UpTo
<1>9. PICK u : u = pos[t]
  OBVIOUS
<1>10. Pending(x, j, m) \subseteq 1..j /\ Pending(x, j, m) \subseteq Nat /\ Pending(x, j, m) \subseteq Openers(x)
  BY PendingRead
<1>11. t \in DOMAIN pos /\ u \in Pending(x, j, m) /\ \A v \in Pending(x, j, m) : v <= u
  BY <1>1, <1>9, <1>10, TopLast
<1>12. u <= o
  <2>1. PICK d \in Closers(x) : n[d] = u
    BY <1>2, <1>10, <1>11
  <2>2. d \in Nat /\ d # j + 1 /\ u \in 1..j
    BY <1>4, <1>10, <1>11
  <2>3. ~(d <= j)
    <3>1. \A b \in Closers(x) : b <= j => m[b] # u
      BY <1>11 DEF Pending, UpTo
    <3>. QED
      BY <3>1, <2>1, <1>5
  <2>4. j + 1 < d /\ u < j + 1
    BY <2>2, <2>3
  <2>. QED
    BY <2>1, <2>4, <1>3, <1>6
<1>13. u = o
  <2>1. o <= u /\ u \in Nat
    BY <1>8, <1>10, <1>11
  <2>. QED
    BY <2>1, <1>7, <1>12
<1>14. x[o].k = "{"
  BY <1>2, <1>3, <1>6 DEF Pair
<1>15. ns[t].type = KindOf(x, u)
  BY <1>1, <1>9, <1>11 DEF Stack
<1>. QED
  BY <1>13, <1>14, <1>15 DEF KindOf

\* An acceptable text opens with a bracket that its last one closes.
LEMMA TopRight ==
  ASSUME NEW x, Text(x), NEW j \in Nat, j < Len(x), NEW m, NEW pos, NEW ns, NEW r, NEW t,
         Parsed(x, j, m, pos, ns, r, t), t = None, NEW n, Witness(x, n)
  PROVE  r = None /\ 1 \in Openers(x)
<1>1. Len(x) \in Closers(x) /\ n[Len(x)] = 1 /\ n \in Full(x) /\ Forced(x, j, m)
  BY DEF Witness, Parsed
<1>2. /\ n \in [Closers(x) -> Openers(x)]
      /\ \A c, d \in Closers(x) : c < d => n[c] # n[d]
  BY <1>1, FullIs
<1>3. ASSUME r # None PROVE FALSE
  <2>1. j \in Closers(x) /\ m[j] = 1
    BY <1>3 DEF Parsed
  <2>2. n[j] = m[j]
    <3>1. j \in UpTo(Closers(x), j)
      BY <2>1 DEF UpTo
    <3>. QED
      BY <3>1, <1>1 DEF Forced
  <2>. QED
    BY <2>1, <2>2, <1>1, <1>2
<1>. QED
  BY <1>1, <1>2, <1>3

\* All brackets are closed at the end of an acceptable text.
LEMMA EndRight ==
  ASSUME NEW x, Text(x), NEW j \in Nat, j = Len(x), NEW m, NEW pos, NEW ns, NEW r, NEW t,
         NEW k, Tree(ns, k, r), Parsed(x, j, m, pos, ns, r, t), NEW n \in Full(x)
  PROVE  t = None
<1>1. Forced(x, j, m) /\ Stack(x, j, m, pos, ns, r, t)
  BY DEF Parsed
<1>2. \A c \in Closers(x) : c <= j
  <2>1. Closers(x) \subseteq 1..j
    BY Brackets
  <2>. QED
    BY <2>1
<1>3. ASSUME NEW u \in Pending(x, j, m) PROVE FALSE
  <2>1. u \in Openers(x) /\ \A c \in Closers(x) : m[c] # u
    BY <1>2 DEF Pending, UpTo
  <2>2. PICK c \in Closers(x) : n[c] = u
    BY <2>1, FullIs
  <2>3. n[c] = m[c]
    BY <1>1, <1>2 DEF Forced, UpTo
  <2>. QED
    BY <2>1, <2>2, <2>3
<1>. QED
  BY <1>1, <1>3, NoneOpen

\* A text that is parsed to its end with nothing open is acceptable.
LEMMA EndAccepts ==
  ASSUME NEW x, Text(x), NEW j \in Nat, j = Len(x), NEW m, NEW pos, NEW ns, NEW r, NEW t,
         NEW k, Tree(ns, k, r), Parsed(x, j, m, pos, ns, r, t), t = None, r = None => j = 0
  PROVE  Acceptable(x)
<1>1. CASE r = None
  <2>1. x = << >>
    BY <1>1 DEF Text
  <2>. QED
    BY <2>1, AcceptFull
<1>2. CASE r # None
  <2>1. j \in Closers(x) /\ m[j] = 1 /\ Matches(x, j, m) /\ Stack(x, j, m, pos, ns, r, t)
    BY <1>2 DEF Parsed
  <2>2. Pending(x, j, m) = {}
    BY <2>1, NoneOpen
  <2>3. UpTo(Closers(x), j) = Closers(x) /\ UpTo(Openers(x), j) = Openers(x)
    <3>1. (\A c \in Closers(x) : c <= j) /\ \A o \in Openers(x) : o <= j
      <4>1. Closers(x) \subseteq 1..j /\ Openers(x) \subseteq 1..j
        BY Brackets
      <4>. QED
        BY <4>1
    <3>. QED
      BY <3>1 DEF UpTo
  <2>4. m \in Nestings(x)
    <3>1. /\ m \in [Closers(x) -> Openers(x)]
          /\ \A c \in Closers(x) : m[c] < c /\ Pair(x, m[c], c)
          /\ \A c, d \in Closers(x) : c < d => m[c] # m[d] /\ ~(m[c] < m[d] /\ m[d] < c)
      BY <2>1, <2>3, Zenon DEF Matches
    <3>. QED
      BY <3>1, Zenon DEF Nestings, Pair
  <2>5. m \in Full(x)
    <3>1. \A o \in Openers(x) : \E c \in Closers(x) : m[c] = o
      BY <2>2, <2>3 DEF Pending
    <3>. QED
      BY <3>1, <2>4 DEF Full
  <2>6. ASSUME NEW p \in DOMAIN x
        PROVE  /\ x[p].k # "bad"
               /\ x[p].k = ":" =>
                    \E c \in Closers(x) :
                       /\ m[c] < p /\ p < c /\ x[c].k = "}"
                       /\ \A d \in Closers(x) : m[d] < p /\ p < d => m[d] <= m[c]
    <3>1. p \in 1..j
      BY DEF Text
    <3>2. x[p].k # "bad" /\ (x[p].k = ":" => InOpen(x, j, m, p) \/ InClosed(x, j, m, p))
      BY <3>1 DEF Parsed
    <3>3. ~InOpen(x, j, m, p)
      BY <2>2 DEF InOpen
    <3>. QED
      BY <3>2, <3>3, <2>3, Zenon DEF InClosed
  <2>7. Witness(x, m)
    BY <2>1, <2>5, <2>6, Zenon DEF Witness
  <2>. QED
    BY <2>7, AcceptFull
<1>. QED
  BY <1>1, <1>2

\* While a text is parsed its tokens so far have the nesting that the open
\* containers show.
PInv ==
    pc = "parse" =>
        /\ at \in 0..Len(input)
        /\ root = None => at = 0 /\ made = 0
        /\ root # None => root = 1
        /\ \E m, pos : Parsed(input, at, m, pos, node, root, top)

\* The inductive invariant of the parser's verdict.
AInv == source \in Sources /\ PInv /\ AcceptsBalanced

\* The number of tokens read stays in its bounds.
LEMMA OneMore ==
  ASSUME NEW j \in Nat, NEW k \in Nat, j < k
  PROVE  j + 1 \in 0..k
  OBVIOUS

\* What the parser meets is a text.
LEMMA InputText == source \in Sources => Text(input)
<1> SUFFICES ASSUME source \in Sources PROVE Text(input)
  OBVIOUS
<1>1. PICK x : x = source.text
  OBVIOUS
<1>2. PICK T : x \in Seq(T)
  BY <1>1, JsonAssumption
<1>3. PICK U : U = T \cup {Mark("more")}
  OBVIOUS
<1>4. DOMAIN x = 1..Len(x) /\ Len(x) \in Nat /\ \A p \in 1..Len(x) : x[p] \in T
  BY <1>2
<1>5. Mark("more") \in U /\ \A p \in 1..Len(x) : x[p] \in U
  BY <1>3, <1>4
<1>6. input = [p \in 1..Len(x) |-> IF Taken(p) THEN Mark("more") ELSE x[p]]
  BY <1>1, <1>4 DEF input
<1>7. input \in [1..Len(x) -> U]
  BY <1>5, <1>6, Zenon
<1>8. input \in Seq(U)
  BY <1>4, <1>7
<1>. QED
  BY <1>8, Zenon DEF Text

\* What is known when a token is read.
LEMMA ParsingState ==
  ASSUME JInv, AInv, pc = "parse"
  PROVE  /\ Text(input) /\ at \in Nat /\ at <= Len(input) /\ Len(input) \in Nat
         /\ Tree(node, made, root)
         /\ root = None => at = 0 /\ made = 0
         /\ root # None => root = 1 /\ root \in DOMAIN node
         /\ top # None => top \in DOMAIN node /\ root # None /\ ~ Dangling(top)
         /\ \E m, pos : Parsed(input, at, m, pos, node, root, top)
<1>1. Text(input)
  BY InputText DEF AInv
<1>2. Len(input) \in Nat
  BY <1>1 DEF Text
<1>3. at \in Nat /\ at <= Len(input)
  BY <1>2 DEF AInv, PInv
<1>4. /\ root = None => at = 0 /\ made = 0
      /\ root # None => root = 1
      /\ \E m, pos : Parsed(input, at, m, pos, node, root, top)
  BY DEF AInv, PInv
<1>5. Tree(node, made, root) /\ (root # None => root \in DOMAIN node)
  BY DEF JInv, Good
<1>6. edits = 0 /\ \A c \in DOMAIN node : Dangling(c) => edits > 0
  BY DEF JInv
<1>7. top # None => top \in DOMAIN node /\ root # None
  BY DEF JInv
<1>. QED
  BY <1>1, <1>2, <1>3, <1>4, <1>5, <1>6, <1>7

\* A step that goes on with the next token keeps the invariant.
LEMMA Moved ==
  ASSUME NEW x, NEW j, NEW m, NEW pos, NEW l, NEW r, NEW t, source \in Sources,
         source' = source, x = input, pc' = "parse", at' = j, node' = l, root' = r, top' = t,
         j \in 0..Len(x), r = None => j = 0 /\ made' = 0, r # None => r = 1,
         Parsed(x, j, m, pos, l, r, t)
  PROVE  AInv'
<1>1. input' = x
  BY DEF input, Taken
<1>2. Parsed(input', at', m, pos, node', root', top')
  BY <1>1
<1>3. PInv'
  BY <1>1, <1>2 DEF PInv
<1>4. AcceptsBalanced'
  BY DEF AcceptsBalanced
<1>. QED
  BY <1>3, <1>4 DEF AInv

\* Giving up a text is right when it is not acceptable.
LEMMA GivesUp ==
  ASSUME AInv, Reject, ~ Acceptable(input)
  PROVE  AInv'
<1>1. pc' \in {"error", "undefined"} /\ source' = source
  BY DEF Reject
<1>2. input' = input
  BY <1>1 DEF input, Taken
<1>3. ~ Acceptable(input')
  BY <1>2
<1>4. AcceptsBalanced'
  BY <1>1, <1>3 DEF AcceptsBalanced
<1>. QED
  BY <1>1, <1>4 DEF AInv, PInv

\* A token outside the text's brackets.
LEMMA OutsideRejected ==
  ASSUME JInv, AInv, pc = "parse", at < Len(input), top = None,
         root # None \/ at + 1 \notin Openers(input)
  PROVE  ~ Acceptable(input)
<1>1. PICK x : x = input
  OBVIOUS
<1>2. PICK j : j = at
  OBVIOUS
<1>3. Text(x) /\ j \in Nat /\ j < Len(x) /\ Len(x) \in Nat /\ (root = None => j = 0)
  BY <1>1, <1>2, ParsingState
<1>4. PICK m, pos : Parsed(x, j, m, pos, node, root, top)
  BY <1>1, <1>2, ParsingState
<1>5. ASSUME NEW n, Witness(x, n) PROVE FALSE
  <2>1. root = None /\ 1 \in Openers(x)
    BY <1>3, <1>4, <1>5, TopRight
  <2>. QED
    BY <2>1, <1>1, <1>2, <1>3
<1>6. x # << >>
  BY <1>3
<1>7. ~ Acceptable(x)
  BY <1>3, <1>5, <1>6, AcceptFull
<1>. QED
  BY <1>1, <1>7

\* Which token is read.
LEMMA ReadingToken ==
  ASSUME JInv, AInv, NEW ks, Reading(ks)
  PROVE  /\ pc = "parse" /\ at < Len(input) /\ tok.k \in ks /\ at + 1 \in DOMAIN input
         /\ at + 1 \in Openers(input) <=> tok.k \in {"{", "["}
         /\ at + 1 \in Closers(input) <=> tok.k \in {"}", "]"}
<1>1. pc = "parse" /\ at < Len(input) /\ tok.k \in ks
  BY DEF Reading
<1>2. Text(input) /\ at \in Nat /\ Len(input) \in Nat
  BY <1>1, ParsingState
<1>3. at + 1 \in 1..Len(input)
  BY <1>1, <1>2
<1>4. DOMAIN input = 1..Len(input)
  BY <1>2 DEF Text
<1>5. at + 1 \in DOMAIN input
  BY <1>3, <1>4
<1>. QED
  BY <1>1, <1>5 DEF tok, Openers, Closers

\* '{' and '['
LEMMA OpenVerdict ==
  ASSUME JInv, AInv, Open
  PROVE  AInv'
<1>0. Reading({"{", "["})
  BY DEF Open
<1>1. pc = "parse" /\ at < Len(input) /\ at + 1 \in Openers(input)
  BY <1>0, ReadingToken
<1>2. PICK x : x = input
  OBVIOUS
<1>3. PICK j : j = at
  OBVIOUS
<1>4. /\ Text(x) /\ j \in Nat /\ j < Len(x) /\ Len(x) \in Nat /\ j + 1 \in Openers(x)
      /\ Tree(node, made, root)
      /\ root = None => j = 0 /\ made = 0
      /\ root # None => root = 1 /\ root \in DOMAIN node
      /\ top # None => top \in DOMAIN node /\ root # None /\ ~ Dangling(top)
  BY <1>1, <1>2, <1>3, ParsingState
<1>5. PICK m, pos : Parsed(x, j, m, pos, node, root, top)
  BY <1>1, <1>2, <1>3, ParsingState
<1>6. j + 1 \in 0..Len(x)
  BY <1>4
<1>7. PICK type : type = KindOf(x, j + 1)
  OBVIOUS
<1>8. type = IF tok.k = "{" THEN "object" ELSE "array"
  BY <1>2, <1>3, <1>7 DEF KindOf, tok
<1>9. PICK l : l = node'
  OBVIOUS
<1>10. source \in Sources
  BY DEF AInv
<1>11. CASE top # None /\ Add(type, "") /\ top' = Fresh /\ Advance /\ UNCHANGED root
  <2>0. PICK c, nm, value : c = top /\ nm = name /\ value = ""
    OBVIOUS
  <2>1. l = Append1(With(Fresh, NewNode(type, nm, value)), c, Fresh)
    BY <2>0, <1>9, <1>11 DEF Add
  <2>2. /\ DOMAIN l = DOMAIN node \cup {Fresh} /\ l[Fresh].type = type /\ l[Fresh].parent = top
        /\ \A n \in DOMAIN node : l[n].type = node[n].type /\ l[n].parent = node[n].parent
    <3>1. Good(node, made, root)
      BY DEF JInv
    <3>2. c \in DOMAIN node /\ ~ Dangling(c)
      BY <2>0, <1>4, <1>11
    <3>3. Kept(node, l) /\ NewIn(node, l, Fresh, c, type)
      BY <2>1, <3>1, <3>2, AppendPlaces
    <3>. QED
      BY <2>0, <3>3 DEF Kept, NewIn
  <2>3. PICK f : f = Fresh
    OBVIOUS
  <2>4. f = made + 1
    BY <2>3 DEF Fresh
  <2>5. PICK q : Parsed(x, j + 1, m, q, l, root, f)
    <3>1. /\ DOMAIN l = DOMAIN node \cup {f} /\ l[f].type = KindOf(x, j + 1) /\ l[f].parent = top
          /\ \A n \in DOMAIN node : l[n].type = node[n].type /\ l[n].parent = node[n].parent
      BY <2>2, <2>3, <1>7
    <3>2. top # None /\ root \in DOMAIN node /\ Tree(node, made, root) /\ Text(x) /\ j \in Nat
          /\ j + 1 \in Openers(x)
      BY <1>4, <1>11
    <3>. QED
      BY <3>1, <3>2, <2>4, <1>5, ParsedOpen
  <2>6. source' = source /\ at' = j + 1 /\ pc' = "parse" /\ root' = root /\ top' = f
    BY <2>3, <1>1, <1>3, <1>11 DEF Advance
  <2>7. root # None /\ root = 1
    BY <1>4, <1>11
  <2>. QED
    BY <2>5, <2>6, <2>7, <1>2, <1>6, <1>9, <1>10, Moved
<1>12. CASE /\ top = None /\ root = None
            /\ node' = With(Fresh, NewNode(type, name, "")) /\ made' = Fresh
            /\ root' = Fresh /\ top' = Fresh /\ Advance
  <2>a. j = 0 /\ made = 0 /\ root = None /\ top = None
    BY <1>4, <1>12
  <2>b. Fresh = 1
    BY <2>a DEF Fresh
  <2>c. DOMAIN node = {}
    BY <2>a DEF JInv
  <2>1. j = 0 /\ made = 0 /\ Fresh = 1 /\ DOMAIN node = {}
    BY <2>a, <2>b, <2>c
  <2>2. DOMAIN l = {1} /\ l[1] = NewNode(type, name, "")
    BY <2>1, <1>9, <1>12 DEF With
  <2>3. l[1].type = type
    <3>1. PICK q : q = NewNode(type, name, "")
      OBVIOUS
    <3>2. q.type = type
      BY <3>1 DEF NewNode
    <3>. QED
      BY <2>2, <3>1, <3>2
  <2>4. PICK q : Parsed(x, 1, m, q, l, 1, 1)
    <3>1. j + 1 = 1 /\ 1 \in Openers(x) /\ type = KindOf(x, 1)
      BY <2>1, <1>4, <1>7
    <3>2. Parsed(x, 0, m, pos, node, root, None)
      BY <2>a, <1>5
    <3>3. Text(x) /\ Tree(node, made, root)
      BY <1>4
    <3>. QED
      BY <2>2, <2>3, <3>1, <3>2, <3>3, ParsedRoot
  <2>5. source' = source /\ at' = 1 /\ pc' = "parse" /\ root' = 1 /\ top' = 1
    <3>1. at + 1 = 1
      BY <2>1, <1>3
    <3>. QED
      BY <3>1, <2>1, <1>1, <1>12 DEF Advance
  <2>6. 1 \in 0..Len(x) /\ 1 # None
    BY <2>1, <1>6 DEF None
  <2>. QED
    BY <2>4, <2>5, <2>6, <1>2, <1>9, <1>10, Moved
<1>13. CASE top = None /\ root # None /\ Reject
  BY <1>1, <1>13, OutsideRejected, GivesUp
<1>. QED
  BY <1>8, <1>11, <1>12, <1>13 DEF Open

\* '}' and ']'
LEMMA CloseVerdict ==
  ASSUME JInv, AInv, Close
  PROVE  AInv'
<1>0. Reading({"}", "]"})
  BY DEF Close
<1>1. pc = "parse" /\ at < Len(input) /\ at + 1 \in Closers(input)
  BY <1>0, ReadingToken
<1>2. PICK x : x = input
  OBVIOUS
<1>3. PICK j : j = at
  OBVIOUS
<1>4. /\ Text(x) /\ j \in Nat /\ j < Len(x) /\ Len(x) \in Nat /\ j + 1 \in Closers(x)
      /\ Tree(node, made, root)
      /\ root # None => root = 1 /\ root \in DOMAIN node
      /\ top # None => top \in DOMAIN node /\ root # None
  BY <1>1, <1>2, <1>3, ParsingState
<1>5. PICK m, pos : Parsed(x, j, m, pos, node, root, top)
  BY <1>1, <1>2, <1>3, ParsingState
<1>6. j + 1 \in 0..Len(x) /\ j + 1 # 0
  BY <1>4
<1>7. Closes <=> (top # None /\ node[top].type = KindClosed(x, j + 1))
  BY <1>2, <1>3 DEF Closes, KindClosed, tok
<1>8. CASE Closes /\ top' = node[top].parent /\ Advance /\ UNCHANGED <<name, root, node, made>>
  <2>1. root = 1 /\ root # None /\ 1 \in DOMAIN node /\ Tree(node, made, 1)
    BY <1>4, <1>7, <1>8
  <2>2. PICK t : t = node[top].parent
    OBVIOUS
  <2>3. PICK e, q : Parsed(x, j + 1, e, q, node, 1, t)
    <3>1. Parsed(x, j, m, pos, node, 1, top)
      BY <2>1, <1>5
    <3>2. top # None /\ node[top].type = KindClosed(x, j + 1)
      BY <1>7, <1>8
    <3>. QED
      BY <2>1, <2>2, <3>1, <3>2, <1>4, ParsedClose
  <2>4. /\ source' = source /\ at' = j + 1 /\ pc' = "parse" /\ root' = 1 /\ top' = t
        /\ node' = node
    BY <2>1, <2>2, <1>1, <1>3, <1>8 DEF Advance
  <2>5. source \in Sources /\ 1 # None
    BY <2>1 DEF AInv
  <2>. QED
    BY <2>3, <2>4, <2>5, <1>2, <1>6, Moved
<1>9. CASE ~ Closes /\ Reject
  <2>1. ASSUME NEW n, Witness(x, n) PROVE FALSE
    <3>1. n \in Full(x)
      BY <2>1 DEF Witness
    <3>2. top # None /\ node[top].type = KindClosed(x, j + 1)
      BY <3>1, <1>4, <1>5, ClosesRight
    <3>. QED
      BY <3>2, <1>7, <1>9
  <2>2. x # << >>
    BY <1>4
  <2>3. ~ Acceptable(x)
    BY <2>1, <2>2, <1>4, AcceptFull
  <2>. QED
    BY <2>3, <1>2, <1>9, GivesUp
<1>. QED
  BY <1>8, <1>9 DEF Close

\* A token that is no bracket and stands in a container where it may.
LEMMA OtherVerdict ==
  ASSUME JInv, AInv, NEW ks, Reading(ks),
         tok.k \notin {"{", "[", "}", "]", "bad"}, tok.k = ":" => node[top].type = "object",
         top # None, Advance, root' = root, top' = top,
         Kept(node, node')
  PROVE  AInv'
<1>1. /\ pc = "parse" /\ at < Len(input) /\ at + 1 \notin Openers(input)
      /\ at + 1 \notin Closers(input)
  BY ReadingToken
<1>2. PICK x : x = input
  OBVIOUS
<1>3. PICK j : j = at
  OBVIOUS
<1>n. j \in Nat /\ j < Len(x) /\ Len(x) \in Nat
  BY <1>1, <1>2, <1>3, ParsingState
<1>4. /\ Text(x) /\ j + 1 \notin Openers(x) /\ j + 1 \notin Closers(x)
      /\ Tree(node, made, root) /\ root = 1 /\ root # None
  BY <1>1, <1>2, <1>3, ParsingState
<1>5. PICK m, pos : Parsed(x, j, m, pos, node, root, top)
  BY <1>1, <1>2, <1>3, ParsingState
<1>6. j + 1 \in 0..Len(x)
  BY <1>n, OneMore
<1>7. x[j + 1].k # "bad" /\ (x[j + 1].k = ":" => node[top].type = "object")
  BY <1>2, <1>3 DEF tok
<1>8. PICK l : l = node'
  OBVIOUS
<1>9. Parsed(x, j + 1, m, pos, l, root, top)
  <2>1. Kept(node, l)
    BY <1>8
  <2>2. /\ DOMAIN node \subseteq DOMAIN l
        /\ \A n \in DOMAIN node : l[n].type = node[n].type /\ l[n].parent = node[n].parent
    BY <2>1 DEF Kept
  <2>. QED
    BY <2>2, <1>n, <1>4, <1>5, <1>7, ParsedOther
<1>10. source' = source /\ at' = j + 1 /\ pc' = "parse" /\ source \in Sources
  BY <1>1, <1>3 DEF Advance, AInv
<1>. QED
  BY <1>2, <1>4, <1>6, <1>8, <1>9, <1>10, Moved

\* A value that is put in top.
LEMMA AddVerdict ==
  ASSUME JInv, AInv, NEW ks, Reading(ks), tok.k \notin {"{", "[", "}", "]", ":", "bad"},
         top # None, NEW type, NEW value, Add(type, value), Advance, root' = root, top' = top
  PROVE  AInv'
<1>1. Good(node, made, root) /\ top \in DOMAIN node /\ ~ Dangling(top)
  <2>1. pc = "parse"
    BY DEF Reading
  <2>. QED
    BY <2>1, ParsingState DEF JInv
<1>2. PICK l : l = node'
  OBVIOUS
<1>3. PICK c, nm : c = top /\ nm = name
  OBVIOUS
<1>4. l = Append1(With(Fresh, NewNode(type, nm, value)), c, Fresh)
  BY <1>2, <1>3 DEF Add
<1>5. c \in DOMAIN node /\ ~ Dangling(c)
  BY <1>1, <1>3
<1>6. Kept(node, l)
  BY <1>1, <1>4, <1>5, AppendPlaces
<1>. QED
  BY <1>2, <1>6, OtherVerdict

\* ':' and ','
LEMMA PunctuationVerdict ==
  ASSUME JInv, AInv, Punctuation
  PROVE  AInv'
<1> DEFINE fits == top # None /\ (tok.k = ":" => node[top].type = "object")
<1>0. Reading({":", ","})
  BY DEF Punctuation
<1>1. /\ pc = "parse" /\ at < Len(input) /\ tok.k \in {":", ","} /\ at + 1 \in DOMAIN input
      /\ at + 1 \notin Openers(input)
  BY <1>0, ReadingToken
<1>2. CASE fits /\ Advance /\ UNCHANGED <<name, root, top, node, made>>
  <2>1. Kept(node, node')
    BY <1>2 DEF Kept
  <2>. QED
    BY <2>1, <1>0, <1>1, <1>2, OtherVerdict
<1>3. CASE top = None /\ Reject
  BY <1>1, <1>3, OutsideRejected, GivesUp
<1>4. CASE top # None /\ ~ fits /\ Reject
  <2>1. PICK x : x = input
    OBVIOUS
  <2>2. PICK j : j = at
    OBVIOUS
  <2>3. /\ Text(x) /\ j \in Nat /\ Tree(node, made, root) /\ j + 1 \in DOMAIN x
        /\ x[j + 1].k = ":"
    BY <2>1, <2>2, <1>1, <1>4, ParsingState DEF tok
  <2>4. PICK m, pos : Parsed(x, j, m, pos, node, root, top)
    BY <2>1, <2>2, <1>1, ParsingState
  <2>5. ASSUME NEW n, Witness(x, n) PROVE FALSE
    <3>1. node[top].type = "object"
      BY <2>3, <2>4, <2>5, <1>4, ColonRight
    <3>. QED
      BY <3>1, <1>4
  <2>6. x # << >>
    BY <2>3
  <2>7. ~ Acceptable(x)
    BY <2>3, <2>5, <2>6, AcceptFull
  <2>. QED
    BY <2>1, <2>7, <1>4, GivesUp
<1>5. \/ fits /\ Advance /\ UNCHANGED <<name, root, top, node, made>>
      \/ ~ fits /\ Reject
  BY DEF Punctuation
<1>. QED
  BY <1>2, <1>3, <1>4, <1>5

\* '"'
LEMMA StringVerdict ==
  ASSUME JInv, AInv, String
  PROVE  AInv'
<1>0. Reading({"str"})
  BY DEF String
<1>1. pc = "parse" /\ at < Len(input) /\ tok.k = "str" /\ at + 1 \notin Openers(input)
  BY <1>0, ReadingToken
<1>2. CASE top # None /\ Advance /\ UNCHANGED <<root, top, node, made>>
  <2>1. Kept(node, node')
    BY <1>2 DEF Kept
  <2>. QED
    BY <2>1, <1>0, <1>1, <1>2, OtherVerdict
<1>3. CASE top # None /\ Add("string", tok.v) /\ Advance /\ UNCHANGED <<root, top>>
  <2>1. PICK type, value : type = "string" /\ value = tok.v
    OBVIOUS
  <2>. QED
    BY <2>1, <1>0, <1>1, <1>3, AddVerdict
<1>4. CASE top = None /\ Reject
  BY <1>1, <1>4, OutsideRejected, GivesUp
<1>. QED
  BY <1>2, <1>3, <1>4 DEF String

\* null, true, false and numbers
LEMMA AtomVerdict ==
  ASSUME JInv, AInv, Atom
  PROVE  AInv'
<1>0. Reading({"null", "bool", "num"})
  BY DEF Atom
<1>1. /\ pc = "parse" /\ at < Len(input) /\ tok.k \in {"null", "bool", "num"}
      /\ at + 1 \notin Openers(input)
  BY <1>0, ReadingToken
<1>2. CASE top # None /\ Add(tok.k, tok.v) /\ Advance /\ UNCHANGED <<root, top>>
  <2>1. PICK type, value : type = tok.k /\ value = tok.v
    OBVIOUS
  <2>. QED
    BY <2>1, <1>0, <1>1, <1>2, AddVerdict
<1>3. CASE top = None /\ Reject
  BY <1>1, <1>3, OutsideRejected, GivesUp
<1>. QED
  BY <1>2, <1>3 DEF Atom

\* The loop over a number.
LEMMA MoreVerdict ==
  ASSUME JInv, AInv, More
  PROVE  AInv'
<1>1. /\ Reading({"more"}) /\ top # None /\ Advance /\ root' = root /\ top' = top
      /\ node' = node
  BY DEF More
<1>2. tok.k = "more"
  BY <1>1, ReadingToken
<1>3. Kept(node, node')
  BY <1>1 DEF Kept
<1>. QED
  BY <1>1, <1>2, <1>3, OtherVerdict

\* A character that no case of the parser accepts.
LEMMA BadVerdict ==
  ASSUME JInv, AInv, BadCharacter
  PROVE  AInv'
<1>0. Reading({"bad"}) /\ Reject
  BY DEF BadCharacter
<1>1. pc = "parse" /\ tok.k = "bad" /\ at + 1 \in DOMAIN input
  BY <1>0, ReadingToken
<1>2. PICK x : x = input
  OBVIOUS
<1>3. PICK p : p = at + 1
  OBVIOUS
<1>4. Text(x) /\ p \in DOMAIN x /\ x[p].k = "bad"
  BY <1>1, <1>2, <1>3, ParsingState DEF tok
<1>5. x # << >> /\ \A n : ~ Witness(x, n)
  <2>1. x # << >>
    <3> SUFFICES ASSUME x = << >> PROVE FALSE
      OBVIOUS
    <3>1. DOMAIN x = {}
      OBVIOUS
    <3>. QED
      BY <3>1, <1>4
  <2>2. ASSUME NEW n, Witness(x, n) PROVE FALSE
    <3>1. \A i \in DOMAIN x : x[i].k # "bad"
      BY <2>2 DEF Witness
    <3>. QED
      BY <3>1, <1>4
  <2>. QED
    BY <2>1, <2>2
<1>6. ~ Acceptable(x)
  BY <1>4, <1>5, AcceptFull
<1>. QED
  BY <1>0, <1>2, <1>6, GivesUp

\* The end of the text.
LEMMA EndVerdict ==
  ASSUME JInv, AInv, End
  PROVE  AInv'
<1>1. pc = "parse" /\ at = Len(input)
  BY DEF End
<1>2. PICK x : x = input
  OBVIOUS
<1>3. PICK j : j = at
  OBVIOUS
<1>4. /\ Text(x) /\ j \in Nat /\ j = Len(x) /\ Tree(node, made, root)
      /\ root = None => j = 0
      /\ top # None => root # None
      /\ root # None => root \in DOMAIN node
  BY <1>1, <1>2, <1>3, ParsingState
<1>5. PICK m, pos : Parsed(x, j, m, pos, node, root, top)
  BY <1>1, <1>2, <1>3, ParsingState
<1>6. CASE top = None /\ pc' = "ok" /\ source' = source
  <2>1. Acceptable(x)
    BY <1>4, <1>5, <1>6, EndAccepts
  <2>2. input' = x
    BY <1>2, <1>6 DEF input, Taken
  <2>3. AcceptsBalanced'
    BY <2>1, <2>2, <1>6 DEF AcceptsBalanced
  <2>. QED
    BY <2>3, <1>6 DEF AInv, PInv
<1>7. CASE top # None /\ Reject
  <2>1. ASSUME NEW n, Witness(x, n) PROVE FALSE
    <3>1. n \in Full(x)
      BY <2>1 DEF Witness
    <3>. QED
      BY <3>1, <1>4, <1>5, <1>7, EndRight
  <2>2. x # << >>
    <3> SUFFICES ASSUME x = << >> PROVE FALSE
      OBVIOUS
    <3>1. Openers(x) = {}
      BY DEF Openers
    <3>2. Pending(x, j, m) = {}
      BY <3>1 DEF Pending, UpTo
    <3>3. Stack(x, j, m, pos, node, root, top)
      BY <1>5 DEF Parsed
    <3>. QED
      BY <3>2, <3>3, <1>4, <1>7, NoneOpen
  <2>3. ~ Acceptable(x)
    BY <2>1, <2>2, <1>4, AcceptFull
  <2>. QED
    BY <2>3, <1>2, <1>7, GivesUp
<1>. QED
  BY <1>6, <1>7 DEF End

\* The steps that read nothing keep the text and its verdict.
LEMMA VerdictKept ==
  ASSUME AInv, source' = source, pc' = pc \/ pc' = "undefined",
         pc = "parse" /\ pc' = "parse" => UNCHANGED <<at, root, top, node, made>>
  PROVE  AInv'
<1>1. input' = input
  BY DEF input, Taken
<1>2. AcceptsBalanced'
  BY <1>1 DEF AInv, AcceptsBalanced
<1>3. PInv'
  BY <1>1 DEF AInv, PInv
<1>. QED
  BY <1>2, <1>3 DEF AInv

\* For every text, however long and deeply nested: bkJsonParse gives a tree
\* only for one bracketed text with its brackets matched and ":" directly in
\* objects, and an error only for all others, where whatever the loop over a
\* number takes in is neither a bracket nor a ":".
THEOREM ParserVerdict == Spec => []AcceptsBalanced
<1>1. Init => AInv
  <2> SUFFICES ASSUME Init PROVE AInv
    OBVIOUS
  <2>1. /\ source \in Sources /\ at = 0 /\ root = None /\ top = None /\ node = << >>
        /\ made = 0 /\ pc = "parse"
    BY DEF Init
  <2>2. PICK x : x = input
    OBVIOUS
  <2>3. Text(x)
    BY <2>1, <2>2, InputText
  <2>4. UpTo(Closers(x), 0) = {} /\ UpTo(Openers(x), 0) = {} /\ Len(x) \in Nat
    <3>0. Len(x) \in Nat
      BY <2>3 DEF Text
    <3>1. Openers(x) \subseteq 1..Len(x) /\ Closers(x) \subseteq 1..Len(x)
      BY <2>3, Brackets
    <3>2. (\A c \in Closers(x) : ~(c <= 0)) /\ \A o \in Openers(x) : ~(o <= 0)
      BY <3>0, <3>1
    <3>. QED
      BY <3>0, <3>2 DEF UpTo
  <2>5. PICK m : m = [c \in {} |-> 0]
    OBVIOUS
  <2>6. m \in [{} -> {}] /\ DOMAIN m = {}
    BY <2>5
  <2>7. Pending(x, 0, m) = {}
    BY <2>4 DEF Pending
  <2>8. Matches(x, 0, m) /\ Forced(x, 0, m)
    BY <2>4, <2>6, <2>7 DEF Matches, Forced
  <2>9. Stack(x, 0, m, m, node, root, top)
    <3>1. DOMAIN m \subseteq DOMAIN node
      BY <2>6
    <3>. QED
      BY <3>1, <2>1, <2>6, <2>7 DEF Stack
  <2>10. \A p \in 1..0 : FALSE
    OBVIOUS
  <2>11. Parsed(x, 0, m, m, node, root, top)
    BY <2>1, <2>8, <2>9, <2>10 DEF Parsed
  <2>12. 0 \in 0..Len(x)
    BY <2>4
  <2>13. PInv
    BY <2>1, <2>2, <2>11, <2>12 DEF PInv
  <2>. QED
    BY <2>1, <2>13 DEF AInv, AcceptsBalanced
<1>2. JInv /\ AInv /\ [Next]_vars => AInv'
  <2> SUFFICES ASSUME JInv, AInv, [Next]_vars PROVE AInv'
    OBVIOUS
  <2>1. CASE Parse
    <3>1. CASE NumberOverrun
      BY <3>1, VerdictKept DEF NumberOverrun
    <3>. QED
      BY <2>1, <3>1, OpenVerdict, CloseVerdict, PunctuationVerdict, StringVerdict, AtomVerdict,
         MoreVerdict, BadVerdict, EndVerdict DEF Parse
  <2>2. CASE Finished \/ UNCHANGED vars
    BY <2>2, VerdictKept DEF Finished, vars
  <2>3. ASSUME NEW c \in DOMAIN node, NEW nm \in SetNames, Del(c, nm) PROVE AInv'
    <3>1. pc = "ok" /\ pc' \in {"ok", "undefined"} /\ source' = source
      BY <2>3 DEF Del, Editable
    <3>. QED
      BY <3>1, VerdictKept
  <2>4. ASSUME NEW c \in DOMAIN node, NEW nm \in SetNames, NEW value \in SetValues,
               Set(c, nm, value)
        PROVE  AInv'
    <3>1. pc = "ok" /\ pc' \in {"ok", "undefined"} /\ source' = source
      BY <2>4 DEF Set, SetValue, Editable
    <3>. QED
      BY <3>1, VerdictKept
  <2>. QED
    BY <2>1, <2>2, <2>3, <2>4 DEF Next
<1>3. AInv => AcceptsBalanced
  BY DEF AInv
<1>. QED
  BY <1>1, <1>2, <1>3, JInvInvariant, PTL DEF Spec
=============================================================================
