-------------------------- MODULE WordCacheProofs --------------------------
(***************************************************************************)
(* Proofs about WordCache for every set of calls, alphabet and bound: the  *)
(* cache holds one object per name, an object's automaton is never that of *)
(* another list than its own, and what an object holds is decided by the   *)
(* calls with its own name.                                                *)
(***************************************************************************)
EXTENDS WordCache, TLAPS

Names == {a.hash : a \in Calls} \cup {""}
WordLists == {Words(a.items) : a \in Calls} \cup {<< >>}
Characters == Token \cup UNION {a.nodelims : a \in {b \in Calls : b.nodelims # None}}

\* The objects calls can make.
Objects == [name : Names, list : WordLists, auto : WordLists \cup {None},
            token : SUBSET Characters, mode : ModeNames \cup {"SUM"}]

InSync(o) == o.auto \in {None, o.list} /\ (o.auto # None => o.list # << >>)

\* An empty list has no automaton: this is what lets a call fill it, and it
\* makes the invariant inductive.
IInv ==
    /\ wc \in Seq(Objects)
    /\ \A k \in 1..Len(wc) : InSync(wc[k])
    /\ OnePerName
    /\ used = None \/ (used \in Objects /\ InSync(used))

\* A new object is empty and has no automaton.
LEMMA NewObject == ASSUME NEW n \in Names PROVE Object(n) \in Objects /\ InSync(Object(n))
BY DEF Object, Objects, InSync, WordLists, Characters, Names

\* A call keeps an object's name, its shape and the agreement of automaton
\* and list: it fills only an empty list, for which there is no automaton.
LEMMA ApplyKeeps ==
    ASSUME NEW o \in Objects, InSync(o), NEW a \in Calls
    PROVE  Apply(o, a) \in Objects /\ InSync(Apply(o, a)) /\ Apply(o, a).name = o.name
<1> DEFINE t == SetAlphabet(o.token, a.delims, a.nodelims)
           m == SetMode(o.mode, a.mode)
           l == Fill(o.list, a.items)
           b == [o EXCEPT !.token = t, !.mode = m, !.list = l]
<1>1. t \in SUBSET Characters
  BY DEF Objects, SetAlphabet, Characters
<1>2. m \in ModeNames \cup {"SUM"}
  BY DEF Objects, SetMode
<1>3. l \in WordLists
  BY DEF Objects, Fill, WordLists
<1>4. o.list # << >> => l = o.list
  BY DEF Fill
<1> HIDE DEF t, m, l
<1>5. b \in Objects /\ b.name = o.name /\ b.list = l /\ b.auto = o.auto
  BY <1>1, <1>2, <1>3 DEF Objects
<1>6. InSync(b)
  BY <1>4, <1>5 DEF InSync
<1> HIDE DEF b
<1>7. Apply(o, a) = Prepare(b, a.text)
  BY DEF Apply, b, t, m, l
<1>8. Prepare(b, a.text) \in Objects /\ Prepare(b, a.text).name = b.name
  BY <1>5 DEF Prepare, Objects
<1>9. InSync(Prepare(b, a.text))
  BY <1>5, <1>6 DEF Prepare, Objects, InSync
<1> QED
  BY <1>5, <1>7, <1>8, <1>9

\* Nothing is cached and nothing was searched with.
LEMMA IInvInit == Init => IInv
BY DEF Init, IInv, OnePerName

\* The three ways of countAllWords and countWordsInit keep the invariant.
LEMMA IInvNext == IInv /\ [Next]_vars => IInv'
<1> SUFFICES ASSUME IInv, [Next]_vars PROVE IInv'
  OBVIOUS
<1>1. CASE CountWordsInit
  BY <1>1 DEF CountWordsInit, IInv, OnePerName
<1>2. ASSUME NEW a \in Calls, CountAllWords(a) PROVE IInv'
  <2>0. wc \in Seq(Objects) /\ a.hash \in Names
    BY DEF IInv, Names
  <2>1. CASE a.hash = None /\ used' = Apply(Object(""), a) /\ UNCHANGED wc
    <3>1. used' \in Objects /\ InSync(used')
      BY <2>1, NewObject, ApplyKeeps DEF Names
    <3> QED
      BY <2>1, <3>1 DEF IInv, OnePerName
  <2>2. ASSUME NEW k \in Cached(a.hash), used' = Apply(wc[k], a),
               wc' = [wc EXCEPT ![k] = used']
        PROVE  IInv'
    <3>1. k \in 1..Len(wc) /\ wc[k] \in Objects /\ InSync(wc[k])
      BY <2>0 DEF Cached, IInv
    <3>2. used' \in Objects /\ InSync(used') /\ used'.name = wc[k].name
      BY <2>2, <3>1, ApplyKeeps
    <3>3. /\ wc' \in Seq(Objects) /\ Len(wc') = Len(wc) /\ DOMAIN wc' = DOMAIN wc
          /\ \A j \in 1..Len(wc) : wc'[j] = IF j = k THEN used' ELSE wc[j]
      BY <2>0, <2>2, <3>1, <3>2
    <3>4. \A j \in 1..Len(wc) : InSync(wc'[j]) /\ wc'[j].name = wc[j].name
      BY <3>2, <3>3 DEF IInv
    <3>5. OnePerName'
      BY <2>0, <3>3, <3>4 DEF IInv, OnePerName
    <3> QED
      BY <3>2, <3>3, <3>4, <3>5 DEF IInv
  <2>3. CASE Cached(a.hash) = {} /\ used' = Apply(Object(a.hash), a) /\ wc' = Append(wc, used')
    <3>1. used' \in Objects /\ InSync(used') /\ used'.name = a.hash
      <4>1. Object(a.hash).name = a.hash
        BY DEF Object
      <4> QED
        BY <2>0, <2>3, <4>1, NewObject, ApplyKeeps
    <3>2. /\ wc' \in Seq(Objects) /\ Len(wc') = Len(wc) + 1
          /\ DOMAIN wc = 1..Len(wc) /\ DOMAIN wc' = 1..(Len(wc) + 1)
          /\ \A j \in 1..Len(wc) : wc'[j] = wc[j]
          /\ wc'[Len(wc) + 1] = used'
      BY <2>0, <2>3, <3>1
    <3>3. \A j \in 1..Len(wc) : wc[j].name # a.hash
      BY <2>3, <3>2 DEF Cached
    <3>4. OnePerName'
      <4> SUFFICES ASSUME NEW i \in 1..(Len(wc) + 1), NEW j \in 1..(Len(wc) + 1),
                          wc'[i].name = wc'[j].name
                   PROVE  i = j
        BY <3>2 DEF OnePerName
      <4>1. CASE i \in 1..Len(wc) /\ j \in 1..Len(wc)
        BY <3>2, <4>1 DEF IInv, OnePerName
      <4>2. CASE i = Len(wc) + 1 /\ j \in 1..Len(wc)
        BY <3>1, <3>2, <3>3, <4>2
      <4>3. CASE j = Len(wc) + 1 /\ i \in 1..Len(wc)
        BY <3>1, <3>2, <3>3, <4>3
      <4> QED
        BY <2>0, <4>1, <4>2, <4>3
    <3>5. \A j \in 1..(Len(wc) + 1) : InSync(wc'[j])
      BY <2>0, <3>1, <3>2 DEF IInv
    <3> QED
      BY <3>1, <3>2, <3>4, <3>5 DEF IInv
  <2> QED
    BY <1>2, <2>1, <2>2, <2>3 DEF CountAllWords
<1>3. CASE UNCHANGED <<wc, used, log>>
  BY <1>3 DEF IInv, OnePerName
<1> QED
  BY <1>1, <1>2, <1>3 DEF Next, OverwritingCall, Lost, vars

\* However calls of countAllWords and countWordsInit are mixed, each name has
\* one object and each object's automaton was built from its own word list.
THEOREM CacheConsistent == Spec => [](OnePerName /\ AutomatonInSync)
<1>1. IInv => OnePerName /\ AutomatonInSync
  <2> SUFFICES ASSUME IInv PROVE AutomatonInSync
    BY DEF IInv
  <2>1. DOMAIN wc = 1..Len(wc)
    BY DEF IInv
  <2> QED
    BY <2>1 DEF IInv, AutomatonInSync, InSync
<1> QED
  BY <1>1, IInvInit, IInvNext, PTL DEF Spec
-----------------------------------------------------------------------------
\* What one more call adds to the log: a call with another name changes
\* nothing for this one.
LEMMA LogAppend ==
    ASSUME NEW s \in Seq(Calls), NEW a \in Calls, NEW name
    PROVE  LET t == Append(s, a)
               n == Len(s) + 1
           IN /\ n \in Nat /\ t[n] = a /\ \A j \in DOMAIN s : j \in Nat /\ j < n /\ t[j] = s[j]
              /\ CallsOf(t, name) =
                    CallsOf(s, name) \cup (IF a.hash = name THEN {n} ELSE {})
<1>1. /\ DOMAIN s = 1..Len(s) /\ Len(s) \in Nat
      /\ DOMAIN Append(s, a) = 1..(Len(s) + 1) /\ Append(s, a)[Len(s) + 1] = a
      /\ \A j \in 1..Len(s) : Append(s, a)[j] = s[j]
  OBVIOUS
<1>. QED
  BY <1>1 DEF CallsOf

\* The fields of an object after a call.
LEMMA ApplyFields ==
    ASSUME NEW o \in Objects, NEW a \in Calls
    PROVE  /\ Apply(o, a).name = o.name
           /\ Apply(o, a).list = Fill(o.list, a.items)
           /\ Apply(o, a).mode = SetMode(o.mode, a.mode)
           /\ Apply(o, a).token = SetAlphabet(o.token, a.delims, a.nodelims)
BY DEF Objects, Apply, Prepare

\* An object that remembers the calls of its name up to now remembers the
\* next one, too.
LEMMA ApplyRemembers ==
    ASSUME NEW s \in Seq(Calls), NEW a \in Calls, NEW o \in Objects, a.hash = o.name,
           WordsOfFirst(s, o), ModeOfLast(s, o), NEW c
    PROVE  LET t == Append(s, a)
               b == Apply(o, a)
           IN /\ WordsOfFirst(t, b) /\ ModeOfLast(t, b)
              /\ TokenOfLast(s, o, c) => TokenOfLast(t, b, c)
<1> DEFINE t == Append(s, a)
           n == Len(s) + 1
           b == Apply(o, a)
<1>1. /\ n \in Nat /\ t[n] = a /\ \A j \in DOMAIN s : j \in Nat /\ j < n /\ t[j] = s[j]
      /\ CallsOf(t, o.name) = CallsOf(s, o.name) \cup {n}
      /\ CallsOf(s, o.name) \subseteq DOMAIN s
  BY LogAppend DEF CallsOf
<1>2. /\ b.name = o.name
      /\ b.list = Fill(o.list, a.items)
      /\ b.mode = SetMode(o.mode, a.mode)
      /\ b.token = SetAlphabet(o.token, a.delims, a.nodelims)
  BY ApplyFields
<1> HIDE DEF t, n, b
<1>3. WordsOfFirst(t, b)
  <2>1. Givers(t, o.name) =
            Givers(s, o.name) \cup (IF Words(a.items) # << >> THEN {n} ELSE {})
    BY <1>1 DEF Givers
  <2>2. Givers(s, o.name) \subseteq DOMAIN s
    BY <1>1 DEF Givers
  <2>3. CASE Givers(s, o.name) = {}
    <3>1. o.list = << >>
      BY <2>3 DEF WordsOfFirst
    <3>2. b.list = Words(a.items)
      BY <3>1, <1>2 DEF Fill
    <3>3. CASE Words(a.items) = << >>
      BY <2>1, <2>3, <3>2, <3>3, <1>2 DEF WordsOfFirst
    <3>4. CASE Words(a.items) # << >>
      <4>1. Givers(t, o.name) = {n}
        BY <2>1, <2>3, <3>4
      <4>2. b.list = Words(t[n].items)
        BY <3>2, <1>1
      <4>3. n \in Givers(t, o.name) /\ \A i \in Givers(t, o.name) : n <= i
        BY <4>1, <1>1
      <4>4. b.name = o.name
        BY <1>2
      <4>. QED
        BY <4>2, <4>3, <4>4 DEF WordsOfFirst
    <3>. QED
      BY <3>3, <3>4
  <2>4. CASE Givers(s, o.name) # {}
    <3>1. PICK j \in Givers(s, o.name) :
              (\A i \in Givers(s, o.name) : j <= i) /\ o.list = Words(s[j].items)
      BY <2>4 DEF WordsOfFirst
    <3>2. b.list = o.list
      BY <3>1, <1>2 DEF Fill, Givers
    <3>3. j \in Givers(t, o.name) /\ t[j] = s[j]
      BY <3>1, <2>1, <2>2, <1>1
    <3>4. \A i \in Givers(t, o.name) : j <= i
      BY <3>1, <2>1, <2>2, <1>1
    <3>. QED
      BY <3>1, <3>2, <3>3, <3>4, <1>2 DEF WordsOfFirst
  <2>. QED
    BY <2>3, <2>4
<1>4. ModeOfLast(t, b)
  <2>1. ModeSetters(t, o.name) =
            ModeSetters(s, o.name) \cup (IF a.mode \notin {None, ""} THEN {n} ELSE {})
    BY <1>1 DEF ModeSetters
  <2>2. ModeSetters(s, o.name) \subseteq DOMAIN s
    BY <1>1 DEF ModeSetters
  <2>3. CASE a.mode \notin {None, ""}
    <3>1. b.mode = IF a.mode \in ModeNames THEN a.mode ELSE "SUM"
      BY <2>3, <1>2 DEF SetMode
    <3>2. ModeSetters(t, o.name) = ModeSetters(s, o.name) \cup {n}
      BY <2>1, <2>3
    <3>3. n \in ModeSetters(t, o.name) /\ \A i \in ModeSetters(t, o.name) : i <= n
      BY <3>2, <2>2, <1>1
    <3>. QED
      BY <3>1, <3>3, <1>1, <1>2 DEF ModeOfLast
  <2>4. CASE a.mode \in {None, ""}
    <3>1. b.mode = o.mode /\ ModeSetters(t, o.name) = ModeSetters(s, o.name)
      BY <2>1, <2>4, <1>2 DEF SetMode
    <3>2. \A j \in ModeSetters(s, o.name) : t[j] = s[j]
      BY <2>2, <1>1
    <3>. QED
      BY <3>1, <3>2, <1>2 DEF ModeOfLast
  <2>. QED
    BY <2>3, <2>4
<1>5. ASSUME TokenOfLast(s, o, c) PROVE TokenOfLast(t, b, c)
  <2>1. Mentioners(t, o.name, c) =
            Mentioners(s, o.name, c) \cup (IF c \in Delims(a) \cup NoDelims(a) THEN {n} ELSE {})
    BY <1>1 DEF Mentioners
  <2>2. Mentioners(s, o.name, c) \subseteq DOMAIN s
    BY <1>1 DEF Mentioners
  <2>3. c \in b.token <=> (c \in o.token /\ c \notin Delims(a)) \/ c \in NoDelims(a)
    BY <1>2 DEF SetAlphabet, Delims, NoDelims
  <2>4. CASE c \in Delims(a) \cup NoDelims(a)
    <3>1. c \in b.token <=> c \in NoDelims(a)
      BY <2>3, <2>4
    <3>2. n \in Mentioners(t, o.name, c) /\ \A i \in Mentioners(t, o.name, c) : i <= n
      BY <2>1, <2>2, <2>4, <1>1
    <3>. QED
      BY <3>1, <3>2, <1>1, <1>2 DEF TokenOfLast
  <2>5. CASE c \notin Delims(a) \cup NoDelims(a)
    <3>1. (c \in b.token <=> c \in o.token) /\ Mentioners(t, o.name, c) = Mentioners(s, o.name, c)
      BY <2>1, <2>3, <2>5
    <3>2. \A j \in Mentioners(s, o.name, c) : t[j] = s[j]
      BY <2>2, <1>1
    <3>. QED
      BY <3>1, <3>2, <1>2, <1>5 DEF TokenOfLast
  <2>. QED
    BY <2>4, <2>5
<1>. QED
  BY <1>3, <1>4, <1>5 DEF t, b

\* What an object remembers does not depend on a call with another name.
LEMMA OthersRemember ==
    ASSUME NEW s \in Seq(Calls), NEW a \in Calls, NEW o, a.hash # o.name,
           WordsOfFirst(s, o), ModeOfLast(s, o), NEW c
    PROVE  LET t == Append(s, a)
           IN /\ WordsOfFirst(t, o) /\ ModeOfLast(t, o)
              /\ TokenOfLast(s, o, c) => TokenOfLast(t, o, c)
<1> DEFINE t == Append(s, a)
<1>1. /\ CallsOf(t, o.name) = CallsOf(s, o.name)
      /\ \A j \in CallsOf(s, o.name) : t[j] = s[j]
  BY LogAppend DEF CallsOf
<1> HIDE DEF t
<1>2. /\ Givers(t, o.name) = Givers(s, o.name)
      /\ \A j \in Givers(s, o.name) : t[j] = s[j]
  BY <1>1 DEF Givers
<1>3. /\ ModeSetters(t, o.name) = ModeSetters(s, o.name)
      /\ \A j \in ModeSetters(s, o.name) : t[j] = s[j]
  BY <1>1 DEF ModeSetters
<1>4. /\ Mentioners(t, o.name, c) = Mentioners(s, o.name, c)
      /\ \A j \in Mentioners(s, o.name, c) : t[j] = s[j]
  BY <1>1 DEF Mentioners
<1>5. WordsOfFirst(t, o) /\ ModeOfLast(t, o)
  BY <1>2, <1>3 DEF WordsOfFirst, ModeOfLast
<1>6. ASSUME TokenOfLast(s, o, c) PROVE TokenOfLast(t, o, c)
  BY <1>4, <1>6 DEF TokenOfLast
<1>. QED
  BY <1>5, <1>6 DEF t

Alphabet == Token \cup UNION {Delims(a) \cup NoDelims(a) : a \in Calls}

\* The object o remembers the calls of its name in the log s.
Remembers(s, o) == /\ CallsOf(s, o.name) # {}
                   /\ WordsOfFirst(s, o) /\ ModeOfLast(s, o)
                   /\ \A c \in Alphabet : TokenOfLast(s, o, c)

\* Every name that was used since the cache was cleared has its object, so a
\* new object starts with an empty log of its own.
RInv ==
    /\ log \in Seq(Calls)
    /\ \A k \in 1..Len(wc) : wc[k].name # None /\ Remembers(log, wc[k])
    /\ \A j \in 1..Len(log) :
          log[j].hash # None => \E k \in 1..Len(wc) : wc[k].name = log[j].hash

\* The object of a call remembers it, whether it was there or is new.
LEMMA UsedRemembers ==
    ASSUME NEW s \in Seq(Calls), NEW a \in Calls, NEW o \in Objects, a.hash = o.name,
           Remembers(s, o) \/ (CallsOf(s, o.name) = {} /\ o = Object(a.hash))
    PROVE  Remembers(Append(s, a), Apply(o, a))
<1>1. WordsOfFirst(s, o) /\ ModeOfLast(s, o) /\ \A c \in Alphabet : TokenOfLast(s, o, c)
  <2>1. CASE Remembers(s, o)
    BY <2>1 DEF Remembers
  <2>2. CASE CallsOf(s, o.name) = {} /\ o = Object(a.hash)
    <3>1. /\ Givers(s, o.name) = {} /\ ModeSetters(s, o.name) = {}
          /\ \A c : Mentioners(s, o.name, c) = {}
      BY <2>2 DEF Givers, ModeSetters, Mentioners
    <3>2. o.list = << >> /\ o.mode = "SUM" /\ o.token = Token
      BY <2>2 DEF Object
    <3>3. WordsOfFirst(s, o) /\ ModeOfLast(s, o)
      BY <3>1, <3>2 DEF WordsOfFirst, ModeOfLast
    <3>4. \A c \in Alphabet : TokenOfLast(s, o, c)
      BY <3>1, <3>2 DEF TokenOfLast
    <3>. QED
      BY <3>3, <3>4
  <2>. QED
    BY <2>1, <2>2
<1>2. Apply(o, a).name = o.name
  BY ApplyFields
<1>3. CallsOf(Append(s, a), o.name) # {}
  BY LogAppend
<1>4. /\ WordsOfFirst(Append(s, a), Apply(o, a)) /\ ModeOfLast(Append(s, a), Apply(o, a))
      /\ \A c : TokenOfLast(s, o, c) => TokenOfLast(Append(s, a), Apply(o, a), c)
  BY <1>1, ApplyRemembers
<1>. QED
  BY <1>1, <1>2, <1>3, <1>4 DEF Remembers

\* The objects of other names go on remembering.
LEMMA UnusedRemembers ==
    ASSUME NEW s \in Seq(Calls), NEW a \in Calls, NEW o, a.hash # o.name, Remembers(s, o)
    PROVE  Remembers(Append(s, a), o)
<1>1. /\ CallsOf(s, o.name) # {} /\ WordsOfFirst(s, o) /\ ModeOfLast(s, o)
      /\ \A c \in Alphabet : TokenOfLast(s, o, c)
  BY DEF Remembers
<1>2. CallsOf(Append(s, a), o.name) =
          CallsOf(s, o.name) \cup (IF a.hash = o.name THEN {Len(s) + 1} ELSE {})
  BY LogAppend
<1>3. /\ WordsOfFirst(Append(s, a), o) /\ ModeOfLast(Append(s, a), o)
      /\ \A c : TokenOfLast(s, o, c) => TokenOfLast(Append(s, a), o, c)
  BY <1>1, OthersRemember
<1>. QED
  BY <1>1, <1>2, <1>3 DEF Remembers

\* One case per way of countAllWords, and countWordsInit, which clears cache
\* and log together.
LEMMA RInvNext ==
    ASSUME IInv, RInv, [Next]_vars
    PROVE  RInv'
<1>1. CASE CountWordsInit
  BY <1>1 DEF CountWordsInit, RInv
<1>2. ASSUME NEW a \in Calls, CountAllWords(a) PROVE RInv'
  <2>0. /\ wc \in Seq(Objects) /\ log \in Seq(Calls) /\ OnePerName /\ a.hash \in Names
        /\ DOMAIN wc = 1..Len(wc) /\ Len(log) \in Nat /\ Len(wc) \in Nat
    <3>1. wc \in Seq(Objects) /\ log \in Seq(Calls) /\ OnePerName
      BY DEF IInv, RInv
    <3>2. a.hash \in Names
      BY DEF Names
    <3>. QED
      BY <3>1, <3>2
  <2>1. /\ log' = Append(log, a) /\ log' \in Seq(Calls) /\ Len(log') = Len(log) + 1
        /\ log'[Len(log) + 1] = a /\ \A j \in 1..Len(log) : log'[j] = log[j]
    <3>1. log' = Append(log, a)
      BY <1>2 DEF CountAllWords
    <3>. QED
      BY <3>1, <2>0
  <2>2. \A k \in 1..Len(wc) : a.hash # wc[k].name => Remembers(log', wc[k])
    BY <2>0, <2>1, UnusedRemembers DEF RInv
  <2>3. \A j \in 1..Len(log') : j \in 1..Len(log) \/ j = Len(log) + 1
    BY <2>0, <2>1
  <2>4. CASE a.hash = None /\ UNCHANGED wc
    <3>1. \A k \in 1..Len(wc) : wc[k].name # None /\ Remembers(log', wc[k])
      BY <2>2, <2>4 DEF RInv
    <3>2. \A j \in 1..Len(log') : log'[j].hash # None =>
              \E k \in 1..Len(wc) : wc[k].name = log'[j].hash
      BY <2>1, <2>3, <2>4 DEF RInv
    <3>. QED
      BY <2>1, <2>4, <3>1, <3>2 DEF RInv
  <2>5. ASSUME a.hash # None, NEW k \in Cached(a.hash), used' = Apply(wc[k], a),
               wc' = [wc EXCEPT ![k] = used']
        PROVE  RInv'
    <3>1. k \in 1..Len(wc) /\ wc[k] \in Objects /\ wc[k].name = a.hash
      BY <2>0, <2>5 DEF Cached
    <3>2. used' \in Objects /\ used'.name = a.hash
      BY <2>5, <3>1, ApplyKeeps DEF IInv
    <3>3. Len(wc') = Len(wc) /\ \A j \in 1..Len(wc) : wc'[j] = IF j = k THEN used' ELSE wc[j]
      BY <2>0, <2>5, <3>1, <3>2
    <3>4. Remembers(log', used')
      BY <2>0, <2>1, <2>5, <3>1, UsedRemembers DEF RInv
    <3>5. \A j \in 1..Len(wc) : j # k => wc[j].name # a.hash
      BY <2>0, <3>1 DEF OnePerName
    <3>6. \A j \in 1..Len(wc') : wc'[j].name # None /\ Remembers(log', wc'[j])
      BY <2>2, <2>5, <3>2, <3>3, <3>4, <3>5 DEF RInv
    <3>7. \A j \in 1..Len(log') : log'[j].hash # None =>
              \E i \in 1..Len(wc') : wc'[i].name = log'[j].hash
      <4>1. \A i \in 1..Len(wc) : wc'[i].name = wc[i].name
        BY <3>1, <3>2, <3>3
      <4>. QED
        BY <4>1, <2>1, <2>3, <3>1, <3>3 DEF RInv
    <3>. QED
      BY <2>1, <3>6, <3>7 DEF RInv
  <2>6. CASE /\ a.hash # None /\ Cached(a.hash) = {} /\ used' = Apply(Object(a.hash), a)
             /\ wc' = Append(wc, used')
    <3>1. Object(a.hash) \in Objects /\ Object(a.hash).name = a.hash /\ InSync(Object(a.hash))
      <4>1. Object(a.hash).name = a.hash
        BY DEF Object
      <4>. QED
        BY <4>1, <2>0, NewObject
    <3>2. used' \in Objects /\ used'.name = a.hash
      BY <2>6, <3>1, ApplyKeeps
    <3>3. Len(wc') = Len(wc) + 1 /\ wc'[Len(wc) + 1] = used'
          /\ \A j \in 1..Len(wc) : wc'[j] = wc[j]
      BY <2>0, <2>6, <3>2
    <3>4. \A j \in 1..Len(wc) : wc[j].name # a.hash
      BY <2>0, <2>6 DEF Cached
    <3>5. CallsOf(log, a.hash) = {}
      BY <2>0, <2>6, <3>4 DEF RInv, CallsOf
    <3>6. Remembers(log', used')
      BY <2>0, <2>1, <2>6, <3>1, <3>5, UsedRemembers
    <3>7. \A j \in 1..Len(wc') : j \in 1..Len(wc) \/ j = Len(wc) + 1
      BY <2>0, <3>3
    <3>8. \A j \in 1..Len(wc') : wc'[j].name # None /\ Remembers(log', wc'[j])
      BY <2>2, <2>6, <3>2, <3>3, <3>4, <3>6, <3>7 DEF RInv
    <3>9. \A j \in 1..Len(log') : log'[j].hash # None =>
              \E i \in 1..Len(wc') : wc'[i].name = log'[j].hash
      <4>1. Len(wc) + 1 \in 1..Len(wc') /\ \A i \in 1..Len(wc) : i \in 1..Len(wc')
        BY <2>0, <3>3
      <4>. QED
        BY <4>1, <2>1, <2>3, <3>2, <3>3 DEF RInv
    <3>. QED
      BY <2>1, <3>8, <3>9 DEF RInv
  <2>. QED
    BY <1>2, <2>4, <2>5, <2>6 DEF CountAllWords
<1>3. CASE UNCHANGED <<wc, used, log>>
  BY <1>3 DEF RInv
<1>. QED
  BY <1>1, <1>2, <1>3 DEF Next, OverwritingCall, Lost, vars

\* For every set of calls and however they are mixed: what an object of the
\* cache holds is decided by the calls with its name since the cache was
\* cleared, the first for the words, the last for mode and alphabet.
THEOREM MemoryPerName == Spec => []RemembersPerName
<1>1. Init => IInv /\ RInv
  BY IInvInit DEF Init, RInv
<1>2. IInv /\ RInv /\ [Next]_vars => (IInv /\ RInv)'
  BY IInvNext, RInvNext
<1>3. IInv /\ RInv => RemembersPerName
  <2> SUFFICES ASSUME IInv, RInv PROVE RemembersPerName
    OBVIOUS
  <2>1. DOMAIN wc = 1..Len(wc)
    BY DEF IInv
  <2>. QED
    BY <2>1 DEF RInv, Remembers, Alphabet, RemembersPerName
<1>. QED
  BY <1>1, <1>2, <1>3, PTL DEF Spec
=============================================================================
