----------------------------- MODULE WordCache -----------------------------
(***************************************************************************)
(* The word counting cache of binding.cpp: countAllWords keeps one         *)
(* bkAhoCorasick object per name it is called with, and gives it its word  *)
(* list, alphabet and mode as calls come in; countWordsInit clears the     *)
(* cache.  What a search finds is module AhoCorasick's subject; here it is *)
(* which list, automaton, alphabet and mode it works with.                 *)
(***************************************************************************)
EXTENDS Integers, SequencesExt

CONSTANTS
    Calls,      \* the argument records of countAllWords, see CallOK
    Token,      \* the default alphabet: characters that are in a token
    High,       \* characters that do not fit a signed char
    ModeNames,  \* _cwModes
    None,       \* an argument that is missing or null
    MaxCalls    \* bound on the calls between two countWordsInit

\* items is the first argument, text the second (TRUE: not empty), hash the
\* name; delims and nodelims are sets of characters or None.
CallOK(a) ==
    /\ DOMAIN a = {"items", "text", "hash", "delims", "nodelims", "mode"}
    /\ a.text \in BOOLEAN

ASSUME WordCacheAssumption ==
    /\ \A a \in Calls : CallOK(a)
    /\ None \notin ModeNames /\ "" \notin ModeNames
    /\ MaxCalls \in Nat
    /\ Token \cap High = {}

VARIABLES
    wc,         \* _wc, the sequence of cached objects
    used,       \* the object the last call searched with
    log,        \* history: the calls since the last countWordsInit
    defined     \* FALSE after a call whose outcome the language does not define

vars == <<wc, used, log, defined>>

\* A new object: no words, no automaton, mode SUM.
Object(name) == [name |-> name, list |-> << >>, auto |-> None,
                 token |-> Token, mode |-> "SUM"]

Init == wc = << >> /\ used = None /\ log = << >> /\ defined = TRUE

\* The cached objects with this name.
Cached(hash) == {k \in DOMAIN wc : wc[k].name = hash}

\* The array of words: a string is a word, an integer the value of the word
\* in front of it.
AddItem(list, item) ==
    IF item[1] = "word" THEN Append(list, [word |-> item[2], value |-> 0])
    ELSE IF list = << >> THEN list
    ELSE [list EXCEPT ![Len(list)].value = item[2]]

Words(items) == FoldLeft(AddItem, << >>, items)

\* The characters a call gives to setAlphabet.
Delims(a) == IF a.delims = None THEN {} ELSE a.delims
NoDelims(a) == IF a.nodelims = None THEN {} ELSE a.nodelims

\* setAlphabet, first for the delimiters and then for the non-delimiters.
SetAlphabet(token, delims, nodelims) ==
    (token \ IF delims = None THEN {} ELSE delims)
        \cup IF nodelims = None THEN {} ELSE nodelims

\* Mutant of SetMode: a call that gives no mode sets the default again.
SetModeAlways(old, m) == IF m \in ModeNames THEN m ELSE "SUM"

\* setMode: an unknown name is a mode of its own, which counts as SUM.
SetMode(old, m) == IF m \in {None, ""} THEN old
                   ELSE IF m \in ModeNames THEN m ELSE "SUM"

\* Mutant of Fill: the words of the call are added to those there are.
FillAlways(list, items) == list \o Words(items)

\* The list is filled only while it is empty.
Fill(list, items) == IF list = << >> THEN Words(items) ELSE list

\* search: the automaton is made once, of the list there is, unless the text
\* or the list is empty.
Prepare(obj, text) ==
    [obj EXCEPT !.auto = IF text /\ obj.list # << >> /\ @ = None THEN obj.list ELSE @]

\* The object after the call a worked on it.
Apply(obj, a) ==
    Prepare([obj EXCEPT !.token = SetAlphabet(@, a.delims, a.nodelims),
                        !.mode = SetMode(@, a.mode),
                        !.list = Fill(@, a.items)], a.text)

\* setAlphabet indexes its array with a signed char: a character above 0x7f
\* writes over the members of the object that stand in front of the array,
\* which are the word list, the counters and the queue.
Overwrites(a) == (Delims(a) \cup NoDelims(a)) \cap High # {}

CountAllWords(a) ==
    /\ defined /\ ~Overwrites(a)
    /\ Len(log) < MaxCalls
    /\ \/ \* a local object
          /\ a.hash = None
          /\ used' = Apply(Object(""), a)
          /\ UNCHANGED wc
       \/ \* the first cached object of that name
          \E k \in Cached(a.hash) :
             /\ a.hash # None
             /\ \A j \in Cached(a.hash) : k <= j
             /\ used' = Apply(wc[k], a)
             /\ wc' = [wc EXCEPT ![k] = used']
       \/ \* a new one
          /\ a.hash # None /\ Cached(a.hash) = {}
          /\ used' = Apply(Object(a.hash), a)
          /\ wc' = Append(wc, used')
    /\ log' = Append(log, a)
    /\ UNCHANGED defined

\* What the process does after such a call is not defined, and not followed.
OverwritingCall(a) ==
    /\ defined /\ Overwrites(a)
    /\ defined' = FALSE
    /\ UNCHANGED <<wc, used, log>>

CountWordsInit == defined /\ wc' = << >> /\ log' = << >> /\ UNCHANGED <<used, defined>>

Lost == ~defined /\ UNCHANGED vars

Next == CountWordsInit \/ Lost \/ \E a \in Calls : CountAllWords(a) \/ OverwritingCall(a)

Spec == Init /\ [][Next]_vars
-----------------------------------------------------------------------------
\* The cache has one object per name: no call can leave a second one behind
\* that would answer with other words.
OnePerName == \A j, k \in DOMAIN wc : wc[j].name = wc[k].name => j = k

\* The automaton a search runs is that of the object's own word list, though
\* it is made only once: the counters, which search sizes by the list, and
\* the words the automaton reports are the same.
AutomatonInSync ==
    /\ \A k \in DOMAIN wc : wc[k].auto \in {None, wc[k].list}
    /\ used # None => used.auto \in {None, used.list}

\* The calls of a log s, by their place in it: those with a name, and among
\* them those that gave it words, a mode, or mentioned the character c.
CallsOf(s, name) == {j \in DOMAIN s : s[j].hash = name}
Givers(s, name) == {j \in CallsOf(s, name) : Words(s[j].items) # << >>}
ModeSetters(s, name) == {j \in CallsOf(s, name) : s[j].mode \notin {None, ""}}
Mentioners(s, name, c) == {j \in CallsOf(s, name) : c \in Delims(s[j]) \cup NoDelims(s[j])}

WordsOfFirst(s, o) ==
    LET G == Givers(s, o.name)
    IN IF G = {} THEN o.list = << >>
       ELSE \E j \in G : (\A i \in G : j <= i) /\ o.list = Words(s[j].items)

ModeOfLast(s, o) ==
    LET M == ModeSetters(s, o.name)
    IN IF M = {} THEN o.mode = "SUM"
       ELSE \E j \in M : /\ \A i \in M : i <= j
                         /\ o.mode = IF s[j].mode \in ModeNames THEN s[j].mode ELSE "SUM"

TokenOfLast(s, o, c) ==
    LET M == Mentioners(s, o.name, c)
    IN IF M = {} THEN c \in o.token <=> c \in Token
       ELSE \E j \in M : (\A i \in M : i <= j) /\ (c \in o.token <=> c \in NoDelims(s[j]))

\* What is remembered under a name is decided by the calls with that name
\* alone, since the cache was cleared: the words of the first that had any,
\* the mode of the last that gave one, and for a character the last that
\* mentioned it.
RemembersPerName ==
    \A k \in DOMAIN wc :
        /\ CallsOf(log, wc[k].name) # {}
        /\ WordsOfFirst(log, wc[k])
        /\ ModeOfLast(log, wc[k])
        /\ \A c \in Token \cup UNION {Delims(a) \cup NoDelims(a) : a \in Calls} :
              TokenOfLast(log, wc[k], c)
=============================================================================
