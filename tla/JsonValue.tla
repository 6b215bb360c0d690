----------------------------- MODULE JsonValue -----------------------------
(***************************************************************************)
(* bkJsonParse with the tree of linked nodes it builds, bkJsonStringify,   *)
(* and the calls that change a tree, bkJsonSet and bkJsonDel.              *)
(*                                                                         *)
(* A text is a sequence of tokens [k, v]: brackets, ":" and ",", strings   *)
(* with their decoded text, and atoms (numbers, true, false, null) with    *)
(* what is stored for them; "bad" is any character no case of the parser   *)
(* accepts, white space in front of the first token included.  Elsewhere   *)
(* white space ends a number and is skipped, so that of it only the places *)
(* are kept.  The size argument cuts a text between tokens.                *)
(***************************************************************************)
EXTENDS Integers, Sequences, FiniteSets, TLC

CONSTANTS
    Sources,    \* [text, blanks, valid, edits]: a text to parse; the tokens
                \* that white space follows; whether it is a JSON text with
                \* names that are not empty and hold nothing that must be
                \* escaped; how many calls may change its tree
    SetNames, SetValues,    \* arguments of bkJsonSet and bkJsonDel
    Escaped     \* strings with characters that must be escaped

ASSUME JsonAssumption ==
    \A s \in Sources : /\ s.text \in Seq([k : STRING, v : STRING])
                       /\ s.valid \in BOOLEAN /\ s.edits \in Nat

VARIABLES
    source,     \* what is parsed
    at,         \* the number of tokens consumed
    name,       \* the parser's pending name
    root, top,  \* nodes, None for NULL
    node,       \* the nodes that are allocated
    made,       \* the number of nodes made so far
    pc,         \* "parse", then "ok" or "error"; "undefined" after a step
                \* whose outcome the language does not define
    edits

vars == <<source, at, name, root, top, node, made, pc, edits>>

None == 0
Token(k, v) == [k |-> k, v |-> v]
Mark(k) == Token(k, "")

\* What ends a number, apart from white space.
Stops == {",", "]", "}"}

\* The loop over a number in front of token p has taken it in, whatever it is.
Taken(p) ==
    \E q \in 1..(p - 1) :
        /\ source.text[q].k = "num"
        /\ \A r \in q..(p - 1) : r \notin source.blanks /\ source.text[r + 1].k \notin Stops

\* The text as the cases of the parser meet it: what a number takes in is
\* "more" of the number.
input == [p \in DOMAIN source.text |-> IF Taken(p) THEN Mark("more") ELSE source.text[p]]

Containers == {"object", "array"}
NewNode(type, nm, value) == [type |-> type, name |-> nm, value |-> value, parent |-> None,
                             next |-> None, first |-> None, last |-> None]
Fresh == made + 1
With(n, r) == [m \in DOMAIN node \cup {n} |-> IF m = n THEN r ELSE node[m]]

\* The nodes from n on, along next.
From(ns, n) ==
    LET walk[m \in DOMAIN ns \cup {None}] ==
            IF m = None THEN <<>> ELSE <<m>> \o walk[ns[m].next]
    IN walk[n]

Kids(ns, c) == From(ns, ns[c].first)

\* Mutant of Linked: last stays on the first element.
LinkedLastKept(ns, c, v) ==
    IF ns[c].last # None
    THEN [ns EXCEPT ![ns[c].last].next = v, ![v].parent = c]
    ELSE [ns EXCEPT ![c].first = v, ![c].last = v, ![v].parent = c]

\* The links bkJsonAppend sets.
Linked(ns, c, v) ==
    IF ns[c].last # None
    THEN [ns EXCEPT ![ns[c].last].next = v, ![c].last = v, ![v].parent = c]
    ELSE [ns EXCEPT ![c].first = v, ![c].last = v, ![v].parent = c]

IndexName(ns, c) == ToString(Len(Kids(ns, c)) - 1)

\* bkJsonAppend(c, v): an element of an array without a name gets its index.
Append1(ns, c, v) ==
    LET l == Linked(ns, c, v)
    IN IF l[c].type = "array" /\ l[v].name = ""
       THEN [l EXCEPT ![v].name = IndexName(l, c)]
       ELSE l
-----------------------------------------------------------------------------
Init ==
    /\ source \in Sources
    /\ at = 0 /\ name = "" /\ root = None /\ top = None
    /\ node = << >> /\ made = 0
    /\ pc = "parse" /\ edits = 0

tok == input[at + 1]
Reading(ks) == pc = "parse" /\ at < Len(input) /\ tok.k \in ks
Advance == at' = at + 1 /\ UNCHANGED <<source, pc, edits>>

\* bkJsonFree(root) and return 0.  bkJsonFree takes the next sibling from a
\* node it has deleted, so that any tree with elements may be its end.
Reject ==
    /\ pc' \in IF \E n \in DOMAIN node : node[n].first # None
               THEN {"error", "undefined"} ELSE {"error"}
    /\ root' = None /\ top' = None /\ node' = << >>
    /\ UNCHANGED <<source, at, name, made, edits>>

\* A new value in top, with the pending name.
Add(type, value) ==
    /\ node' = Append1(With(Fresh, NewNode(type, name, value)), top, Fresh)
    /\ made' = Fresh
    /\ name' = ""

\* '{' and '['
Open ==
    /\ Reading({"{", "["})
    /\ LET type == IF tok.k = "{" THEN "object" ELSE "array"
       IN \/ /\ top # None
             /\ Add(type, "")
             /\ top' = Fresh
             /\ Advance /\ UNCHANGED root
          \/ /\ top = None /\ root = None
             /\ node' = With(Fresh, NewNode(type, name, ""))
             /\ made' = Fresh
             /\ name' = ""
             /\ root' = Fresh /\ top' = Fresh
             /\ Advance
          \/ top = None /\ root # None /\ Reject      \* "Only one root allowed"

\* Mutant of Closes: the kind of bracket is not compared.
ClosesAny == top # None

Closes == top # None /\ node[top].type = (IF tok.k = "}" THEN "object" ELSE "array")

\* '}' and ']'; a pending name stays.
Close ==
    /\ Reading({"}", "]"})
    /\ \/ Closes /\ top' = node[top].parent /\ Advance /\ UNCHANGED <<name, root, node, made>>
       \/ ~Closes /\ Reject                           \* "Mismatch closing brace/bracket"

\* ':' and ',' are skipped wherever they stand, ':' in objects only.
Punctuation ==
    /\ Reading({":", ","})
    /\ LET fits == top # None /\ (tok.k = ":" => node[top].type = "object")
       IN \/ fits /\ Advance /\ UNCHANGED <<name, root, top, node, made>>
          \/ ~fits /\ Reject

\* Mutant of IsName: every string in an object is a name.
IsNameAlways == node[top].type = "object"

\* A string in an object is a name when none is pending.
IsName == name = "" /\ node[top].type = "object"

\* '"'
String ==
    /\ Reading({"str"})
    /\ \/ top # None /\ IsName /\ name' = tok.v /\ Advance
          /\ UNCHANGED <<root, top, node, made>>
       \/ top # None /\ ~IsName /\ Add("string", tok.v) /\ Advance /\ UNCHANGED <<root, top>>
       \/ top = None /\ Reject

\* null, true, false and numbers
Atom ==
    /\ Reading({"null", "bool", "num"})
    /\ \/ top # None /\ Add(tok.k, tok.v) /\ Advance /\ UNCHANGED <<root, top>>
       \/ top = None /\ Reject

\* The loop over a number goes on.
More ==
    /\ Reading({"more"}) /\ top # None
    /\ Advance /\ UNCHANGED <<name, root, top, node, made>>

\* It does not stop at the end of the text.
NumberOverrun ==
    /\ Reading({"num"}) /\ top # None
    /\ \A p \in (at + 2)..Len(input) : input[p].k = "more"
    /\ Len(input) \notin source.blanks
    /\ pc' = "undefined"
    /\ UNCHANGED <<source, at, name, root, top, node, made, edits>>

BadCharacter == Reading({"bad"}) /\ Reject

\* The end of the text: everything must be closed.
End ==
    /\ pc = "parse" /\ at = Len(input)
    /\ \/ top = None /\ pc' = "ok" /\ UNCHANGED <<source, at, name, root, top, node, made, edits>>
       \/ top # None /\ Reject

Parse == Open \/ Close \/ Punctuation \/ String \/ Atom \/ More \/ NumberOverrun
            \/ BadCharacter \/ End
-----------------------------------------------------------------------------
\* bkJsonGet: the first element of the name, None if there is none.
Get(c, nm) ==
    LET kids == Kids(node, c)
        hits == {i \in DOMAIN kids : node[kids[i]].name = nm}
    IN IF hits = {} THEN None ELSE kids[CHOOSE i \in hits : \A j \in hits : i <= j]

Editable(c) == pc = "ok" /\ edits < source.edits /\ node[c].type \in Containers

\* last points to a node that was deleted.
Dangling(c) == node[c].last # None /\ node[c].last \notin DOMAIN node

\* bkJsonSet: an element of the name gets the value and keeps its type.
SetValue(c, nm, value) ==
    LET old == Get(c, nm)
    IN \/ /\ old # None
          /\ node' = [node EXCEPT ![old].value = value]
          /\ pc' = "ok"
       \/ /\ old = None /\ ~Dangling(c)
          /\ node' = Append1(With(Fresh, NewNode("string", nm, value)), c, Fresh)
          /\ pc' = "ok"
       \/ old = None /\ Dangling(c) /\ pc' = "undefined" /\ UNCHANGED node

Set(c, nm, value) ==
    /\ Editable(c)
    /\ SetValue(c, nm, value)
    /\ made' = Fresh
    /\ edits' = edits + 1
    /\ UNCHANGED <<source, at, name, root, top>>

\* n and what hangs below it.
Below(n) ==
    LET under[m \in DOMAIN node] ==
            m = n \/ (node[m].parent # None /\ under[node[m].parent])
    IN {m \in DOMAIN node : under[m]}

\* The list of c without n: taking out the first element leaves last alone,
\* also when it is the only one.
Unlinked(c, n) ==
    IF n = node[c].first
    THEN [node EXCEPT ![c].first = node[n].next]
    ELSE LET prev == CHOOSE m \in DOMAIN node : node[m].next = n
         IN [node EXCEPT ![c].last = IF n = @ THEN prev ELSE @,
                         ![prev].next = node[n].next]

\* bkJsonDel; an element with elements of its own may end as in Reject.
Del(c, nm) ==
    /\ Editable(c)
    /\ LET n == Get(c, nm)
       IN /\ n # None
          /\ node' = [m \in DOMAIN node \ Below(n) |-> Unlinked(c, n)[m]]
          /\ pc' \in IF node[n].first # None THEN {"ok", "undefined"} ELSE {"ok"}
    /\ edits' = edits + 1
    /\ UNCHANGED <<source, at, name, root, top, made>>

Finished == pc # "parse" /\ UNCHANGED vars

Next == Parse \/ Finished
           \/ \E c \in DOMAIN node, nm \in SetNames :
                 Del(c, nm) \/ \E value \in SetValues : Set(c, nm, value)

Spec == Init /\ [][Next]_vars
-----------------------------------------------------------------------------
\* Names of array elements that are numbers are not printed.
Indices == {ToString(i) : i \in 0..Len(input)}
Printed(n) == /\ node[n].name # ""
              /\ ~(node[n].parent # None /\ node[node[n].parent].type = "array"
                      /\ node[n].name \in Indices)

\* A name is printed without escaping it.
NameToken(nm) == IF nm \in Escaped THEN Mark("bad") ELSE Token("str", nm)

\* bkJsonStringify(root): a node with its name, then its siblings.
Stringify ==
    LET text[n \in DOMAIN node \cup {None}] ==
            IF n = None THEN <<>>
            ELSE (IF Printed(n) THEN <<NameToken(node[n].name), Mark(":")>> ELSE <<>>)
                 \o (CASE node[n].type = "object" -> <<Mark("{")>> \o text[node[n].first] \o <<Mark("}")>>
                       [] node[n].type = "array" -> <<Mark("[")>> \o text[node[n].first] \o <<Mark("]")>>
                       [] node[n].type = "string" -> <<Token("str", node[n].value)>>
                       [] OTHER -> <<Token(node[n].type, node[n].value)>>)
                 \o (IF node[n].next = None THEN <<>> ELSE <<Mark(",")>> \o text[node[n].next])
    IN text[root]
-----------------------------------------------------------------------------
\* The list of c is well linked: last ends the chain that starts at first,
\* and its nodes are those whose parent is c.
ListSound(c) ==
    LET kids == Kids(node, c)
    IN /\ node[c].last = IF kids = <<>> THEN None ELSE kids[Len(kids)]
       /\ {kids[i] : i \in DOMAIN kids} = {n \in DOMAIN node : node[n].parent = c}

\* While a text is parsed and after any calls of bkJsonSet and bkJsonDel, all
\* lists are well linked, but for those whose only element was deleted; and
\* the parser's top hangs below its root.
LinksSound ==
    /\ \A c \in DOMAIN node : Dangling(c) \/ ListSound(c)
    /\ \A c \in DOMAIN node : Dangling(c) => node[c].first = None /\ edits > 0
    /\ top # None => top \in Below(root)
    /\ root # None => Below(root) = DOMAIN node

\* Printing what was parsed gives the text again: nothing of a JSON text is
\* lost, renamed or moved to another container, however it is nested; and
\* bkJsonGet finds the elements of every array by their index.
RoundTrip ==
    pc = "ok" /\ edits = 0 /\ source.valid =>
        /\ Stringify = input
        /\ \A c \in {n \in DOMAIN node : node[n].type = "array"} :
              \A i \in DOMAIN Kids(node, c) : Get(c, ToString(i - 1)) = Kids(node, c)[i]

\* Which bracket each closing bracket of x closes.
Openers(x) == {i \in DOMAIN x : x[i].k \in {"{", "["}}
Closers(x) == {i \in DOMAIN x : x[i].k \in {"}", "]"}}
Nestings(x) ==
    {m \in [Closers(x) -> Openers(x)] :
        /\ \A i \in Closers(x) : /\ m[i] < i
                                 /\ (x[m[i]].k = "{") = (x[i].k = "}")
        /\ \A i, j \in Closers(x) : i < j => m[i] # m[j] /\ ~(m[i] < m[j] /\ m[j] < i)}

\* The texts the parser takes: one bracketed text, ":" directly in objects
\* only, and no other character out of place.  What a number takes in counts
\* for nothing: [1[] is such a text and [1[]] is not.
Acceptable(x) ==
    x = <<>> \/
        /\ \A i \in DOMAIN x : x[i].k # "bad"
        /\ Cardinality(Openers(x)) = Cardinality(Closers(x))
        /\ \E m \in Nestings(x) :
              /\ Len(x) \in Closers(x) /\ m[Len(x)] = 1
              /\ \A p \in DOMAIN x : x[p].k = ":" =>
                    \E c \in Closers(x) :
                       /\ m[c] < p /\ p < c /\ x[c].k = "}"
                       /\ \A d \in Closers(x) : m[d] < p /\ p < d => m[d] <= m[c]

\* bkJsonParse returns a tree for these and an error for all others, also for
\* texts that are cut, that have two roots or whose brackets do not match.
AcceptsBalanced ==
    /\ pc = "ok" => Acceptable(input)
    /\ pc = "error" => ~Acceptable(input)
=============================================================================
