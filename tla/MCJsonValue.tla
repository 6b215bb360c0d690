---------------------------- MODULE MCJsonValue ----------------------------
(***************************************************************************)
(* JSON texts of two levels below the root, and all short token sequences. *)
(***************************************************************************)
EXTENDS JsonValue

A == Token("str", "a")
B == Token("str", "b")
Quoted == Token("str", "q")     \* a string with a quote in it
Empty == Token("str", "")
One == Token("num", "1")
Null == Token("null", "")

Lists(vs) == {<<>>} \cup vs \cup {x \o <<Mark(",")>> \o y : x, y \in vs}
Arrays(vs) == {<<Mark("[")>> \o l \o <<Mark("]")>> : l \in Lists(vs)}
Members(names, vs) == {<<n, Mark(":")>> \o v : n \in names, v \in vs}
Objects(names, vs) == {<<Mark("{")>> \o l \o <<Mark("}")>> : l \in Lists(Members(names, vs))}

Inner == Arrays({<<A>>, <<One>>}) \cup Objects({A, B}, {<<Null>>, <<A>>})
Outer == Inner \cup {<<Quoted>>, <<One>>, <<Empty>>}

\* The texts whose trees are edited.
Edited == Arrays({<<A>>, <<Mark("["), One, Mark("]")>>})
              \cup Objects({A, B}, {<<One>>, <<Mark("{"), A, Mark(":"), One, Mark("}")>>})

Whole == Arrays(Outer) \cup Objects({A, B}, Outer)

Marks == {Mark(k) : k \in {"{", "}", "[", "]", ":", ",", "bad"}}
Sequences(ts, n) == UNION {[1..k -> ts] : k \in 0..n}
Loose == Sequences(Marks \cup {A, Empty, Quoted, One}, 4)
           \cup Sequences({Mark("{"), Mark("}"), Mark("["), Mark("]"), One}, 6)

\* White space nowhere, or after some tokens and not after others.
Source(x, bs, valid, n) == [text |-> x, blanks |-> bs, valid |-> valid, edits |-> n]
MCSources == {Source(x, {}, TRUE, 0) : x \in Whole} \cup {Source(x, {}, TRUE, 3) : x \in Edited}
                \cup {Source(x, bs, FALSE, 0) : x \in Loose, bs \in {{}, {2, 3, 5}}}
MCSetNames == {"", "a", "b", "0"}
MCSetValues == {"v"}
MCEscaped == {"q"}
=============================================================================
