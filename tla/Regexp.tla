------------------------------- MODULE Regexp -------------------------------
(***************************************************************************)
(* Class CRegExp: RegComp compiles a pattern in two passes of a recursive  *)
(* descent parser, the first to learn the size of the program, the second  *)
(* to emit it; RegFind runs the program with backtracking; and             *)
(* GetReplaceString puts what the last search found into a replacement.    *)
(*                                                                         *)
(* A pattern, a text and a replacement are sequences of characters.  The   *)
(* program is a sequence of nodes and links are counted in nodes; the size *)
(* is in bytes, as the allocation is.  A position in a text counts from 0. *)
(***************************************************************************)
EXTENDS RegexpMeaning

CONSTANTS
    Patterns,       \* patterns compiled by a fresh object
    NextPatterns,   \* patterns compiled by an object that was used before
    Texts,          \* texts that an object searches first
    NextTexts,      \* texts that it searches afterwards
    Replacements    \* replacement expressions

NULL == 0           \* no node
Unset == -1         \* a NULL in startp or endp, and the result "not found"
Undefined == -2     \* the outcome of a read of memory that is not the text's
None == <<"none">>  \* a NULL string

VARIABLES
    bCompiled,
    program,        \* <<>>: NULL
    regsize,        \* the bytes allocated for program: what its first pass counted
    regstart, reganch, regmust,
    startp, endp, sFoundText,
    source,         \* the pattern that program was compiled from
    text,           \* the text of the last RegFind
    last            \* the last call: its name, argument and result

compiled == <<program, regsize, regstart, reganch, regmust, source>>
found == <<startp, endp, sFoundText, text>>
vars == <<bCompiled, compiled, found, last>>

META == REPN \cup {"^", "$", ".", "[", "(", ")", "|", "\\"}

-----------------------------------------------------------------------------
(***************************************************************************)
(* The compiler.  Its state c is a record: the pattern re, the input       *)
(* position p, the group counter npar, whether code is emitted, the code   *)
(* or its size so far, and what the last function returned: ok (not NULL), *)
(* the node ret and the flags.                                             *)
(***************************************************************************)
Peek(c) == Char(c.re, c.p)
Skip(c) == [c EXCEPT !.p = @ + 1]
Fail(c) == [c EXCEPT !.ok = FALSE]
Returns(c, ret, flags) == [c EXCEPT !.ret = ret, !.flags = flags]

HasString(op) == op \in {"ANYOF", "ANYBUT", "EXACTLY"}
NodeBytes(op, str) == 3 + IF HasString(op) THEN Len(str) + 1 ELSE 0

\* regnode, with the regc calls that follow it for a node with a string.
\* Group number no makes OPEN + no and CLOSE + no of OPEN and CLOSE.
Emit(c, op, no, str) ==
    IF c.emit
    THEN [c EXCEPT !.code = Append(@, [op |-> op, no |-> no, str |-> str, next |-> 0]),
                   !.ret = Len(c.code) + 1]
    ELSE [c EXCEPT !.size = @ + NodeBytes(op, str), !.ret = 1]

regnode(c, op) == Emit(c, op, 0, <<>>)

regnext(code, n) ==
    IF code[n].next = 0 THEN NULL
    ELSE IF code[n].op = "BACK" THEN n - code[n].next ELSE n + code[n].next

RECURSIVE Chain(_, _)
Chain(code, n) == IF n = NULL THEN <<>> ELSE <<n>> \o Chain(code, regnext(code, n))

regtail(c, p, val) ==
    IF ~c.emit THEN c
    ELSE LET scan == Last(Chain(c.code, p))
         IN [c EXCEPT !.code[scan].next =
                IF c.code[scan].op = "BACK" THEN scan - val ELSE val - scan]

regoptail(c, p, val) ==
    IF ~c.emit \/ c.code[p].op # "BRANCH" THEN c ELSE regtail(c, p + 1, val)

\* Mutant of reginsert: the first pass does not count the node.
reginsertUncounted(c, op, opnd) ==
    IF ~c.emit THEN c
    ELSE [c EXCEPT !.code = InsertAt(@, opnd, [op |-> op, no |-> 0, str |-> <<>>, next |-> 0])]

reginsert(c, op, opnd) ==
    IF ~c.emit THEN [c EXCEPT !.size = @ + 3]
    ELSE [c EXCEPT !.code = InsertAt(@, opnd, [op |-> op, no |-> 0, str |-> <<>>, next |-> 0])]

\* regtail(p, regnode(op)) and regoptail(p, regnode(op))
TailNode(c, p, op) == LET d == regnode(c, op) IN regtail(d, p, d.ret)
OptailNode(c, p, op) == LET d == regnode(c, op) IN regoptail(d, p, d.ret)

\* The code for x* as (x&|), x+ as x(&|) and x? as (x|), x being at ret.
Star(c, ret) ==
    IF "SIMPLE" \in c.flags THEN reginsert(c, "STAR", ret)
    ELSE LET d == OptailNode(reginsert(c, "BRANCH", ret), ret, "BACK")
         IN TailNode(TailNode(regoptail(d, ret, ret), ret, "BRANCH"), ret, "NOTHING")

Plus(c, ret) ==
    IF "SIMPLE" \in c.flags THEN reginsert(c, "PLUS", ret)
    ELSE LET d == regnode(c, "BRANCH")
             e == regnode(regtail(d, ret, d.ret), "BACK")
             f == TailNode(regtail(e, e.ret, ret), d.ret, "BRANCH")
         IN TailNode(f, ret, "NOTHING")

Question(c, ret) ==
    LET d == regnode(TailNode(reginsert(c, "BRANCH", ret), ret, "BRANCH"), "NOTHING")
    IN regoptail(regtail(d, ret, d.ret), ret, d.ret)

\* The characters of a class from position p on, str being those read before.
RECURSIVE ClassFrom(_, _, _)
ClassFrom(re, p, str) ==
    LET ch == Char(re, p)
        to == Char(re, p + 1)
    IN IF ch \in {NUL, "]"} THEN [ok |-> ch = "]", p |-> p + 1, str |-> str]
       ELSE IF ch # "-" THEN ClassFrom(re, p + 1, Append(str, ch))
       ELSE IF to \in {NUL, "]"} THEN ClassFrom(re, p + 1, Append(str, "-"))
       ELSE IF Code(re[p - 1]) > Code(to) THEN [ok |-> FALSE, p |-> p, str |-> str]
       ELSE ClassFrom(re, p + 2, str \o SubSeq(Alphabet, Code(re[p - 1]) + 1, Code(to)))

\* Case '[' of regatom, behind the bracket.
Class(c) ==
    LET but == Peek(c) = "^"
        p == IF but THEN c.p + 1 ELSE c.p
        ch == Char(c.re, p)
        cl == IF ch \in {"]", "-"} THEN ClassFrom(c.re, p + 1, <<ch>>)
                                   ELSE ClassFrom(c.re, p, <<>>)
        d == Emit([c EXCEPT !.p = cl.p], IF but THEN "ANYBUT" ELSE "ANYOF", 0, cl.str)
    IN IF cl.ok THEN Returns(d, d.ret, {"HASWIDTH", "SIMPLE"}) ELSE Fail(c)

\* The default case of regatom takes a run of ordinary characters, but leaves
\* the last of several to a repetition that follows.
LiteralLen(re, p) ==
    LET end == Min({k \in p..(Len(re) + 1) : Char(re, k) \in META \cup {NUL}})
    IN IF end - p > 1 /\ Char(re, end) \in REPN THEN end - p - 1 ELSE end - p

Literal(c, len) ==
    LET d == Emit([c EXCEPT !.p = @ + len], "EXACTLY", 0, SubSeq(c.re, c.p, c.p + len - 1))
    IN Returns(d, d.ret, IF len = 1 THEN {"HASWIDTH", "SIMPLE"} ELSE {"HASWIDTH"})

RECURSIVE reg(_, _)

regatom(c) ==
    LET ch == Peek(c)
        d == Skip(c)
        Plain(op, flags) == LET n == regnode(d, op) IN Returns(n, n.ret, flags)
    IN CASE ch = "^" -> Plain("BOL", {})
         [] ch = "$" -> Plain("EOL", {})
         [] ch = "." -> Plain("ANY", {"HASWIDTH", "SIMPLE"})
         [] ch = "[" -> Class(d)
         [] ch = "(" -> LET r == reg(d, TRUE)
                        IN [r EXCEPT !.flags = @ \cap {"HASWIDTH", "SPSTART"}]
         [] ch = "\\" -> IF Peek(d) = NUL THEN Fail(d) ELSE Literal(d, 1)
         [] ch \in {NUL, "|", ")"} \cup REPN -> Fail(d)
         [] OTHER -> Literal(c, LiteralLen(c.re, c.p))

\* regpiece behind its atom a: the repetition, if one follows.
Repeated(a) ==
    LET op == Peek(a)
    IN IF ~a.ok \/ op \notin REPN THEN a
       ELSE IF "HASWIDTH" \notin a.flags /\ op # "?" THEN Fail(a)
       ELSE IF Peek(Skip(a)) \in REPN THEN Fail(a)
       ELSE CASE op = "*" -> Returns(Skip(Star(a, a.ret)), a.ret, {"SPSTART"})
              [] op = "+" -> Returns(Skip(Plus(a, a.ret)), a.ret, {"SPSTART", "HASWIDTH"})
              [] op = "?" -> Returns(Skip(Question(a, a.ret)), a.ret, {})

regpiece(c) == Repeated(regatom(c))

\* The loop of regbranch: chain is the piece before, NULL for the first, and
\* AddPiece its body once piece x is parsed.
RECURSIVE AddPiece(_, _, _, _)
Pieces(c, ret, chain, flags) ==
    IF Peek(c) \in {NUL, "|", ")"}
    THEN Returns(IF chain = NULL THEN regnode(c, "NOTHING") ELSE c, ret, flags)
    ELSE AddPiece(regpiece(c), ret, chain, flags)

AddPiece(x, ret, chain, flags) ==
    LET up == x.flags \cap IF chain = NULL THEN {"HASWIDTH", "SPSTART"} ELSE {"HASWIDTH"}
    IN IF ~x.ok THEN x
       ELSE Pieces(IF chain = NULL THEN x ELSE regtail(x, chain, x.ret), ret, x.ret, flags \cup up)

regbranch(c) == LET d == regnode(c, "BRANCH") IN Pieces(d, d.ret, NULL, {})

\* The flags of a choice: each branch has width, some branch starts with * or +.
EitherFlags(f, g) == (f \cap g \cap {"HASWIDTH"}) \cup ((f \cup g) \cap {"SPSTART"})

\* The branches of reg, b being the one just parsed.  They are linked from
\* ret, the OPEN node; without a group (NULL) the first branch is ret.
RECURSIVE AddBranch(_, _, _)
Branches(c, ret, flags) ==
    IF Peek(c) # "|" THEN Returns(c, ret, flags)
    ELSE AddBranch(regbranch(Skip(c)), ret, flags)

AddBranch(b, ret, flags) ==
    IF ~b.ok THEN b
    ELSE Branches(IF ret = NULL THEN b ELSE regtail(b, ret, b.ret),
                  IF ret = NULL THEN b.ret ELSE ret, EitherFlags(flags, b.flags))

\* Hook the closing node, c.ret, to the chain and to the tails of its branches.
HookTails(c, ret) ==
    IF ~c.emit THEN c
    ELSE LET d == regtail(c, ret, c.ret)
         IN FoldLeft(LAMBDA e, br : regoptail(e, br, c.ret), d, Chain(d.code, ret))

\* The end of reg, behind its branches: the closing node and what must follow.
CloseReg(c, paren, parno) ==
    LET d == HookTails(Emit(c, IF paren THEN "CLOSE" ELSE "END", parno, <<>>), c.ret)
    IN IF ~c.ok THEN c
       ELSE IF Peek(d) # (IF paren THEN ")" ELSE NUL) THEN Fail(d)
       ELSE Returns(IF paren THEN Skip(d) ELSE d, c.ret, c.flags)

reg(c, paren) ==
    LET open == IF paren THEN Emit([c EXCEPT !.npar = @ + 1], "OPEN", c.npar, <<>>) ELSE c
    IN IF paren /\ c.npar >= NSUBEXP THEN Fail(c)
       ELSE CloseReg(AddBranch(regbranch(open), IF paren THEN open.ret ELSE NULL, {"HASWIDTH"}),
                     paren, c.npar)

Pass(re, emit) ==
    reg([re |-> re, p |-> 1, npar |-> 1, emit |-> emit, code |-> <<>>, size |-> 0,
         ok |-> TRUE, ret |-> NULL, flags |-> {}], FALSE)
-----------------------------------------------------------------------------
(***************************************************************************)
(* The matcher: regmatch at node n and position i of text t.               *)
(***************************************************************************)
At(t, i) == Char(t, i + 1)
NoMatch == [ok |-> FALSE]
NoGroups == [g \in 0..(NSUBEXP - 1) |-> Unset]

\* One character of t at i against a node of one character.
Takes(x, ch) ==
    /\ ch # NUL
    /\ CASE x.op = "ANY" -> TRUE
         [] x.op = "EXACTLY" -> ch = x.str[1]
         [] x.op = "ANYOF" -> Contains(x.str, ch)
         [] x.op = "ANYBUT" -> ~Contains(x.str, ch)

\* The positions (at most one) behind an ordinary node.
After(x, t, i) ==
    CASE x.op \in {"NOTHING", "BACK"} -> {i}
      [] x.op = "BOL" -> {j \in {i} : i = 0}
      [] x.op = "EOL" -> {j \in {i} : At(t, i) = NUL}
      [] x.op = "EXACTLY" -> {j \in {i + Len(x.str)} : IsPrefix(x.str, SubSeq(t, i + 1, Len(t)))}
      [] OTHER -> {j \in {i + 1} : Takes(x, At(t, i))}

\* How many times a one-character node matches from i on.
regrepeat(x, t, i) ==
    Max({k \in 0..(Len(t) - i) : \A m \in 0..(k - 1) : Takes(x, At(t, i + m))})

RECURSIVE regmatch(_, _, _, _)

\* The loop over the branches: the first that matches.
RECURSIVE FirstBranch(_, _, _, _)
FirstBranch(code, t, n, i) ==
    IF code[n].op # "BRANCH" THEN NoMatch
    ELSE LET r == regmatch(code, t, n + 1, i)
         IN IF r.ok THEN r ELSE FirstBranch(code, t, regnext(code, n), i)

\* The loop of STAR and PLUS: as many times as possible, then fewer.
RECURSIVE Fewer(_, _, _, _, _, _)
Fewer(code, t, next, i, no, min) ==
    LET tried == code[next].op # "EXACTLY" \/ At(t, i + no) = code[next].str[1]
        r == IF tried THEN regmatch(code, t, next, i + no) ELSE NoMatch
    IN IF no < min THEN NoMatch
       ELSE IF r.ok THEN r ELSE Fewer(code, t, next, i, no - 1, min)

\* Mutant of SetGroup: an earlier invocation of the group overwrites.
SetGroupAlways(groups, no, i) == [groups EXCEPT ![no] = i]

\* "Don't set startp if some later invocation already has."
SetGroup(groups, no, i) == IF groups[no] = Unset THEN [groups EXCEPT ![no] = i] ELSE groups

regmatch(code, t, n, i) ==
    LET x == code[n]
        next == regnext(code, n)
        r == regmatch(code, t, next, i)
    IN IF n = NULL THEN NoMatch
       ELSE CASE x.op = "END" -> [ok |-> TRUE, end |-> i, startp |-> NoGroups, endp |-> NoGroups]
              [] x.op = "OPEN" -> IF r.ok THEN [r EXCEPT !.startp = SetGroup(@, x.no, i)] ELSE r
              [] x.op = "CLOSE" -> IF r.ok THEN [r EXCEPT !.endp = SetGroup(@, x.no, i)] ELSE r
              [] x.op = "BRANCH" -> IF code[next].op # "BRANCH" THEN regmatch(code, t, n + 1, i)
                                    ELSE FirstBranch(code, t, n, i)
              [] x.op \in {"STAR", "PLUS"} ->
                    Fewer(code, t, next, i, regrepeat(code[n + 1], t, i),
                          IF x.op = "STAR" THEN 0 ELSE 1)
              [] OTHER -> LET js == After(x, t, i)
                          IN IF js = {} THEN NoMatch
                             ELSE regmatch(code, t, next, CHOOSE j \in js : TRUE)
-----------------------------------------------------------------------------
(***************************************************************************)
(* The object.                                                             *)
(***************************************************************************)
Init ==
    /\ bCompiled = FALSE /\ program = <<>> /\ source = None
    /\ regsize = 0 /\ regstart = NUL /\ reganch = FALSE /\ regmust = <<>> \* not set, see RegFindNoProgram
    /\ startp = NoGroups /\ endp = NoGroups /\ sFoundText = None
    /\ text = None
    /\ last = [call |-> "none"]

\* Mutant of Must: a string inside a branch is taken for required.
MustAny(code) == LET strs == {code[k].str : k \in {j \in 1..Len(code) : code[j].op = "EXACTLY"}}
                 IN IF strs = {} THEN <<>> ELSE CHOOSE s \in strs : TRUE

\* The longest literal of the top-level chain, the last of several; <<>>: NULL.
Must(code) ==
    FoldLeft(LAMBDA m, n : IF code[n].op = "EXACTLY" /\ Len(code[n].str) >= Len(m)
                           THEN code[n].str ELSE m, <<>>, Chain(code, 2))

\* The end of RegComp: what it digs out of the program.
Load(re, size, code, flags) ==
    LET single == code[regnext(code, 1)].op = "END"
    IN /\ regsize' = size
       /\ program' = code
       /\ regstart' = IF single /\ code[2].op = "EXACTLY" THEN code[2].str[1] ELSE NUL
       /\ reganch' = (single /\ code[2].op = "BOL")
       /\ regmust' = IF single /\ "SPSTART" \in flags THEN Must(code) ELSE <<>>
       /\ source' = re

RegComp(re) ==
    LET first == Pass(re, FALSE)
        second == Pass(re, TRUE)
    IN /\ bCompiled' = TRUE
       /\ last' = [call |-> "RegComp", arg |-> re, ok |-> first.ok]
       /\ IF first.ok THEN Load(re, first.size, second.code, second.flags) ELSE UNCHANGED compiled
       /\ UNCHANGED found

\* The result of a search for t, and what it leaves in the object.
Finds(t, pos) ==
    /\ text' = t
    /\ last' = [call |-> "RegFind", pos |-> pos]
    /\ UNCHANGED <<bCompiled, compiled>>
NotFound(t) == Finds(t, Unset) /\ sFoundText' = None

\* Without a call of RegComp: -1.
RegFindNotCompiled(t) ==
    /\ ~bCompiled
    /\ NotFound(t)
    /\ UNCHANGED <<startp, endp>>

\* All calls of RegComp failed: bCompiled is set, but the members that RegFind
\* reads were never set, and regmust is followed.  regtry(NULL) finds nothing.
RegFindNoProgram(t) ==
    /\ bCompiled /\ program = <<>>
    /\ \E pos \in {Unset, Undefined} : Finds(t, pos)
    /\ sFoundText' = None
    /\ UNCHANGED <<startp, endp>>

\* The "must appear" string does not: startp and endp stay as they were.
RegFindMustFails(t) ==
    /\ program # <<>>
    /\ \A i \in 0..Len(t) : ~IsPrefix(regmust, SubSeq(t, i + 1, Len(t)))
    /\ NotFound(t)
    /\ UNCHANGED <<startp, endp>>

\* The positions at which RegFind calls regtry, in increasing order.
Starts(t) ==
    IF reganch THEN {0}
    ELSE IF regstart # NUL THEN {0} \cup {i \in 1..Len(t) : At(t, i) = regstart}
    ELSE 0..Len(t)

RegFind(t) ==
    LET tries == [i \in Starts(t) |-> regmatch(program, t, 1, i)]
        hits == {i \in Starts(t) : tries[i].ok}
        pos == Min(hits)
    IN /\ program # <<>>
       /\ \E i \in 0..Len(t) : IsPrefix(regmust, SubSeq(t, i + 1, Len(t)))
       /\ \/ /\ hits # {}
             /\ Finds(t, pos)
             /\ startp' = [tries[pos].startp EXCEPT ![0] = pos]
             /\ endp' = [tries[pos].endp EXCEPT ![0] = tries[pos].end]
             /\ sFoundText' = SubSeq(t, pos + 1, tries[pos].end)
          \/ /\ hits = {}
             /\ startp' = NoGroups /\ endp' = NoGroups
             /\ \/ NotFound(t)
                \/ \* strchr(s + 1, regstart) where s is the end of the text
                   /\ t = <<>> /\ regstart # NUL /\ ~reganch
                   /\ Finds(t, Undefined) /\ sFoundText' = None

\* RegFind(NULL) deletes the found text only.
RegFindNull ==
    /\ sFoundText' = None
    /\ last' = [call |-> "RegFindNull", pos |-> Unset]
    /\ UNCHANGED <<bCompiled, compiled, startp, endp, text>>

Digits == <<"0", "1", "2", "3", "4", "5", "6", "7", "8", "9">>
DigitOf(c) == SelectInSeq(Digits, LAMBDA d : d = c) - 1

IsTagged(no) == startp[no] # Unset /\ endp[no] # Unset /\ endp[no] > startp[no]

\* What both loops make of a group: its length and its characters.
TagLen(no) == IF IsTagged(no) THEN endp[no] - startp[no] ELSE 0
Tag(no) == LET tagpos == startp[no] - startp[0]
           IN IF IsTagged(no) THEN SubSeq(sFoundText, tagpos + 1, tagpos + TagLen(no)) ELSE <<>>

\* Mutant of ReplaceLen: an escaped "&" is taken for the whole match.
RECURSIVE ReplaceLenNoEscape(_, _)
ReplaceLenNoEscape(rep, k) ==
    LET ch == Char(rep, k)
        nx == Char(rep, k + 1)
    IN CASE ch = NUL -> 0
         [] ch = "&" -> TagLen(0) + ReplaceLenNoEscape(rep, k + 1)
         [] ch = "\\" /\ Contains(Digits, nx) ->
               TagLen(DigitOf(nx)) + ReplaceLenNoEscape(rep, k + 2)
         [] ch = "\\" /\ nx = "\\" -> 1 + ReplaceLenNoEscape(rep, k + 2)
         [] OTHER -> 1 + ReplaceLenNoEscape(rep, k + 1)

\* The first loop, from position k on: the length of the replacement.
RECURSIVE ReplaceLen(_, _)
ReplaceLen(rep, k) ==
    LET ch == Char(rep, k)
        nx == Char(rep, k + 1)
    IN CASE ch = NUL -> 0
         [] ch = "&" -> TagLen(0) + ReplaceLen(rep, k + 1)
         [] ch = "\\" /\ Contains(Digits, nx) -> TagLen(DigitOf(nx)) + ReplaceLen(rep, k + 2)
         [] ch = "\\" /\ nx \in {"\\", "&"} -> 1 + ReplaceLen(rep, k + 2)
         [] OTHER -> 1 + ReplaceLen(rep, k + 1)

\* The second loop: what it writes into the buffer.
RECURSIVE ReplaceCopy(_, _)
ReplaceCopy(rep, k) ==
    LET ch == Char(rep, k)
        nx == Char(rep, k + 1)
    IN CASE ch = NUL -> <<>>
         [] ch = "&" -> Tag(0) \o ReplaceCopy(rep, k + 1)
         [] ch = "\\" /\ Contains(Digits, nx) -> Tag(DigitOf(nx)) \o ReplaceCopy(rep, k + 2)
         [] ch = "\\" /\ nx \in {"\\", "&"} -> <<nx>> \o ReplaceCopy(rep, k + 2)
         [] OTHER -> <<ch>> \o ReplaceCopy(rep, k + 1)

GetReplaceString(rep) ==
    /\ last' = IF sFoundText = None THEN [call |-> "Replace", arg |-> rep, str |-> None]
               ELSE [call |-> "Replace", arg |-> rep,
                     len |-> ReplaceLen(rep, 1), str |-> ReplaceCopy(rep, 1)]
    /\ UNCHANGED <<bCompiled, compiled, found>>

Next ==
    \/ \E re \in IF last.call = "none" THEN Patterns ELSE NextPatterns : RegComp(re)
    \/ \E t \in IF text = None THEN Texts ELSE NextTexts :
          RegFindNotCompiled(t) \/ RegFindNoProgram(t) \/ RegFindMustFails(t) \/ RegFind(t)
    \/ RegFindNull
    \/ \E rep \in Replacements : GetReplaceString(rep)

Spec == Init /\ [][Next]_vars
-----------------------------------------------------------------------------
ProgramBytes == FoldLeft(LAMBDA n, x : n + NodeBytes(x.op, x.str), 0, program)

\* RegComp accepts the legal patterns and no others, and its second pass
\* writes exactly the bytes that the first pass counted and that it allocated.
CompilesLegal ==
    /\ last.call = "RegComp" => (last.ok <=> LegalPattern(last.arg))
    /\ ProgramBytes = regsize

\* RegFind returns the first position at which the pattern that was last
\* compiled without error matches, for all its shortcuts (the required
\* string, the first character, the anchor) and for all of its backtracking;
\* only a search of the empty text may read past the end.
FindsLeftmost ==
    last.call = "RegFind" /\ program # <<>> =>
        LET starts == {p[1] : p \in MeaningOf(source, text)}
        IN \/ last.pos = IF starts = {} THEN Unset ELSE Min(starts)
           \/ last.pos = Undefined /\ text = <<>> /\ starts = {}

\* What a successful RegFind remembers is a match: the found text is one of
\* the whole pattern, and each group that took part holds a match of its own
\* part of the pattern, inside the found text.  A group that is repeated
\* holds its last repetition: at the end of the pattern it ends with the text
\* found.
GroupsMatch ==
    last.call = "RegFind" /\ sFoundText # None =>
        /\ <<startp[0], endp[0]>> \in MeaningOf(source, text)
        /\ sFoundText = SubSeq(text, startp[0] + 1, endp[0])
        /\ \A g \in 1..(NSUBEXP - 1) :
              \/ startp[g] = Unset /\ endp[g] = Unset
              \/ /\ startp[0] <= startp[g] /\ endp[g] <= endp[0]
                 /\ \E b \in GroupBody(source, g) :
                       /\ <<startp[g], endp[g]>> \in Meaning(source, b[1], b[2], text)
                       /\ (\A k \in (b[2] + 1)..Len(source) : source[k] \in REPN)
                             => endp[g] = endp[0]

\* Character k of a replacement is escaped: an odd number of backslashes is
\* in front of it and it is one that can be.
Escaped(rep, k) ==
    /\ rep[k] \in {"\\", "&"} \cup ToSet(Digits)
    /\ \E n \in 1..(k - 1) : /\ n % 2 = 1
                             /\ \A j \in 1..n : rep[k - j] = "\\"
                             /\ n < k - 1 => rep[k - n - 1] # "\\"

\* What character k of a replacement stands for.
StandsFor(rep, k) ==
    LET Group(no) == IF startp[no] = Unset THEN <<>>
                     ELSE SubSeq(text, startp[no] + 1, endp[no])
    IN CASE Escaped(rep, k) -> IF Contains(Digits, rep[k]) THEN Group(DigitOf(rep[k]))
                               ELSE <<rep[k]>>
         [] rep[k] = "&" /\ ~Escaped(rep, k) -> Group(0)
         [] OTHER -> IF k < Len(rep) /\ Escaped(rep, k + 1) THEN <<>> ELSE <<rep[k]>>

\* The two loops of GetReplaceString agree: the second fills exactly the
\* buffer the first computed the size of; and it puts in the parts of the
\* searched text that the groups stand for, whatever was compiled since.
ReplacesGroups ==
    last.call = "Replace" /\ last.str # None =>
        /\ Len(last.str) = last.len
        /\ last.str = FlattenSeq([k \in DOMAIN last.arg |-> StandsFor(last.arg, k)])
=============================================================================
