--------------------------- MODULE ExtractProofs ---------------------------
(***************************************************************************)
(* Proofs about Extract: the type invariant; under SafeUse, that the       *)
(* outputs stay whole, carry their own entry's permissions, and that       *)
(* extract implements SafeReplace; and, without crashes, that no call      *)
(* leaves a temporary file.                                                *)
(***************************************************************************)
EXTENDS Extract, TLAPS

\* The directory always has an entry slot for an output and for its tmp.
LEMMA NamesFacts ==
    ASSUME NEW o \in Outs
    PROVE  o \in Names /\ Tmp[o] \in Names /\ Tmp[o] # o
BY ExtractAssumption DEF Names

\* A free inode is one nothing refers to.
LEMMA FreeInodeFacts ==
    ASSUME FreeInodes # {}, NEW i, i = CHOOSE f \in FreeInodes : TRUE
    PROVE  /\ i \in Inodes /\ i # None
           /\ \A n \in Names : names[n] # i
           /\ \A p \in Procs : ino[p] # i
BY ExtractAssumption DEF FreeInodes

\* Copying one more block leaves the files well typed.
LEMMA WithBlockType ==
    ASSUME TypeOK, NEW p \in Procs, pc[p] = "copy", off[p] < Size[src[p]]
    PROVE  WithBlock(p) \in [Inodes -> [1..MaxSize -> Versions \cup {None}]]
BY ExtractAssumption DEF TypeOK, WithBlock, Active

\* The locals of a call, and every file, keep their types (for every use of
\* extract, safe or not).
LEMMA TypeStep == TypeOK /\ [Next]_vars => TypeOK'
<1> SUFFICES ASSUME TypeOK, [Next]_vars PROVE TypeOK'
  OBVIOUS
<1> USE ExtractAssumption
<1>1. ASSUME NEW p \in Procs, NEW o \in Outs, NEW v \in Versions,
             OpenCreate(p, o, v)
      PROVE  TypeOK'
  <2> DEFINE i == CHOOSE f \in FreeInodes : TRUE
  <2>1. i \in Inodes
    BY <1>1, FreeInodeFacts DEF OpenCreate
  <2>2. blocks' = [blocks EXCEPT ![i] = Empty] /\ mode' = [mode EXCEPT ![i] = CreateMode]
        /\ names' = [names EXCEPT ![Tmp[o]] = i] /\ Opened(p, o, v, i) /\ done' = done
    BY <1>1 DEF OpenCreate
  <2> HIDE DEF i
  <2>. QED
    BY <2>1, <2>2, NamesFacts DEF TypeOK, Opened, Active, Empty, CreateMode
<1>2. ASSUME NEW p \in Procs, NEW o \in Outs, NEW v \in Versions,
             OpenExisting(p, o, v)
      PROVE  TypeOK'
  BY <1>2, NamesFacts DEF TypeOK, OpenExisting, Opened, Active, files
<1>3. ASSUME NEW p \in Procs, NEW o \in Outs, OpenFails(p, o)
      PROVE  TypeOK'
  BY <1>3 DEF TypeOK, OpenFails, Return, Active, files
<1>4. ASSUME NEW p \in Procs, CopyBlock(p) PROVE TypeOK'
  BY <1>4 DEF TypeOK, CopyBlock, WithBlock, Active
<1>5. ASSUME NEW p \in Procs, ReadZero(p) PROVE TypeOK'
  BY <1>5 DEF TypeOK, ReadZero, Active, files
<1>6. ASSUME NEW p \in Procs, WriteFails(p) PROVE TypeOK'
  <2>1. blocks' \in [Inodes -> [1..MaxSize -> Versions \cup {None}]]
    <3>1. WithBlock(p) \in [Inodes -> [1..MaxSize -> Versions \cup {None}]]
      BY <1>6, WithBlockType DEF WriteFails
    <3>. QED
      BY <1>6, <3>1 DEF TypeOK, WriteFails
  <2>2. names' \in [Names -> Inodes \cup {None}]
    BY <1>6 DEF TypeOK, WriteFails
  <2>. QED
    BY <1>6, <2>1, <2>2 DEF TypeOK, WriteFails, Return, Active
<1>7. ASSUME NEW p \in Procs, Chmod(p) PROVE TypeOK'
  <2>1. mode' \in [Inodes -> Nat]
    BY <1>7, NamesFacts DEF TypeOK, Chmod, Active
  <2>. QED
    BY <1>7, <2>1 DEF TypeOK, Chmod, Active
<1>8. ASSUME NEW p \in Procs, Rename(p) PROVE TypeOK'
  <2>1. out[p] \in Outs
    BY <1>8 DEF TypeOK, Rename, Active
  <2>2. names' \in [Names -> Inodes \cup {None}] /\ done' \subseteq Outs
    BY <1>8, <2>1, NamesFacts DEF TypeOK, Rename
  <2>3. Return(p, "ok") /\ UNCHANGED <<blocks, mode>>
    BY <1>8 DEF Rename
  <2>. QED
    BY <2>2, <2>3 DEF TypeOK, Return, Active
<1>9. ASSUME NEW p \in Procs, RenameFails(p) PROVE TypeOK'
  BY <1>9, NamesFacts DEF TypeOK, RenameFails, Return, Active
<1>10. ASSUME NEW p \in Procs, Crash(p) PROVE TypeOK'
  BY <1>10 DEF TypeOK, Crash, Return, Active, files
<1>11. CASE UNCHANGED vars
  BY <1>11 DEF TypeOK, vars, Active
<1>. QED
  BY <1>1, <1>2, <1>3, <1>4, <1>5, <1>6, <1>7, <1>8, <1>9, <1>10, <1>11
     DEF Next, Step

\* In every use of extract, safe or not, the files and the locals of the
\* running calls keep their types, and no call copies past its entry's end.
THEOREM TypeCorrect == Spec => []TypeOK
<1>1. Init => TypeOK
  BY ExtractAssumption DEF Init, TypeOK, Empty, Active, CreateMode
<1>. QED
  BY <1>1, TypeStep, PTL DEF Spec
-----------------------------------------------------------------------------
\* The state-dependent part of the inductive invariant.
Safe == TmpDiscipline /\ OutputWhole /\ OutputKept

\* What the type invariant says of one call's locals.
LEMMA LocalFacts ==
    ASSUME TypeOK, NEW q \in Procs
    PROVE  /\ pc[q] # "idle" => /\ out[q] \in Outs /\ src[q] \in Versions
                                /\ ino[q] \in Inodes /\ ino[q] # None
                                /\ off[q] \in 0..MaxSize /\ off[q] <= Size[src[q]]
                                /\ Size[src[q]] \in 0..MaxSize
           /\ pc[q] = "idle" => out[q] = None /\ ino[q] = None
BY ExtractAssumption DEF TypeOK, Active

\* A call that starts sets its own locals and nobody else's.
LEMMA OpenedFacts ==
    ASSUME TypeOK, NEW p \in Procs, NEW o \in Outs, NEW v \in Versions, NEW i \in Inodes,
           Opened(p, o, v, i)
    PROVE  /\ pc'[p] = "copy" /\ out'[p] = o /\ src'[p] = v /\ ino'[p] = i /\ off'[p] = 0
           /\ \A q \in Procs : q # p => /\ pc'[q] = pc[q] /\ out'[q] = out[q]
                                        /\ src'[q] = src[q] /\ ino'[q] = ino[q]
                                        /\ off'[q] = off[q]
BY DEF TypeOK, Opened

\* A new temporary file: its inode is nobody's and it is empty.
LEMMA OpenCreateSafe ==
    ASSUME SafeUse, IndInv,
           NEW p \in Procs, NEW o \in Outs, NEW v \in Versions, OpenCreate(p, o, v)
    PROVE  Safe'
<1> DEFINE i == CHOOSE f \in FreeInodes : TRUE
<1>0. TypeOK /\ SoleOwner /\ OneName /\ TmpOwned /\ Copied /\ StaleFits /\ OutputWhole /\ OutputKept
  BY DEF IndInv, TmpDiscipline
<1>1. /\ i \in Inodes /\ i # None
      /\ \A n \in Names : names[n] # i
      /\ \A q \in Procs : ino[q] # i
  BY FreeInodeFacts DEF OpenCreate
<1>2. /\ blocks' = [blocks EXCEPT ![i] = Empty]
      /\ names' = [names EXCEPT ![Tmp[o]] = i]
      /\ Opened(p, o, v, i) /\ done' = done /\ names[Tmp[o]] = None
      /\ pc[p] = "idle" /\ \A q \in Procs : out[q] # o
  BY DEF OpenCreate, CanStart, SafeUse, Active
<1> HIDE DEF i
<1>3. /\ Tmp[o] \in Names /\ Tmp[o] \notin Outs
      /\ \A n \in Outs : /\ n \in Names /\ Tmp[n] \in Names /\ n # Tmp[o]
                         /\ n # o => Tmp[n] # Tmp[o]
  BY NamesFacts DEF SafeUse, TmpPrivate
<1>4. /\ \A n \in Names : names'[n] = IF n = Tmp[o] THEN i ELSE names[n]
      /\ \A j \in Inodes : blocks'[j] = IF j = i THEN Empty ELSE blocks[j]
      /\ \A n \in Names : names[n] # None => names[n] \in Inodes
      /\ done \subseteq Outs
  BY <1>0, <1>2 DEF TypeOK
<1>5. /\ pc'[p] = "copy" /\ out'[p] = o /\ src'[p] = v /\ ino'[p] = i /\ off'[p] = 0
      /\ \A q \in Procs : q # p => /\ pc'[q] = pc[q] /\ out'[q] = out[q]
                                   /\ src'[q] = src[q] /\ ino'[q] = ino[q]
                                   /\ off'[q] = off[q]
  BY <1>0, <1>1, <1>2, OpenedFacts
<1>6. SoleOwner'
  BY <1>0, <1>2, <1>5 DEF SoleOwner, Active
<1>7. OneName'
  BY <1>0, <1>1, <1>4 DEF OneName
<1>8. TmpOwned'
  BY <1>0, <1>2, <1>3, <1>4, <1>5, LocalFacts DEF TmpOwned, Active
<1>9. Copied'
  <2> SUFFICES ASSUME NEW q \in Procs, pc'[q] # "idle", NEW b \in 1..MaxSize
               PROVE  /\ b <= off'[q] => blocks'[ino'[q]][b] = src'[q]
                      /\ b > Size[src'[q]] => blocks'[ino'[q]][b] = None
                      /\ pc'[q] \in {"chmod", "rename"} => off'[q] = Size[src'[q]]
    BY <1>0, <1>5 DEF Copied, Active
  <2>1. CASE q = p
    BY <2>1, <1>1, <1>4, <1>5, ExtractAssumption DEF Empty
  <2>2. CASE q # p
    BY <2>2, <1>0, <1>1, <1>4, <1>5, LocalFacts DEF Copied, Active
  <2>. QED
    BY <2>1, <2>2
<1>10. StaleFits'
  <2> SUFFICES ASSUME NEW n \in Outs, names'[Tmp[n]] # None, \A q \in Procs : out'[q] # n
               PROVE  /\ "crash" \in Faults
                      /\ \A w \in Versions, b \in 1..MaxSize :
                            b > Size[w] => blocks'[names'[Tmp[n]]][b] = None
    BY DEF StaleFits
  <2>1. n # o /\ \A q \in Procs : out[q] # n
    BY <1>0, <1>2, <1>5, LocalFacts, ExtractAssumption
  <2>2. names'[Tmp[n]] = names[Tmp[n]] /\ names[Tmp[n]] \in Inodes /\ names[Tmp[n]] # i
    BY <2>1, <1>1, <1>3, <1>4
  <2>. QED
    BY <2>1, <2>2, <1>0, <1>4 DEF StaleFits
<1>11. OutputWhole' /\ OutputKept'
  BY <1>0, <1>1, <1>3, <1>4, <1>2 DEF OutputWhole, OutputKept
<1>. QED
  BY <1>6, <1>7, <1>8, <1>9, <1>10, <1>11 DEF Safe, TmpDiscipline

\* A call that returns clears its own locals and nobody else's.
LEMMA ReturnFacts ==
    ASSUME TypeOK, NEW p \in Procs, NEW r, Return(p, r)
    PROVE  /\ pc'[p] = "idle" /\ out'[p] = None /\ ino'[p] = None
           /\ \A q \in Procs : q # p => /\ pc'[q] = pc[q] /\ out'[q] = out[q]
                                        /\ src'[q] = src[q] /\ ino'[q] = ino[q]
                                        /\ off'[q] = off[q]
BY DEF TypeOK, Return

\* The temporary file a crash left is opened as it is: it has no owner yet,
\* and no block beyond the entry's end.
LEMMA OpenExistingSafe ==
    ASSUME SafeUse, IndInv,
           NEW p \in Procs, NEW o \in Outs, NEW v \in Versions, OpenExisting(p, o, v)
    PROVE  Safe'
<1> DEFINE i == names[Tmp[o]]
<1>0. TypeOK /\ SoleOwner /\ OneName /\ TmpOwned /\ Copied /\ StaleFits /\ OutputWhole /\ OutputKept
  BY DEF IndInv, TmpDiscipline
<1>1. /\ Opened(p, o, v, i) /\ UNCHANGED <<names, blocks, done>> /\ i # None
      /\ pc[p] = "idle" /\ \A q \in Procs : out[q] # o
  BY DEF OpenExisting, CanStart, SafeUse, Active, files
<1>2. i \in Inodes /\ \A n \in Outs : Tmp[n] \in Names /\ (n # o => Tmp[n] # Tmp[o])
  BY <1>0, <1>1, NamesFacts DEF TypeOK, SafeUse, TmpPrivate
<1>3. /\ pc'[p] = "copy" /\ out'[p] = o /\ src'[p] = v /\ ino'[p] = i /\ off'[p] = 0
      /\ \A q \in Procs : q # p => /\ pc'[q] = pc[q] /\ out'[q] = out[q]
                                   /\ src'[q] = src[q] /\ ino'[q] = ino[q]
                                   /\ off'[q] = off[q]
  BY <1>0, <1>1, <1>2, OpenedFacts
<1> HIDE DEF i
<1>4. SoleOwner'
  BY <1>0, <1>1, <1>3 DEF SoleOwner, Active
<1>5. OneName' /\ OutputWhole' /\ OutputKept'
  BY <1>0, <1>1 DEF OneName, OutputWhole, OutputKept
<1>6. TmpOwned'
  BY <1>0, <1>1, <1>3 DEF TmpOwned, Active, i
<1>7. Copied'
  <2> SUFFICES ASSUME NEW q \in Procs, pc'[q] # "idle", NEW b \in 1..MaxSize
               PROVE  /\ b <= off'[q] => blocks'[ino'[q]][b] = src'[q]
                      /\ b > Size[src'[q]] => blocks'[ino'[q]][b] = None
                      /\ pc'[q] \in {"chmod", "rename"} => off'[q] = Size[src'[q]]
    BY <1>0, <1>3 DEF Copied, Active
  <2>1. CASE q = p
    BY <2>1, <1>0, <1>1, <1>3, ExtractAssumption DEF StaleFits, i
  <2>2. CASE q # p
    BY <2>2, <1>0, <1>1, <1>3 DEF Copied, Active
  <2>. QED
    BY <2>1, <2>2
<1>8. StaleFits'
  BY <1>0, <1>1, <1>3, LocalFacts, ExtractAssumption DEF StaleFits
<1>. QED
  BY <1>4, <1>5, <1>6, <1>7, <1>8 DEF Safe, TmpDiscipline

\* A call that unlinks its temporary file and returns 0 (a failed write or a
\* failed rename) disturbs nobody, whatever it had written to that file.
LEMMA UnlinkSafe ==
    ASSUME SafeUse, IndInv, NEW p \in Procs, pc[p] # "idle", NEW r, Return(p, r),
           names' = [names EXCEPT ![Tmp[out[p]]] = None], done' = done,
           \A j \in Inodes : j # ino[p] => blocks'[j] = blocks[j]
    PROVE  Safe'
<1>0. TypeOK /\ SoleOwner /\ OneName /\ TmpOwned /\ Copied /\ StaleFits /\ OutputWhole /\ OutputKept
  BY DEF IndInv, TmpDiscipline
<1>1. /\ out[p] \in Outs /\ ino[p] \in Inodes /\ ino[p] # None
      /\ names[Tmp[out[p]]] = ino[p]
  BY <1>0, LocalFacts DEF TmpOwned, Active
<1>2. \A n \in Outs : /\ n \in Names /\ Tmp[n] \in Names /\ n # Tmp[out[p]]
                      /\ n # out[p] => Tmp[n] # Tmp[out[p]]
  BY <1>1, NamesFacts DEF SafeUse, TmpPrivate
<1>3. \A n \in Names : /\ names'[n] = IF n = Tmp[out[p]] THEN None ELSE names[n]
                       /\ names[n] # None => names[n] \in Inodes
                       /\ n # Tmp[out[p]] /\ names[n] # None => names[n] # ino[p]
  BY <1>0, <1>1, <1>2 DEF TypeOK, OneName
<1>4. /\ pc'[p] = "idle" /\ out'[p] = None /\ ino'[p] = None
      /\ \A q \in Procs : q # p => /\ pc'[q] = pc[q] /\ out'[q] = out[q]
                                   /\ src'[q] = src[q] /\ ino'[q] = ino[q]
                                   /\ off'[q] = off[q]
  BY <1>0, ReturnFacts
<1>5. \A q \in Procs : pc'[q] # "idle" =>
          /\ q # p /\ out[q] \in Outs /\ out[q] # out[p]
          /\ names[Tmp[out[q]]] = ino[q] /\ ino[q] \in Inodes /\ ino[q] # ino[p]
  BY <1>0, <1>1, <1>2, <1>3, <1>4, LocalFacts DEF SoleOwner, TmpOwned, Active
<1>6. SoleOwner' /\ TmpOwned' /\ OneName'
  BY <1>0, <1>2, <1>3, <1>4, <1>5, ExtractAssumption DEF SoleOwner, TmpOwned, OneName, Active
<1>7. Copied'
  BY <1>0, <1>4, <1>5 DEF Copied, Active
<1>8. StaleFits'
  BY <1>0, <1>1, <1>2, <1>3, <1>4 DEF StaleFits
<1>9. OutputWhole'
  BY <1>0, <1>2, <1>3 DEF OutputWhole
<1>10. OutputKept'
  <2>1. done \subseteq Outs
    BY <1>0 DEF TypeOK
  <2>. QED
    BY <2>1, <1>0, <1>2, <1>3 DEF OutputKept
<1>. QED
  BY <1>6, <1>7, <1>8, <1>9, <1>10 DEF Safe, TmpDiscipline

\* One more block is copied, into the call's own file.
LEMMA CopyBlockSafe ==
    ASSUME SafeUse, IndInv, NEW p \in Procs, CopyBlock(p)
    PROVE  Safe'
<1>0. TypeOK /\ SoleOwner /\ OneName /\ TmpOwned /\ Copied /\ StaleFits /\ OutputWhole /\ OutputKept
  BY DEF IndInv, TmpDiscipline
<1>1. /\ pc[p] = "copy" /\ off[p] < Size[src[p]] /\ UNCHANGED <<names, pc, out, src, ino, done>>
      /\ blocks' = [blocks EXCEPT ![ino[p]][off[p] + 1] = src[p]]
      /\ off' = [off EXCEPT ![p] = off[p] + 1]
  BY DEF CopyBlock, WithBlock
<1>2. /\ out[p] \in Outs /\ ino[p] \in Inodes /\ ino[p] # None /\ off[p] \in 0..MaxSize
      /\ names[Tmp[out[p]]] = ino[p] /\ Size[src[p]] \in 0..MaxSize
  BY <1>0, <1>1, LocalFacts DEF TmpOwned, Active
<1>3. \A n \in Outs : /\ n \in Names /\ Tmp[n] \in Names /\ n # Tmp[out[p]]
                      /\ n # out[p] => Tmp[n] # Tmp[out[p]]
  BY <1>2, NamesFacts DEF SafeUse, TmpPrivate
<1>4. \A n \in Names : /\ names[n] # None => names[n] \in Inodes
                       /\ n # Tmp[out[p]] /\ names[n] # None => names[n] # ino[p]
  BY <1>0, <1>2, <1>3 DEF TypeOK, OneName
<1>5. /\ \A j \in Inodes : j # ino[p] => blocks'[j] = blocks[j]
      /\ \A b \in 1..MaxSize :
            blocks'[ino[p]][b] = IF b = off[p] + 1 THEN src[p] ELSE blocks[ino[p]][b]
      /\ \A q \in Procs : off'[q] = IF q = p THEN off[p] + 1 ELSE off[q]
  BY <1>0, <1>1, <1>2, ExtractAssumption DEF TypeOK
<1>6. \A q \in Procs : q # p /\ pc[q] # "idle" =>
          ino[q] \in Inodes /\ ino[q] # ino[p]
  <2> SUFFICES ASSUME NEW q \in Procs, q # p, pc[q] # "idle"
               PROVE  ino[q] \in Inodes /\ ino[q] # ino[p]
    OBVIOUS
  <2>1. out[q] \in Outs /\ ino[q] \in Inodes /\ ino[q] # None /\ names[Tmp[out[q]]] = ino[q]
    BY <1>0, LocalFacts DEF TmpOwned, Active
  <2>2. out[q] # out[p]
    BY <1>0, <1>1 DEF SoleOwner, Active
  <2>. QED
    BY <2>1, <2>2, <1>3, <1>4
<1>7. SoleOwner' /\ TmpOwned' /\ OneName' /\ OutputKept'
  BY <1>0, <1>1 DEF SoleOwner, TmpOwned, OneName, OutputKept, Active
<1>8. Copied'
  <2> SUFFICES ASSUME NEW q \in Procs, pc[q] # "idle", NEW b \in 1..MaxSize
               PROVE  /\ b <= off'[q] => blocks'[ino[q]][b] = src[q]
                      /\ b > Size[src[q]] => blocks'[ino[q]][b] = None
                      /\ pc[q] \in {"chmod", "rename"} => off'[q] = Size[src[q]]
    BY <1>0, <1>1, <1>5 DEF Copied, Active
  <2>1. CASE q = p
    <3>1. MaxSize \in Nat
      BY ExtractAssumption
    <3>2. /\ b <= off[p] => blocks[ino[p]][b] = src[p]
          /\ b > Size[src[p]] => blocks[ino[p]][b] = None
      BY <1>0, <1>1 DEF Copied, Active
    <3>. QED
      BY <2>1, <3>1, <3>2, <1>1, <1>2, <1>5
  <2>2. CASE q # p
    BY <2>2, <1>0, <1>5, <1>6 DEF Copied, Active
  <2>. QED
    BY <2>1, <2>2
<1>9. StaleFits'
  <2> SUFFICES ASSUME NEW n \in Outs, names[Tmp[n]] # None, \A q \in Procs : out[q] # n
               PROVE  /\ "crash" \in Faults
                      /\ \A w \in Versions, b \in 1..MaxSize :
                            b > Size[w] => blocks'[names[Tmp[n]]][b] = None
    BY <1>1 DEF StaleFits
  <2>. QED
    BY <1>0, <1>3, <1>4, <1>5 DEF StaleFits
<1>10. OutputWhole'
  BY <1>0, <1>1, <1>3, <1>4, <1>5 DEF OutputWhole
<1>. QED
  BY <1>7, <1>8, <1>9, <1>10 DEF Safe, TmpDiscipline

\* The copy loop ends, or chmod runs: only the call's program counter moves.
LEMMA AdvanceSafe ==
    ASSUME SafeUse, IndInv, NEW p \in Procs, ReadZero(p) \/ Chmod(p)
    PROVE  Safe'
<1>0. TypeOK /\ SoleOwner /\ OneName /\ TmpOwned /\ Copied /\ StaleFits /\ OutputWhole /\ OutputKept
  BY DEF IndInv, TmpDiscipline
<1>1. /\ UNCHANGED <<names, blocks, out, src, ino, off, done>>
      /\ pc[p] # "idle" /\ \A q \in Procs : q # p => pc'[q] = pc[q]
      /\ off[p] = Size[src[p]]
  BY <1>0 DEF ReadZero, Chmod, TypeOK, SafeUse, files, Copied, Active
<1>. QED
  BY <1>0, <1>1 DEF Safe, TmpDiscipline, SoleOwner, OneName, TmpOwned, Copied, StaleFits,
                    OutputWhole, OutputKept, Active

\* The whole copy is renamed over the output.
LEMMA RenameSafe ==
    ASSUME SafeUse, IndInv, NEW p \in Procs, Rename(p)
    PROVE  Safe' /\ names'[out[p]] = ino[p] /\ blocks[ino[p]] = Whole(src[p])
<1>0. TypeOK /\ SoleOwner /\ OneName /\ TmpOwned /\ Copied /\ StaleFits /\ OutputWhole /\ OutputKept
  BY DEF IndInv, TmpDiscipline
<1>1. /\ pc[p] = "rename" /\ Return(p, "ok") /\ blocks' = blocks /\ done' = done \cup {out[p]}
  BY DEF Rename
<1>2. /\ out[p] \in Outs /\ ino[p] \in Inodes /\ ino[p] # None /\ src[p] \in Versions
      /\ names[Tmp[out[p]]] = ino[p]
  BY <1>0, <1>1, LocalFacts DEF TmpOwned, Active
<1>3. \A n \in Outs : /\ n \in Names /\ Tmp[n] \in Names /\ n # Tmp[out[p]]
                      /\ Tmp[n] # out[p]
                      /\ n # out[p] => Tmp[n] # Tmp[out[p]]
  BY <1>2, NamesFacts DEF SafeUse, TmpPrivate
<1>4. /\ \A n \in Names : names'[n] = IF n = Tmp[out[p]] THEN None
                                      ELSE IF n = out[p] THEN ino[p] ELSE names[n]
      /\ \A n \in Names : n # Tmp[out[p]] /\ names[n] # None => names[n] # ino[p]
  BY <1>0, <1>2, <1>3 DEF Rename, TypeOK, OneName
<1>5. blocks[ino[p]] = Whole(src[p])
  <2>1. blocks[ino[p]] \in [1..MaxSize -> Versions \cup {None}]
    BY <1>0, <1>2 DEF TypeOK
  <2>2. off[p] = Size[src[p]] /\ Size[src[p]] \in 0..MaxSize
    BY <1>0, <1>1, LocalFacts DEF Copied, Active
  <2>3. \A b \in 1..MaxSize : blocks[ino[p]][b] = IF b <= Size[src[p]] THEN src[p] ELSE None
    BY <1>0, <1>1, <2>2, ExtractAssumption DEF Copied, Active
  <2>. QED
    BY <2>1, <2>3 DEF Whole
<1>6. /\ pc'[p] = "idle" /\ out'[p] = None /\ ino'[p] = None
      /\ \A q \in Procs : q # p => /\ pc'[q] = pc[q] /\ out'[q] = out[q]
                                   /\ src'[q] = src[q] /\ ino'[q] = ino[q]
                                   /\ off'[q] = off[q]
  BY <1>0, <1>1, ReturnFacts
<1>7. \A q \in Procs : pc'[q] # "idle" =>
          /\ q # p /\ out[q] \in Outs /\ out[q] # out[p] /\ names[Tmp[out[q]]] = ino[q]
  BY <1>0, <1>1, <1>6, LocalFacts DEF SoleOwner, TmpOwned, Active
<1>8. SoleOwner' /\ TmpOwned'
  BY <1>0, <1>3, <1>4, <1>6, <1>7, ExtractAssumption DEF SoleOwner, TmpOwned, Active
<1>9. OneName'
  BY <1>0, <1>2, <1>3, <1>4 DEF OneName
<1>10. Copied'
  BY <1>0, <1>1, <1>6, <1>7 DEF Copied, Active
<1>11. StaleFits'
  BY <1>0, <1>1, <1>2, <1>3, <1>4, <1>6 DEF StaleFits
<1>12. OutputWhole'
  <2> SUFFICES ASSUME NEW o \in Outs, names'[o] # None
               PROVE  \E v \in Versions : blocks[names'[o]] = Whole(v)
    BY <1>1 DEF OutputWhole, Whole
  <2>1. CASE o = out[p]
    BY <2>1, <1>2, <1>3, <1>4, <1>5
  <2>2. CASE o # out[p]
    BY <2>2, <1>0, <1>3, <1>4 DEF OutputWhole
  <2>. QED
    BY <2>1, <2>2
<1>13. OutputKept'
  <2>1. done \subseteq Outs
    BY <1>0 DEF TypeOK
  <2>. QED
    BY <2>1, <1>0, <1>1, <1>2, <1>3, <1>4 DEF OutputKept
<1>. QED
  BY <1>2, <1>3, <1>4, <1>5, <1>8, <1>9, <1>10, <1>11, <1>12, <1>13 DEF Safe, TmpDiscipline

\* A crash leaves a temporary file that fits whatever is extracted next.
LEMMA CrashSafe ==
    ASSUME SafeUse, IndInv, NEW p \in Procs, Crash(p)
    PROVE  Safe'
<1>0. TypeOK /\ SoleOwner /\ OneName /\ TmpOwned /\ Copied /\ StaleFits /\ OutputWhole /\ OutputKept
  BY DEF IndInv, TmpDiscipline
<1>1. /\ pc[p] # "idle" /\ Return(p, "crashed") /\ UNCHANGED <<names, blocks, done>>
      /\ "crash" \in Faults /\ \A v, w \in Versions : Size[v] = Size[w]
  BY DEF Crash, Active, files, SafeUse, SameSizeRetry
<1>2. /\ out[p] \in Outs /\ src[p] \in Versions /\ names[Tmp[out[p]]] = ino[p]
  BY <1>0, <1>1, LocalFacts DEF TmpOwned, Active
<1>3. /\ pc'[p] = "idle" /\ out'[p] = None /\ ino'[p] = None
      /\ \A q \in Procs : q # p => /\ pc'[q] = pc[q] /\ out'[q] = out[q]
                                   /\ src'[q] = src[q] /\ ino'[q] = ino[q]
                                   /\ off'[q] = off[q]
  BY <1>0, <1>1, ReturnFacts
<1>4. SoleOwner' /\ TmpOwned' /\ OneName' /\ OutputWhole' /\ OutputKept'
  <2>1. SoleOwner' /\ TmpOwned'
    BY <1>0, <1>1, <1>3, LocalFacts, ExtractAssumption DEF SoleOwner, TmpOwned, Active
  <2>. QED
    BY <2>1, <1>0, <1>1 DEF OneName, OutputWhole, OutputKept
<1>5. Copied'
  BY <1>0, <1>1, <1>3 DEF Copied, Active
<1>6. StaleFits'
  <2> SUFFICES ASSUME NEW n \in Outs, names[Tmp[n]] # None, \A q \in Procs : out'[q] # n,
                      NEW w \in Versions, NEW b \in 1..MaxSize, b > Size[w]
               PROVE  blocks[names[Tmp[n]]][b] = None
    BY <1>1 DEF StaleFits
  <2>1. CASE n = out[p]
    BY <2>1, <1>0, <1>1, <1>2 DEF Copied, Active
  <2>2. CASE n # out[p]
    BY <2>2, <1>0, <1>3 DEF StaleFits
  <2>. QED
    BY <2>1, <2>2
<1>. QED
  BY <1>4, <1>5, <1>6 DEF Safe, TmpDiscipline

\* A failed write, and a failed rename, unlink the call's own file.
LEMMA FailureSafe ==
    ASSUME SafeUse, IndInv, NEW p \in Procs, WriteFails(p) \/ RenameFails(p)
    PROVE  Safe'
<1>1. TypeOK
  BY DEF IndInv
<1>2. CASE WriteFails(p)
  <2>1. pc[p] = "copy" /\ off[p] < Size[src[p]]
    BY <1>2 DEF WriteFails
  <2>2. ino[p] \in Inodes
    BY <2>1, <1>1, LocalFacts
  <2>3. \A j \in Inodes : j # ino[p] => WithBlock(p)[j] = blocks[j]
    BY <2>2, <1>1 DEF WithBlock, TypeOK
  <2>4. \A j \in Inodes : j # ino[p] => blocks'[j] = blocks[j]
    BY <2>3, <1>2 DEF WriteFails
  <2>. QED
    BY <2>1, <2>4, <1>2, UnlinkSafe DEF WriteFails
<1>3. CASE RenameFails(p)
  BY <1>3, UnlinkSafe DEF RenameFails
<1>. QED
  BY <1>2, <1>3

\* The inductive step, one case per action of Next.
LEMMA SafeStep ==
    ASSUME SafeUse, IndInv, [Next]_vars
    PROVE  Safe'
<1>1. ASSUME NEW p \in Procs, NEW o \in Outs, OpenFails(p, o)
      PROVE  Safe'
  <2>1. TypeOK /\ SoleOwner /\ OneName /\ TmpOwned /\ Copied /\ StaleFits /\ OutputWhole /\ OutputKept
    BY DEF IndInv, TmpDiscipline
  <2>2. /\ pc[p] = "idle" /\ UNCHANGED <<names, blocks, done>> /\ Return(p, "fail")
    BY <1>1 DEF OpenFails, CanStart, Active, files
  <2>3. /\ pc'[p] = pc[p] /\ out'[p] = out[p] /\ ino'[p] = ino[p]
        /\ \A q \in Procs : q # p => /\ pc'[q] = pc[q] /\ out'[q] = out[q]
                                     /\ src'[q] = src[q] /\ ino'[q] = ino[q]
                                     /\ off'[q] = off[q]
    BY <2>1, <2>2, ReturnFacts, LocalFacts
  <2>. QED
    BY <2>1, <2>2, <2>3
       DEF Safe, TmpDiscipline, SoleOwner, OneName, TmpOwned, Copied, StaleFits,
           OutputWhole, OutputKept, Active
<1>2. CASE UNCHANGED vars
  BY <1>2 DEF vars, IndInv, Safe, TmpDiscipline, SoleOwner, OneName, TmpOwned, Copied,
              StaleFits, OutputWhole, OutputKept, Active
<1>. QED
  BY <1>1, <1>2, OpenCreateSafe, OpenExistingSafe, CopyBlockSafe, AdvanceSafe, RenameSafe,
     FailureSafe, CrashSafe DEF Next, Step

\* Nothing is wrong before the first call.
LEMMA SafeInit == Init => IndInv
<1> SUFFICES ASSUME Init PROVE IndInv
  OBVIOUS
<1>1. TypeOK
  BY ExtractAssumption DEF Init, TypeOK, Empty, Active, CreateMode
<1>2. /\ \A n \in Names : names[n] = None
      /\ \A p \in Procs : pc[p] = "idle"
      /\ done = {}
  BY DEF Init
<1>3. SoleOwner /\ OneName /\ TmpOwned /\ Copied
  BY <1>2 DEF SoleOwner, OneName, TmpOwned, Copied, Active
<1>4. StaleFits /\ OutputWhole /\ OutputKept
  BY <1>2, NamesFacts DEF StaleFits, OutputWhole, OutputKept
<1>. QED
  BY <1>1, <1>3, <1>4 DEF IndInv, TmpDiscipline

\* With callers that use extract safely, whatever calls fail and wherever a
\* process dies: every output name is absent or one whole version of its
\* entry, no temporary file is shared, and what was extracted is not lost.
THEOREM Safety == SafeUse /\ Spec => [](OutputWhole /\ OutputKept /\ TmpDiscipline)
<1> SUFFICES ASSUME SafeUse
             PROVE  Spec => [](OutputWhole /\ OutputKept /\ TmpDiscipline)
  OBVIOUS
<1>1. IndInv /\ [Next]_vars => IndInv'
  BY TypeStep, SafeStep DEF IndInv, Safe
<1>2. IndInv => OutputWhole /\ OutputKept /\ TmpDiscipline
  BY DEF IndInv
<1>. QED
  BY <1>1, <1>2, SafeInit, PTL DEF Spec
-----------------------------------------------------------------------------
\* The call starts: SafeReplace begins the same job.
LEMMA BeginStep ==
    ASSUME SafeUse, IndInv, IndInv',
           NEW p \in Procs, NEW o \in Outs, NEW v \in Versions,
           OpenCreate(p, o, v) \/ OpenExisting(p, o, v)
    PROVE  Abs!Begin(p, o, v)
<1>0. TypeOK
  BY DEF IndInv
<1>1. PICK i \in Inodes : Opened(p, o, v, i)
  <2>1. CASE OpenCreate(p, o, v)
    BY <2>1, FreeInodeFacts DEF OpenCreate
  <2>2. CASE OpenExisting(p, o, v)
    BY <2>2, <1>0, NamesFacts DEF OpenExisting, TypeOK
  <2>. QED
    BY <2>1, <2>2
<1>2. pc[p] = "idle" /\ ret' = [ret EXCEPT ![p] = "none"]
  BY <1>1 DEF OpenCreate, OpenExisting, CanStart, Active, Opened
<1>3. JobOf[p] = None /\ JobOf' = [JobOf EXCEPT ![p] = <<o, v>>]
  <2>1. /\ pc'[p] = "copy" /\ out'[p] = o /\ src'[p] = v
        /\ \A q \in Procs : q # p => pc'[q] = pc[q] /\ out'[q] = out[q] /\ src'[q] = src[q]
    BY <1>0, <1>1, OpenedFacts
  <2>. QED
    BY <2>1, <1>2 DEF JobOf, Active
<1>4. \A n \in Outs : /\ names'[n] = names[n]
                      /\ names[n] # None => blocks'[names[n]] = blocks[names[n]]
  <2>1. CASE OpenCreate(p, o, v)
    <3> DEFINE j == CHOOSE f \in FreeInodes : TRUE
    <3>1. /\ blocks' = [blocks EXCEPT ![j] = Empty]
          /\ names' = [names EXCEPT ![Tmp[o]] = j]
          /\ j \in Inodes /\ \A n \in Names : names[n] # j
      BY <2>1, FreeInodeFacts DEF OpenCreate
    <3> HIDE DEF j
    <3>2. \A n \in Outs : n \in Names /\ n # Tmp[o]
      BY NamesFacts DEF SafeUse, TmpPrivate
    <3>. QED
      BY <3>1, <3>2, <1>0 DEF TypeOK
  <2>2. CASE OpenExisting(p, o, v)
    BY <2>2 DEF OpenExisting, files
  <2>. QED
    BY <2>1, <2>2
<1>5. TargetOf' = TargetOf
  BY <1>4 DEF TargetOf
<1>. QED
  BY <1>2, <1>3, <1>5 DEF Abs!Begin

\* The call returns 1: SafeReplace commits.
LEMMA CommitStep ==
    ASSUME SafeUse, IndInv, IndInv', NEW p \in Procs, Rename(p)
    PROVE  Abs!Commit(p)
<1>0. TypeOK /\ TmpOwned
  BY DEF IndInv, TmpDiscipline
<1>1. pc[p] = "rename" /\ Return(p, "ok") /\ blocks' = blocks
  BY DEF Rename
<1>2. out[p] \in Outs /\ src[p] \in Versions /\ ino[p] # None /\ Tmp[out[p]] \in Names
  BY <1>0, <1>1, LocalFacts, NamesFacts
<1>3. JobOf[p] = <<out[p], src[p]>> /\ JobOf[p] # None
  BY <1>1, <1>2, ExtractAssumption DEF JobOf, Active
<1>4. JobOf' = [JobOf EXCEPT ![p] = None] /\ ret' = [ret EXCEPT ![p] = "ok"]
  <2>1. ret' = [ret EXCEPT ![p] = "ok"]
    BY <1>1 DEF Return
  <2>. QED
    BY <2>1, <1>0, <1>1, ReturnFacts DEF JobOf, Active
<1>5. names'[out[p]] = ino[p] /\ blocks[ino[p]] = Whole(src[p])
  BY RenameSafe
<1>6. \A n \in Outs : n # out[p] => names'[n] = names[n]
  <2>1. \A n \in Outs : n \in Names /\ n # Tmp[out[p]]
    BY <1>2, NamesFacts DEF SafeUse, TmpPrivate
  <2>. QED
    BY <2>1, <1>0 DEF Rename, TypeOK
<1>7. TargetOf' = [TargetOf EXCEPT ![out[p]] = Whole(src[p])]
  BY <1>1, <1>2, <1>5, <1>6 DEF TargetOf
<1>8. Whole(src[p]) = Abs!WholeFile(src[p])
  BY DEF Whole, Abs!WholeFile
<1>. QED
  BY <1>3, <1>4, <1>7, <1>8 DEF Abs!Commit

\* The call returns 0 or its process dies: SafeReplace abandons the job.
LEMMA AbandonStep ==
    ASSUME SafeUse, IndInv, IndInv', NEW p \in Procs,
           \/ \E o \in Outs : OpenFails(p, o)
           \/ WriteFails(p) \/ RenameFails(p) \/ Crash(p)
    PROVE  Abs!Abandon(p)
<1>0. TypeOK /\ OneName /\ TmpOwned
  BY DEF IndInv, TmpDiscipline
<1>1. PICK r \in {"fail", "crashed"} : Return(p, r)
  BY DEF OpenFails, WriteFails, RenameFails, Crash
<1>2. ret' = [ret EXCEPT ![p] = r]
  BY <1>1 DEF Return
<1>3. JobOf' = [JobOf EXCEPT ![p] = None]
  BY <1>0, <1>1, ReturnFacts DEF JobOf, Active
<1>4. \A n \in Outs : /\ names'[n] = names[n]
                      /\ names[n] # None => blocks'[names[n]] = blocks[names[n]]
  <2>1. CASE (\E o \in Outs : OpenFails(p, o)) \/ Crash(p)
    BY <2>1 DEF OpenFails, Crash, files
  <2>2. CASE WriteFails(p) \/ RenameFails(p)
    <3>1. pc[p] # "idle" /\ names' = [names EXCEPT ![Tmp[out[p]]] = None]
      BY <2>2 DEF WriteFails, RenameFails
    <3>2. /\ out[p] \in Outs /\ ino[p] \in Inodes /\ ino[p] # None
          /\ names[Tmp[out[p]]] = ino[p]
      BY <3>1, <1>0, LocalFacts DEF TmpOwned, Active
    <3>3. \A n \in Outs : n \in Names /\ n # Tmp[out[p]] /\ Tmp[out[p]] \in Names
      BY <3>2, NamesFacts DEF SafeUse, TmpPrivate
    <3>4. \A n \in Outs : names'[n] = names[n] /\ names[n] # ino[p]
                          /\ (names[n] # None => names[n] \in Inodes)
      BY <3>1, <3>2, <3>3, <1>0 DEF TypeOK, OneName
    <3>5. \A j \in Inodes : j # ino[p] => WithBlock(p)[j] = blocks[j]
      BY <3>2, <1>0 DEF WithBlock, TypeOK
    <3>6. \A j \in Inodes : j # ino[p] => blocks'[j] = blocks[j]
      BY <3>5, <2>2 DEF WriteFails, RenameFails
    <3>. QED
      BY <3>4, <3>6
  <2>. QED
    BY <2>1, <2>2
<1>5. TargetOf' = TargetOf
  BY <1>4 DEF TargetOf
<1>. QED
  BY <1>2, <1>3, <1>5 DEF Abs!Abandon

\* Copying, the end of the copy and chmod are invisible to SafeReplace.
LEMMA CopyStep ==
    ASSUME SafeUse, IndInv, IndInv', NEW p \in Procs,
           CopyBlock(p) \/ ReadZero(p) \/ Chmod(p)
    PROVE  UNCHANGED <<JobOf, TargetOf, ret>>
<1>0. TypeOK /\ OneName /\ TmpOwned
  BY DEF IndInv, TmpDiscipline
<1>1. /\ pc[p] # "idle" /\ UNCHANGED <<names, out, src, ret>>
      /\ \A q \in Procs : pc'[q] = "idle" <=> pc[q] = "idle"
  BY <1>0 DEF CopyBlock, ReadZero, Chmod, files, TypeOK
<1>2. JobOf' = JobOf
  BY <1>1 DEF JobOf, Active
<1>3. \A n \in Outs : names[n] # None => blocks'[names[n]] = blocks[names[n]]
  <2>1. CASE CopyBlock(p)
    <3>1. /\ out[p] \in Outs /\ ino[p] \in Inodes /\ ino[p] # None
          /\ names[Tmp[out[p]]] = ino[p]
      BY <1>0, <1>1, LocalFacts DEF TmpOwned, Active
    <3>2. \A n \in Outs : n \in Names /\ n # Tmp[out[p]] /\ Tmp[out[p]] \in Names
      BY <3>1, NamesFacts DEF SafeUse, TmpPrivate
    <3>3. \A n \in Outs : names[n] # ino[p] /\ (names[n] # None => names[n] \in Inodes)
      BY <3>1, <3>2, <1>0 DEF TypeOK, OneName
    <3>4. \A j \in Inodes : j # ino[p] => blocks'[j] = blocks[j]
      BY <2>1, <3>1, <1>0 DEF CopyBlock, WithBlock, TypeOK
    <3>. QED
      BY <3>3, <3>4
  <2>2. CASE ReadZero(p) \/ Chmod(p)
    BY <2>2 DEF ReadZero, Chmod, files
  <2>. QED
    BY <2>1, <2>2
<1>4. TargetOf' = TargetOf
  BY <1>1, <1>3 DEF TargetOf
<1>. QED
  BY <1>1, <1>2, <1>4

\* Used safely, extract implements SafeReplace: it replaces an output in one
\* step by the whole entry and says so, or leaves it as it was.
THEOREM Implements == SafeUse /\ Spec => Refinement
<1> SUFFICES ASSUME SafeUse PROVE Spec => Refinement
  OBVIOUS
<1>1. Init => Abs!AInit
  <2> SUFFICES ASSUME Init PROVE Abs!AInit
    OBVIOUS
  <2>1. \A o \in Outs : names[o] = None
    BY NamesFacts DEF Init
  <2>. QED
    BY <2>1 DEF Init, Abs!AInit, JobOf, TargetOf, Active
<1>2. IndInv /\ [Next]_vars => IndInv'
  BY TypeStep, SafeStep DEF IndInv, Safe
<1>3. IndInv /\ IndInv' /\ [Next]_vars => [Abs!ANext]_(Abs!avars)
  <2> SUFFICES ASSUME IndInv, IndInv', [Next]_vars PROVE [Abs!ANext]_(Abs!avars)
    OBVIOUS
  <2>1. ASSUME NEW p \in Procs, NEW o \in Outs, NEW v \in Versions,
               OpenCreate(p, o, v) \/ OpenExisting(p, o, v)
        PROVE  Abs!ANext
    BY <2>1, BeginStep DEF Abs!ANext
  <2>2. ASSUME NEW p \in Procs, Rename(p) PROVE Abs!ANext
    BY <2>2, CommitStep DEF Abs!ANext
  <2>3. ASSUME NEW p \in Procs,
               \/ \E o \in Outs : OpenFails(p, o)
               \/ WriteFails(p) \/ RenameFails(p) \/ Crash(p)
        PROVE  Abs!ANext
    BY <2>3, AbandonStep DEF Abs!ANext
  <2>4. ASSUME NEW p \in Procs, CopyBlock(p) \/ ReadZero(p) \/ Chmod(p)
        PROVE  UNCHANGED Abs!avars
    BY <2>4, CopyStep DEF Abs!avars
  <2>5. CASE UNCHANGED vars
    BY <2>5 DEF vars, Abs!avars, JobOf, TargetOf, Active
  <2>. QED
    BY <2>1, <2>2, <2>3, <2>4, <2>5 DEF Next, Step
<1>. QED
  BY <1>1, <1>2, <1>3, SafeInit, PTL DEF Spec, Refinement, Abs!ASpec
-----------------------------------------------------------------------------
\* Every way out of a call but a crash takes its temporary name away.
LEMMA CleanStep ==
    ASSUME "crash" \notin Faults, TmpPrivate, TypeOK, NoTmpLeft, [Next]_vars
    PROVE  NoTmpLeft'
<1>1. \A n \in Outs : /\ n \in Names /\ Tmp[n] \in Names
                      /\ \A m \in Outs : n # Tmp[m] /\ (Tmp[n] = Tmp[m] => n = m)
  BY NamesFacts DEF TmpPrivate
<1>2. \A n \in Outs : n # None
  BY ExtractAssumption
<1>3. ASSUME NEW p \in Procs, NEW o \in Outs, NEW v \in Versions,
             OpenCreate(p, o, v) \/ OpenExisting(p, o, v)
      PROVE  NoTmpLeft'
  <2>1. PICK i \in Inodes : Opened(p, o, v, i)
    <3>1. CASE OpenCreate(p, o, v)
      BY <3>1, FreeInodeFacts DEF OpenCreate
    <3>2. CASE OpenExisting(p, o, v)
      BY <3>2, <1>1 DEF OpenExisting, TypeOK
    <3>. QED
      BY <1>3, <3>1, <3>2
  <2>2. out[p] = None /\ out'[p] = o /\ \A q \in Procs : q # p => out'[q] = out[q]
    <3>1. pc[p] = "idle"
      BY <1>3 DEF OpenCreate, OpenExisting, CanStart, Active
    <3>. QED
      BY <3>1, <2>1, OpenedFacts, LocalFacts
  <2>3. \A n \in Outs : n # o => names'[Tmp[n]] = names[Tmp[n]]
    BY <1>1, <1>3 DEF OpenCreate, OpenExisting, files, TypeOK
  <2>. QED
    BY <2>2, <2>3, <1>2 DEF NoTmpLeft
<1>4. ASSUME NEW p \in Procs, NEW o \in Outs, OpenFails(p, o)
      PROVE  NoTmpLeft'
  <2>1. pc[p] = "idle" /\ names' = names /\ Return(p, "fail")
    BY <1>4 DEF OpenFails, CanStart, Active, files
  <2>2. \A q \in Procs : out'[q] = out[q]
    BY <2>1, ReturnFacts, LocalFacts
  <2>. QED
    BY <2>1, <2>2 DEF NoTmpLeft
<1>5. ASSUME NEW p \in Procs, CopyBlock(p) \/ ReadZero(p) \/ Chmod(p)
      PROVE  NoTmpLeft'
  BY <1>5 DEF NoTmpLeft, CopyBlock, ReadZero, Chmod, files
<1>6. ASSUME NEW p \in Procs, WriteFails(p) \/ Rename(p) \/ RenameFails(p)
      PROVE  NoTmpLeft'
  <2>1. PICK r \in {"ok", "fail"} : Return(p, r)
    BY <1>6 DEF WriteFails, Rename, RenameFails
  <2>2. pc[p] # "idle"
    BY <1>6 DEF WriteFails, Rename, RenameFails
  <2>3. out[p] \in Outs
    BY <2>2, LocalFacts
  <2>4. \A q \in Procs : q # p => out'[q] = out[q]
    BY <2>1, ReturnFacts
  <2>5. /\ names'[Tmp[out[p]]] = None
        /\ \A n \in Outs : n # out[p] => names'[Tmp[n]] = names[Tmp[n]]
    BY <2>3, <1>1, <1>6 DEF WriteFails, Rename, RenameFails, TypeOK
  <2>. QED
    BY <2>3, <2>4, <2>5 DEF NoTmpLeft
<1>7. ASSUME NEW p \in Procs, Crash(p)
      PROVE  NoTmpLeft'
  BY <1>7 DEF Crash
<1>8. CASE UNCHANGED vars
  BY <1>8 DEF vars, NoTmpLeft
<1>. QED
  BY <1>3, <1>4, <1>5, <1>6, <1>7, <1>8 DEF Next, Step

\* As long as no process dies inside a call, whatever system calls fail and
\* however calls for one name overlap, only a running call has a temporary
\* file.
THEOREM TmpCleaned == "crash" \notin Faults /\ TmpPrivate /\ Spec => []NoTmpLeft
<1> SUFFICES ASSUME "crash" \notin Faults, TmpPrivate PROVE Spec => []NoTmpLeft
  OBVIOUS
<1>1. Init => TypeOK /\ NoTmpLeft
  <2>1. Init => NoTmpLeft
    BY NamesFacts DEF Init, NoTmpLeft
  <2>. QED
    BY <2>1, SafeInit DEF IndInv
<1>2. TypeOK /\ NoTmpLeft /\ [Next]_vars => (TypeOK /\ NoTmpLeft)'
  BY TypeStep, CleanStep
<1>. QED
  BY <1>1, <1>2, PTL DEF Spec
-----------------------------------------------------------------------------
\* A running call's file is no output, no other call's file and no other tmp.
LEMMA OwnFile ==
    ASSUME SafeUse, IndInv, NEW p \in Procs, pc[p] # "idle"
    PROVE  /\ out[p] \in Outs /\ src[p] \in Versions /\ ino[p] \in Inodes /\ ino[p] # None
           /\ names[Tmp[out[p]]] = ino[p]
           /\ \A n \in Names : n # Tmp[out[p]] => names[n] # ino[p]
           /\ \A n \in Outs : /\ n \in Names /\ Tmp[n] \in Names
                              /\ n # Tmp[out[p]] /\ Tmp[n] # out[p]
                              /\ n # out[p] => Tmp[n] # Tmp[out[p]]
           /\ \A q \in Procs : q # p /\ pc[q] # "idle" => out[q] # out[p] /\ ino[q] # ino[p]
<1>0. TypeOK /\ SoleOwner /\ OneName /\ TmpOwned
  BY DEF IndInv, TmpDiscipline
<1>1. /\ out[p] \in Outs /\ src[p] \in Versions /\ ino[p] \in Inodes /\ ino[p] # None
      /\ names[Tmp[out[p]]] = ino[p]
  BY <1>0, LocalFacts DEF TmpOwned, Active
<1>2. \A n \in Outs : /\ n \in Names /\ Tmp[n] \in Names
                      /\ n # Tmp[out[p]] /\ Tmp[n] # out[p]
                      /\ n # out[p] => Tmp[n] # Tmp[out[p]]
  BY <1>1, NamesFacts DEF SafeUse, TmpPrivate
<1>3. \A n \in Names : n # Tmp[out[p]] => names[n] # ino[p]
  BY <1>0, <1>1, <1>2 DEF OneName
<1>4. ASSUME NEW q \in Procs, q # p, pc[q] # "idle"
      PROVE  out[q] # out[p] /\ ino[q] # ino[p]
  <2>1. out[q] # out[p]
    BY <1>0, <1>4 DEF SoleOwner, Active
  <2>2. out[q] \in Outs /\ names[Tmp[out[q]]] = ino[q]
    BY <1>0, <1>4, LocalFacts DEF TmpOwned, Active
  <2>. QED
    BY <2>1, <2>2, <1>2, <1>3
<1>. QED
  BY <1>1, <1>2, <1>3, <1>4

\* A call that starts finds a file with the mode of its creation.
LEMMA OpenModes ==
    ASSUME SafeUse, IndInv, TmpModes, OutputMode,
           NEW p \in Procs, NEW o \in Outs, NEW v \in Versions,
           OpenCreate(p, o, v) \/ OpenExisting(p, o, v)
    PROVE  TmpModes' /\ OutputMode'
<1>0. TypeOK
  BY DEF IndInv
<1>1. pc[p] = "idle" /\ out[p] = None /\ \A q \in Procs : out[q] # o
  <2>1. pc[p] = "idle" /\ \A q \in Procs : out[q] # o
    BY DEF OpenCreate, OpenExisting, CanStart, Active, SafeUse
  <2>. QED
    BY <2>1, <1>0, LocalFacts
<1>2. PICK i \in Inodes :
         /\ Opened(p, o, v, i)
         /\ \A n \in Names : names'[n] = IF n = Tmp[o] THEN i ELSE names[n]
         /\ \A w \in Versions : ModeOf[w] = 0 => mode'[i] = CreateMode
         /\ \A j \in Inodes : j # i => blocks'[j] = blocks[j] /\ mode'[j] = mode[j]
         /\ \A n \in Names : names[n] = i => n = Tmp[o]
         /\ \A q \in Procs : pc[q] # "idle" => ino[q] # i
  <2>1. CASE OpenCreate(p, o, v)
    <3> DEFINE i == CHOOSE f \in FreeInodes : TRUE
    <3>1. /\ i \in Inodes /\ \A n \in Names : names[n] # i
          /\ \A q \in Procs : ino[q] # i
      BY <2>1, FreeInodeFacts DEF OpenCreate
    <3>2. /\ names' = [names EXCEPT ![Tmp[o]] = i] /\ blocks' = [blocks EXCEPT ![i] = Empty]
          /\ mode' = [mode EXCEPT ![i] = CreateMode] /\ Opened(p, o, v, i)
      BY <2>1 DEF OpenCreate
    <3> HIDE DEF i
    <3>3. mode'[i] = CreateMode
      BY <3>1, <3>2, <1>0 DEF TypeOK
    <3>4. \A w \in Versions : ModeOf[w] = 0 => mode'[i] = CreateMode
      BY <3>3
    <3>5. /\ \A n \in Names : names'[n] = IF n = Tmp[o] THEN i ELSE names[n]
          /\ \A j \in Inodes : j # i => blocks'[j] = blocks[j] /\ mode'[j] = mode[j]
      BY <3>1, <3>2, <1>0, NamesFacts DEF TypeOK
    <3>. QED
      BY <3>1, <3>2, <3>4, <3>5
  <2>2. CASE OpenExisting(p, o, v)
    <3> DEFINE i == names[Tmp[o]]
    <3>1. i \in Inodes /\ i # None /\ Opened(p, o, v, i) /\ UNCHANGED <<names, blocks, mode>>
      BY <2>2, <1>0, NamesFacts DEF OpenExisting, files, TypeOK
    <3>2. \A w \in Versions : ModeOf[w] = 0 => mode'[i] = CreateMode
      BY <3>1, <1>1 DEF TmpModes, AsCreated
    <3>3. \A n \in Names : names[n] = i => n = Tmp[o]
      BY <3>1, NamesFacts DEF IndInv, TmpDiscipline, OneName
    <3>4. ASSUME NEW q \in Procs, pc[q] # "idle" PROVE ino[q] # i
      <4>1. out[q] # o
        BY <1>1
      <4>. QED
        BY <3>4, <4>1, OwnFile, NamesFacts
    <3>. QED
      BY <3>1, <3>2, <3>3, <3>4
  <2>. QED
    BY <2>1, <2>2
<1>3. /\ pc'[p] = "copy" /\ out'[p] = o /\ src'[p] = v /\ ino'[p] = i
      /\ \A q \in Procs : q # p => /\ pc'[q] = pc[q] /\ out'[q] = out[q]
                                   /\ src'[q] = src[q] /\ ino'[q] = ino[q]
  BY <1>0, <1>2, OpenedFacts
<1>4. \A n \in Outs : /\ n \in Names /\ n # Tmp[o] /\ Tmp[n] \in Names
                      /\ n # o => Tmp[n] # Tmp[o]
                      /\ names[n] # None => names[n] \in Inodes
                      /\ names[Tmp[n]] # None => names[Tmp[n]] \in Inodes
  BY <1>0, NamesFacts DEF SafeUse, TmpPrivate, TypeOK
<1>5. ASSUME NEW q \in Procs
      PROVE  /\ pc'[q] \in {"copy", "chmod"} => AsCreated(ino[q])' \/ q = p
             /\ pc'[q] = "rename" => mode'[ino'[q]] = FinalMode(src'[q])
  BY <1>0, <1>2, <1>3, LocalFacts DEF TmpModes, AsCreated
<1>6. ASSUME NEW n \in Outs, names'[Tmp[n]] # None, \A q \in Procs : out'[q] # n
      PROVE  AsCreated(names[Tmp[n]])'
  BY <1>1, <1>2, <1>3, <1>4, <1>6, ExtractAssumption DEF TmpModes, AsCreated
<1>7. TmpModes'
  BY <1>2, <1>3, <1>5, <1>6 DEF TmpModes, AsCreated
<1>8. OutputMode'
  BY <1>2, <1>4 DEF OutputMode
<1>. QED
  BY <1>7, <1>8

\* The loop ends and chmod sets the entry's permissions, on the call's file.
LEMMA ChmodModes ==
    ASSUME SafeUse, SafeModes, IndInv, TmpModes, OutputMode,
           NEW p \in Procs, Chmod(p)
    PROVE  TmpModes' /\ OutputMode'
<1>0. TypeOK
  BY DEF IndInv
<1>1. /\ pc[p] = "chmod" /\ pc' = [pc EXCEPT ![p] = "rename"]
      /\ UNCHANGED <<names, blocks, out, src, ino>>
  BY DEF Chmod
<1>2. /\ out[p] \in Outs /\ src[p] \in Versions /\ ino[p] \in Inodes /\ ino[p] # None
      /\ names[Tmp[out[p]]] = ino[p]
      /\ \A n \in Outs : /\ names[n] # ino[p]
                         /\ n # out[p] => names[Tmp[n]] # ino[p]
      /\ \A q \in Procs : q # p /\ pc[q] # "idle" => ino[q] # ino[p]
  BY <1>1, OwnFile
<1>3. mode' = IF ModeOf[src[p]] # 0 THEN [mode EXCEPT ![ino[p]] = ModeOf[src[p]]] ELSE mode
  BY <1>1, <1>2 DEF Chmod, SafeModes
<1>4. /\ \A j \in Inodes : j # ino[p] => mode'[j] = mode[j]
      /\ mode'[ino[p]] = FinalMode(src[p])
  BY <1>0, <1>1, <1>2, <1>3 DEF TypeOK, TmpModes, AsCreated, FinalMode
<1>5. ASSUME NEW q \in Procs
      PROVE  /\ pc'[q] \in {"copy", "chmod"} => AsCreated(ino[q])'
             /\ pc'[q] = "rename" => mode'[ino'[q]] = FinalMode(src'[q])
  <2>1. CASE q = p
    BY <2>1, <1>0, <1>1, <1>4 DEF TypeOK
  <2>2. CASE q # p
    <3>1. pc'[q] = pc[q]
      BY <2>2, <1>0, <1>1 DEF TypeOK
    <3>2. pc[q] # "idle" => ino[q] \in Inodes
      BY <1>0, LocalFacts
    <3>. QED
      BY <2>2, <3>1, <3>2, <1>1, <1>2, <1>4 DEF TmpModes, AsCreated
  <2>. QED
    BY <2>1, <2>2
<1>6. ASSUME NEW n \in Outs, names[Tmp[n]] # None, \A q \in Procs : out[q] # n
      PROVE  AsCreated(names[Tmp[n]])'
  <2>1. names[Tmp[n]] \in Inodes /\ names[Tmp[n]] # ino[p]
    BY <1>0, <1>2, <1>6, NamesFacts DEF TypeOK
  <2>. QED
    BY <2>1, <1>1, <1>4, <1>6 DEF TmpModes, AsCreated
<1>7. TmpModes'
  BY <1>1, <1>5, <1>6 DEF TmpModes, AsCreated
<1>8. OutputMode'
  <2>1. \A n \in Outs : names[n] # None => names[n] \in Inodes
    BY <1>0, NamesFacts DEF TypeOK
  <2>. QED
    BY <2>1, <1>1, <1>2, <1>4 DEF OutputMode
<1>. QED
  BY <1>7, <1>8

\* A call that leaves its file behind: the name is taken over by the output
\* (rename), unlinked (failure) or kept (crash).  No mode changes.
LEMMA LeaveModes ==
    ASSUME SafeUse, SafeModes, IndInv, TmpModes, OutputMode, NEW p \in Procs,
           WriteFails(p) \/ Rename(p) \/ RenameFails(p) \/ Crash(p)
    PROVE  TmpModes' /\ OutputMode'
<1>0. TypeOK
  BY DEF IndInv
<1>1. PICK r \in {"ok", "fail", "crashed"} : Return(p, r)
  BY DEF WriteFails, Rename, RenameFails, Crash
<1>2. pc[p] # "idle" /\ mode' = mode
  BY DEF WriteFails, Rename, RenameFails, Crash, Active, files
<1>3. /\ out[p] \in Outs /\ src[p] \in Versions /\ ino[p] \in Inodes /\ ino[p] # None
      /\ names[Tmp[out[p]]] = ino[p]
      /\ \A n \in Outs : /\ n \in Names /\ Tmp[n] \in Names
                         /\ n # Tmp[out[p]] /\ Tmp[n] # out[p]
                         /\ n # out[p] => Tmp[n] # Tmp[out[p]]
      /\ \A n \in Names : n # Tmp[out[p]] => names[n] # ino[p]
  BY <1>2, OwnFile
<1>4. /\ pc'[p] = "idle" /\ out'[p] = None
      /\ \A q \in Procs : q # p => /\ pc'[q] = pc[q] /\ out'[q] = out[q]
                                   /\ src'[q] = src[q] /\ ino'[q] = ino[q]
  BY <1>0, <1>1, ReturnFacts
<1>5. \A j \in Inodes : j # ino[p] => blocks'[j] = blocks[j]
  <2>1. \A j \in Inodes : j # ino[p] => WithBlock(p)[j] = blocks[j]
    BY <1>0, <1>3 DEF WithBlock, TypeOK
  <2>. QED
    BY <2>1 DEF WriteFails, Rename, RenameFails, Crash, files
<1>6. /\ \A n \in Outs : n # out[p] => names'[n] = names[n] /\ names'[Tmp[n]] = names[Tmp[n]]
      /\ ~Rename(p) => names'[out[p]] = names[out[p]]
      /\ ~Crash(p) => names'[Tmp[out[p]]] = None
      /\ Crash(p) => names'[Tmp[out[p]]] = ino[p]
  BY <1>0, <1>3 DEF WriteFails, Rename, RenameFails, Crash, files, TypeOK
<1>7. ASSUME NEW n \in Outs, names'[Tmp[n]] # None, \A q \in Procs : out'[q] # n
      PROVE  AsCreated(names[Tmp[n]])'
  <2>1. CASE n # out[p]
    BY <2>1, <1>2, <1>4, <1>6, <1>7 DEF TmpModes, AsCreated
  <2>2. CASE n = out[p]
    <3>1. Crash(p) /\ names'[Tmp[n]] = ino[p]
      BY <2>2, <1>6, <1>7
    <3>2. \A v \in Versions : ModeOf[v] = 0 => FinalMode(src[p]) = CreateMode
      BY <3>1, <1>3 DEF Crash, SafeModes
    <3>3. pc[p] \in {"copy", "chmod", "rename"}
      BY <1>0, <1>2 DEF TypeOK
    <3>. QED
      BY <3>1, <3>2, <3>3, <1>2 DEF TmpModes, AsCreated
  <2>. QED
    BY <2>1, <2>2
<1>8. TmpModes'
  BY <1>2, <1>4, <1>7 DEF TmpModes, AsCreated
<1>9. ASSUME NEW n \in Outs, names'[n] # None
      PROVE  \E v \in Versions : /\ blocks'[names'[n]] = Whole(v)
                                 /\ mode'[names'[n]] = FinalMode(v)
  <2>1. CASE n = out[p] /\ Rename(p)
    <3>1. names'[n] = ino[p] /\ blocks[ino[p]] = Whole(src[p]) /\ blocks' = blocks
      BY <2>1, RenameSafe DEF Rename
    <3>2. mode[ino[p]] = FinalMode(src[p])
      BY <2>1 DEF Rename, TmpModes
    <3>. QED
      BY <3>1, <3>2, <1>2, <1>3
  <2>2. CASE n # out[p] \/ ~Rename(p)
    <3>1. names'[n] = names[n] /\ names[n] # ino[p]
      BY <2>2, <1>3, <1>6
    <3>2. names[n] \in Inodes
      BY <3>1, <1>0, <1>3, <1>9 DEF TypeOK
    <3>. QED
      BY <3>1, <3>2, <1>2, <1>5, <1>9 DEF OutputMode
  <2>. QED
    BY <2>1, <2>2
<1>10. OutputMode'
  BY <1>9 DEF OutputMode, Whole, FinalMode
<1>. QED
  BY <1>8, <1>10

\* The inductive step for the permissions, one case per action of Next.
LEMMA ModeStep ==
    ASSUME SafeUse, SafeModes, IndInv, TmpModes, OutputMode, [Next]_vars
    PROVE  TmpModes' /\ OutputMode'
<1>0. TypeOK
  BY DEF IndInv
<1>1. ASSUME NEW p \in Procs, NEW o \in Outs, OpenFails(p, o)
      PROVE  TmpModes' /\ OutputMode'
  <2>1. pc[p] = "idle" /\ UNCHANGED <<names, blocks, mode>> /\ Return(p, "fail")
    BY <1>1 DEF OpenFails, CanStart, Active, files
  <2>2. /\ pc'[p] = pc[p] /\ out'[p] = out[p]
        /\ \A q \in Procs : q # p => /\ pc'[q] = pc[q] /\ out'[q] = out[q]
                                     /\ src'[q] = src[q] /\ ino'[q] = ino[q]
    BY <2>1, <1>0, ReturnFacts, LocalFacts
  <2>. QED
    BY <2>1, <2>2 DEF TmpModes, AsCreated, OutputMode
<1>2. ASSUME NEW p \in Procs, CopyBlock(p)
      PROVE  TmpModes' /\ OutputMode'
  <2>1. pc[p] = "copy" /\ UNCHANGED <<names, mode, pc, out, src, ino>>
    BY <1>2 DEF CopyBlock
  <2>2. ino[p] \in Inodes /\ \A n \in Outs : n \in Names /\ names[n] # ino[p]
    BY <2>1, OwnFile
  <2>3. \A j \in Inodes : j # ino[p] => blocks'[j] = blocks[j]
    BY <2>2, <1>0, <1>2 DEF CopyBlock, WithBlock, TypeOK
  <2>4. \A n \in Outs : names[n] # None => blocks'[names[n]] = blocks[names[n]]
    BY <2>2, <2>3, <1>0 DEF TypeOK
  <2>. QED
    BY <2>1, <2>4 DEF TmpModes, AsCreated, OutputMode
<1>3. ASSUME NEW p \in Procs, ReadZero(p)
      PROVE  TmpModes' /\ OutputMode'
  <2>1. /\ pc[p] = "copy" /\ UNCHANGED <<names, blocks, mode, out, src, ino>>
        /\ pc'[p] = "chmod" /\ \A q \in Procs : q # p => pc'[q] = pc[q]
    BY <1>0, <1>3 DEF ReadZero, files, TypeOK
  <2>. QED
    BY <2>1 DEF TmpModes, AsCreated, OutputMode
<1>4. CASE UNCHANGED vars
  BY <1>4 DEF vars, TmpModes, AsCreated, OutputMode
<1>. QED
  BY <1>1, <1>2, <1>3, <1>4, OpenModes, ChmodModes, LeaveModes DEF Next, Step

\* Used safely, and with a chmod that works, every output is wholly one
\* version of its entry and has that very version's permissions: no other
\* entry's, no crashed call's, and never the content of one version with the
\* permissions of another.
THEOREM Permissions == SafeUse /\ SafeModes /\ Spec => []OutputMode
<1> SUFFICES ASSUME SafeUse, SafeModes PROVE Spec => []OutputMode
  OBVIOUS
<1> DEFINE Inv == IndInv /\ TmpModes /\ OutputMode
<1>1. Init => Inv
  <2>1. Init => TmpModes /\ OutputMode
    BY NamesFacts DEF Init, TmpModes, OutputMode
  <2>. QED
    BY <2>1, SafeInit
<1>2. Inv /\ [Next]_vars => Inv'
  BY TypeStep, SafeStep, ModeStep DEF IndInv, Safe
<1>3. Inv => OutputMode
  OBVIOUS
<1>. QED
  BY <1>1, <1>2, <1>3, PTL DEF Spec
=============================================================================
