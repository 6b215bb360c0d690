--------------------------- MODULE UnzipAllProofs ---------------------------
(***************************************************************************)
(* Proofs about the entry points of bkUnzip, for every archive: they keep  *)
(* to the protocol of the reader object, so that everything proved of the  *)
(* object holds of them; zipFiles and unzip use every entry they can reach *)
(* once and in order; unzipFile and toString work on the first entry of    *)
(* the name; and unzip keeps, of the entries of one name, the last.        *)
(***************************************************************************)
EXTENDS UnzipAll, ZipReaderProofs

\* Only the programs that take a name search, and for that name.
Protocol ==
    /\ job \in {"one", "text"} => want \in Names
    /\ dpc \in {"search", "searching"} => job \in {"one", "text"}
    /\ job = "calls" <=> dpc = "calls"

\* Every step of a program makes at most one call, or one step of a search,
\* of the reader.
LEMMA ReaderStep ==
    ASSUME Protocol, [Next]_vars
    PROVE  [ZNext]_zvars /\ Protocol'
<1>1. CASE CallOpen
  BY <1>1 DEF CallOpen, ZNext, Protocol, Finish
<1>2. CASE CallSearch
  BY <1>2 DEF CallSearch, ZNext, Protocol, Finish
<1>3. CASE Searching
  BY <1>3 DEF Searching, ZNext, Protocol, Finish
<1>4. CASE CallOpenFile
  BY <1>4 DEF CallOpenFile, ZNext, Protocol, Finish
<1>5. CASE UseEntry
  <2>1. UNCHANGED <<zvars, job, want>> /\ dpc = "use" /\ dpc' \in {"close", "done"}
    BY <1>5 DEF UseEntry, Finish
  <2>. QED
    BY <2>1 DEF Protocol
<1>6. CASE CallCloseFile \/ CallNextFile
  BY <1>6 DEF CallCloseFile, CallNextFile, ZNext, Protocol, Finish
<1>7. CASE AnyCall
  BY <1>7 DEF AnyCall, dvars, Protocol
<1>8. CASE Done \/ UNCHANGED vars
  BY <1>8 DEF Done, vars, dvars, Protocol
<1>. QED
  BY <1>1, <1>2, <1>3, <1>4, <1>5, <1>6, <1>7, <1>8 DEF Next, Call

\* The programs are clients of the reader object: whatever is true of the
\* object in every use of it is true of it in theirs.
THEOREM DrivesReader == Spec => ZSpec
<1>1. Init => ZInit /\ Protocol
  BY UnzipAllAssumption DEF Init, Protocol
<1>. QED
  BY <1>1, ReaderStep, PTL DEF Spec, ZSpec

\* So in every program the cursor is sound, an open file is that of one entry
\* and search_file finds the first entry of the name.
THEOREM ReaderInUse == Spec => [](CursorSound /\ FileSound) /\ SearchCorrect
BY DrivesReader, CursorAlwaysSound, SearchesRight, PTL
-----------------------------------------------------------------------------
\* What zipFiles and unzip know on the way: the entries used are the first
\* ones, all usable; the cursor is on the next one to use, or on the last one
\* used; and when they stop there is no usable one left.
Walk ==
    job \in {"list", "all"} =>
        /\ got \in Seq(Nat)
        /\ \A i \in 1..Len(got) : got[i] = i - 1
        /\ \A j \in 0..(Len(got) - 1) : j \in Usable
        /\ pc = "ready"
        /\ dpc \in {"open", "open_file", "use", "close", "next", "done"}
        /\ dpc = "open" => got = << >>
        /\ dpc = "open_file" =>
              IF current_file_ok THEN num_file = Len(got) /\ Reachable(num_file)
              ELSE ~IoFaults => \A k \in 0..(ar.n - 1) : ~Reachable(k)
        /\ dpc = "use" => /\ current_file_ok /\ num_file = Len(got) /\ num_file \in Usable
                          /\ file.entry = info
        /\ dpc \in {"close", "next"} => current_file_ok /\ num_file + 1 = Len(got)
        /\ dpc = "done" /\ ~IoFaults => \A k \in Usable : k < Len(got)

\* first_file finds the first entry if it is reachable.
LEMMA FirstReaches ==
    ASSUME ar \in Archives, ar' = ar, NEW r \in InfoAt(0), MoveTo(0, 0, r)
    PROVE  IF current_file_ok' THEN num_file' = 0 /\ Reachable(0)
           ELSE ~IoFaults => \A k \in 0..(ar.n - 1) : ~Reachable(k)
<1>1. ArchiveOK(ar)
  BY ZipReaderAssumption
<1>2. num_file' = 0 /\ current_file_ok' = (r # None)
  BY DEF MoveTo
<1>3. ar.n \in Nat /\ ar.at[0] = 0 /\ 0 \in 0..ar.n
  BY <1>1 DEF ArchiveOK
<1>4. CASE r # None
  <2>1. PICK k \in 0..(ar.n - 1) : ar.at[k] = 0 /\ Readable(k)
    BY <1>4, InfoAtFacts
  <2>2. k = 0
    BY <2>1, <1>1, <1>3 DEF ArchiveOK
  <2>3. Readable(0) /\ 0 \in 0..(ar.n - 1) /\ \A j \in 0..0 : j = 0
    BY <2>1, <2>2
  <2>4. Reachable(0)
    BY <2>3 DEF Reachable
  <2>. QED
    BY <1>2, <1>4, <2>4
<1>5. CASE r = None
  <2> SUFFICES ASSUME ~IoFaults, NEW k \in 0..(ar.n - 1), Reachable(k) PROVE FALSE
    BY <1>2, <1>5
  <2>1. None \in InfoAt(ar.at[0])
    BY <1>3, <1>5
  <2>2. k < 0
    BY <2>1, <1>3, NoRecord
  <2>. QED
    BY <2>2, <1>3
<1>. QED
  BY <1>4, <1>5

\* next_file, from a reachable entry: 1 on the next one, which is reachable,
\* or 0 when (without failing reads) there is none.
LEMMA NextReaches ==
    ASSUME ar \in Archives, CursorSound, current_file_ok, Reachable(num_file), NextFile
    PROVE  /\ num_file \in 0..(ar.n - 1) /\ ar' = ar
           /\ ret'[2] \in BOOLEAN
           /\ ret'[2] => /\ current_file_ok' /\ num_file' = num_file + 1
                         /\ Reachable(num_file + 1)
           /\ ~ret'[2] /\ ~IoFaults => \A k \in 0..(ar.n - 1) : Reachable(k) => k <= num_file
<1>1. ArchiveOK(ar) /\ ar.n \in Nat
  BY ZipReaderAssumption DEF ArchiveOK
<1>2. PICK j \in 0..(ar.n - 1) : /\ num_file = j /\ pos_in_central_dir = ar.at[j]
                                 /\ info = ar.entry[j]
  BY DEF CursorSound, OnEntry
<1>3. j \in Nat /\ j + 1 \in 0..ar.n /\ ar.at[j + 1] = NextPos
  BY <1>1, <1>2 DEF ArchiveOK, NextPos
<1>4. ar' = ar
  BY DEF NextFile
<1>5. CASE AtEnd /\ Returns("next", FALSE)
  <2>1. ar.count # CountMax /\ ar.count = j + 1 /\ ret'[2] = FALSE
    BY <1>2, <1>5 DEF AtEnd, Returns
  <2>2. \A k \in 0..(ar.n - 1) : Reachable(k) => k <= j
    BY <2>1, <1>1, <1>3 DEF Reachable
  <2>. QED
    BY <2>1, <2>2, <1>2, <1>4
<1>6. ASSUME ~AtEnd, NEW r \in InfoAt(NextPos), MoveTo(num_file + 1, NextPos, r),
             Returns("next", r # None)
      PROVE  /\ ret'[2] \in BOOLEAN
             /\ ret'[2] => /\ current_file_ok' /\ num_file' = num_file + 1
                           /\ Reachable(num_file + 1)
             /\ ~ret'[2] /\ ~IoFaults => \A k \in 0..(ar.n - 1) : Reachable(k) => k <= num_file
  <2>1. ret'[2] = (r # None) /\ current_file_ok' = (r # None) /\ num_file' = j + 1
    BY <1>2, <1>6 DEF Returns, MoveTo
  <2>2. CASE r # None
    <3>1. PICK k \in 0..(ar.n - 1) : ar.at[k] = NextPos /\ Readable(k)
      BY <1>6, <2>2, InfoAtFacts
    <3>2. k = j + 1
      BY <3>1, <1>1, <1>3 DEF ArchiveOK
    <3>3. ar.count = CountMax \/ ar.count # j + 1
      BY <1>2, <1>6 DEF AtEnd
    <3>4. Reachable(j + 1)
      BY <3>1, <3>2, <3>3, <1>1, <1>2, <1>3 DEF Reachable
    <3>. QED
      BY <2>1, <2>2, <3>4, <1>2
  <2>3. CASE r = None
    <3> SUFFICES ASSUME ~IoFaults, NEW k \in 0..(ar.n - 1), Reachable(k) PROVE k <= j
      BY <2>1, <2>3, <1>2
    <3>1. None \in InfoAt(ar.at[j + 1])
      BY <1>3, <1>6, <2>3
    <3>2. k < j + 1
      BY <3>1, <1>3, NoRecord
    <3>. QED
      BY <3>2, <1>1, <1>3
  <2>. QED
    BY <2>2, <2>3
<1>. QED
  BY <1>2, <1>4, <1>5, <1>6 DEF NextFile

\* check_header accepts the entry the cursor is on exactly when its local
\* header is good.
LEMMA HeaderFacts ==
    ASSUME CursorSound, current_file_ok
    PROVE  num_file \in 0..(ar.n - 1) /\ (HeaderOK <=> HeaderGood(num_file))
BY DEF CursorSound, OnEntry, HeaderOK, HeaderGood

\* The archive and the arguments of a program stay what they are.
LEMMA ArgumentsKept ==
    ASSUME Protocol, [Next]_vars
    PROVE  UNCHANGED <<job, want, ar>>
<1>1. UNCHANGED <<job, want>>
  BY DEF Next, Call, CallOpen, CallSearch, Searching, CallOpenFile, UseEntry, CallCloseFile,
         CallNextFile, AnyCall, Done, vars, dvars
<1>2. [ZNext]_zvars
  BY ReaderStep
<1>3. ar' = ar
  BY <1>2 DEF ZNext, zvars, Open, OpenFails, Close, FirstFile, NextFile, SearchRefused,
              SearchBegin, SearchStep, SearchReread, SearchFound, SearchNext, SearchFailed,
              OpenFile, CloseFile
<1>. QED
  BY <1>1, <1>3

\* The outcomes of open_file.
LEMMA OpenFileCases ==
    ASSUME OpenFile(FALSE)
    PROVE  \/ current_file_ok /\ HeaderOK /\ ret'[2] /\ file'.entry = info /\ info' = info
           \/ ~ret'[2] /\ (~current_file_ok \/ IoFaults \/ ~HeaderOK)
<1>1. \/ /\ current_file_ok /\ HeaderOK /\ ret' = <<"open_file", TRUE>>
         /\ file' = [entry |-> info, from |-> DataStart(offset_curfile, FALSE), pw |-> FALSE]
      \/ ret' = <<"open_file", FALSE>> /\ (~current_file_ok \/ IoFaults \/ ~HeaderOK)
  BY DEF OpenFile, Returns
<1>r. ASSUME NEW d PROVE [entry |-> info, from |-> d, pw |-> FALSE].entry = info
  OBVIOUS
<1>2. \/ /\ current_file_ok /\ HeaderOK /\ ret' = <<"open_file", TRUE>>
         /\ file'.entry = info
      \/ ret' = <<"open_file", FALSE>> /\ (~current_file_ok \/ IoFaults \/ ~HeaderOK)
  BY <1>1, <1>r, Zenon
<1>3. info' = info
  BY DEF OpenFile, cursor
<1>4. <<"open_file", TRUE>>[2] = TRUE /\ <<"open_file", FALSE>>[2] = FALSE
  OBVIOUS
<1>. QED
  BY <1>2, <1>3, <1>4

\* One case per call of the loop.
LEMMA WalkStep ==
    ASSUME ZInv, Protocol, Walk, [Next]_vars
    PROVE  Walk'
<1>0. ar \in Archives /\ CursorSound
  BY DEF ZInv
<1>1. ar.n \in Nat
  BY <1>0, ZipReaderAssumption DEF ArchiveOK
<1>2. UNCHANGED <<job, ar>>
  BY ArgumentsKept
<1>3. Usable' = Usable /\ IoFaults' = IoFaults
  BY <1>2 DEF Usable, HeaderGood, HeaderMatches, Reachable, Readable, IoFaults
<1> SUFFICES ASSUME job \in {"list", "all"} PROVE Walk'
  BY <1>2 DEF Walk
<1>4. /\ got \in Seq(Nat) /\ Len(got) \in Nat
      /\ \A i \in 1..Len(got) : got[i] = i - 1
      /\ \A j \in 0..(Len(got) - 1) : j \in Usable
      /\ pc = "ready"
  BY DEF Walk
<1>5. CASE CallOpen
  <2>1. dpc = "open" /\ got = << >> /\ UNCHANGED got /\ pc' = "ready"
    BY <1>4, <1>5 DEF CallOpen, Walk, Open, OpenFails, search
  <2>2. CASE Open /\ dpc' = "open_file"
    <3>1. PICK r \in InfoAt(0) : MoveTo(0, 0, r)
      BY <2>2 DEF Open
    <3>2. IF current_file_ok' THEN num_file' = 0 /\ Reachable(0)
          ELSE ~IoFaults => \A k \in 0..(ar.n - 1) : ~Reachable(k)
      BY <3>1, <1>0, <1>2, FirstReaches
    <3>3. IF current_file_ok' THEN num_file' = Len(got') /\ Reachable(num_file)'
          ELSE ~IoFaults' => \A k \in 0..(ar'.n - 1) : ~Reachable(k)'
      BY <3>2, <2>1, <1>2, <1>3 DEF Reachable, Readable
    <3>. QED
      BY <2>2, <3>3, <2>1, <1>2, <1>3, <1>4 DEF Walk
  <2>3. CASE OpenFails /\ Finish(FALSE)
    <3>1. IoFaults /\ dpc' = "done"
      BY <2>3 DEF OpenFails, Finish
    <3>. QED
      BY <3>1, <2>1, <1>2, <1>3, <1>4 DEF Walk
  <2>. QED
    BY <1>5, <2>2, <2>3 DEF CallOpen
<1>6. CASE CallOpenFile
  <2>1. /\ dpc = "open_file" /\ UNCHANGED <<got, pc, num_file, current_file_ok>>
        /\ dpc' = IF ret'[2] THEN "use" ELSE "done"
    BY <1>6 DEF CallOpenFile, OpenFile, Finish, cursor, search
  <2>2. IF current_file_ok THEN num_file = Len(got) /\ Reachable(num_file)
        ELSE ~IoFaults => \A k \in 0..(ar.n - 1) : ~Reachable(k)
    BY <2>1 DEF Walk
  <2>3. CASE current_file_ok /\ HeaderOK /\ ret'[2] /\ file'.entry = info /\ info' = info
    <3>1. HeaderGood(num_file) /\ num_file \in 0..(ar.n - 1)
      BY <2>3, <1>0, HeaderFacts
    <3>2. \A j \in 0..num_file : HeaderGood(j)
      <4> SUFFICES ASSUME NEW j \in 0..num_file, j # num_file PROVE HeaderGood(j)
        BY <3>1
      <4>1. j \in Usable
        BY <2>2, <2>3, <3>1, <1>1, <1>4
      <4>. QED
        BY <4>1, <1>1 DEF Usable
    <3>3. num_file \in Usable
      BY <2>2, <2>3, <3>1, <3>2 DEF Usable
    <3>. QED
      BY <2>1, <2>2, <2>3, <3>3, <1>2, <1>3, <1>4 DEF Walk
  <2>4. CASE ~ret'[2] /\ (~current_file_ok \/ IoFaults \/ ~HeaderOK)
    <3>1. ~IoFaults => \A k \in Usable : k < Len(got)
      <4> SUFFICES ASSUME ~IoFaults, NEW k \in Usable PROVE k < Len(got)
        OBVIOUS
      <4>1. k \in 0..(ar.n - 1) /\ Reachable(k) /\ \A j \in 0..k : HeaderGood(j)
        BY DEF Usable
      <4>2. current_file_ok /\ ~HeaderOK
        BY <4>1, <2>2, <2>4
      <4>3. ~HeaderGood(num_file) /\ num_file \in 0..(ar.n - 1)
        BY <4>2, <1>0, HeaderFacts
      <4>. QED
        BY <4>1, <4>2, <4>3, <2>2, <1>1
    <3>. QED
      BY <2>1, <2>4, <3>1, <1>2, <1>3, <1>4 DEF Walk
  <2>. QED
    BY <1>6, <2>3, <2>4, OpenFileCases DEF CallOpenFile
<1>7. CASE UseEntry
  <2>1. /\ dpc = "use" /\ UNCHANGED zvars /\ got' = Append(got, num_file)
        /\ dpc' = "close"
    BY <1>7 DEF UseEntry
  <2>2. current_file_ok /\ num_file = Len(got) /\ num_file \in Usable
    BY <2>1 DEF Walk
  <2>3. UNCHANGED <<pc, num_file, current_file_ok>>
    BY <2>1 DEF zvars, cursor, search
  <2>4. /\ got' \in Seq(Nat) /\ Len(got') = Len(got) + 1
        /\ \A i \in 1..Len(got) : got'[i] = got[i]
        /\ got'[Len(got) + 1] = num_file
    BY <2>1, <2>2, <1>4
  <2>5. /\ \A i \in 1..Len(got') : got'[i] = i - 1
        /\ \A j \in 0..(Len(got') - 1) : j \in Usable
    <3>1. \A i \in 1..Len(got') : i \in 1..Len(got) \/ i = Len(got) + 1
      BY <2>4, <1>4
    <3>2. \A j \in 0..(Len(got') - 1) : j \in 0..(Len(got) - 1) \/ j = Len(got)
      BY <2>4, <1>4
    <3>3. \A i \in 1..Len(got') : got'[i] = i - 1
      BY <3>1, <2>2, <2>4, <1>4
    <3>. QED
      BY <3>2, <3>3, <2>2, <1>4
  <2>. QED
    BY <2>1, <2>2, <2>3, <2>4, <2>5, <1>2, <1>3, <1>4 DEF Walk
<1>8. CASE CallCloseFile
  <2>1. /\ dpc = "close" /\ dpc' = "next" /\ UNCHANGED <<got, pc, num_file, current_file_ok>>
    BY <1>8 DEF CallCloseFile, CloseFile, cursor, search
  <2>. QED
    BY <2>1, <1>2, <1>3, <1>4 DEF Walk
<1>9. CASE CallNextFile
  <2>1. /\ dpc = "next" /\ NextFile /\ UNCHANGED <<got, pc>>
        /\ dpc' = IF ret'[2] THEN "open_file" ELSE "done"
    BY <1>9 DEF CallNextFile, NextFile, Finish, search
  <2>2. current_file_ok /\ num_file + 1 = Len(got)
    BY <2>1 DEF Walk
  <2>3. num_file \in 0..(ar.n - 1) /\ Reachable(num_file)
    <3>1. num_file \in 0..(ar.n - 1)
      BY <2>2, <1>0, HeaderFacts
    <3>2. num_file \in Usable
      BY <3>1, <2>2, <1>1, <1>4
    <3>. QED
      BY <3>1, <3>2 DEF Usable
  <2>4. /\ ret'[2] \in BOOLEAN
        /\ ret'[2] => /\ current_file_ok' /\ num_file' = num_file + 1
                      /\ Reachable(num_file + 1)
        /\ ~ret'[2] /\ ~IoFaults => \A k \in 0..(ar.n - 1) : Reachable(k) => k <= num_file
    BY <2>1, <2>2, <2>3, <1>0, NextReaches
  <2>5. CASE ret'[2]
    <3>1. dpc' = "open_file" /\ current_file_ok' /\ num_file' = Len(got')
      BY <2>1, <2>2, <2>4, <2>5
    <3>2. Reachable(num_file)'
      BY <2>4, <2>5, <1>2 DEF Reachable, Readable
    <3>. QED
      BY <3>1, <3>2, <2>1, <1>2, <1>3, <1>4 DEF Walk
  <2>6. CASE ~ret'[2]
    <3>1. ~IoFaults => \A k \in Usable : k < Len(got)
      <4> SUFFICES ASSUME ~IoFaults, NEW k \in Usable PROVE k < Len(got)
        OBVIOUS
      <4>1. k \in 0..(ar.n - 1) /\ Reachable(k)
        BY DEF Usable
      <4>. QED
        BY <4>1, <2>2, <2>3, <2>4, <2>6, <1>1
    <3>. QED
      BY <2>1, <2>6, <3>1, <1>2, <1>3, <1>4 DEF Walk
  <2>. QED
    BY <2>5, <2>6
<1>10. CASE Done \/ UNCHANGED vars
  <2>1. UNCHANGED <<got, dpc, pc, num_file, current_file_ok, file, info>>
    BY <1>10 DEF Done, vars, dvars, zvars, cursor, search
  <2>2. dpc = "open_file" =>
              IF current_file_ok' THEN num_file' = Len(got') /\ Reachable(num_file)'
              ELSE ~IoFaults' => \A k \in 0..(ar'.n - 1) : ~Reachable(k)'
    BY <2>1, <1>2, <1>3 DEF Walk, Reachable, Readable
  <2>. QED
    BY <2>1, <2>2, <1>2, <1>3, <1>4 DEF Walk
<1>11. ~CallSearch /\ ~Searching /\ ~AnyCall
  BY DEF CallSearch, Searching, AnyCall, Walk
<1>. QED
  BY <1>5, <1>6, <1>7, <1>8, <1>9, <1>10, <1>11 DEF Next, Call

\* For every archive, whatever sizes, counts and broken records it has and
\* whatever reads fail: zipFiles and unzip use the entries from the first on,
\* none twice and none out of order; without failing reads they stop only
\* when none is left that they could use.
THEOREM EachEntryOnce == Spec => []UsesEachEntryOnce
<1>1. Init => ZInv /\ Protocol /\ Walk
  <2>1. Init => ZInv
    BY DEF Init, ZInit, ZInv, CursorSound, FileSound, FileClosed, SearchOk
  <2>2. Init => Protocol
    BY UnzipAllAssumption DEF Init, Protocol
  <2>3. Init => Walk
    BY DEF Init, ZInit, Walk
  <2>. QED
    BY <2>1, <2>2, <2>3
<1>2. ZInv /\ Protocol /\ Walk /\ [Next]_vars => (ZInv /\ Protocol /\ Walk)'
  BY ReaderStep, ZInvStep, WalkStep
<1>3. ZInv /\ Walk => UsesEachEntryOnce
  <2> SUFFICES ASSUME ZInv, Walk, job \in {"list", "all"}
               PROVE  /\ \A i \in 1..Len(got) : got[i] = i - 1
                      /\ dpc = "done" /\ ~IoFaults => Usable = {got[i] : i \in 1..Len(got)}
    BY DEF UsesEachEntryOnce
  <2>1. ar.n \in Nat
    BY ZipReaderAssumption DEF ZInv, ArchiveOK
  <2>2. /\ got \in Seq(Nat) /\ Len(got) \in Nat
        /\ \A i \in 1..Len(got) : got[i] = i - 1
        /\ \A j \in 0..(Len(got) - 1) : j \in Usable
    BY DEF Walk
  <2>3. \A j \in 0..(Len(got) - 1) : j + 1 \in 1..Len(got) /\ got[j + 1] = j
    BY <2>2
  <2>4. Usable \subseteq Nat
    BY <2>1 DEF Usable
  <2>5. ASSUME dpc = "done", ~IoFaults
        PROVE  Usable = {got[i] : i \in 1..Len(got)}
    <3>1. \A k \in Usable : k \in 0..(Len(got) - 1)
      BY <2>2, <2>4, <2>5 DEF Walk
    <3>2. \A i \in 1..Len(got) : got[i] \in Usable
      BY <2>2
    <3>. QED
      BY <3>1, <3>2, <2>3
  <2>. QED
    BY <2>2, <2>5
<1>. QED
  BY <1>1, <1>2, <1>3, PTL DEF Spec
-----------------------------------------------------------------------------
\* The cursor is on the first entry of the name the program wants.
OnWanted ==
    /\ current_file_ok
    /\ ar.entry[num_file].name = want
    /\ \A j \in 0..(num_file - 1) : ar.entry[j].name # want

\* No usable entry has the name.
Missing ==
    \A k \in 0..(ar.n - 1) : ar.entry[k].name = want =>
        ~Reachable(k) \/ \E j \in 0..k : ar.entry[j].name = want /\ ~HeaderGood(j)

\* What unzipFile and toString know on the way.
Seek ==
    job \in {"one", "text"} =>
        /\ dpc \in {"open", "search", "searching", "open_file", "use", "done"}
        /\ pc = IF dpc = "searching" THEN "search" ELSE "ready"
        /\ dpc # "done" => got = << >> /\ dirs = Dirs0
        /\ dpc = "search" => current_file_ok \/ IoFaults \/ Missing
        /\ dpc = "searching" => sought = want
        /\ dpc \in {"open_file", "use"} => OnWanted
        /\ FindsTheEntry

\* One case per call; search_file's own result is SearchReturns.
LEMMA SeekStep ==
    ASSUME ZInv, Searched, Protocol, Seek, [Next]_vars
    PROVE  Seek'
<1>0. ar \in Archives /\ CursorSound
  BY DEF ZInv
<1>1. ar.n \in Nat
  BY <1>0, ZipReaderAssumption DEF ArchiveOK
<1>2. UNCHANGED <<job, want, ar>>
  BY ArgumentsKept
<1>3. Missing' = Missing /\ IoFaults' = IoFaults
  BY <1>2 DEF Missing, HeaderGood, HeaderMatches, Reachable, Readable, IoFaults
<1> SUFFICES ASSUME job \in {"one", "text"} PROVE Seek'
  BY <1>2 DEF Seek
<1>4. /\ pc = IF dpc = "searching" THEN "search" ELSE "ready"
      /\ dpc # "done" => got = << >> /\ dirs = Dirs0
  BY DEF Seek
<1>5. ASSUME dpc' = "done", ~result', pc' = "ready", IoFaults \/ Missing
      PROVE  Seek'
  BY <1>2, <1>3, <1>5 DEF Seek, FindsTheEntry, Missing
<1>6. CASE CallOpen
  <2>1. dpc = "open" /\ UNCHANGED <<got, dirs>> /\ pc' = "ready"
    BY <1>4, <1>6 DEF CallOpen, Open, OpenFails, search
  <2>2. CASE Open /\ dpc' = "search"
    <3>1. PICK r \in InfoAt(0) : MoveTo(0, 0, r)
      BY <2>2 DEF Open
    <3>2. current_file_ok' \/ IoFaults \/ \A k \in 0..(ar.n - 1) : ~Reachable(k)
      BY <3>1, <1>0, <1>2, FirstReaches
    <3>3. current_file_ok' \/ IoFaults \/ Missing
      BY <3>2 DEF Missing
    <3>. QED
      BY <2>1, <2>2, <3>3, <1>2, <1>3, <1>4 DEF Seek, FindsTheEntry
  <2>3. CASE OpenFails /\ Finish(FALSE)
    BY <2>1, <2>3, <1>5 DEF OpenFails, Finish
  <2>. QED
    BY <1>6, <2>2, <2>3 DEF CallOpen
<1>7. CASE CallSearch
  <2>1. dpc = "search" /\ UNCHANGED <<got, dirs>>
    BY <1>7 DEF CallSearch
  <2>2. CASE SearchBegin(want) /\ dpc' = "searching"
    <3>1. pc' = "search" /\ sought' = want
      BY <2>2 DEF SearchBegin
    <3>. QED
      BY <2>1, <2>2, <3>1, <1>2, <1>4 DEF Seek, FindsTheEntry
  <2>3. CASE SearchRefused /\ Finish(FALSE)
    <3>1. IoFaults \/ Missing
      BY <2>1, <2>3 DEF SearchRefused, Seek
    <3>. QED
      BY <2>1, <2>3, <3>1, <1>4, <1>5 DEF SearchRefused, Finish, search
  <2>. QED
    BY <1>7, <2>2, <2>3 DEF CallSearch
<1>8. CASE Searching
  <2>1. dpc = "searching" /\ SearchStep /\ UNCHANGED <<got, dirs>> /\ sought = want
        /\ pc = "search"
    BY <1>4, <1>8 DEF Searching, Seek
  <2>2. CASE pc' = "search"
    <3>1. dpc' = dpc /\ sought' = sought
      <4>1. SearchReread \/ SearchNext
        BY <2>1, <2>2 DEF SearchStep, SearchFound, SearchFailed, SearchDone
      <4>. QED
        BY <4>1, <2>2, <1>8 DEF Searching, SearchReread, SearchNext, zvars, search
    <3>. QED
      BY <2>1, <2>2, <3>1, <1>2, <1>4 DEF Seek, FindsTheEntry
  <2>3. CASE pc' # "search"
    <3>1. pc' = "ready"
      BY <2>1, <2>3 DEF SearchStep, SearchReread, SearchNext, SearchFound, SearchFailed,
                        SearchDone, zvars, search
    <3>2. [ZNext]_zvars
      BY <2>1 DEF ZNext
    <3>3. CASE ret'[2]
      <4>1. dpc' = "open_file"
        BY <2>3, <3>3, <1>8 DEF Searching
      <4>2. OnWanted'
        BY <2>1, <3>1, <3>2, <3>3, <1>2, SearchReturns DEF OnWanted
      <4>. QED
        BY <2>1, <3>1, <4>1, <4>2, <1>2, <1>4 DEF Seek, FindsTheEntry
    <3>4. CASE ~ret'[2]
      <4>1. ~IoFaults => \A k \in 0..(ar.n - 1) : Reachable(k) => ar.entry[k].name # sought
        BY <2>1, <3>1, <3>2, <3>4, SearchReturns
      <4>2. IoFaults \/ Missing
        BY <4>1, <2>1 DEF Missing
      <4>. QED
        BY <2>3, <3>1, <3>4, <4>2, <1>5, <1>8 DEF Searching, Finish
    <3>. QED
      BY <3>3, <3>4
  <2>. QED
    BY <2>2, <2>3
<1>9. CASE CallOpenFile
  <2>1. /\ dpc = "open_file" /\ OpenFile(FALSE) /\ UNCHANGED <<got, dirs>> /\ OnWanted
        /\ UNCHANGED <<pc, num_file, current_file_ok>>
    BY <1>9 DEF CallOpenFile, Seek, OpenFile, cursor, search
  <2>2. CASE ret'[2]
    <3>1. dpc' = "use"
      BY <2>2, <1>9 DEF CallOpenFile
    <3>2. OnWanted'
      BY <2>1, <1>2 DEF OnWanted
    <3>. QED
      BY <2>1, <3>1, <3>2, <1>2, <1>4 DEF Seek, FindsTheEntry
  <2>3. CASE ~ret'[2]
    <3>1. IoFaults \/ Missing
      <4> SUFFICES ASSUME ~IoFaults PROVE Missing
        OBVIOUS
      <4>1. ~HeaderOK
        BY <2>1, <2>3, OpenFileCases DEF OnWanted
      <4>2. ~HeaderGood(num_file) /\ num_file \in 0..(ar.n - 1)
        BY <4>1, <2>1, <1>0, HeaderFacts DEF OnWanted
      <4>3. \A k \in 0..(ar.n - 1) : ar.entry[k].name = want => num_file \in 0..k
        BY <4>2, <2>1, <1>1 DEF OnWanted
      <4>. QED
        BY <4>2, <4>3, <2>1 DEF Missing, OnWanted
    <3>. QED
      BY <2>1, <2>3, <3>1, <1>4, <1>5, <1>9 DEF CallOpenFile, Finish
  <2>. QED
    BY <2>2, <2>3
<1>10. CASE UseEntry
  <2>1. /\ dpc = "use" /\ got' = Append(got, num_file) /\ OnWanted /\ got = << >>
        /\ UNCHANGED zvars /\ dpc' = "done" /\ dirs' = Dirs0
    BY <1>4, <1>10 DEF UseEntry, Seek, Finish
  <2>2. pc' = "ready" /\ Len(got') = 1 /\ got'[1] = num_file
    BY <2>1, <1>4 DEF zvars, search
  <2>3. CASE result' /\ (job = "one" => Stored(OutFile, num_file))
    <3>1. job = "one" => files'[OutFile] = num_file
      BY <2>3 DEF Stored
    <3>2. FindsTheEntry'
      BY <2>1, <2>2, <2>3, <3>1, <1>2 DEF FindsTheEntry, OnWanted
    <3>. QED
      BY <2>1, <2>2, <3>2, <1>2 DEF Seek
  <2>4. CASE ~result' /\ job = "one" /\ NotStored(OutFile)
    <3>1. IoFaults \/ ~ParentExists(OutFile, Dirs0) \/ OutFile \in Dirs0
      BY <2>1, <2>4 DEF NotStored, CanStore
    <3>2. FindsTheEntry'
      BY <2>4, <3>1, <1>2, <1>3 DEF FindsTheEntry
    <3>. QED
      BY <2>1, <2>2, <3>2, <1>2 DEF Seek
  <2>. QED
    BY <1>10, <2>3, <2>4 DEF UseEntry, Finish
<1>11. CASE Done \/ UNCHANGED vars
  <2>1. UNCHANGED <<got, dirs, files, result, dpc, pc, sought, num_file, current_file_ok>>
    BY <1>11 DEF Done, vars, dvars, zvars, cursor, search
  <2>2. OnWanted' = OnWanted
    BY <2>1, <1>2 DEF OnWanted
  <2>3. FindsTheEntry'
    BY <2>1, <1>2, <1>3 DEF Seek, FindsTheEntry, Missing
  <2>. QED
    BY <2>1, <2>2, <2>3, <1>2, <1>3 DEF Seek
<1>12. ~CallCloseFile /\ ~CallNextFile /\ ~AnyCall
  BY DEF CallCloseFile, CallNextFile, AnyCall, Seek
<1>. QED
  BY <1>6, <1>7, <1>8, <1>9, <1>10, <1>11, <1>12 DEF Next, Call

\* For every archive and name: unzipFile and toString that succeed have used
\* the first entry of the name, and without failing reads they fail only when
\* there is none they could use or the output cannot be stored.
THEOREM FirstOfTheName == Spec => []FindsTheEntry
<1>1. Init => ZInv /\ Searched /\ Protocol /\ Seek
  <2>1. Init => ZInv /\ Searched
    BY DEF Init, ZInit, ZInv, CursorSound, FileSound, FileClosed, SearchOk, Searched
  <2>2. Init => Protocol
    BY UnzipAllAssumption DEF Init, Protocol
  <2>3. Init => FindsTheEntry
    BY DEF Init, FindsTheEntry
  <2>4. Init => Seek
    BY <2>3 DEF Init, ZInit, Seek
  <2>. QED
    BY <2>1, <2>2, <2>4
<1>2. ZInv /\ Searched /\ Protocol /\ Seek /\ [Next]_vars
        => (ZInv /\ Searched /\ Protocol /\ Seek)'
  BY ReaderStep, ZInvStep, SearchedStep, SeekStep
<1>3. Seek => FindsTheEntry
  BY DEF Seek, FindsTheEntry
<1>. QED
  BY <1>1, <1>2, <1>3, PTL DEF Spec
-----------------------------------------------------------------------------
\* Of the first n entries, those that are files, whose directory was there
\* and whose place is no directory of ds, are in the files fs: of several for
\* one place the last.
Latest(n, ds, fs) ==
    \A k \in 0..(n - 1) :
        IsFile(k) /\ ParentExists(Outname(k), Dirs0) /\ Outname(k) \notin ds =>
            \E j \in 0..(n - 1) :
                /\ IsFile(j) /\ Outname(j) = Outname(k)
                /\ Outname(k) \in DOMAIN fs /\ fs[Outname(k)] = j
                /\ \A i \in 0..(n - 1) : IsFile(i) /\ Outname(i) = Outname(k) => i <= j

\* What unzip has done on the way, when no read fails.
Unpacked ==
    job = "all" /\ ~IoFaults => Dirs0 \subseteq dirs /\ Latest(Len(got), dirs, files)

\* One more entry: it is no file, or it is stored, or its place is a directory
\* or has no parent directory.
LEMMA LatestStep ==
    ASSUME NEW n \in Nat, NEW ds, NEW es, NEW fs, NEW gs,
           Latest(n, ds, fs), ds \subseteq es, Dirs0 \subseteq es,
           \/ ~IsFile(n) /\ gs = fs
           \/ /\ IsFile(n)
              /\ gs = [p \in DOMAIN fs \cup {Outname(n)} |->
                          IF p = Outname(n) THEN n ELSE fs[p]]
           \/ IsFile(n) /\ gs = fs /\ (~ParentExists(Outname(n), es) \/ Outname(n) \in es)
    PROVE  Latest(n + 1, es, gs)
<1> SUFFICES ASSUME NEW k \in 0..n, IsFile(k), ParentExists(Outname(k), Dirs0),
                    Outname(k) \notin es
             PROVE  \E j \in 0..n :
                        /\ IsFile(j) /\ Outname(j) = Outname(k)
                        /\ Outname(k) \in DOMAIN gs /\ gs[Outname(k)] = j
                        /\ \A i \in 0..n : IsFile(i) /\ Outname(i) = Outname(k) => i <= j
  BY DEF Latest
<1>1. ParentExists(Outname(k), es)
  BY DEF ParentExists
<1>2. CASE IsFile(n) /\ Outname(n) = Outname(k)
  <2>1. gs = [p \in DOMAIN fs \cup {Outname(n)} |-> IF p = Outname(n) THEN n ELSE fs[p]]
    BY <1>1, <1>2
  <2>2. Outname(k) \in DOMAIN gs /\ gs[Outname(k)] = n
    BY <1>2, <2>1
  <2>. QED
    BY <1>2, <2>2
<1>3. CASE ~IsFile(n) \/ Outname(n) # Outname(k)
  <2>1. k \in 0..(n - 1)
    BY <1>3
  <2>2. PICK j \in 0..(n - 1) :
            /\ IsFile(j) /\ Outname(j) = Outname(k)
            /\ Outname(k) \in DOMAIN fs /\ fs[Outname(k)] = j
            /\ \A i \in 0..(n - 1) : IsFile(i) /\ Outname(i) = Outname(k) => i <= j
    BY <2>1 DEF Latest
  <2>3. Outname(k) \in DOMAIN gs /\ gs[Outname(k)] = j
    BY <1>3, <2>2
  <2>4. \A i \in 0..n : IsFile(i) /\ Outname(i) = Outname(k) => i <= j
    <3>1. \A i \in 0..n : i \in 0..(n - 1) \/ i = n
      OBVIOUS
    <3>. QED
      BY <1>3, <2>2, <3>1
  <2>. QED
    BY <2>2, <2>3, <2>4
<1>. QED
  BY <1>2, <1>3

\* Without failing reads, the record read again is the entry's.
LEMMA ReadsEntry ==
    ASSUME ar \in Archives, CursorSound, current_file_ok, ~IoFaults
    PROVE  /\ NamesRead = {ar.entry[num_file].name}
           /\ KindsRead = {ar.entry[num_file].kind}
<1>1. OnEntry(num_file, pos_in_central_dir, info, offset_curfile)
  BY DEF CursorSound
<1>2. PICK k \in 0..(ar.n - 1) : /\ Readable(k) /\ num_file = k
                                 /\ pos_in_central_dir = ar.at[k] /\ info = ar.entry[k]
  BY <1>1 DEF OnEntry
<1>3. info \in RecordsAt(pos_in_central_dir) /\ info # None
  BY <1>2, ZipReaderAssumption DEF RecordsAt
<1>4. None \notin RecordsAt(pos_in_central_dir)
  BY ZipReaderAssumption DEF RecordsAt
<1>5. InfoAt(pos_in_central_dir) = RecordsAt(pos_in_central_dir)
  BY <1>3 DEF InfoAt
<1>6. \A r \in InfoAt(pos_in_central_dir) : r = info
  BY <1>1, <1>4, <1>5, RereadSound
<1>7. InfoAt(pos_in_central_dir) = {info}
  BY <1>3, <1>5, <1>6
<1>. QED
  BY <1>2, <1>3, <1>7 DEF NamesRead, KindsRead

\* What the body of unzip's loop may do with entry n.
Does(n) ==
    /\ dirs \subseteq dirs'
    /\ \/ ~IsFile(n) /\ files' = files
       \/ /\ IsFile(n)
          /\ files' = [p \in DOMAIN files \cup {Outname(n)} |->
                          IF p = Outname(n) THEN n ELSE files[p]]
       \/ /\ IsFile(n) /\ files' = files
          /\ ~ParentExists(Outname(n), dirs') \/ Outname(n) \in dirs'

\* It does so when no read fails.
LEMMA UnzipEntryCases ==
    ASSUME ar \in Archives, CursorSound, current_file_ok, ~IoFaults, UnzipEntry,
           file.entry = info, NEW n, n = num_file
    PROVE  Does(n)
<1> DEFINE name == ar.entry[n].name
           kind == ar.entry[n].kind
           blank == ar.entry[n].blank
           slash == name.slash \/ name.path = << >>
<1>1. NamesRead = {name} /\ KindsRead = {kind}
  BY ReadsEntry
<1>2. Outname(n) = Place(Root.abs, Root.path \o name.path)
  BY DEF Outname
<1>3. \A path : MakePath(path) => dirs \subseteq dirs'
  BY DEF MakePath
<1>4. IsFile(n) <=> (kind \in {"reg", "none"} \/ (kind = "link" /\ ~blank)) /\ ~slash
  BY DEF IsFile
<1>d. file.entry.blank = blank
  BY DEF CursorSound, OnEntry
<1>5. \/ (kind = "dir" \/ slash) /\ dirs \subseteq dirs' /\ files' = files
      \/ /\ kind \in {"none", "reg"} \/ (kind = "link" /\ ~blank)
         /\ ~slash /\ dirs \subseteq dirs'
         /\ Stored(Outname(n), n) \/ NotStored(Outname(n))
      \/ /\ kind = "other" \/ (kind = "link" /\ blank)
         /\ dirs' = dirs /\ files' = files
  BY <1>1, <1>2, <1>3, <1>d DEF UnzipEntry, Unlinked
<1> HIDE DEF name, kind, blank, slash
<1>. QED
  BY <1>4, <1>5 DEF Does, Stored, NotStored, CanStore

\* Only the body of the loop touches files and directories.
LEMMA UnpackedStep ==
    ASSUME ZInv, Protocol, Walk, Unpacked, [Next]_vars
    PROVE  Unpacked'
<1>0. ar \in Archives /\ CursorSound
  BY DEF ZInv
<1>1. UNCHANGED <<job, ar>>
  BY ArgumentsKept
<1>2. IoFaults' = IoFaults
  BY <1>1 DEF IoFaults
<1> SUFFICES ASSUME job = "all", ~IoFaults
             PROVE  Dirs0 \subseteq dirs' /\ Latest(Len(got), dirs, files)'
  BY <1>1, <1>2 DEF Unpacked
<1>3. Dirs0 \subseteq dirs /\ Latest(Len(got), dirs, files)
  BY DEF Unpacked
<1>4. CASE UseEntry
  <2>1. got \in Seq(Nat) /\ current_file_ok /\ num_file = Len(got) /\ file.entry = info
    BY <1>4 DEF UseEntry, Walk
  <2>2. got' = Append(got, num_file) /\ UnzipEntry
    BY <1>4 DEF UseEntry
  <2>3. Len(got') = num_file + 1 /\ num_file \in Nat
    BY <2>1, <2>2
  <2>n. PICK n : n = num_file
    OBVIOUS
  <2>4. Does(n)
    BY <2>1, <2>2, <2>n, <1>0, UnzipEntryCases
  <2>5. Dirs0 \subseteq dirs'
    BY <2>4, <1>3 DEF Does
  <2>6. Latest(n, dirs, files)
    BY <2>1, <2>n, <1>3
  <2>7. Latest(n + 1, dirs', files')
    BY <2>3, <2>n, <2>4, <2>5, <2>6, LatestStep DEF Does
  <2>. QED
    BY <2>3, <2>n, <2>5, <2>7, <1>1 DEF Latest, IsFile, Outname
<1>5. CASE ~UseEntry
  <2>1. UNCHANGED <<got, dirs, files>>
    BY <1>5 DEF Next, Call, CallOpen, CallSearch, Searching, CallOpenFile, CallCloseFile,
                CallNextFile, AnyCall, Done, vars, dvars
  <2>2. ASSUME NEW k PROVE IsFile(k)' = IsFile(k) /\ Outname(k)' = Outname(k)
    BY <1>1 DEF IsFile, Outname
  <2>3. Latest(Len(got), dirs, files)'
    BY <2>1, <2>2, <1>3 DEF Latest
  <2>. QED
    BY <2>1, <2>3, <1>3
<1>. QED
  BY <1>4, <1>5

\* The largest of a set of numbers is the one no other exceeds.
LEMMA MaxIs ==
    ASSUME NEW S \in SUBSET Nat, NEW j \in S, \A i \in S : i <= j
    PROVE  Max(S) = j
<1>1. \A x \in S : (\A y \in S : x >= y) => x = j
  OBVIOUS
<1>2. j \in S /\ \A y \in S : j >= y
  OBVIOUS
<1>. QED
  BY <1>1, <1>2 DEF Max

\* For every archive, tree of directories and order of entries: without
\* failing reads, an entry whose directory was there is in its file when
\* unzip returns, and of several entries of one name the last is.
THEOREM LastOfTheName == Spec => []UnpacksIntoExistingDirs
<1>1. Init => ZInv /\ Protocol /\ Walk /\ Unpacked
  <2>1. Init => ZInv
    BY DEF Init, ZInit, ZInv, CursorSound, FileSound, FileClosed, SearchOk
  <2>2. Init => Protocol
    BY UnzipAllAssumption DEF Init, Protocol
  <2>3. Init => Walk /\ Unpacked
    BY DEF Init, ZInit, Walk, Unpacked, Latest
  <2>. QED
    BY <2>1, <2>2, <2>3
<1>2. ZInv /\ Protocol /\ Walk /\ Unpacked /\ [Next]_vars
        => (ZInv /\ Protocol /\ Walk /\ Unpacked)'
  BY ReaderStep, ZInvStep, WalkStep, UnpackedStep
<1>3. ZInv /\ Walk /\ Unpacked => UnpacksIntoExistingDirs
  <2> SUFFICES ASSUME ZInv, Walk, Unpacked, job = "all", dpc = "done", ~IoFaults,
                      NEW k \in Usable, IsFile(k), ParentExists(Outname(k), Dirs0),
                      Outname(k) \notin dirs
               PROVE  /\ Outname(k) \in DOMAIN files
                      /\ files[Outname(k)] =
                            Max({j \in Usable : IsFile(j) /\ Outname(j) = Outname(k)})
    BY DEF UnpacksIntoExistingDirs
  <2>1. ar.n \in Nat
    BY ZipReaderAssumption DEF ZInv, ArchiveOK
  <2>2. Usable \subseteq Nat
    BY <2>1 DEF Usable
  <2>3. /\ Len(got) \in Nat
        /\ \A j \in 0..(Len(got) - 1) : j \in Usable
        /\ \A j \in Usable : j < Len(got)
    BY DEF Walk
  <2>4. \A j \in Usable : j \in 0..(Len(got) - 1)
    BY <2>2, <2>3
  <2>5. PICK j \in 0..(Len(got) - 1) :
            /\ IsFile(j) /\ Outname(j) = Outname(k)
            /\ Outname(k) \in DOMAIN files /\ files[Outname(k)] = j
            /\ \A i \in 0..(Len(got) - 1) : IsFile(i) /\ Outname(i) = Outname(k) => i <= j
    BY <2>4 DEF Unpacked, Latest
  <2> DEFINE S == {i \in Usable : IsFile(i) /\ Outname(i) = Outname(k)}
  <2>6. S \in SUBSET Nat /\ j \in S /\ \A i \in S : i <= j
    BY <2>2, <2>3, <2>4, <2>5
  <2>7. Max(S) = j
    BY <2>6, MaxIs
  <2>. QED
    BY <2>5, <2>7
<1>. QED
  BY <1>1, <1>2, <1>3, PTL DEF Spec
=============================================================================
