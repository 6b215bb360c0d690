-------------------------- MODULE ZipReaderProofs --------------------------
(***************************************************************************)
(* Proofs that the cursor of bkUnzip is sound, and that search_file finds  *)
(* what there is to find, for every archive, every mix of calls and every  *)
(* failing read.                                                           *)
(***************************************************************************)
EXTENDS ZipReader, TLAPS

\* search_file goes round only on a usable current file.
SearchOk == pc = "search" /\ rc => current_file_ok

\* No file is open in an archive that is not.
FileClosed == fp \/ file = None

ZInv == /\ ar \in Archives
        /\ CursorSound
        /\ FileSound
        /\ FileClosed
        /\ SearchOk

\* A record that get_current_file_info returned is the one at its position.
LEMMA InfoAtFacts ==
    ASSUME NEW p, NEW r \in InfoAt(p), r # None
    PROVE  \E k \in 0..(ar.n - 1) : ar.at[k] = p /\ Readable(k) /\ r = ar.entry[k]
BY DEF InfoAt, RecordsAt

\* first_file puts the cursor on entry 0, or marks it unusable.
LEMMA FirstSound ==
    ASSUME ar \in Archives, ar' = ar, NEW r \in InfoAt(0), MoveTo(0, 0, r)
    PROVE  /\ current_file_ok' = (r # None)
           /\ current_file_ok' =>
                OnEntry(num_file, pos_in_central_dir, info, offset_curfile)'
<1>1. ArchiveOK(ar)
  BY ZipReaderAssumption
<1>2. current_file_ok' = (r # None)
  BY DEF MoveTo
<1>3. ASSUME r # None
      PROVE  OnEntry(num_file, pos_in_central_dir, info, offset_curfile)'
  <2>1. PICK k \in 0..(ar.n - 1) : ar.at[k] = 0 /\ Readable(k) /\ r = ar.entry[k]
    BY <1>3, InfoAtFacts
  <2>2. k = 0
    BY <2>1, <1>1 DEF ArchiveOK
  <2>. QED
    BY <1>3, <2>1, <2>2 DEF MoveTo, OnEntry, Readable
<1>. QED
  BY <1>2, <1>3

\* next_file, from an entry e whose record is known, puts the cursor on the
\* following entry, or marks it unusable.
LEMMA NextSound ==
    ASSUME ar \in Archives, ar' = ar, NEW e,
           OnEntry(num_file, pos_in_central_dir, e, e.offset),
           NEW r \in InfoAt(pos_in_central_dir + e.width),
           MoveTo(num_file + 1, pos_in_central_dir + e.width, r)
    PROVE  /\ current_file_ok' = (r # None)
           /\ current_file_ok' =>
                OnEntry(num_file, pos_in_central_dir, info, offset_curfile)'
<1>1. ArchiveOK(ar)
  BY ZipReaderAssumption
<1>2. current_file_ok' = (r # None)
  BY DEF MoveTo
<1>3. ASSUME r # None
      PROVE  OnEntry(num_file, pos_in_central_dir, info, offset_curfile)'
  <2>1. PICK j \in 0..(ar.n - 1) : num_file = j /\ pos_in_central_dir = ar.at[j] /\ e = ar.entry[j]
    BY DEF OnEntry
  <2>2. PICK k \in 0..(ar.n - 1) :
            ar.at[k] = pos_in_central_dir + e.width /\ Readable(k) /\ r = ar.entry[k]
    BY <1>3, InfoAtFacts
  <2>3. ar.at[k] = ar.at[j + 1] /\ j + 1 \in 0..ar.n /\ k \in 0..ar.n
    BY <2>1, <2>2, <1>1 DEF ArchiveOK
  <2>4. k = j + 1
    BY <2>3, <1>1 DEF ArchiveOK
  <2>. QED
    BY <1>3, <2>1, <2>2, <2>4 DEF MoveTo, OnEntry, Readable
<1>. QED
  BY <1>2, <1>3

\* The record search_file reads again is the one it stands on.
LEMMA RereadSound ==
    ASSUME ar \in Archives, NEW r \in InfoAt(pos_in_central_dir), r # None,
           OnEntry(num_file, pos_in_central_dir, info, offset_curfile)
    PROVE  r = info /\ r.offset = offset_curfile
<1>1. ArchiveOK(ar)
  BY ZipReaderAssumption
<1>2. PICK k \in 0..(ar.n - 1) : ar.at[k] = pos_in_central_dir /\ r = ar.entry[k]
  BY InfoAtFacts
<1>3. PICK j \in 0..(ar.n - 1) : pos_in_central_dir = ar.at[j] /\ info = ar.entry[j]
                                 /\ offset_curfile = ar.entry[j].offset
  BY DEF OnEntry
<1>4. j = k
  BY <1>1, <1>2, <1>3 DEF ArchiveOK
<1>. QED
  BY <1>2, <1>3, <1>4

\* An open file stays sound while only the cursor moves, and may come to be
\* decrypted.
LEMMA FileKept ==
    ASSUME FileSound, FileClosed, UNCHANGED <<ar, file>>,
           fp' \/ UNCHANGED fp, encrypted => encrypted'
    PROVE  FileSound' /\ FileClosed'
<1>1. FileClosed'
  BY DEF FileClosed
<1>2. FileSound'
  BY DEF FileSound, Readable
<1>. QED
  BY <1>1, <1>2

\* One case per action of ZNext.
LEMMA ZInvStep == ZInv /\ [ZNext]_zvars => ZInv'
<1> SUFFICES ASSUME ZInv, [ZNext]_zvars PROVE ZInv'
  OBVIOUS
<1>0. ar \in Archives /\ CursorSound /\ FileSound /\ FileClosed /\ SearchOk
  BY DEF ZInv
<1>1. CASE Open
  <2>1. PICK r \in InfoAt(0) : MoveTo(0, 0, r)
    BY <1>1 DEF Open
  <2>2. ar' = ar /\ file' = file /\ pc' = "ready" /\ fp' /\ ~fp
    BY <1>1 DEF Open, search
  <2>3. FileSound' /\ FileClosed'
    BY <1>0, <2>2 DEF FileSound, FileClosed
  <2>. QED
    BY <1>0, <2>1, <2>2, <2>3, FirstSound DEF ZInv, CursorSound, SearchOk
<1>2. CASE OpenFails \/ SearchRefused
  <2>1. UNCHANGED <<ar, num_file, pos_in_central_dir, current_file_ok, offset_curfile, info,
                    fp, file, encrypted, pc, saved, rc>>
    BY <1>2 DEF OpenFails, SearchRefused, cursor, search
  <2>2. FileSound' /\ FileClosed'
    BY <1>0, <2>1, FileKept
  <2>. QED
    BY <1>0, <2>1, <2>2 DEF ZInv, CursorSound, SearchOk, OnEntry, Readable
<1>3. CASE Close \/ CloseFile
  <2>1. /\ UNCHANGED <<ar, num_file, pos_in_central_dir, current_file_ok, offset_curfile, info,
                       pc, saved, rc>>
        /\ file' = None
    BY <1>3 DEF Close, CloseFile, cursor, search
  <2>2. FileSound' /\ FileClosed'
    BY <2>1 DEF FileSound, FileClosed
  <2>. QED
    BY <1>0, <2>1, <2>2 DEF ZInv, CursorSound, SearchOk, OnEntry, Readable
<1>4. CASE FirstFile
  <2>1. PICK r \in InfoAt(0) : MoveTo(0, 0, r)
    BY <1>4 DEF FirstFile
  <2>2. UNCHANGED <<ar, fp, file, encrypted>> /\ pc' = "ready"
    BY <1>4 DEF FirstFile, search
  <2>3. FileSound' /\ FileClosed'
    BY <1>0, <2>2, FileKept
  <2>. QED
    BY <1>0, <2>1, <2>2, <2>3, FirstSound DEF ZInv, CursorSound, SearchOk
<1>5. CASE NextFile
  <2>1. UNCHANGED <<ar, fp, file, encrypted>> /\ pc' = "ready"
    BY <1>5 DEF NextFile, search
  <2>2. FileSound' /\ FileClosed' /\ SearchOk' /\ ar' \in Archives
    BY <1>0, <2>1, FileKept DEF SearchOk
  <2>3. CASE UNCHANGED cursor
    BY <1>0, <2>1, <2>2, <2>3 DEF ZInv, CursorSound, OnEntry, Readable, cursor
  <2>4. ASSUME ~AtEnd, NEW r \in InfoAt(NextPos), MoveTo(num_file + 1, NextPos, r)
        PROVE  ZInv'
    <3>1. OnEntry(num_file, pos_in_central_dir, info, info.offset)
      BY <1>0, <2>4 DEF AtEnd, CursorSound, OnEntry
    <3>2. current_file_ok' => OnEntry(num_file, pos_in_central_dir, info, offset_curfile)'
      BY <3>1, <1>0, <2>1, <2>4, NextSound DEF NextPos
    <3>. QED
      BY <3>2, <2>1, <2>2 DEF ZInv, CursorSound
  <2>. QED
    BY <2>3, <2>4, <1>5 DEF NextFile
<1>6. ASSUME NEW name \in Names, SearchBegin(name) PROVE ZInv'
  <2>1. PICK r \in InfoAt(0) : MoveTo(0, 0, r) /\ rc' = (r # None)
    BY <1>6 DEF SearchBegin
  <2>2. /\ UNCHANGED <<ar, fp, file, encrypted>> /\ current_file_ok
        /\ saved' = [num |-> num_file, pos |-> pos_in_central_dir,
                     info |-> info, offset |-> offset_curfile]
    BY <1>6 DEF SearchBegin
  <2>3. OnEntry(num_file, pos_in_central_dir, info, offset_curfile)
    BY <1>0, <2>2 DEF CursorSound
  <2>4. OnEntry(saved.num, saved.pos, saved.info, saved.offset)'
    BY <2>2, <2>3 DEF OnEntry, Readable
  <2>5. FileSound' /\ FileClosed'
    BY <1>0, <2>2, FileKept
  <2>. QED
    BY <1>0, <2>1, <2>2, <2>4, <2>5, FirstSound DEF ZInv, CursorSound, SearchOk
<1>7. CASE SearchReread \/ UNCHANGED zvars
  <2>1. UNCHANGED <<ar, num_file, pos_in_central_dir, current_file_ok, offset_curfile, info,
                    fp, file, encrypted, pc, saved, rc>>
    BY <1>7 DEF SearchReread, zvars, cursor, search
  <2>2. FileSound' /\ FileClosed'
    BY <1>0, <2>1, FileKept
  <2>. QED
    BY <1>0, <2>1, <2>2 DEF ZInv, CursorSound, SearchOk, OnEntry, Readable
<1>8. CASE SearchFound
  <2>1. PICK r \in InfoAt(pos_in_central_dir) : r # None /\ info' = r
    BY <1>8 DEF SearchFound
  <2>2. /\ UNCHANGED <<ar, fp, file, encrypted>> /\ pc' = "ready" /\ current_file_ok
        /\ UNCHANGED <<num_file, pos_in_central_dir, current_file_ok, offset_curfile>>
    BY <1>0, <1>8 DEF SearchFound, SearchDone, SearchOk
  <2>3. OnEntry(num_file, pos_in_central_dir, info, offset_curfile)
    BY <1>0, <2>2 DEF CursorSound
  <2>4. info' = info
    BY <1>0, <2>1, <2>3, RereadSound
  <2>5. FileSound' /\ FileClosed'
    BY <1>0, <2>2, FileKept
  <2>. QED
    BY <1>0, <2>2, <2>3, <2>4, <2>5 DEF ZInv, CursorSound, SearchOk, OnEntry, Readable
<1>9. CASE SearchNext
  <2>1. PICK r \in InfoAt(pos_in_central_dir) :
            /\ r # None
            /\ \/ /\ AtEnd
                  /\ info' = r /\ rc' = FALSE
                  /\ UNCHANGED <<num_file, pos_in_central_dir, current_file_ok, offset_curfile>>
               \/ /\ ~AtEnd
                  /\ \E s \in InfoAt(pos_in_central_dir + r.width) :
                        /\ MoveTo(num_file + 1, pos_in_central_dir + r.width, s)
                        /\ rc' = (s # None)
    BY <1>9 DEF SearchNext
  <2>2. UNCHANGED <<ar, fp, file, encrypted, pc, saved>> /\ current_file_ok /\ pc = "search"
    BY <1>0, <1>9 DEF SearchNext, SearchOk
  <2>3. OnEntry(num_file, pos_in_central_dir, info, offset_curfile)
    BY <1>0, <2>2 DEF CursorSound
  <2>4. r = info /\ r.offset = offset_curfile
    BY <1>0, <2>1, <2>3, RereadSound
  <2>5. OnEntry(saved.num, saved.pos, saved.info, saved.offset)' /\ FileSound' /\ FileClosed'
    BY <1>0, <2>2, FileKept DEF CursorSound, OnEntry, Readable
  <2>6. CASE UNCHANGED <<num_file, pos_in_central_dir, current_file_ok, offset_curfile>>
             /\ info' = r /\ rc' = FALSE
    BY <1>0, <2>2, <2>3, <2>4, <2>5, <2>6 DEF ZInv, CursorSound, SearchOk, OnEntry, Readable
  <2>7. ASSUME NEW s \in InfoAt(pos_in_central_dir + r.width),
               MoveTo(num_file + 1, pos_in_central_dir + r.width, s), rc' = (s # None)
        PROVE  ZInv'
    <3>1. /\ current_file_ok' = (s # None)
          /\ current_file_ok' =>
               OnEntry(num_file, pos_in_central_dir, info, offset_curfile)'
      BY <1>0, <2>2, <2>3, <2>4, <2>7, NextSound
    <3>. QED
      BY <1>0, <2>2, <2>5, <2>7, <3>1 DEF ZInv, CursorSound, SearchOk
  <2>. QED
    BY <2>1, <2>6, <2>7
<1>10. CASE SearchFailed
  <2>1. /\ UNCHANGED <<ar, fp, file, encrypted>> /\ pc' = "ready" /\ pc = "search"
        /\ num_file' = saved.num /\ pos_in_central_dir' = saved.pos
        /\ info' = saved.info /\ offset_curfile' = saved.offset
    BY <1>10 DEF SearchFailed, SearchDone
  <2>2. OnEntry(num_file, pos_in_central_dir, info, offset_curfile)'
    BY <1>0, <2>1 DEF CursorSound, OnEntry, Readable
  <2>3. FileSound' /\ FileClosed'
    BY <1>0, <2>1, FileKept
  <2>. QED
    BY <1>0, <2>1, <2>2, <2>3 DEF ZInv, CursorSound, SearchOk
<1>11. ASSUME NEW pw \in BOOLEAN, OpenFile(pw) PROVE ZInv'
  <2>1. /\ ar' = ar /\ UNCHANGED cursor /\ pc' = "ready" /\ fp' = fp /\ fp
    BY <1>11 DEF OpenFile, search
  <2>2. CursorSound' /\ SearchOk' /\ FileClosed'
    BY <1>0, <2>1 DEF CursorSound, SearchOk, FileClosed, OnEntry, Readable, cursor
  <2>3. CASE UNCHANGED <<file, encrypted>>
    <3>1. FileSound'
      BY <1>0, <2>1, <2>3, FileKept
    <3>. QED
      BY <1>0, <2>1, <2>2, <3>1 DEF ZInv
  <2>4. CASE file' = None
    <3>1. FileSound'
      BY <2>4 DEF FileSound
    <3>. QED
      BY <1>0, <2>1, <2>2, <3>1 DEF ZInv
  <2>5. CASE /\ current_file_ok /\ HeaderOK
             /\ file' = [entry |-> info, from |-> DataStart(offset_curfile, pw), pw |-> pw]
             /\ encrypted' = (encrypted \/ pw)
    <3>1. PICK k \in 0..(ar.n - 1) : /\ Readable(k) /\ info = ar.entry[k]
                                     /\ offset_curfile = ar.entry[k].offset
      BY <1>0, <2>5 DEF CursorSound, OnEntry
    <3>2. /\ file'.entry = info /\ file'.from = DataStart(offset_curfile, pw) /\ file'.pw = pw
          /\ pw => encrypted'
      BY <2>5
    <3>3. HeaderMatches(ar.entry[k].offset, ar.entry[k])
      BY <2>5, <3>1 DEF HeaderOK
    <3>4. /\ ar.entry[k].offset \in DOMAIN ar.local
          /\ ar.local[ar.entry[k].offset].method = ar.entry[k].method
          /\ ar.entry[k].method \in Methods
          /\ ~ar.local[ar.entry[k].offset].descriptor =>
                ar.local[ar.entry[k].offset].key = ar.entry[k].key
          /\ ar.local[ar.entry[k].offset].length = ar.entry[k].length
      BY <3>3 DEF HeaderMatches
    <3>5. file'.from = ar.entry[k].offset + SIZEZIPLOCALHEADER + ar.entry[k].length
                          + ar.local[ar.entry[k].offset].extra + (IF file'.pw THEN 12 ELSE 0)
      BY <3>1, <3>2, <3>4 DEF DataStart
    <3>6. FileSound'
      BY <2>1, <3>1, <3>2, <3>4, <3>5 DEF FileSound, Readable
    <3>. QED
      BY <1>0, <2>1, <2>2, <3>6 DEF ZInv
  <2>. QED
    BY <2>3, <2>4, <2>5, <1>11 DEF OpenFile
<1>. QED
  BY <1>1, <1>2, <1>3, <1>4, <1>5, <1>6, <1>7, <1>8, <1>9, <1>10, <1>11
     DEF ZNext, SearchStep

\* For every archive and every sequence of calls and failing reads: a cursor
\* marked usable is wholly on one entry, and an open file reads from behind
\* the local header of the entry whose sizes it uses, a header that agrees
\* with it in all that check_header may demand.
THEOREM CursorAlwaysSound == ZSpec => [](CursorSound /\ FileSound)
<1>1. ZInit => ZInv
  BY DEF ZInit, ZInv, CursorSound, FileSound, FileClosed, SearchOk
<1>2. ZInv => CursorSound /\ FileSound
  BY DEF ZInv
<1>. QED
  BY <1>1, <1>2, ZInvStep, PTL DEF ZSpec
-----------------------------------------------------------------------------
\* Where search_file is: no entry before the one it stands on has the name,
\* and once its loop is over no reachable entry has (unless reads failed).
Searched ==
    pc = "search" =>
        /\ rc => \A j \in 0..(num_file - 1) : ar.entry[j].name # sought
        /\ ~rc /\ ~IoFaults =>
              \A k \in 0..(ar.n - 1) : Reachable(k) => ar.entry[k].name # sought

\* Without failing reads, a record that is not returned is not there: no
\* entry from number k on is reachable.
LEMMA NoRecord ==
    ASSUME ar \in Archives, ~IoFaults, NEW k \in 0..ar.n, None \in InfoAt(ar.at[k])
    PROVE  \A j \in 0..(ar.n - 1) : Reachable(j) => j < k
<1>1. ArchiveOK(ar) /\ \A j \in 0..(ar.n - 1) : ar.entry[j] # None
  BY ZipReaderAssumption
<1>2. RecordsAt(ar.at[k]) = {}
  BY <1>1 DEF InfoAt, RecordsAt
<1>3. k \in 0..(ar.n - 1) => ~Readable(k)
  BY <1>2 DEF RecordsAt
<1>4. ar.n \in Nat
  BY <1>1 DEF ArchiveOK
<1>. QED
  BY <1>3, <1>4 DEF Reachable

\* Every step of search_file keeps what it knows of the entries behind it.
LEMMA SearchedStep ==
    ASSUME ZInv, Searched, [ZNext]_zvars
    PROVE  Searched'
<1>0. ar \in Archives /\ CursorSound /\ SearchOk
  BY DEF ZInv
<1>1. ArchiveOK(ar)
  BY <1>0, ZipReaderAssumption
<1>2. ASSUME NEW name \in Names, SearchBegin(name) PROVE Searched'
  <2>1. PICK r \in InfoAt(0) : MoveTo(0, 0, r) /\ rc' = (r # None)
    BY <1>2 DEF SearchBegin
  <2>2. ar' = ar /\ num_file' = 0
    BY <1>2, <2>1 DEF SearchBegin, MoveTo
  <2>3. 0 \in 0..ar.n /\ ar.at[0] = 0
    BY <1>1 DEF ArchiveOK
  <2>4. ASSUME ~rc', ~IoFaults, NEW j \in 0..(ar.n - 1), Reachable(j) PROVE FALSE
    <3>1. None \in InfoAt(ar.at[0])
      BY <2>1, <2>3, <2>4
    <3>2. j < 0
      BY <3>1, <2>3, <2>4, <1>0, NoRecord
    <3>. QED
      BY <3>2, <1>1 DEF ArchiveOK
  <2>. QED
    BY <2>2, <2>4 DEF Searched, IoFaults, Reachable, Readable
<1>3. CASE SearchNext
  <2>1. PICK r \in InfoAt(pos_in_central_dir) :
            /\ r # None /\ r.name # sought
            /\ \/ /\ AtEnd
                  /\ info' = r /\ rc' = FALSE
                  /\ UNCHANGED <<num_file, pos_in_central_dir, current_file_ok, offset_curfile>>
               \/ /\ ~AtEnd
                  /\ \E s \in InfoAt(pos_in_central_dir + r.width) :
                        /\ MoveTo(num_file + 1, pos_in_central_dir + r.width, s)
                        /\ rc' = (s # None)
    BY <1>3 DEF SearchNext
  <2>2. UNCHANGED <<ar, pc, sought>> /\ current_file_ok /\ pc = "search" /\ rc
    BY <1>0, <1>3 DEF SearchNext, SearchOk
  <2>3. OnEntry(num_file, pos_in_central_dir, info, offset_curfile)
    BY <1>0, <2>2 DEF CursorSound
  <2>4. r = info
    BY <1>0, <2>1, <2>3, RereadSound
  <2>5. PICK j \in 0..(ar.n - 1) : /\ num_file = j /\ pos_in_central_dir = ar.at[j]
                                   /\ r = ar.entry[j]
    BY <2>3, <2>4 DEF OnEntry
  <2>6. \A i \in 0..j : ar.entry[i].name # sought
    BY <2>1, <2>2, <2>5, <1>1 DEF Searched, ArchiveOK
  <2>7. j \in Nat /\ ar.n \in Nat /\ j + 1 \in 0..ar.n /\ ar.at[j + 1] = ar.at[j] + r.width
    BY <2>5, <1>1 DEF ArchiveOK
  <2>8. CASE AtEnd /\ rc' = FALSE
    <3>1. ar.count # CountMax /\ ar.count = j + 1
      BY <2>2, <2>5, <2>8 DEF AtEnd
    <3>2. \A k \in 0..(ar.n - 1) : Reachable(k) => k \in 0..j
      BY <3>1, <2>7 DEF Reachable
    <3>. QED
      BY <3>2, <2>2, <2>6, <2>8 DEF Searched, Reachable, Readable
  <2>9. ASSUME NEW s \in InfoAt(pos_in_central_dir + r.width),
               MoveTo(num_file + 1, pos_in_central_dir + r.width, s), rc' = (s # None)
        PROVE  Searched'
    <3>1. num_file' = j + 1
      BY <2>5, <2>9 DEF MoveTo
    <3>2. ~rc' /\ ~IoFaults => \A k \in 0..(ar.n - 1) : Reachable(k) => k \in 0..j
      <4> SUFFICES ASSUME ~rc', ~IoFaults, NEW k \in 0..(ar.n - 1), Reachable(k)
                   PROVE  k \in 0..j
        OBVIOUS
      <4>1. None \in InfoAt(ar.at[j + 1])
        BY <2>5, <2>7, <2>9
      <4>2. k < j + 1
        BY <4>1, <2>7, <1>0, NoRecord
      <4>. QED
        BY <4>2, <2>7
    <3>3. \A i \in 0..(num_file' - 1) : ar.entry[i].name # sought
      BY <3>1, <2>6, <2>7
    <3>. QED
      BY <3>2, <3>3, <2>2, <2>6 DEF Searched, IoFaults, Reachable, Readable
  <2>. QED
    BY <2>1, <2>8, <2>9
<1>4. CASE SearchReread \/ UNCHANGED zvars
  <2>1. UNCHANGED <<ar, num_file, pc, sought, rc>>
    BY <1>4 DEF SearchReread, zvars, cursor, search
  <2>. QED
    BY <2>1 DEF Searched, IoFaults, Reachable, Readable
<1>5. CASE \/ Open \/ OpenFails \/ Close \/ FirstFile \/ NextFile \/ SearchRefused
           \/ SearchFound \/ SearchFailed \/ CloseFile \/ \E pw \in BOOLEAN : OpenFile(pw)
  <2>1. pc' = "ready"
    BY <1>5 DEF Open, OpenFails, Close, FirstFile, NextFile, SearchRefused, SearchFound,
                SearchFailed, SearchDone, CloseFile, OpenFile, search
  <2>. QED
    BY <2>1 DEF Searched
<1>. QED
  BY <1>2, <1>3, <1>4, <1>5 DEF ZNext, SearchStep

\* What search_file returns, from what it knew.
LEMMA SearchReturns ==
    ASSUME ZInv, Searched, [ZNext]_zvars, pc = "search", pc' = "ready"
    PROVE  IF ret'[2]
           THEN /\ current_file_ok'
                /\ info'.name = sought /\ ar.entry[num_file'].name = sought
                /\ \A j \in 0..(num_file' - 1) : ar.entry[j].name # sought
           ELSE ~IoFaults => \A k \in 0..(ar.n - 1) :
                                 Reachable(k) => ar.entry[k].name # sought
<1>0. ar \in Archives /\ CursorSound /\ SearchOk
  BY DEF ZInv
<1>1. CASE SearchFound
  <2>1. PICK r \in InfoAt(pos_in_central_dir) : r # None /\ r.name = sought /\ info' = r
    BY <1>1 DEF SearchFound
  <2>2. /\ ret'[2] = TRUE /\ rc /\ current_file_ok
        /\ UNCHANGED <<num_file, current_file_ok>>
    BY <1>0, <1>1 DEF SearchFound, SearchDone, Returns, SearchOk
  <2>3. OnEntry(num_file, pos_in_central_dir, info, offset_curfile)
    BY <1>0, <2>2 DEF CursorSound
  <2>4. r = info
    BY <1>0, <2>1, <2>3, RereadSound
  <2>5. ar.entry[num_file] = r
    BY <2>3, <2>4 DEF OnEntry
  <2>. QED
    BY <2>1, <2>2, <2>5 DEF Searched
<1>2. CASE SearchFailed
  <2>1. ret'[2] = FALSE /\ ~rc
    BY <1>2 DEF SearchFailed, SearchDone, Returns
  <2>. QED
    BY <2>1 DEF Searched
<1>3. SearchFound \/ SearchFailed
  <2>1. ~UNCHANGED zvars
    BY DEF zvars, search
  <2>2. pc # "ready"
    OBVIOUS
  <2>3. ~SearchNext /\ ~SearchReread
    BY <2>1 DEF SearchNext, SearchReread
  <2>. QED
    BY <2>1, <2>2, <2>3
       DEF ZNext, SearchStep, Open, OpenFails, Close, FirstFile, NextFile, SearchRefused,
           SearchBegin, OpenFile, CloseFile
<1>. QED
  BY <1>1, <1>2, <1>3

\* For every archive, wherever the object stood before and whatever reads
\* failed: search_file returns 1 only on the first entry of the name, and
\* returns 0 without failing reads only when no reachable entry has it.
THEOREM SearchesRight == ZSpec => SearchCorrect
<1>1. ZInit => ZInv /\ Searched
  BY DEF ZInit, ZInv, CursorSound, FileSound, FileClosed, SearchOk, Searched
<1>2. ZInv /\ Searched /\ [ZNext]_zvars => (ZInv /\ Searched)'
  BY ZInvStep, SearchedStep
<1>3. ZInv /\ Searched /\ [ZNext]_zvars =>
        [pc = "search" /\ pc' = "ready" =>
          IF ret'[2]
          THEN /\ current_file_ok'
               /\ info'.name = sought /\ ar.entry[num_file'].name = sought
               /\ \A j \in 0..(num_file' - 1) : ar.entry[j].name # sought
          ELSE ~IoFaults => \A k \in 0..(ar.n - 1) :
                                Reachable(k) => ar.entry[k].name # sought]_zvars
  BY SearchReturns
<1>. QED
  BY <1>1, <1>2, <1>3, PTL DEF ZSpec, SearchCorrect
=============================================================================
