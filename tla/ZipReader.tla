----------------------------- MODULE ZipReader -----------------------------
(***************************************************************************)
(* The cursor of class bkUnzip: the object is positioned on one entry of   *)
(* the archive's central directory, and open_file opens that entry.        *)
(*                                                                         *)
(* The central directory is an array of entries at byte positions: entry k *)
(* starts at at[k] and is `width' long (SIZECENTRALDIRITEM plus the sizes  *)
(* of its name, extra field and comment).  Reading a record at any other   *)
(* position, or one whose magic is wrong, fails.  Positions are relative   *)
(* to offset_central_dir; the local headers and the data behind them are   *)
(* at positions of their own, relative to byte_before_the_zipfile.         *)
(***************************************************************************)
EXTENDS Naturals

CONSTANTS
    Archives,   \* the archives an object may be opened on, see ArchiveOK
    Names,      \* names callers search for
    Blank,      \* _info before any record was read
    None,       \* no record, no open file
    CountMax    \* 0xffff: "2^16 files overflow hack"

\* a.n entries, a.entry[k] at position a.at[k], the local headers a.local by
\* offset; a.count is number_entry, which the end-of-directory record states
\* and nothing makes equal to a.n; a.flaky says that a read may fail at any
\* time.  Of an entry, and of a local header, check_header sees the method,
\* the length of the name, and the key: crc and the two sizes; the header also
\* has an extra field of some length, and the flag (descriptor) that says that
\* its crc and sizes are to be found behind the data.
ArchiveOK(a) ==
    /\ a.n \in Nat /\ a.count \in 0..CountMax /\ a.flaky \in BOOLEAN
    /\ a.at[0] = 0
    /\ \A k \in 0..(a.n - 1) :
          /\ a.at[k] \in Nat
          /\ a.at[k + 1] = a.at[k] + a.entry[k].width
    /\ \A j, k \in 0..a.n : a.at[j] = a.at[k] => j = k

SIZEZIPLOCALHEADER == 30        \* 0x1e
Methods == {0, 8}               \* stored and Z_DEFLATED

ASSUME ZipReaderAssumption ==
    /\ CountMax \in Nat
    /\ \A a \in Archives : ArchiveOK(a)
    /\ \A a \in Archives : \A k \in 0..(a.n - 1) : a.entry[k] # None
    /\ Blank # None

VARIABLES
    ar,         \* the archive the object was made for
    fp,         \* TRUE: the archive is open
    num_file, pos_in_central_dir, current_file_ok, offset_curfile, info,
    file,       \* _file (None: NULL): the entry it was opened for, the
                \* position of its data, and whether a password was given
    encrypted,  \* the flag that makes read_file decrypt
    pc,         \* "ready", or "search" inside search_file
    sought,     \* search_file: the name looked for
    saved,      \* search_file: the cursor to restore
    rc,         \* search_file: the result of first_file/next_file
    spin,       \* search_file: flips when its loop goes round in place, to
                \* make that a step (no variable of the program)
    ret         \* the last call and its result

cursor == <<num_file, pos_in_central_dir, current_file_ok, offset_curfile, info>>
search == <<pc, sought, saved, rc, spin>>
zvars == <<ar, fp, cursor, file, encrypted, search, ret>>

IoFaults == ar.flaky

\* The record at byte position p, if there is one with the right magic.
Readable(k) == ar.entry[k].magic
RecordsAt(p) == {ar.entry[k] : k \in {j \in 0..(ar.n - 1) : ar.at[j] = p /\ Readable(j)}}

\* The results of get_current_file_info at position p: the record, or None
\* when it returns 0 and leaves *pinfo alone.
InfoAt(p) == IF RecordsAt(p) = {} THEN {None}
             ELSE RecordsAt(p) \cup IF IoFaults THEN {None} ELSE {}

\* The cursor after first_file or next_file moved it to entry number k at
\* position p and get_current_file_info returned r.
MoveTo(k, p, r) ==
    /\ num_file' = k
    /\ pos_in_central_dir' = p
    /\ info' = IF r = None THEN info ELSE r
    /\ offset_curfile' = info'.offset
    /\ current_file_ok' = (r # None)

ZInit ==
    /\ ar \in Archives
    /\ fp = FALSE
    /\ num_file = 0 /\ pos_in_central_dir = 0 /\ current_file_ok = FALSE
    /\ info = Blank /\ offset_curfile = Blank.offset
    /\ file = None
    /\ encrypted = FALSE
    /\ pc = "ready" /\ sought = None /\ saved = None /\ rc = FALSE /\ spin = FALSE
    /\ ret = <<"none", FALSE>>

Returns(call, r) == ret' = <<call, r>>

\* open: the end-of-directory record is found and sane; then first_file.
Open ==
    /\ pc = "ready" /\ ~fp
    /\ fp' = TRUE
    /\ encrypted' = FALSE
    /\ \E r \in InfoAt(0) : MoveTo(0, 0, r)
    /\ Returns("open", TRUE)
    /\ UNCHANGED <<ar, file, search>>

\* open returns 0: the file is closed again (goto err) and nothing is read.
OpenFails ==
    /\ IoFaults
    /\ pc = "ready" /\ ~fp
    /\ Returns("open", FALSE)
    /\ UNCHANGED <<ar, fp, cursor, file, encrypted, search>>

\* close: close_file, then the archive.  The cursor is left as it is.
Close ==
    /\ pc = "ready"
    /\ fp' = FALSE
    /\ file' = None
    /\ Returns("close", TRUE)
    /\ UNCHANGED <<ar, cursor, encrypted, search>>

FirstFile ==
    /\ pc = "ready" /\ fp
    /\ \E r \in InfoAt(0) : MoveTo(0, 0, r) /\ Returns("first", r # None)
    /\ UNCHANGED <<ar, fp, file, encrypted, search>>

\* Mutant of AtEnd: the last entry is taken for the end.
AtEndEarly == \/ ~current_file_ok
              \/ ar.count # CountMax /\ num_file + 2 = ar.count

\* next_file returns 0 without moving: no current file, or it is the last.
AtEnd == \/ ~current_file_ok
         \/ ar.count # CountMax /\ num_file + 1 = ar.count

NextPos == pos_in_central_dir + info.width

NextFile ==
    /\ pc = "ready" /\ fp
    /\ \/ /\ AtEnd
          /\ Returns("next", FALSE)
          /\ UNCHANGED cursor
       \/ /\ ~AtEnd
          /\ \E r \in InfoAt(NextPos) : /\ MoveTo(num_file + 1, NextPos, r)
                                        /\ Returns("next", r # None)
    /\ UNCHANGED <<ar, fp, file, encrypted, search>>

\* search_file(name) without a current file: return 0.
SearchRefused ==
    /\ pc = "ready" /\ fp /\ ~current_file_ok
    /\ Returns("search", FALSE)
    /\ UNCHANGED <<ar, fp, cursor, file, encrypted, search>>

\* search_file(name), of a name that is not empty: save the cursor, then
\* first_file.
SearchBegin(name) ==
    /\ pc = "ready" /\ fp /\ current_file_ok
    /\ pc' = "search"
    /\ sought' = name
    /\ saved' = [num |-> num_file, pos |-> pos_in_central_dir,
                 info |-> info, offset |-> offset_curfile]
    /\ \E r \in InfoAt(0) : MoveTo(0, 0, r) /\ rc' = (r # None)
    /\ UNCHANGED <<ar, fp, file, encrypted, spin, ret>>

\* The loop body reads the record again; when that fails it goes round with
\* everything as it was, as often as the read fails.
SearchReread ==
    /\ pc = "search" /\ rc
    /\ None \in InfoAt(pos_in_central_dir)
    /\ spin' = ~spin
    /\ UNCHANGED <<ar, fp, cursor, file, encrypted, pc, sought, saved, rc, ret>>

SearchDone(r) ==
    /\ pc' = "ready" /\ sought' = None /\ saved' = None /\ rc' = FALSE /\ spin' = FALSE
    /\ Returns("search", r)

\* The record read again has the name: return 1 on it.
SearchFound ==
    /\ pc = "search" /\ rc
    /\ \E r \in InfoAt(pos_in_central_dir) \ {None} :
          r.name = sought /\ info' = r
    /\ SearchDone(TRUE)
    /\ UNCHANGED <<ar, fp, file, encrypted, num_file, pos_in_central_dir,
                   current_file_ok, offset_curfile>>

\* It has another name: next_file, on the record just read.
SearchNext ==
    /\ pc = "search" /\ rc
    /\ \E r \in InfoAt(pos_in_central_dir) \ {None} :
          /\ r.name # sought
          /\ \/ /\ AtEnd
                /\ info' = r /\ rc' = FALSE
                /\ UNCHANGED <<num_file, pos_in_central_dir, current_file_ok, offset_curfile>>
             \/ /\ ~AtEnd
                /\ \E s \in InfoAt(pos_in_central_dir + r.width) :
                      /\ MoveTo(num_file + 1, pos_in_central_dir + r.width, s)
                      /\ rc' = (s # None)
    /\ UNCHANGED <<ar, fp, file, encrypted, pc, sought, saved, spin, ret>>

\* Mutant of SearchFailed: the loop goes on after the last entry.
SearchFailedRetries ==
    /\ pc = "search" /\ ~rc
    /\ \E r \in InfoAt(0) : MoveTo(0, 0, r) /\ rc' = (r # None)
    /\ UNCHANGED <<ar, fp, file, encrypted, pc, sought, saved, spin, ret>>

\* Mutant of SearchFailed: _info is not restored.
SearchFailedKeepsInfo ==
    /\ pc = "search" /\ ~rc
    /\ num_file' = saved.num
    /\ pos_in_central_dir' = saved.pos
    /\ offset_curfile' = saved.offset
    /\ SearchDone(FALSE)
    /\ UNCHANGED <<ar, fp, file, encrypted, current_file_ok, info>>

\* The loop ended: "restore the state of the 'current file'", return 0.
SearchFailed ==
    /\ pc = "search" /\ ~rc
    /\ num_file' = saved.num
    /\ pos_in_central_dir' = saved.pos
    /\ info' = saved.info
    /\ offset_curfile' = saved.offset
    /\ SearchDone(FALSE)
    /\ UNCHANGED <<ar, fp, file, encrypted, current_file_ok>>

\* Mutant of HeaderMatches: crc and sizes are not compared.
HeaderMatchesAnyKey(o, e) ==
    /\ o \in DOMAIN ar.local
    /\ ar.local[o].method = e.method /\ e.method \in Methods
    /\ ar.local[o].length = e.length

\* check_header: the local header at offset o must carry the method of the
\* record e, one that can be read, the length of its name, and its crc and
\* sizes unless it says that those are behind the data.
HeaderMatches(o, e) ==
    /\ o \in DOMAIN ar.local
    /\ ar.local[o].method = e.method /\ e.method \in Methods
    /\ ar.local[o].key = e.key \/ ar.local[o].descriptor
    /\ ar.local[o].length = e.length

HeaderOK == HeaderMatches(offset_curfile, info)

\* pos_in_zipfile: behind the local header, and the encryption header of 12
\* bytes when there is a password.
DataStart(o, pw) ==
    o + SIZEZIPLOCALHEADER + ar.local[o].length + ar.local[o].extra + IF pw THEN 12 ELSE 0

\* open_file(password): pw says whether one is given.  An open file is closed
\* first; check_header, a seek or a read may fail and leave none open.
OpenFile(pw) ==
    /\ pc = "ready" /\ fp
    /\ \/ /\ ~current_file_ok
          /\ Returns("open_file", FALSE)
          /\ UNCHANGED <<file, encrypted>>
       \/ /\ current_file_ok /\ HeaderOK
          /\ file' = [entry |-> info, from |-> DataStart(offset_curfile, pw), pw |-> pw]
          /\ encrypted' = (encrypted \/ pw)
          /\ Returns("open_file", TRUE)
       \/ /\ current_file_ok /\ (IoFaults \/ ~HeaderOK)
          /\ file' = None
          /\ Returns("open_file", FALSE)
          /\ UNCHANGED encrypted
    /\ UNCHANGED <<ar, fp, cursor, search>>

CloseFile ==
    /\ pc = "ready" /\ fp
    /\ file' = None
    /\ Returns("close_file", TRUE)
    /\ UNCHANGED <<ar, fp, cursor, encrypted, search>>

SearchStep == SearchReread \/ SearchFound \/ SearchNext \/ SearchFailed

ZNext ==
    \/ Open \/ OpenFails \/ Close
    \/ FirstFile \/ NextFile
    \/ SearchRefused \/ \E name \in Names : SearchBegin(name)
    \/ SearchStep
    \/ \E pw \in BOOLEAN : OpenFile(pw)
    \/ CloseFile

ZSpec == ZInit /\ [][ZNext]_zvars
-----------------------------------------------------------------------------
\* The cursor (n, p, r, o) stands on an entry: number, position, record and
\* local header offset are those of one and the same entry.
OnEntry(n, p, r, o) ==
    \E k \in 0..(ar.n - 1) : /\ Readable(k)
                             /\ n = k /\ p = ar.at[k]
                             /\ r = ar.entry[k] /\ o = ar.entry[k].offset

\* Whenever current_file_ok says that the current file is usable, the five
\* fields of the cursor agree on one entry, whatever reads failed and however
\* searches and moves were mixed; so does what search_file will restore.
CursorSound ==
    /\ current_file_ok => OnEntry(num_file, pos_in_central_dir, info, offset_curfile)
    /\ pc = "search" => OnEntry(saved.num, saved.pos, saved.info, saved.offset)

\* An open file, however the cursor has moved since, is that of one readable
\* entry: its data are read from behind the local header of the entry that
\* supplied its sizes and crc, that header names the same method, one that
\* can be read, and has the same crc and sizes unless it says that they are
\* behind the data; and what needs a password is decrypted.
FileSound ==
    file # None => \E k \in 0..(ar.n - 1) :
        LET e == ar.entry[k]
            h == ar.local[e.offset]
        IN /\ Readable(k) /\ file.entry = e
           /\ e.offset \in DOMAIN ar.local
           /\ file.from = e.offset + SIZEZIPLOCALHEADER + e.length + h.extra
                             + (IF file.pw THEN 12 ELSE 0)
           /\ h.method = e.method /\ h.method \in Methods
           /\ ~h.descriptor => h.key = e.key
           /\ file.pw => encrypted

\* An entry the cursor can reach: no unreadable record before it, and the
\* entry count does not end the directory first.
Reachable(k) == /\ k \in 0..(ar.n - 1)
                /\ \A j \in 0..k : Readable(j)
                /\ \A j \in 1..k : ar.count = CountMax \/ ar.count # j

\* search_file returns 1 exactly when an entry of that name is reachable, and
\* then the cursor is on the first of them (failing reads may hide one).
SearchCorrect ==
    [][pc = "search" /\ pc' = "ready" =>
          IF ret'[2]
          THEN /\ current_file_ok'
               /\ info'.name = sought /\ ar.entry[num_file'].name = sought
               /\ \A j \in 0..(num_file' - 1) : ar.entry[j].name # sought
          ELSE ~IoFaults => \A k \in 0..(ar.n - 1) :
                                Reachable(k) => ar.entry[k].name # sought]_zvars
=============================================================================
