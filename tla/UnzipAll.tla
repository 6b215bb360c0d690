------------------------------ MODULE UnzipAll ------------------------------
(***************************************************************************)
(* The static entry points of bkUnzip that the JavaScript binding exports, *)
(* as programs that drive a ZipReader object:                              *)
(*    "list"  get_files(zipfile)              "text"  toString(zip, name)  *)
(*    "all"   unzip(zipfile, dir)             "one"   unzip(zip, name, out)*)
(* together with the directories bkMakePath makes and the files extract    *)
(* (one step here, module Extract opens it up) puts into them.  A fifth,   *)
(* "calls", is any other client of the class.                              *)
(*                                                                         *)
(* An entry's name is [path, slash]: its components, and whether it ends   *)
(* with '/'.  A place in the file system is [abs, path].  An entry that is *)
(* `blank' has no data that read_file could deliver: it returns 0 at once. *)
(***************************************************************************)
EXTENDS ZipReader, SequencesExt, FiniteSetsExt

CONSTANTS
    Jobs,       \* which of the programs may be run
    Root,       \* the dir argument of unzip, a place, without a final '/'
    OutFile,    \* the outfile argument of unzip, a place
    Dirs0       \* directories that exist when the program starts

ASSUME UnzipAllAssumption ==
    /\ Jobs \subseteq {"list", "all", "one", "text", "calls"}
    /\ Root.path # <<>>

VARIABLES
    job, want,  \* the program, and its file name argument
    dpc,        \* where it is
    got,        \* the numbers of the entries it has used, in order
    dirs,       \* the directories that exist
    files,      \* the files that exist: place -> number of the entry
    result      \* what it returned

dvars == <<job, want, dpc, got, dirs, files, result>>
vars == <<zvars, dvars>>

Place(abs, path) == [abs |-> abs, path |-> path]
EmptyName == [path |-> <<>>, slash |-> FALSE]

Init ==
    /\ ZInit
    /\ job \in Jobs
    /\ want \in IF job \in {"one", "text"} THEN Names ELSE {None}
    /\ dpc = IF job = "calls" THEN "calls" ELSE "open"
    /\ got = <<>>
    /\ dirs = Dirs0
    /\ files = << >>
    /\ result = FALSE

Finish(r) == dpc' = "done" /\ result' = r

\* unzip.open()
CallOpen ==
    /\ dpc = "open"
    /\ \/ /\ Open
          /\ dpc' = IF job \in {"one", "text"} THEN "search" ELSE "open_file"
          /\ UNCHANGED result
       \/ OpenFails /\ Finish(FALSE)
    /\ UNCHANGED <<job, want, got, dirs, files>>

\* unzip.search_file(filename)
CallSearch ==
    /\ dpc = "search"
    /\ \/ SearchBegin(want) /\ dpc' = "searching" /\ UNCHANGED result
       \/ SearchRefused /\ Finish(FALSE)
    /\ UNCHANGED <<job, want, got, dirs, files>>

\* Mutant of Searching: the result of search_file is not tested.
SearchingUnchecked ==
    /\ dpc = "searching"
    /\ SearchStep
    /\ dpc' = IF pc' = "search" THEN dpc ELSE "open_file"
    /\ UNCHANGED <<job, want, got, dirs, files, result>>

Searching ==
    /\ dpc = "searching"
    /\ SearchStep
    /\ IF pc' = "search" THEN UNCHANGED <<dpc, result>>
       ELSE IF ret'[2] THEN dpc' = "open_file" /\ UNCHANGED result
       ELSE Finish(FALSE)
    /\ UNCHANGED <<job, want, got, dirs, files>>

\* unzip.open_file(): every program gives up when it fails.
CallOpenFile ==
    /\ dpc = "open_file"
    /\ OpenFile(FALSE)
    /\ IF ret'[2] THEN dpc' = "use" /\ UNCHANGED result ELSE Finish(FALSE)
    /\ UNCHANGED <<job, want, got, dirs, files>>

\* get_file_name, get_file_mode: each reads the record again, and yields an
\* empty name or mode 0 when that fails.
NamesRead == {IF r = None THEN EmptyName ELSE r.name : r \in InfoAt(pos_in_central_dir)}
KindsRead == {IF r = None THEN "none" ELSE r.kind : r \in InfoAt(pos_in_central_dir)}

\* What bkMakePath adds to the directories: bkStrSplit drops a leading '/',
\* so its mkdirs are relative; the loop leaves the last component out; and
\* it stops below a name that is a file (EEXIST is ignored there, and the
\* next mkdir fails).
PathMade(path) ==
    LET At(i) == Place(FALSE, SubSeq(path, 1, i))
    IN {At(i) : i \in {j \in 1..(Len(path) - 1) :
                          \A m \in 1..j : At(m) \notin DOMAIN files}}

\* A mkdir may also fail for good, which ends the loop.
MakePath(path) ==
    \E n \in (IF IoFaults THEN 1..Len(path) ELSE {Len(path)}) :
        dirs' = dirs \cup PathMade(SubSeq(path, 1, n))

\* The parent directory of a place exists (the current and the root
\* directory always do).
ParentExists(place, ds) ==
    Len(place.path) = 1 \/ [place EXCEPT !.path = Front(@)] \in ds

\* extract or symlink for entry k: it needs the parent directory and a name
\* that is not a directory, and may still fail.
CanStore(place) == ParentExists(place, dirs') /\ place \notin dirs'

\* Mutant of Stored: a file that is there is not replaced.
StoredOnce(place, k) ==
    /\ CanStore(place)
    /\ files' = [p \in DOMAIN files \cup {place} |-> IF p \in DOMAIN files THEN files[p] ELSE k]

Stored(place, k) ==
    /\ CanStore(place)
    /\ files' = [p \in DOMAIN files \cup {place} |-> IF p = place THEN k ELSE files[p]]

NotStored(place) ==
    /\ IoFaults \/ ~CanStore(place)
    /\ UNCHANGED files

\* symlink fails after unlink(outname) has taken the old file away.
Unlinked(place) ==
    /\ IoFaults
    /\ files' = [p \in DOMAIN files \ {place} |-> files[p]]

\* The body of unzip's loop for the entry that was opened.
UnzipEntry ==
    \E name \in NamesRead, kind \in KindsRead :
        LET outname == Place(Root.abs, Root.path \o name.path)
            slash == name.slash \/ name.path = <<>>
            outdir == IF slash THEN outname.path ELSE Front(outname.path)
        IN \/ /\ kind = "dir" \/ slash
              /\ MakePath(outdir) /\ UNCHANGED files
           \/ /\ kind = "link" /\ ~slash /\ ~file.entry.blank
              /\ MakePath(outdir)
              /\ Stored(outname, num_file) \/ NotStored(outname) \/ Unlinked(outname)
           \/ /\ kind \in {"none", "reg"} /\ ~slash
              /\ MakePath(outdir)
              /\ Stored(outname, num_file) \/ NotStored(outname)
           \/ \* no mode it handles, or a link without a text
              /\ kind = "other" \/ (kind = "link" /\ (file.entry.blank \/ IoFaults))
              /\ ~slash
              /\ UNCHANGED <<dirs, files>>

\* The entry that was opened is used: listed; read into a string; extracted
\* to outfile, the result being extract's; or unpacked below dir.
UseEntry ==
    /\ dpc = "use"
    /\ got' = Append(got, num_file)
    /\ \/ /\ job = "list"
          /\ dpc' = "close" /\ UNCHANGED <<dirs, files, result>>
       \/ /\ job = "text"
          /\ Finish(TRUE) /\ UNCHANGED <<dirs, files>>
       \/ /\ job = "one" /\ UNCHANGED dirs
          /\ \/ Stored(OutFile, num_file) /\ Finish(TRUE)
             \/ NotStored(OutFile) /\ Finish(FALSE)
       \/ /\ job = "all" /\ UnzipEntry
          /\ dpc' = "close" /\ UNCHANGED result
    /\ UNCHANGED <<zvars, job, want>>

\* unzip.close_file()
CallCloseFile ==
    /\ dpc = "close"
    /\ CloseFile
    /\ dpc' = "next"
    /\ UNCHANGED <<job, want, got, dirs, files, result>>

\* Mutant of CallNextFile: its result is not tested.
CallNextFileIgnored ==
    /\ dpc = "next"
    /\ NextFile
    /\ dpc' = "open_file" /\ UNCHANGED result
    /\ UNCHANGED <<job, want, got, dirs, files>>

\* unzip.next_file(): 0 ends the loop.
CallNextFile ==
    /\ dpc = "next"
    /\ NextFile
    /\ IF ret'[2] THEN dpc' = "open_file" /\ UNCHANGED result ELSE Finish(TRUE)
    /\ UNCHANGED <<job, want, got, dirs, files>>

\* The program has returned.
Done == dpc = "done" /\ UNCHANGED vars

Call == CallOpen \/ CallSearch \/ Searching \/ CallOpenFile \/ UseEntry
           \/ CallCloseFile \/ CallNextFile

\* Any other client of the class: it makes the calls of ZipReader in any order.
AnyCall == job = "calls" /\ ZNext /\ UNCHANGED dvars
AnySearch == job = "calls" /\ SearchStep /\ UNCHANGED dvars

Next == Call \/ AnyCall \/ Done

\* A program that was started runs on, and so does a search that was: both do
\* so in a loop that reads a record again and again, too.
Spec == Init /\ [][Next]_vars /\ WF_vars(Call) /\ WF_vars(AnySearch)
-----------------------------------------------------------------------------
\* The entries the programs "list" and "all" must use: those the cursor can
\* reach, up to the first whose local header is bad.
HeaderGood(k) == HeaderMatches(ar.entry[k].offset, ar.entry[k])
Usable == {k \in 0..(ar.n - 1) : Reachable(k) /\ \A j \in 0..k : HeaderGood(j)}

Outname(k) == Place(Root.abs, Root.path \o ar.entry[k].name.path)
IsFile(k) == /\ \/ ar.entry[k].kind \in {"reg", "none"}
                \/ ar.entry[k].kind = "link" /\ ~ar.entry[k].blank
             /\ ~ar.entry[k].name.slash /\ ar.entry[k].name.path # <<>>

\* zipFiles and unzip use the entries of the archive once each and in order,
\* whatever reads fail; without failures they use every one they can reach.
UsesEachEntryOnce ==
    job \in {"list", "all"} =>
        /\ \A i \in 1..Len(got) : got[i] = i - 1
        /\ dpc = "done" /\ ~IoFaults => Usable = {got[i] : i \in 1..Len(got)}

\* unzipFile and toString work on the first entry of the name they were given,
\* and fail only if none is reachable, the first one has a bad header, or it
\* cannot be stored.
FindsTheEntry ==
    job \in {"one", "text"} /\ dpc = "done" =>
        IF result
        THEN /\ Len(got) = 1 /\ ar.entry[got[1]].name = want
             /\ \A j \in 0..(got[1] - 1) : ar.entry[j].name # want
             /\ job = "one" => files[OutFile] = got[1]
        ELSE ~IoFaults =>
                \/ job = "one" /\ (~ParentExists(OutFile, Dirs0) \/ OutFile \in Dirs0)
                \/ \A k \in 0..(ar.n - 1) : ar.entry[k].name = want =>
                      ~Reachable(k) \/ \E j \in 0..k : ar.entry[j].name = want /\ ~HeaderGood(j)

\* An entry whose directory was there before ends up in its file: entries
\* before and after it, directories made on the way included, do not get in
\* its way, and of several entries of one name the last is kept.
UnpacksIntoExistingDirs ==
    job = "all" /\ dpc = "done" /\ ~IoFaults =>
        \A k \in Usable :
            IsFile(k) /\ ParentExists(Outname(k), Dirs0) /\ Outname(k) \notin dirs =>
                /\ Outname(k) \in DOMAIN files
                /\ files[Outname(k)] =
                      Max({j \in Usable : IsFile(j) /\ Outname(j) = Outname(k)})

\* search_file goes round in place for ever: the one loop that a read which
\* keeps failing keeps going.
Spinning == /\ <>[](IoFaults /\ pc = "search" /\ rc)
            /\ <>[][SearchReread]_zvars

\* Every program returns, and so does every search of any other client,
\* whatever the archive holds and whatever reads fail; the one exception is a
\* search whose re-read of a record it has just read fails for ever.
Finishes == \/ /\ job # "calls" ~> dpc = "done"
               /\ pc = "search" ~> pc = "ready"
            \/ Spinning

\* "Safely unzip all files": when unzip returns 1 the files are there.
AllFilesUnzipped ==
    job = "all" /\ dpc = "done" /\ result =>
        \A k \in 0..(ar.n - 1) : IsFile(k) => Outname(k) \in DOMAIN files
=============================================================================
