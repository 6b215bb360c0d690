------------------------------ MODULE Extract ------------------------------
(***************************************************************************)
(* bkUnzip::extract: one archive entry is written to <outname>.tmp, which  *)
(* is then renamed to <outname>.  Several processes (and one process after *)
(* another has crashed) run it against the same directory.                 *)
(*                                                                         *)
(* A file is an inode with blocks and a mode; a directory entry maps a     *)
(* name to an inode.  One block is one buffer (4096 bytes) of read_file.   *)
(* A block holds the content version it was written from, which is all the *)
(* properties compare.                                                     *)
(***************************************************************************)
EXTENDS Naturals, FiniteSets

CONSTANTS
    Procs,      \* processes that call extract
    Outs,       \* output names
    Tmp,        \* Tmp[o]: the name outname + ".tmp"
    Versions,   \* contents an archive entry may have
    Size,       \* Size[v]: the number of blocks of content v
    MaxSize,    \* bound on every Size[v]
    ModeOf,     \* ModeOf[v]: the entry's unix mode, 0 when it has none
    Inodes,     \* files the file system can hold
    None,       \* no inode, no block, no job
    Faults,     \* which system calls may fail, see FaultKinds
    Exclusive   \* TRUE: callers never extract to one name concurrently

FaultKinds == {"open", "read", "write", "chmod", "rename", "crash"}

\* The mode extract creates the temporary file with: S_IRUSR|S_IWUSR.
CreateMode == 384

Names == Outs \cup {Tmp[o] : o \in Outs}

ASSUME ExtractAssumption ==
    /\ MaxSize \in Nat
    /\ Size \in [Versions -> 0..MaxSize]
    /\ ModeOf \in [Versions -> Nat]
    /\ \A o \in Outs : Tmp[o] # o
    /\ None \notin Inodes /\ None \notin Versions /\ None \notin Outs
    /\ None \notin Outs \X Versions
    /\ Faults \subseteq FaultKinds
    /\ Exclusive \in BOOLEAN

VARIABLES
    names,      \* the directory: name -> inode or None
    blocks,     \* blocks[i][b]: the content of block b of inode i
    mode,       \* mode[i]: permission bits of inode i
    pc,         \* where each process is in extract
    out,        \* out[p]: outname of the running call
    src,        \* src[p]: content of the entry the call extracts
    ino,        \* ino[p]: the inode its fd was opened on
    off,        \* off[p]: blocks read and written so far
    ret,        \* ret[p]: how the last call ended
    done        \* history: the outputs some call returned 1 for

files == <<names, blocks, mode>>
vars == <<names, blocks, mode, pc, out, src, ino, off, ret, done>>

Empty == [b \in 1..MaxSize |-> None]

\* The blocks of a file that holds content v and nothing else.
Whole(v) == [b \in 1..MaxSize |-> IF b <= Size[v] THEN v ELSE None]

\* The mode of a file extracted from v: the created one unless chmod ran.
FinalMode(v) == IF ModeOf[v] = 0 THEN CreateMode ELSE ModeOf[v]

FreeInodes == {i \in Inodes : /\ \A n \in Names : names[n] # i
                              /\ \A p \in Procs : ino[p] # i}

Active(p) == pc[p] # "idle"

Init ==
    /\ names = [n \in Names |-> None]
    /\ blocks = [i \in Inodes |-> Empty]
    /\ mode = [i \in Inodes |-> CreateMode]
    /\ pc = [p \in Procs |-> "idle"]
    /\ out = [p \in Procs |-> None]
    /\ src = [p \in Procs |-> None]
    /\ ino = [p \in Procs |-> None]
    /\ off = [p \in Procs |-> 0]
    /\ ret = [p \in Procs |-> "none"]
    /\ done = {}

\* The call of p ends with result r; its locals are gone.
Return(p, r) ==
    /\ pc' = [pc EXCEPT ![p] = "idle"]
    /\ out' = [out EXCEPT ![p] = None]
    /\ src' = [src EXCEPT ![p] = None]
    /\ ino' = [ino EXCEPT ![p] = None]
    /\ off' = [off EXCEPT ![p] = 0]
    /\ ret' = [ret EXCEPT ![p] = r]

CanStart(p, o) ==
    /\ ~Active(p)
    /\ Exclusive => \A q \in Procs : out[q] # o

\* The call's locals once open(tmp) returned a descriptor on inode i.
Opened(p, o, v, i) ==
    /\ pc' = [pc EXCEPT ![p] = "copy"]
    /\ out' = [out EXCEPT ![p] = o]
    /\ src' = [src EXCEPT ![p] = v]
    /\ ino' = [ino EXCEPT ![p] = i]
    /\ off' = [off EXCEPT ![p] = 0]
    /\ ret' = [ret EXCEPT ![p] = "none"]

\* open(tmp, O_CREAT|O_WRONLY) when there is no such file.
OpenCreate(p, o, v) ==
    /\ CanStart(p, o)
    /\ names[Tmp[o]] = None
    /\ FreeInodes # {}
    /\ LET i == CHOOSE f \in FreeInodes : TRUE
       IN /\ names' = [names EXCEPT ![Tmp[o]] = i]
          /\ blocks' = [blocks EXCEPT ![i] = Empty]
          /\ mode' = [mode EXCEPT ![i] = CreateMode]
          /\ Opened(p, o, v, i)
    /\ UNCHANGED done

\* The same open when the file is there: neither O_TRUNC nor O_EXCL is
\* given, so its blocks and its mode stay.
OpenExisting(p, o, v) ==
    /\ CanStart(p, o)
    /\ names[Tmp[o]] # None
    /\ Opened(p, o, v, names[Tmp[o]])
    /\ UNCHANGED <<files, done>>

\* "Can not create file": return 0.
OpenFails(p, o) ==
    /\ "open" \in Faults
    /\ CanStart(p, o)
    /\ Return(p, "fail")
    /\ UNCHANGED <<files, done>>

\* Block off+1 of the entry lands in the file p's descriptor is open on.
WithBlock(p) == [blocks EXCEPT ![ino[p]][off[p] + 1] = src[p]]

\* Mutant of CopyBlock: the position in the entry does not advance.
CopyBlockStuck(p) ==
    /\ pc[p] = "copy"
    /\ off[p] < Size[src[p]]
    /\ blocks' = WithBlock(p)
    /\ UNCHANGED <<names, mode, pc, out, src, ino, off, ret, done>>

\* read_file returned a buffer and write stored all of it.
CopyBlock(p) ==
    /\ pc[p] = "copy"
    /\ off[p] < Size[src[p]]
    /\ blocks' = WithBlock(p)
    /\ off' = [off EXCEPT ![p] = off[p] + 1]
    /\ UNCHANGED <<names, mode, pc, out, src, ino, ret, done>>

\* Mutant of ReadZero: the loop ends with the last block unread.
ReadZeroEarly(p) ==
    /\ pc[p] = "copy"
    /\ off[p] + 1 >= Size[src[p]] \/ "read" \in Faults
    /\ pc' = [pc EXCEPT ![p] = "chmod"]
    /\ UNCHANGED <<files, out, src, ino, off, ret, done>>

\* read_file returned 0: the end of the entry, or (it has no other way to
\* say so) a failed read or inflate.  The loop ends and the fd is closed.
ReadZero(p) ==
    /\ pc[p] = "copy"
    /\ off[p] = Size[src[p]] \/ "read" \in Faults
    /\ pc' = [pc EXCEPT ![p] = "chmod"]
    /\ UNCHANGED <<files, out, src, ino, off, ret, done>>

\* write stored less than the buffer: unlink(tmp), return 0.
WriteFails(p) ==
    /\ "write" \in Faults
    /\ pc[p] = "copy"
    /\ off[p] < Size[src[p]]
    /\ blocks' \in {blocks, WithBlock(p)}
    /\ names' = [names EXCEPT ![Tmp[out[p]]] = None]
    /\ Return(p, "fail")
    /\ UNCHANGED <<mode, done>>

\* Mutant of Chmod: the test for mode 0 is dropped.
ChmodAlways(p) ==
    /\ pc[p] = "chmod"
    /\ LET i == names[Tmp[out[p]]]
       IN mode' = IF i # None THEN [mode EXCEPT ![i] = ModeOf[src[p]]] ELSE mode
    /\ pc' = [pc EXCEPT ![p] = "rename"]
    /\ UNCHANGED <<names, blocks, out, src, ino, off, ret, done>>

\* get_file_mode, and chmod(tmp) when it is not 0; its result is ignored.
Chmod(p) ==
    /\ pc[p] = "chmod"
    /\ LET i == names[Tmp[out[p]]]
           m == ModeOf[src[p]]
       IN \/ mode' = IF m # 0 /\ i # None THEN [mode EXCEPT ![i] = m] ELSE mode
          \/ "chmod" \in Faults /\ mode' = mode
    /\ pc' = [pc EXCEPT ![p] = "rename"]
    /\ UNCHANGED <<names, blocks, out, src, ino, off, ret, done>>

\* Mutant of Rename: link(tmp, outname) without the unlink of tmp.
RenameByLink(p) ==
    /\ pc[p] = "rename"
    /\ names[Tmp[out[p]]] # None
    /\ names' = [names EXCEPT ![out[p]] = names[Tmp[out[p]]]]
    /\ done' = done \cup {out[p]}
    /\ Return(p, "ok")
    /\ UNCHANGED <<blocks, mode>>

\* rename(tmp, outname) succeeds: return 1.
Rename(p) ==
    /\ pc[p] = "rename"
    /\ names[Tmp[out[p]]] # None
    /\ names' = [names EXCEPT ![out[p]] = names[Tmp[out[p]]],
                              ![Tmp[out[p]]] = None]
    /\ done' = done \cup {out[p]}
    /\ Return(p, "ok")
    /\ UNCHANGED <<blocks, mode>>

\* Mutant of RenameFails: tmp is not unlinked.
RenameFailsKeepsTmp(p) ==
    /\ pc[p] = "rename"
    /\ names[Tmp[out[p]]] = None \/ "rename" \in Faults
    /\ Return(p, "fail")
    /\ UNCHANGED <<files, done>>

\* Mutant of RenameFails: the return 0 is missing.
RenameFailsReturnsOk(p) ==
    /\ pc[p] = "rename"
    /\ names[Tmp[out[p]]] = None \/ "rename" \in Faults
    /\ names' = [names EXCEPT ![Tmp[out[p]]] = None]
    /\ Return(p, "ok")
    /\ UNCHANGED <<blocks, mode, done>>

\* rename fails, always when tmp is gone: unlink(tmp), return 0.
RenameFails(p) ==
    /\ pc[p] = "rename"
    /\ names[Tmp[out[p]]] = None \/ "rename" \in Faults
    /\ names' = [names EXCEPT ![Tmp[out[p]]] = None]
    /\ Return(p, "fail")
    /\ UNCHANGED <<blocks, mode, done>>

\* The process dies inside the call; the files stay as they are.
Crash(p) ==
    /\ "crash" \in Faults
    /\ Active(p)
    /\ Return(p, "crashed")
    /\ UNCHANGED <<files, done>>

\* A step of a call that was opened.
Step(p) == CopyBlock(p) \/ ReadZero(p) \/ Chmod(p) \/ Rename(p) \/ RenameFails(p)

Next == \E p \in Procs :
    \/ \E o \in Outs, v \in Versions : OpenCreate(p, o, v)
    \/ \E o \in Outs, v \in Versions : OpenExisting(p, o, v)
    \/ \E o \in Outs : OpenFails(p, o)
    \/ Step(p)
    \/ WriteFails(p)
    \/ Crash(p)

Spec == Init /\ [][Next]_vars

\* A call that was started is run on by its process.
FairSpec == Spec /\ \A p \in Procs : WF_vars(Step(p))
-----------------------------------------------------------------------------
\* The state has its types; the locals of a call are set exactly while it
\* runs.
TypeOK ==
    /\ names \in [Names -> Inodes \cup {None}]
    /\ blocks \in [Inodes -> [1..MaxSize -> Versions \cup {None}]]
    /\ mode \in [Inodes -> Nat]
    /\ pc \in [Procs -> {"idle", "copy", "chmod", "rename"}]
    /\ out \in [Procs -> Outs \cup {None}]
    /\ src \in [Procs -> Versions \cup {None}]
    /\ ino \in [Procs -> Inodes \cup {None}]
    /\ off \in [Procs -> 0..MaxSize]
    /\ ret \in [Procs -> {"none", "ok", "fail", "crashed"}]
    /\ done \subseteq Outs
    /\ \A p \in Procs :
          IF Active(p)
          THEN /\ out[p] \in Outs
               /\ src[p] \in Versions
               /\ ino[p] \in Inodes
               /\ off[p] <= Size[src[p]]
          ELSE out[p] = None /\ src[p] = None /\ ino[p] = None

\* "Safely unzip file from the archive, store in temp file and then rename":
\* at every moment, a crash or a failed call included, an output name is
\* absent or is a file that is wholly one version of the entry.
OutputWhole ==
    \A o \in Outs : names[o] # None =>
        \E v \in Versions : blocks[names[o]] = Whole(v)

\* An output file has the permissions its own archive entry carries.
OutputMode ==
    \A o \in Outs : names[o] # None =>
        \E v \in Versions : /\ blocks[names[o]] = Whole(v)
                            /\ mode[names[o]] = FinalMode(v)

\* "Safely unzip all files": a file that a call reported as extracted stays
\* there, no later call for another entry of the archive takes it away.
OutputKept == \A o \in done : names[o] # None

\* Whatever failed, a call that returned leaves no temporary file behind.
NoTmpLeft ==
    \A o \in Outs : names[Tmp[o]] # None => \E p \in Procs : out[p] = o

\* Every call returns: the copy loop, which ends only on a read of 0 bytes or
\* a failed write, does end.
CallsReturn == \A p \in Procs : Active(p) ~> ~Active(p)

\* SafeReplace's view of the state: the running calls, and what reading each
\* output file gives.
JobOf == [p \in Procs |-> IF Active(p) THEN <<out[p], src[p]>> ELSE None]
TargetOf == [o \in Outs |-> IF names[o] = None THEN None ELSE blocks[names[o]]]

\* extract implements the atomic replacement SafeReplace describes: a call
\* that returns 1 has replaced the output by the whole entry in that very
\* step, and no other step changes what reading an output file gives.
Abs == INSTANCE SafeReplace WITH job <- JobOf, target <- TargetOf

Refinement == Abs!ASpec
-----------------------------------------------------------------------------
(***************************************************************************)
(* Why the outputs stay whole, as an inductive invariant.                  *)
(***************************************************************************)

\* What the code's callers must provide: calls for one name are serialised,
\* no read error is taken for the end of an entry, no output is called
\* <another output>.tmp, and a temporary file that a crash left is no longer
\* than the entry that is extracted over it.
TmpPrivate == /\ \A o \in Outs : Tmp[o] \notin Outs
              /\ \A o1, o2 \in Outs : Tmp[o1] = Tmp[o2] => o1 = o2

SameSizeRetry == "crash" \in Faults => \A v, w \in Versions : Size[v] = Size[w]

SafeUse == Exclusive /\ "read" \notin Faults /\ TmpPrivate /\ SameSizeRetry

\* Two calls never run for one name.
SoleOwner == \A p, q \in Procs : Active(p) /\ out[p] = out[q] => p = q

\* No file has two names.
OneName == \A m, n \in Names : names[m] # None /\ names[m] = names[n] => m = n

\* A running call's descriptor is open on the file its tmp name denotes.
TmpOwned == \A p \in Procs : Active(p) => names[Tmp[out[p]]] = ino[p]

\* That file holds what was copied, and nothing beyond the entry's end.
Copied ==
    \A p \in Procs : Active(p) =>
        /\ \A b \in 1..MaxSize :
              /\ b <= off[p] => blocks[ino[p]][b] = src[p]
              /\ b > Size[src[p]] => blocks[ino[p]][b] = None
        /\ pc[p] \in {"chmod", "rename"} => off[p] = Size[src[p]]

\* A temporary file no call owns was left by a crash, and fits every entry.
StaleFits ==
    \A o \in Outs : names[Tmp[o]] # None /\ (\A p \in Procs : out[p] # o) =>
        /\ "crash" \in Faults
        /\ \A v \in Versions, b \in 1..MaxSize :
              b > Size[v] => blocks[names[Tmp[o]]][b] = None

\* The temporary file of every call is its own, holds exactly the part of
\* the entry copied so far, and nothing a crash left shows past its end.
TmpDiscipline == SoleOwner /\ OneName /\ TmpOwned /\ Copied /\ StaleFits

IndInv == TypeOK /\ TmpDiscipline /\ OutputWhole /\ OutputKept

\* What the permissions need on top: chmod works (its result is ignored), and
\* when a crash can leave a temporary file with another entry's permissions,
\* every entry sets its own or they are the ones the file is created with.
SafeModes ==
    /\ "chmod" \notin Faults
    /\ "crash" \in Faults =>
          \A v, w \in Versions : ModeOf[v] = 0 => FinalMode(w) = CreateMode

\* File i still has the mode open created it with, as far as an entry that
\* sets none could tell.
AsCreated(i) == \A v \in Versions : ModeOf[v] = 0 => mode[i] = CreateMode

\* Permissions of temporary files: as created until chmod ran, also in the
\* file a crash left, then the entry's own.
TmpModes ==
    /\ \A p \in Procs : /\ pc[p] \in {"copy", "chmod"} => AsCreated(ino[p])
                        /\ pc[p] = "rename" => mode[ino[p]] = FinalMode(src[p])
    /\ \A o \in Outs : names[Tmp[o]] # None /\ (\A p \in Procs : out[p] # o) =>
          AsCreated(names[Tmp[o]])
=============================================================================
