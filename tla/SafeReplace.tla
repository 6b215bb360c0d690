---------------------------- MODULE SafeReplace ----------------------------
(***************************************************************************)
(* What bkUnzip::extract promises (bkunzip.h: "Safely unzip file from the  *)
(* archive, store in temp file and then rename"): the file it writes is    *)
(* either left as it was or replaced, in one step, by the whole content of *)
(* the archive entry, and the call reports success exactly when it did.    *)
(***************************************************************************)
EXTENDS Naturals

CONSTANTS Procs,      \* callers of extract
          Outs,       \* output file names
          Versions,   \* contents an archive entry may have
          Size,       \* Size[v]: blocks in content v
          MaxSize,    \* bound on every Size[v]
          None        \* absent: no file, no job, no block

VARIABLES job,        \* job[p]: the <<name, content>> p is extracting, or None
          target,     \* target[o]: what reading file o gives, or None
          ret         \* ret[p]: how the last call of p ended

avars == <<job, target, ret>>

\* The blocks of a file that holds content v and nothing else.
WholeFile(v) == [b \in 1..MaxSize |-> IF b <= Size[v] THEN v ELSE None]

AInit ==
    /\ job = [p \in Procs |-> None]
    /\ target = [o \in Outs |-> None]
    /\ ret = [p \in Procs |-> "none"]

\* A call for entry content v, to be stored in file o.
Begin(p, o, v) ==
    /\ job[p] = None
    /\ job' = [job EXCEPT ![p] = <<o, v>>]
    /\ ret' = [ret EXCEPT ![p] = "none"]
    /\ UNCHANGED target

\* The file becomes the entry, whole, and the call returns 1.
Commit(p) ==
    /\ job[p] # None
    /\ target' = [target EXCEPT ![job[p][1]] = WholeFile(job[p][2])]
    /\ ret' = [ret EXCEPT ![p] = "ok"]
    /\ job' = [job EXCEPT ![p] = None]

\* The call returns 0, or its process dies: the file is what it was.
Abandon(p) ==
    /\ job' = [job EXCEPT ![p] = None]
    /\ \E r \in {"fail", "crashed"} : ret' = [ret EXCEPT ![p] = r]
    /\ UNCHANGED target

ANext == \E p \in Procs :
            \/ \E o \in Outs, v \in Versions : Begin(p, o, v)
            \/ Commit(p)
            \/ Abandon(p)

ASpec == AInit /\ [][ANext]_avars
=============================================================================
