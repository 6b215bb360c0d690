----------------------------- MODULE MCReadFile -----------------------------
(***************************************************************************)
(* Entries for ReadFile: right, truncated, lying and empty ones.           *)
(***************************************************************************)
EXTENDS ReadFile

Entry(c, u, tc, tu, stored, faults) ==
    [start |-> 1, c |-> c, u |-> u, tc |-> tc, tu |-> tu, stored |-> stored, faults |-> faults]

Sizes == 0..5
NoneOrAll == {{}, {"io", "data"}}
MCStored == {Entry(c, u, 0, 0, TRUE, f) : c \in Sizes, u \in Sizes, f \in NoneOrAll}
MCDeflated == {Entry(c, u, tc, tu, FALSE, f) :
                  c \in 0..4, u \in 0..4, tc \in 1..4, tu \in 0..5, f \in NoneOrAll}
MCEntries == MCStored \cup MCDeflated

MCLens == {1, 3}
MCPlaces == {0}
=============================================================================
