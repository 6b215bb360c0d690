------------------------------ MODULE ReadFile ------------------------------
(***************************************************************************)
(* bkUnzip::read_file: the loop that refills a buffer of compressed bytes  *)
(* from the archive and copies or inflates it into the caller's buffer,    *)
(* called again and again until it returns 0.                              *)
(*                                                                         *)
(* Bytes are counted and known by their position in the archive, not kept. *)
(* The archive is one FILE, which the other methods of the object seek and *)
(* read between two calls.  inflate is zlib's, modelled by its contract.   *)
(* open_file always passes raw = 0, so raw copying of deflated data is     *)
(* left out.                                                               *)
(***************************************************************************)
EXTENDS Integers

CONSTANTS
    Entries,    \* what an open file may be, see EntryOK
    Lens,       \* buffer lengths callers pass
    Places,     \* where other methods leave the position of the FILE
    BufSize     \* UNZ_BUFSIZE

\* e.start: the position of the entry's data; e.c, e.u: the sizes the headers
\* state; e.tc, e.tu: the true length of the deflated stream and of what it
\* inflates to; e.stored: method 0, not deflated; e.faults: whether reads
\* ("io") and inflate ("data") may fail.
EntryOK(e) == /\ e.start \in Nat /\ e.c \in Nat /\ e.u \in Nat /\ e.tc \in Nat /\ e.tu \in Nat
              /\ e.stored \in BOOLEAN /\ e.faults \subseteq {"io", "data"}

ASSUME ReadFileAssumption ==
    /\ \A e \in Entries : EntryOK(e)
    /\ Lens \subseteq Nat \ {0}
    /\ Places \subseteq Nat
    /\ BufSize \in Nat \ {0}

VARIABLES
    e,                      \* the open entry
    pc,                     \* "idle" between calls, "loop" inside one
    fpos,                   \* the position of the FILE
    pos_in_zipfile,         \* the position to read from next
    next_in,                \* the position of the byte at stream.next_in
    rest_read_compressed, rest_read_uncompressed,
    avail_in, avail_out,    \* of _file->stream
    total_out,              \* bytes produced since open_file
    used,                   \* compressed bytes consumed since open_file
    iRead,                  \* bytes produced in this call
    len,                    \* the caller's buffer length
    ret,                    \* the last call's result, -1 before the first
    delivered               \* the sum of what the calls returned

input == <<pos_in_zipfile, next_in, rest_read_compressed>>
file == <<input, rest_read_uncompressed, avail_in, avail_out, total_out, used>>
vars == <<e, pc, fpos, file, iRead, len, ret, delivered>>

Faults == e.faults

Least(a, b) == IF a <= b THEN a ELSE b

\* open_file: everything is still to be read.
Init ==
    /\ e \in Entries
    /\ pc = "idle"
    /\ fpos \in Places /\ pos_in_zipfile = e.start /\ next_in = 0
    /\ rest_read_compressed = e.c
    /\ rest_read_uncompressed = e.u
    /\ avail_in = 0 /\ avail_out = 0 /\ total_out = 0 /\ used = 0
    /\ iRead = 0 /\ len = 0 /\ ret = -1 /\ delivered = 0

\* Mutant of Call: avail_out is not limited to the bytes that are left.
CallUnlimited(n) ==
    /\ pc = "idle"
    /\ pc' = "loop"
    /\ len' = n
    /\ avail_out' = n
    /\ iRead' = 0
    /\ UNCHANGED <<e, fpos, input, rest_read_uncompressed, avail_in, total_out,
                   used, ret, delivered>>

\* Mutant of Call: all that is left of the entry is asked for, whatever n is.
CallRest(n) ==
    /\ pc = "idle"
    /\ pc' = "loop"
    /\ len' = n
    /\ avail_out' = rest_read_uncompressed
    /\ iRead' = 0
    /\ UNCHANGED <<e, fpos, input, rest_read_uncompressed, avail_in, total_out,
                   used, ret, delivered>>

\* read_file(buf, n): at most what is left of the entry is asked for.  The
\* callers stop when they get 0, but they need not.
Call(n) ==
    /\ pc = "idle"
    /\ pc' = "loop"
    /\ len' = n
    /\ avail_out' = IF n > rest_read_uncompressed THEN rest_read_uncompressed ELSE n
    /\ iRead' = 0
    /\ UNCHANGED <<e, fpos, input, rest_read_uncompressed, avail_in, total_out,
                   used, ret, delivered>>

Return(n) ==
    /\ pc' = "idle"
    /\ ret' = n
    /\ delivered' = delivered + n

\* The loop's condition fails: return iRead.
Full ==
    /\ pc = "loop" /\ avail_out = 0
    /\ Return(iRead)
    /\ UNCHANGED <<e, fpos, file, iRead, len>>

\* Between two calls another method of the object seeks and reads.
Elsewhere ==
    /\ pc = "idle"
    /\ fpos' \in Places
    /\ UNCHANGED <<e, pc, file, iRead, len, ret, delivered>>

NeedsInput == avail_in = 0 /\ rest_read_compressed > 0

\* Mutant of Refill: the FILE is not sought, it is read on from where it is.
RefillUnsought ==
    /\ pc = "loop" /\ avail_out > 0 /\ NeedsInput
    /\ LET uReadThis == Least(BufSize, rest_read_compressed)
       IN /\ next_in' = fpos
          /\ fpos' = fpos + uReadThis
          /\ pos_in_zipfile' = pos_in_zipfile + uReadThis
          /\ avail_in' = uReadThis
          /\ rest_read_compressed' = rest_read_compressed - uReadThis
    /\ UNCHANGED <<e, pc, rest_read_uncompressed, avail_out, total_out, used,
                   iRead, len, ret, delivered>>

\* The input buffer is empty: seek to the next part of the archive, read it
\* (and decrypt it in place).
Refill ==
    /\ pc = "loop" /\ avail_out > 0 /\ NeedsInput
    /\ LET uReadThis == Least(BufSize, rest_read_compressed)
       IN /\ next_in' = pos_in_zipfile
          /\ fpos' = pos_in_zipfile + uReadThis
          /\ pos_in_zipfile' = pos_in_zipfile + uReadThis
          /\ avail_in' = uReadThis
          /\ rest_read_compressed' = rest_read_compressed - uReadThis
    /\ UNCHANGED <<e, pc, rest_read_uncompressed, avail_out, total_out, used,
                   iRead, len, ret, delivered>>

\* fseek fails, or fread after some bytes: return 0, whatever this call had
\* produced, with nothing in the buffer.
RefillFails ==
    /\ "io" \in Faults
    /\ pc = "loop" /\ avail_out > 0 /\ NeedsInput
    /\ \/ UNCHANGED fpos
       \/ \E n \in 0..(Least(BufSize, rest_read_compressed) - 1) : fpos' = pos_in_zipfile + n
    /\ Return(0)
    /\ UNCHANGED <<e, file, iRead, len>>

\* A stored entry has no more input: return what there is.
StoredEnd ==
    /\ pc = "loop" /\ avail_out > 0 /\ e.stored
    /\ avail_in = 0 /\ rest_read_compressed = 0
    /\ Return(iRead)
    /\ UNCHANGED <<e, fpos, file, iRead, len>>

\* c bytes of input gave o bytes of output.
Produce(c, o) ==
    /\ next_in' = next_in + c
    /\ avail_in' = avail_in - c
    /\ avail_out' = avail_out - o
    /\ rest_read_uncompressed' = rest_read_uncompressed - o
    /\ total_out' = total_out + o
    /\ used' = used + c
    /\ UNCHANGED <<e, fpos, pos_in_zipfile, rest_read_compressed, len>>

\* A stored entry: as many bytes as input and output allow are copied.
CopyStored ==
    /\ pc = "loop" /\ avail_out > 0 /\ e.stored /\ avail_in > 0
    /\ LET uDoCopy == Least(avail_in, avail_out)
       IN Produce(uDoCopy, uDoCopy) /\ iRead' = iRead + uDoCopy
    /\ UNCHANGED <<pc, ret, delivered>>

\* zlib's inflate, given avail_in and avail_out: it consumes c, produces o and
\* goes on (Z_OK) only when it used up one of the two buffers; it reports the
\* end of the stream when all was consumed and produced, and Z_BUF_ERROR when
\* it can do nothing without input.
InflateMay(c, o, rc) ==
    /\ used + c <= e.tc /\ total_out + o <= e.tu
    /\ LET ended == used + c = e.tc /\ total_out + o = e.tu
       IN CASE rc = "STREAM_END" -> ended
            [] rc = "OK" -> /\ ~ended /\ c + o > 0
                            /\ o = avail_out \/ (c = avail_in /\ used + c < e.tc)
            [] rc = "BUF_ERROR" -> ~ended /\ c = 0 /\ o = 0 /\ avail_in = 0 /\ used < e.tc
            [] rc = "DATA_ERROR" -> "data" \in Faults

CanInflate == pc = "loop" /\ avail_out > 0 /\ ~e.stored /\ ~NeedsInput

\* inflate returned Z_OK: the loop goes on.
InflateOk ==
    /\ CanInflate
    /\ \E c \in 0..avail_in, o \in 0..avail_out :
          /\ InflateMay(c, o, "OK")
          /\ Produce(c, o)
          /\ iRead' = iRead + o
    /\ UNCHANGED <<pc, ret, delivered>>

\* Mutant of InflateEnd: the end of the stream is returned as 0.
InflateEndLosesTail ==
    /\ CanInflate
    /\ \E c \in 0..avail_in, o \in 0..avail_out :
          /\ InflateMay(c, o, "STREAM_END")
          /\ Produce(c, o)
          /\ iRead' = iRead + o
          /\ Return(0)

\* Z_STREAM_END: return what this call produced.
InflateEnd ==
    /\ CanInflate
    /\ \E c \in 0..avail_in, o \in 0..avail_out :
          /\ InflateMay(c, o, "STREAM_END")
          /\ Produce(c, o)
          /\ iRead' = iRead + o
          /\ Return(iRead + o)

\* Mutant of InflateFails: an error does not leave the loop.
InflateFailsGoesOn ==
    /\ CanInflate
    /\ \E c \in 0..avail_in, o \in 0..avail_out, rc \in {"BUF_ERROR", "DATA_ERROR"} :
          /\ InflateMay(c, o, rc)
          /\ Produce(c, o)
          /\ iRead' = iRead + o
    /\ UNCHANGED <<pc, ret, delivered>>

\* Any other result: return 0.
InflateFails ==
    /\ CanInflate
    /\ \E c \in 0..avail_in, o \in 0..avail_out, rc \in {"BUF_ERROR", "DATA_ERROR"} :
          /\ InflateMay(c, o, rc)
          /\ Produce(c, o)
          /\ iRead' = iRead + o
    /\ Return(0)

Step == \/ Full \/ Refill \/ RefillFails \/ StoredEnd \/ CopyStored
        \/ InflateOk \/ InflateEnd \/ InflateFails

\* The caller has got its 0.
Finished == pc = "idle" /\ ret = 0 /\ UNCHANGED vars

Next == (\E n \in Lens : Call(n)) \/ Step \/ Elsewhere \/ Finished

Spec == Init /\ [][Next]_vars

\* The caller calls again until it gets 0, and the loop runs on.
FairSpec == Spec /\ WF_vars(Step) /\ WF_vars(\E n \in Lens : Call(n))
-----------------------------------------------------------------------------
\* The counters are naturals: none of the unsigned ones has wrapped.
TypeOK ==
    /\ e \in Entries
    /\ pc \in {"idle", "loop"}
    /\ fpos \in Nat /\ pos_in_zipfile \in Nat /\ next_in \in Nat
    /\ rest_read_compressed \in Nat /\ rest_read_uncompressed \in Nat
    /\ avail_in \in Nat /\ avail_out \in Nat
    /\ total_out \in Nat /\ used \in Nat
    /\ iRead \in Nat /\ len \in Nat
    /\ ret \in Nat \cup {-1} /\ delivered \in Nat

\* The unsigned counters never wrap: the output asked for is at most what is
\* left of the entry, so "rest_read_uncompressed -= uOutThis" stops at 0,
\* whatever sizes the archive states and whatever the stream really holds.
NoUnderflow ==
    /\ rest_read_uncompressed \in 0..e.u /\ rest_read_compressed \in 0..e.c
    /\ pc = "loop" => avail_out <= rest_read_uncompressed

\* Not one byte beyond the caller's buffer is written in a call, nor beyond
\* the stated size of the entry in all of them together.
InBounds ==
    /\ IF pc = "loop" THEN iRead + avail_out <= len ELSE ret <= len
    /\ delivered + (IF pc = "loop" THEN iRead ELSE 0) <= total_out
    /\ total_out + rest_read_uncompressed = e.u

\* No byte of the archive is skipped, decoded twice or taken from elsewhere,
\* wherever the buffer ends, whichever reads failed in between and wherever
\* other methods left the FILE: the byte to be decoded next is the one behind
\* the `used' bytes decoded before it, the archive is read on right behind the
\* buffer, and what is decoded, in the buffer and still to be read makes up
\* the entry's data.
InputConserved ==
    /\ avail_in > 0 => next_in = e.start + used
    /\ pos_in_zipfile = e.start + used + avail_in
    /\ used + avail_in + rest_read_compressed = e.c

\* An entry whose headers are right.
Sound == /\ IF e.stored THEN e.c = e.u ELSE e.c = e.tc /\ e.u = e.tu
         /\ Faults = {}

\* "this can be repeated until it returns 0": then all of a sound entry has
\* been delivered, however large the buffers and wherever inflate stopped.
SoundEntryDelivered == Sound /\ ret = 0 => delivered = e.u

\* Every call returns, and a caller that repeats it gets 0 in the end,
\* whatever the entry: lying headers and failing reads included.
ReadsEnd == <>(pc = "idle" /\ ret = 0)
=============================================================================
