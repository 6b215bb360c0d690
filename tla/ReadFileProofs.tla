--------------------------- MODULE ReadFileProofs ---------------------------
(***************************************************************************)
(* Proofs that the byte accounting of read_file is sound for entries and   *)
(* buffers of every size, for every lie of the headers, every behaviour of *)
(* inflate and every failing read; and that a sound entry is delivered     *)
(* whole.                                                                  *)
(***************************************************************************)
EXTENDS ReadFile, TLAPS

Inv == TypeOK /\ NoUnderflow /\ InBounds /\ InputConserved

\* Consuming c bytes and producing o, within the buffers, keeps the accounts
\* of the file.
LEMMA ProduceFacts ==
    ASSUME Inv, pc = "loop",
           NEW c \in 0..avail_in, NEW o \in 0..avail_out, Produce(c, o)
    PROVE  /\ e' = e /\ e \in Entries /\ len' = len
           /\ rest_read_compressed' \in Nat /\ rest_read_uncompressed' \in Nat
           /\ avail_in' \in Nat /\ avail_out' \in Nat /\ total_out' \in Nat /\ used' \in Nat
           /\ rest_read_uncompressed' \in 0..e.u /\ rest_read_compressed' \in 0..e.c
           /\ avail_out' <= rest_read_uncompressed'
           /\ total_out' = total_out + o /\ total_out' + rest_read_uncompressed' = e.u
           /\ used' + avail_in' + rest_read_compressed' = e.c
           /\ fpos' \in Nat /\ pos_in_zipfile' \in Nat /\ next_in' \in Nat
           /\ avail_in' > 0 => next_in' = e.start + used'
           /\ pos_in_zipfile' = e.start + used' + avail_in'
           /\ iRead + o + avail_out' <= len /\ iRead + o <= len
           /\ delivered + iRead + o <= total_out'
           /\ iRead + o \in Nat /\ len \in Nat /\ delivered \in Nat
<1>1. EntryOK(e) /\ e.u \in Nat /\ e.c \in Nat /\ e.start \in Nat
  BY ReadFileAssumption DEF Inv, TypeOK, EntryOK
<1>2. /\ fpos' \in Nat /\ pos_in_zipfile' \in Nat /\ next_in' \in Nat
      /\ avail_in' > 0 => next_in' = e.start + used'
      /\ pos_in_zipfile' = e.start + used' + avail_in'
      /\ used' + avail_in' + rest_read_compressed' = e.c
  <2>1. /\ next_in' = next_in + c /\ avail_in' = avail_in - c /\ used' = used + c
        /\ UNCHANGED <<fpos, pos_in_zipfile, rest_read_compressed>>
    BY DEF Produce
  <2>2. /\ fpos \in Nat /\ pos_in_zipfile \in Nat /\ next_in \in Nat
        /\ avail_in \in Nat /\ used \in Nat /\ rest_read_compressed \in Nat
    BY DEF Inv, TypeOK
  <2>3. /\ avail_in > 0 => next_in = e.start + used
        /\ pos_in_zipfile = e.start + used + avail_in
        /\ used + avail_in + rest_read_compressed = e.c
    BY DEF Inv, InputConserved
  <2>4. PICK n, u, a, b : n = next_in /\ u = used /\ a = avail_in /\ b = e.start
    OBVIOUS
  <2>5. n + c \in Nat /\ (a - c > 0 => n + c = b + (u + c))
    BY <1>1, <2>2, <2>3, <2>4
  <2>6. b + (u + c) + (a - c) = b + u + a /\ (u + c) + (a - c) = u + a
    BY <1>1, <2>2, <2>4
  <2>. QED
    BY <2>1, <2>2, <2>3, <2>4, <2>5, <2>6
<1>3. /\ e' = e /\ e \in Entries /\ len' = len
      /\ rest_read_compressed' \in Nat /\ rest_read_uncompressed' \in Nat
      /\ avail_in' \in Nat /\ avail_out' \in Nat /\ total_out' \in Nat /\ used' \in Nat
      /\ rest_read_uncompressed' \in 0..e.u /\ rest_read_compressed' \in 0..e.c
      /\ avail_out' <= rest_read_uncompressed'
      /\ total_out' = total_out + o /\ total_out' + rest_read_uncompressed' = e.u
  BY <1>1 DEF Inv, TypeOK, NoUnderflow, InBounds, Produce
<1>4. /\ iRead + o + avail_out' <= len /\ iRead + o <= len
      /\ delivered + iRead + o <= total_out'
      /\ iRead + o \in Nat /\ len \in Nat /\ delivered \in Nat
  BY <1>1 DEF Inv, TypeOK, InBounds, Produce
<1>. QED
  BY <1>2, <1>3, <1>4

\* One case per action.
LEMMA InvStep == Inv /\ [Next]_vars => Inv'
<1> SUFFICES ASSUME Inv, [Next]_vars PROVE Inv'
  OBVIOUS
<1>0. e \in Entries /\ e.u \in Nat /\ e.c \in Nat /\ e.start \in Nat
  BY ReadFileAssumption DEF Inv, TypeOK, EntryOK
<1>1. ASSUME NEW n \in Lens, Call(n) PROVE Inv'
  BY <1>0, <1>1, ReadFileAssumption
     DEF Inv, TypeOK, NoUnderflow, InBounds, InputConserved, Call, input
<1>2. CASE Full \/ StoredEnd
  BY <1>0, <1>2 DEF Inv, TypeOK, NoUnderflow, InBounds, InputConserved,
                    Full, StoredEnd, Return, file, input
<1>8. CASE RefillFails
  <2>1. fpos' \in Nat
    BY <1>8, ReadFileAssumption DEF RefillFails, Least, Inv, TypeOK
  <2>. QED
    BY <2>1, <1>0, <1>8 DEF Inv, TypeOK, NoUnderflow, InBounds, InputConserved,
                            RefillFails, Return, file, input
<1>9. CASE Elsewhere
  BY <1>0, <1>9, ReadFileAssumption
     DEF Inv, TypeOK, NoUnderflow, InBounds, InputConserved, Elsewhere, file, input
<1>3. CASE Refill
  <2> DEFINE n == Least(BufSize, rest_read_compressed)
  <2>1. n \in Nat /\ n <= rest_read_compressed
    BY ReadFileAssumption DEF Inv, TypeOK, Least
  <2>2. /\ pc = "loop" /\ avail_in = 0
        /\ next_in' = pos_in_zipfile /\ fpos' = pos_in_zipfile + n
        /\ pos_in_zipfile' = pos_in_zipfile + n /\ avail_in' = n
        /\ rest_read_compressed' = rest_read_compressed - n
        /\ UNCHANGED <<e, pc, rest_read_uncompressed, avail_out, total_out, used,
                       iRead, len, ret, delivered>>
    BY <1>3 DEF Refill, NeedsInput
  <2> HIDE DEF n
  <2>. QED
    BY <1>0, <2>1, <2>2 DEF Inv, TypeOK, NoUnderflow, InBounds, InputConserved
<1>4. CASE CopyStored
  <2> DEFINE n == Least(avail_in, avail_out)
  <2>1. n \in 0..avail_in /\ n \in 0..avail_out
    BY DEF Inv, TypeOK, Least
  <2>2. Produce(n, n) /\ iRead' = iRead + n /\ UNCHANGED <<pc, ret, delivered>> /\ pc = "loop"
    BY <1>4 DEF CopyStored
  <2> HIDE DEF n
  <2>. QED
    BY <2>1, <2>2, ProduceFacts DEF Inv, TypeOK, NoUnderflow, InBounds, InputConserved
<1>5. CASE InflateOk
  <2>1. PICK c \in 0..avail_in, o \in 0..avail_out : Produce(c, o) /\ iRead' = iRead + o
    BY <1>5 DEF InflateOk
  <2>2. UNCHANGED <<pc, ret, delivered>> /\ pc = "loop"
    BY <1>5 DEF InflateOk, CanInflate
  <2>. QED
    BY <2>1, <2>2, ProduceFacts DEF Inv, TypeOK, NoUnderflow, InBounds, InputConserved
<1>6. CASE InflateEnd \/ InflateFails
  <2>1. PICK c \in 0..avail_in, o \in 0..avail_out :
            /\ Produce(c, o) /\ iRead' = iRead + o
            /\ Return(0) \/ Return(iRead + o)
    BY <1>6 DEF InflateEnd, InflateFails
  <2>2. pc = "loop"
    BY <1>6 DEF InflateEnd, InflateFails, CanInflate
  <2>. QED
    BY <2>1, <2>2, ProduceFacts
       DEF Inv, TypeOK, NoUnderflow, InBounds, InputConserved, Return
<1>7. CASE Finished \/ UNCHANGED vars
  BY <1>7 DEF Finished, vars, file, input, Inv, TypeOK, NoUnderflow, InBounds, InputConserved
<1>. QED
  BY <1>1, <1>2, <1>3, <1>4, <1>5, <1>6, <1>7, <1>8, <1>9 DEF Next, Step

\* read_file never lets a counter wrap, never writes beyond the caller's
\* buffer or the entry's stated size, and decodes the bytes of the archive
\* from the start of the entry's data on, each once and in order, whatever
\* reads fail and are tried again and wherever the FILE is left in between.
THEOREM Accounting == Spec => [](TypeOK /\ NoUnderflow /\ InBounds /\ InputConserved)
<1>1. Init => Inv
  <2> SUFFICES ASSUME Init PROVE Inv
    OBVIOUS
  <2>1. e \in Entries /\ e.u \in Nat /\ e.c \in Nat /\ e.start \in Nat
    BY ReadFileAssumption DEF Init, EntryOK
  <2>. QED
    BY <2>1, ReadFileAssumption DEF Init, Inv, TypeOK, NoUnderflow, InBounds, InputConserved
<1>2. Inv => TypeOK /\ NoUnderflow /\ InBounds /\ InputConserved
  BY DEF Inv
<1>. QED
  BY <1>1, <1>2, InvStep, PTL DEF Spec
-----------------------------------------------------------------------------
\* What is true of a sound entry on the way: all that was produced has been
\* delivered or is in the caller's buffer; a stored entry consumes what it
\* produces; a call asks for nothing only at the entry's end; and a caller
\* that has been told 0 has got everything.
OnTheWay ==
    Sound =>
        /\ delivered + (IF pc = "loop" THEN iRead ELSE 0) = total_out
        /\ e.stored => used = total_out
        /\ pc = "loop" => iRead + avail_out > 0 \/ rest_read_uncompressed = 0
        /\ ret = 0 => delivered = e.u

\* A sound entry never runs out of input before its end, so 0 is returned
\* only there: one case per action.
LEMMA OnTheWayStep ==
    ASSUME Inv, OnTheWay, [Next]_vars
    PROVE  OnTheWay'
<1>0. e \in Entries /\ e.u \in Nat /\ e.c \in Nat /\ e.tc \in Nat /\ e.tu \in Nat
  BY ReadFileAssumption DEF Inv, TypeOK, EntryOK
<1>1. e' = e
  BY DEF Next, Step, Call, Full, Refill, RefillFails, StoredEnd, CopyStored, InflateOk,
         InflateEnd, InflateFails, Produce, Elsewhere, Finished, vars
<1> SUFFICES ASSUME Sound PROVE OnTheWay'
  BY <1>1 DEF OnTheWay, Sound, Faults
<1>2. /\ delivered + (IF pc = "loop" THEN iRead ELSE 0) = total_out
      /\ e.stored => used = total_out
      /\ pc = "loop" => iRead + avail_out > 0 \/ rest_read_uncompressed = 0
      /\ ret = 0 => delivered = e.u
  BY DEF OnTheWay
<1>3. /\ e.faults = {}
      /\ e.stored => e.c = e.u
      /\ ~e.stored => e.c = e.tc /\ e.u = e.tu
  BY DEF Sound, Faults
<1>4. /\ rest_read_compressed \in Nat /\ rest_read_uncompressed \in Nat
      /\ avail_in \in Nat /\ avail_out \in Nat /\ total_out \in Nat /\ used \in Nat
      /\ iRead \in Nat /\ delivered \in Nat
      /\ pc = "loop" => avail_out <= rest_read_uncompressed
      /\ total_out + rest_read_uncompressed = e.u
      /\ used + avail_in + rest_read_compressed = e.c
  BY DEF Inv, TypeOK, NoUnderflow, InBounds, InputConserved
<1>5. ASSUME NEW n \in Lens, Call(n) PROVE OnTheWay'
  <2>1. n \in Nat /\ n > 0
    BY ReadFileAssumption
  <2>. QED
    BY <2>1, <1>2, <1>4, <1>5 DEF OnTheWay, Call
<1>6. CASE Full
  BY <1>1, <1>2, <1>4, <1>6 DEF OnTheWay, Full, Return, file
<1>7. CASE Refill
  BY <1>1, <1>2, <1>4, <1>7 DEF OnTheWay, Refill
<1>8. ~RefillFails
  BY <1>3 DEF RefillFails, Faults
<1>9. ~StoredEnd
  BY <1>2, <1>3, <1>4 DEF StoredEnd
<1>10. CASE CopyStored
  <2> DEFINE n == Least(avail_in, avail_out)
  <2>1. n \in 0..avail_in /\ n \in 0..avail_out
    BY <1>4 DEF Least
  <2>2. Produce(n, n) /\ iRead' = iRead + n /\ UNCHANGED <<pc, ret, delivered>> /\ pc = "loop"
    BY <1>10 DEF CopyStored
  <2> HIDE DEF n
  <2>. QED
    BY <2>1, <2>2, <1>1, <1>2, <1>4 DEF OnTheWay, Produce
<1>11. CASE InflateOk
  <2>1. PICK c \in 0..avail_in, o \in 0..avail_out : Produce(c, o) /\ iRead' = iRead + o
    BY <1>11 DEF InflateOk
  <2>2. UNCHANGED <<pc, ret, delivered>> /\ pc = "loop" /\ ~e.stored
    BY <1>11 DEF InflateOk, CanInflate
  <2>. QED
    BY <2>1, <2>2, <1>1, <1>2, <1>4 DEF OnTheWay, Produce
<1>12. CASE InflateEnd
  <2>1. PICK c \in 0..avail_in, o \in 0..avail_out :
            /\ InflateMay(c, o, "STREAM_END")
            /\ Produce(c, o) /\ iRead' = iRead + o /\ Return(iRead + o)
    BY <1>12 DEF InflateEnd
  <2>2. total_out + o = e.tu
    BY <2>1 DEF InflateMay
  <2>3. pc = "loop" /\ ~e.stored
    BY <1>12 DEF InflateEnd, CanInflate
  <2>. QED
    BY <2>1, <2>2, <2>3, <1>1, <1>2, <1>3, <1>4 DEF OnTheWay, Produce, Return
<1>13. ~InflateFails
  <2> SUFFICES ASSUME InflateFails PROVE FALSE
    OBVIOUS
  <2>1. PICK c \in 0..avail_in, o \in 0..avail_out :
            InflateMay(c, o, "BUF_ERROR") \/ InflateMay(c, o, "DATA_ERROR")
    BY DEF InflateFails
  <2>2. ~InflateMay(c, o, "DATA_ERROR")
    BY <1>3 DEF InflateMay, Faults
  <2>3. avail_in = 0 /\ used < e.tc
    BY <2>1, <2>2 DEF InflateMay
  <2>4. rest_read_compressed = 0 /\ ~e.stored
    BY <2>3, <1>4 DEF InflateFails, CanInflate, NeedsInput
  <2>. QED
    BY <2>3, <2>4, <1>0, <1>3, <1>4
<1>14. CASE Elsewhere \/ Finished \/ UNCHANGED vars
  BY <1>2, <1>14 DEF OnTheWay, Elsewhere, Finished, vars, file
<1>. QED
  BY <1>5, <1>6, <1>7, <1>8, <1>9, <1>10, <1>11, <1>12, <1>13, <1>14 DEF Next, Step

\* "this can be repeated until it returns 0": whatever the buffer lengths,
\* the refill size and the points where inflate stops, a caller that gets 0
\* from a sound entry has got every byte of it.
THEOREM DeliversSoundEntries == Spec => []SoundEntryDelivered
<1>1. Init => Inv /\ OnTheWay
  <2> SUFFICES ASSUME Init PROVE Inv /\ OnTheWay
    OBVIOUS
  <2>1. e \in Entries /\ e.u \in Nat /\ e.c \in Nat /\ e.start \in Nat
    BY ReadFileAssumption DEF Init, EntryOK
  <2>2. Inv
    BY <2>1, ReadFileAssumption DEF Init, Inv, TypeOK, NoUnderflow, InBounds, InputConserved
  <2>3. OnTheWay
    BY DEF Init, OnTheWay
  <2>. QED
    BY <2>2, <2>3
<1>2. Inv /\ OnTheWay /\ [Next]_vars => (Inv /\ OnTheWay)'
  BY InvStep, OnTheWayStep
<1>3. Inv /\ OnTheWay => SoundEntryDelivered
  BY DEF Inv, TypeOK, OnTheWay, SoundEntryDelivered
<1>. QED
  BY <1>1, <1>2, <1>3, PTL DEF Spec
=============================================================================
