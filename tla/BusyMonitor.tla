---------------------------- MODULE BusyMonitor ----------------------------
(***************************************************************************)
(* The busy monitor of binding.cpp: a repeating timer of the event loop    *)
(* measures by how much it is late and keeps a dampened average, which     *)
(* initBusy, isBusy and getBusy configure and report.  All of it runs on   *)
(* the one event loop thread; what makes the timer late is a callback      *)
(* (Handler) that keeps the loop.                                          *)
(***************************************************************************)
EXTENDS Integers

CONSTANTS
    Period,     \* POLL_PERIOD_MS
    Default,    \* the initial HIGH_WATER_MARK_MS
    MinMark,    \* 10: initBusy ignores a mark that is not above it
    Marks,      \* arguments given to initBusy
    Durations,  \* how long a handler may keep the loop
    MaxLate,    \* bound on how late the timer can be
    Word        \* 2^32, the size of an unsigned int

ASSUME BusyAssumption ==
    /\ Period \in Nat \ {0} /\ Default \in Nat \ {0} /\ MinMark \in Nat
    /\ Marks \subseteq Nat /\ Durations \subseteq Nat \ {0}
    /\ MaxLate \in Nat /\ Word \in Nat
    /\ 3 * MaxLate < Word

VARIABLES
    started,    \* _busyTimer.data = 1970
    marked,     \* _lastMark > 0
    elapsed,    \* time since _lastMark, or since the timer was started
    currentLag, highWaterMark,
    sample,     \* history: the last lag measured
    worst,      \* history: the largest lag measured
    answer      \* what isBusy returned last

vars == <<started, marked, elapsed, currentLag, highWaterMark, sample, worst, answer>>

Init ==
    /\ started = FALSE /\ marked = FALSE
    /\ elapsed = 0
    /\ currentLag = 0 /\ highWaterMark = Default
    /\ sample = 0 /\ worst = 0
    /\ answer = "none"

\* initBusy(ms): the timer is started once, the mark set when it is sensible.
InitBusy(ms) ==
    /\ highWaterMark' = IF ms > MinMark THEN ms ELSE highWaterMark
    /\ started' = TRUE
    /\ elapsed' = IF started THEN elapsed ELSE 0
    /\ UNCHANGED <<marked, currentLag, sample, worst, answer>>

\* The loop waits for the timer; the timer is late only because of handlers.
Wait ==
    /\ started /\ elapsed < Period
    /\ elapsed' = elapsed + 1
    /\ UNCHANGED <<started, marked, currentLag, highWaterMark, sample, worst, answer>>

\* A request handler keeps the loop for d.
Handler(d) ==
    /\ started /\ elapsed + d <= Period + MaxLate
    /\ elapsed' = elapsed + d
    /\ UNCHANGED <<started, marked, currentLag, highWaterMark, sample, worst, answer>>

Lateness == IF elapsed < Period THEN 0 ELSE elapsed - Period

\* Mutant of Dampened: the new lag is added before the division by the decay.
DampenedSum(lag) == (lag + (currentLag * 2) \div 3) % Word

\* Mutant of Dampened: rounded up, so that it never comes back to 0.
DampenedUp(lag) == ((lag + currentLag * 2 + 2) \div 3) % Word

\* Mutant of Dampened: the weights are swapped with a wrong divisor.
DampenedSlow(lag) == ((lag + currentLag * 2) \div 4) % Word

\* AVG_DECAY_FACTOR = 3, in unsigned arithmetic.
Dampened(lag) == ((lag + currentLag * 2) % Word) \div 3

\* busy_timer: due Period after it last ran; the loop's clock is coarser than
\* uv_hrtime, so it may run a little early.
BusyTimer ==
    /\ started /\ elapsed + 1 >= Period
    /\ IF marked THEN /\ currentLag' = Dampened(Lateness)
                      /\ sample' = Lateness
                      /\ worst' = IF Lateness > worst THEN Lateness ELSE worst
       ELSE UNCHANGED <<currentLag, sample, worst>>
    /\ marked' = TRUE
    /\ elapsed' = 0
    /\ UNCHANGED <<started, highWaterMark, answer>>

\* Mutant of Answers: the comparison is turned round.
AnswersInverted == IF currentLag < highWaterMark THEN {"true"} ELSE {"false"}

\* The answers isBusy may give: it blocks with a probability of
\* (lag - mark)/mark, which is certain from twice the mark on.
Answers == IF currentLag <= highWaterMark THEN {"false"}
           ELSE IF currentLag > 2 * highWaterMark THEN {"true"}
           ELSE {"true", "false"}

IsBusy ==
    /\ answer' \in Answers
    /\ UNCHANGED <<started, marked, elapsed, currentLag, highWaterMark, sample, worst>>

Next == \/ \E ms \in Marks : InitBusy(ms)
        \/ Wait
        \/ \E d \in Durations : Handler(d)
        \/ BusyTimer
        \/ IsBusy

Spec == Init /\ [][Next]_vars

\* Time passes and a due timer is run: handlers do return to the loop.
FairSpec == Spec /\ WF_vars(Wait) /\ SF_vars(BusyTimer)
-----------------------------------------------------------------------------
\* Types.
TypeOK ==
    /\ started \in BOOLEAN /\ marked \in BOOLEAN
    /\ elapsed \in 0..(Period + MaxLate)
    /\ currentLag \in 0..(Word - 1) /\ highWaterMark \in Nat
    /\ sample \in 0..MaxLate /\ worst \in 0..MaxLate
    /\ answer \in {"none", "true", "false"}

\* A measured lag is never a wrapped subtraction, and the average never
\* exceeds the largest of them, so it does not overflow either: neither
\* measuring nor dampening can invent load.
LagBounded == currentLag <= worst /\ sample <= worst /\ worst <= MaxLate

\* isBusy blocks a request only if the loop was really late by more than the
\* configured mark at some time.
NoFalseAlarm == [][answer' = "true" /\ answer' # answer => worst > highWaterMark]_vars

\* Once the loop is on time again, whatever lag had built up decays to 0 and
\* stays there, so that no request is blocked for ever.
Recovers == <>[](sample = 0) => <>[](currentLag = 0)

\* A loop that stays late by more than the mark (and the 2 ms the integer
\* average may lose) is noticed, and again after every change of the mark.
Detects == <>[](marked /\ sample >= highWaterMark + 3) => []<>(currentLag > highWaterMark)
=============================================================================
