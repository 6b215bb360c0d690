------------------------- MODULE BusyMonitorProofs -------------------------
(***************************************************************************)
(* Proofs about BusyMonitor, for every period, mark and duration: the      *)
(* dampened lag stays between 0 and the largest lag measured, so the       *)
(* unsigned arithmetic of busy_timer never wraps, and isBusy blocks only   *)
(* after the loop was really late.                                         *)
(***************************************************************************)
EXTENDS BusyMonitor, TLAPS

\* The weighted mean of two numbers is at most their bound, and the unsigned
\* sum it is computed from does not wrap.
LEMMA DampenedBound ==
    ASSUME NEW l \in Nat, NEW c \in Nat, NEW w \in Nat,
           l <= w, c <= w, 3 * w < Word, Word \in Nat
    PROVE  /\ ((l + c * 2) % Word) \div 3 \in Nat
           /\ ((l + c * 2) % Word) \div 3 <= w
<1>1. l + c * 2 \in 0..(3 * w)
  OBVIOUS
<1>2. (l + c * 2) % Word = l + c * 2
  BY <1>1
<1> DEFINE s == l + c * 2
<1>3. s \in Nat /\ s <= 3 * w
  BY <1>1
<1> HIDE DEF s
<1>4. s \div 3 \in Nat /\ s \div 3 <= w
  BY <1>3
<1> QED
  BY <1>2, <1>4 DEF s

\* Both facts together are inductive: the average is bounded by `worst', and
\* `worst' by MaxLate, which keeps the sum below Word.
Inv == TypeOK /\ LagBounded

\* What 3 * MaxLate < Word says about every lag that can be measured.
LEMMA NoWrap ==
    ASSUME NEW m \in Nat, NEW w \in 0..m, NEW W \in Nat, 3 * m < W
    PROVE  3 * w < W /\ m < W /\ W - 1 \in Nat
OBVIOUS

\* The same for the constants of the module.
LEMMA WordFacts == \A w \in 0..MaxLate : 3 * w < Word /\ MaxLate < Word /\ Word - 1 \in Nat
<1>1. MaxLate \in Nat /\ Word \in Nat /\ 3 * MaxLate < Word
  BY BusyAssumption, Zenon
<1> QED
  BY <1>1, NoWrap

\* Nothing was measured yet.
LEMMA InvInit == Init => Inv
<1> SUFFICES ASSUME Init PROVE Inv
  OBVIOUS
<1>1. /\ Word - 1 \in Nat /\ Period + MaxLate \in Nat /\ MaxLate \in Nat
      /\ Default \in Nat
  <2>1. Period \in Nat /\ MaxLate \in Nat /\ Default \in Nat
    BY BusyAssumption
  <2>2. 0 \in 0..MaxLate
    BY <2>1
  <2> QED
    BY <2>1, <2>2, WordFacts
<1>2. 0 \in 0..(Word - 1) /\ 0 \in 0..(Period + MaxLate) /\ 0 \in 0..MaxLate
  BY <1>1
<1>3. currentLag <= worst /\ sample <= worst /\ worst <= MaxLate
  BY <1>1 DEF Init
<1> QED
  BY <1>1, <1>2, <1>3, Zenon DEF Init, Inv, TypeOK, LagBounded

\* Each action of the monitor keeps the bounds; only the timer moves them.
LEMMA InvNext == Inv /\ [Next]_vars => Inv'
<1> SUFFICES ASSUME Inv, [Next]_vars PROVE Inv'
  OBVIOUS
<1> USE BusyAssumption DEF Inv, TypeOK, LagBounded
<1>1. ASSUME NEW ms \in Marks, InitBusy(ms) PROVE Inv'
  BY <1>1 DEF InitBusy
<1>2. CASE Wait
  BY <1>2 DEF Wait
<1>3. ASSUME NEW d \in Durations, Handler(d) PROVE Inv'
  BY <1>3 DEF Handler
<1>4. CASE BusyTimer
  <2>1. Lateness \in 0..MaxLate
    BY DEF Lateness
  <2>2. CASE ~marked
    BY <1>4, <2>2 DEF BusyTimer
  <2>3. CASE marked
    <3>1. /\ worst' \in 0..MaxLate /\ worst <= worst' /\ Lateness <= worst'
          /\ sample' = Lateness /\ currentLag' = Dampened(Lateness)
      BY <1>4, <2>1, <2>3 DEF BusyTimer
    <3>2. currentLag' \in Nat /\ currentLag' <= worst'
      <4>1. 3 * worst' < Word
        BY <3>1, WordFacts
      <4> QED
        BY <2>1, <3>1, <4>1, DampenedBound DEF Dampened
    <3>3. currentLag' \in 0..(Word - 1)
      BY <3>1, <3>2, WordFacts
    <3> QED
      BY <1>4, <2>1, <3>1, <3>2, <3>3 DEF BusyTimer
  <2> QED
    BY <2>2, <2>3
<1>5. CASE IsBusy
  BY <1>5 DEF IsBusy, Answers
<1>6. CASE UNCHANGED vars
  BY <1>6 DEF vars
<1> QED
  BY <1>1, <1>2, <1>3, <1>4, <1>5, <1>6 DEF Next

\* busy_timer's average stays within the largest lag ever measured, for every
\* sequence of calls and delays: the dampening neither overflows nor invents
\* load.
THEOREM LagNeverInvented == Spec => [](TypeOK /\ LagBounded)
<1>1. Init => Inv
  BY InvInit
<1>2. Inv /\ [Next]_vars => Inv'
  BY InvNext
<1>3. Inv => TypeOK /\ LagBounded
  BY DEF Inv
<1> QED
  BY <1>1, <1>2, <1>3, PTL DEF Spec

\* isBusy answers true only when the loop was late by more than the mark in
\* force at some earlier tick of the timer.
THEOREM BlocksOnlyWhenLate == Spec => NoFalseAlarm
<1>1. Inv /\ [Next]_vars => [answer' = "true" /\ answer' # answer => worst > highWaterMark]_vars
  <2> SUFFICES ASSUME Inv, [Next]_vars, answer' = "true", answer' # answer
               PROVE  worst > highWaterMark
    OBVIOUS
  <2>1. IsBusy
    BY DEF Next, vars, InitBusy, Wait, Handler, BusyTimer
  <2>2. currentLag > highWaterMark
    BY <2>1 DEF IsBusy, Answers, Inv, TypeOK
  <2> QED
    BY <2>2, BusyAssumption DEF Inv, TypeOK, LagBounded
<1> QED
  BY <1>1, InvInit, InvNext, PTL DEF Spec, NoFalseAlarm
=============================================================================
