------------------------------- MODULE TapTempo -------------------------------
(***************************************************************************)
(* The class TapTempo (src/core/tap_tempo.cpp): a tempo from the median of *)
(* the last intervals between taps.                                        *)
(*                                                                         *)
(* A TapTempo is a record and tap an operator on it, which EditorControls  *)
(* uses too.  Below them is one TapTempo under arbitrary calls: any time   *)
(* stamps, in any order, with a history of those since the last reset.     *)
(* Times are counted in ticks.  A tempo is represented by twice the median *)
(* interval it is the reciprocal of, which is whole: the mean of the two   *)
(* middle intervals need not be.                                           *)
(***************************************************************************)
EXTENDS Integers, Sequences, FiniteSets, Functions, TLC

CONSTANTS None, NonFinite,
          RequiredTaps, MaximumIntervals, InactivityTimeout,
          Gaps,        \* between the time stamps of successive calls
          MaxTaps      \* bound on the taps since the last reset

(* What the constructor requires, besides distinct values. *)
TapAssumption ==
  /\ RequiredTaps \in Nat /\ RequiredTaps >= 3
  /\ MaximumIntervals \in Nat /\ MaximumIntervals >= RequiredTaps - 1
  /\ InactivityTimeout \in Nat \ {0}
  /\ None \notin Int /\ NonFinite \notin Int /\ None # NonFinite
  /\ Gaps \subseteq Int /\ MaxTaps \in Nat

Interval == 1 .. InactivityTimeout

TapTempoRecord == [previous : Int \cup {None}, intervals : Seq(Interval)]

NoTaps == [previous |-> None, intervals |-> <<>>]

------------------------------------------------------------------------------
Continues(tempo, time) ==
  /\ tempo.previous # None
  /\ time - tempo.previous > 0
  /\ time - tempo.previous <= InactivityTimeout

Restarts(tempo, time) == tempo.previous # None /\ ~ Continues(tempo, time)

Push(intervals, interval) ==
  LET longer == Append(intervals, interval)
  IN  IF Len(longer) > MaximumIntervals THEN Tail(longer) ELSE longer

NextIntervals(tempo, time) ==
  IF Continues(tempo, time) THEN Push(tempo.intervals, time - tempo.previous) ELSE <<>>

Tapped(tempo, time) == [previous |-> time, intervals |-> NextIntervals(tempo, time)]

Sorted(intervals) == SortSeq(intervals, <)

MiddleUpper(intervals) ==   \* mutant
  2 * Sorted(intervals)[Len(intervals) \div 2 + 1]

TwiceMedian(intervals) ==
  LET sorted == Sorted(intervals)
      middle == Len(sorted) \div 2
  IN  IF Len(sorted) % 2 = 0 THEN sorted[middle] + sorted[middle + 1]
                             ELSE 2 * sorted[middle + 1]

(* TapTempoResult.  tempo is the state after the tap. *)
Result(tempo, restarted) ==
  LET count == Len(tempo.intervals) + 1
  IN  [tap_count |-> count,
       sequence_restarted |-> restarted,
       bpm |-> IF count < RequiredTaps THEN None ELSE TwiceMedian(tempo.intervals)]

NoResult == [tap_count |-> 0, sequence_restarted |-> FALSE, bpm |-> None]

------------------------------------------------------------------------------
VARIABLES tempo,     \* the TapTempo
          result,    \* what the last call of tap returned
          taps       \* history: the time stamps since the last reset

vars == <<tempo, result, taps>>

Init == tempo = NoTaps /\ result = NoResult /\ taps = <<>>

LastTime == IF taps = <<>> THEN 0 ELSE taps[Len(taps)]

Tap ==
  /\ Len(taps) < MaxTaps
  /\ \E gap \in Gaps :
       LET time == LastTime + gap IN
       /\ tempo' = Tapped(tempo, time)
       /\ result' = Result(tempo', Restarts(tempo, time))
       /\ taps' = Append(taps, time)

TapNonFinite == tempo' = NoTaps /\ result' = NoResult /\ taps' = <<>>

Reset == tempo' = NoTaps /\ taps' = <<>> /\ UNCHANGED result

Next == Tap \/ TapNonFinite \/ Reset

Spec == Init /\ [][Next]_vars

------------------------------------------------------------------------------
(* Types of the members, and the bound on the deque of intervals. *)
TypeOK ==
  /\ tempo \in TapTempoRecord
  /\ Len(tempo.intervals) <= MaximumIntervals
  /\ result.tap_count \in 0 .. MaximumIntervals + 1
  /\ taps \in Seq(Int) /\ Len(taps) <= MaxTaps

Gap(i) == taps[i] - taps[i - 1]

(* Where the sequence of taps that the last one belongs to begins: after   *)
(* the last gap that was a pause or went backwards.                        *)
RunStart ==
  CHOOSE i \in 1 .. Len(taps) :
    /\ i = 1 \/ Gap(i) \notin Interval
    /\ \A j \in i + 1 .. Len(taps) : Gap(j) \in Interval

RecentGaps ==
  LET first == IF Len(taps) - RunStart > MaximumIntervals
               THEN Len(taps) - MaximumIntervals ELSE RunStart
  IN  [k \in 1 .. Len(taps) - first |-> Gap(first + k)]

(* What is kept is what the taps since the last pause say, whatever calls  *)
(* of reset, pauses and clocks going backwards lie before them: the last   *)
(* tap, and the most recent gaps in their order.                           *)
KeepsTheRun ==
  IF taps = <<>> THEN tempo = NoTaps
  ELSE tempo = [previous |-> LastTime, intervals |-> RecentGaps]

(* The middle intervals by counting, without sorting.                      *)
Low(gaps)  == CHOOSE v \in Range(gaps) :
  /\ Cardinality({k \in DOMAIN gaps : gaps[k] < v}) <= (Len(gaps) - 1) \div 2
  /\ Cardinality({k \in DOMAIN gaps : gaps[k] <= v}) > (Len(gaps) - 1) \div 2
High(gaps) == CHOOSE v \in Range(gaps) :
  /\ Cardinality({k \in DOMAIN gaps : gaps[k] > v}) <= (Len(gaps) - 1) \div 2
  /\ Cardinality({k \in DOMAIN gaps : gaps[k] >= v}) > (Len(gaps) - 1) \div 2

(* A step that returns a tempo returns it for enough taps of one unbroken  *)
(* run, and it is the median of their most recent gaps; a step that does   *)
(* not has too few.                                                        *)
TempoIsMedianOfRun ==
  [][taps' # taps /\ taps' # <<>> =>
       result'.bpm = IF Len(RecentGaps') + 1 < RequiredTaps THEN None
                     ELSE Low(RecentGaps') + High(RecentGaps')]_vars

(* All gaps are the period, but for the two beside one tap that was early  *)
(* or late, or for one: a tap was missed, or the odd one is first or last. *)
SteadyBut(gaps, period) ==
  LET odd == {k \in DOMAIN gaps : gaps[k] # period} IN
  \/ Cardinality(odd) <= 1
  \/ \E k \in DOMAIN gaps :
       odd = {k, k + 1} /\ gaps[k] + gaps[k + 1] = 2 * period

(* "median tap tempo resists jitter and one poor tap" (core_tests.cpp):    *)
(* one poor tap among steady ones does not change the tempo at all.        *)
ResistsOnePoorTap ==
  result.bpm # None /\ taps # <<>> =>
    \A period \in Range(RecentGaps) :
      Len(RecentGaps) >= 3 /\ SteadyBut(RecentGaps, period) => result.bpm = 2 * period

(* What is kept is of the taps the user makes now: the window of intervals *)
(* is the present run's, and one poor tap is resisted (the class comment   *)
(* and tests of TapTempo).                                                 *)
TapsAreRight == TypeOK /\ KeepsTheRun /\ ResistsOnePoorTap
==============================================================================
