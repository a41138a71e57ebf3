------------------------------- MODULE HubProofs ------------------------------
(***************************************************************************)
(* Theorems about HubScoring.tla and HubLights.tla, for any match timing   *)
(* and any amount of FUEL.                                                 *)
(*                                                                         *)
(* The scoring first.  The clock: in whole ticks, the ends of the eight    *)
(* shifts, the shift a time is scored in and the one the cue names.  The   *)
(* tallies, of which UpdateState raises at most one.  The invariant, which *)
(* says when in each period the last pass can have been and that the       *)
(* tallying hubs never lag behind the AUTO result.                         *)
(*                                                                         *)
(* Then the lights, which change nothing of the scoring, so that its       *)
(* theorems hold under them, and tell the robots the truth about it.  What *)
(* ties the two together is Fresh: in teleop a light that is on is one a   *)
(* pass switched on, by the field's clock, at most a stall ago.            *)
(***************************************************************************)
EXTENDS HubLights, TLAPS

Warmup == Ticks(WarmupDurationSec)
Transition == Ticks(TransitionShiftDurationSec)
Shift == Ticks(ShiftDurationSec)
Endgame == Ticks(EndgameDurationSec)

-----------------------------------------------------------------------------
(* The clock                                                                 *)

\* Seconds turned into ticks add up, and keep their order.
LEMMA TicksAddUp ==
  ASSUME NEW a \in Nat, NEW b \in Nat
  PROVE  /\ Ticks(a) \in Nat
         /\ Ticks(a + b) = Ticks(a) + Ticks(b)
         /\ a >= b => Ticks(a) >= Ticks(b)
<1>1. \A n \in Nat : Ticks(n) \in Nat
  BY TicksAssumption DEF Ticks
<1>2. \A m, n \in Nat : Ticks(m + n) = Ticks(m) + Ticks(n)
  BY TicksAssumption DEF Ticks
<1>3. ASSUME a >= b PROVE Ticks(a) >= Ticks(b)
  <2>1. a - b \in Nat /\ a = b + (a - b)
    BY <1>3
  <2>2. Ticks(a) = Ticks(b) + Ticks(a - b)
    BY <2>1, <1>2
  <2> QED
    BY <2>1, <2>2, <1>1
<1> QED
  BY <1>1, <1>2, <1>3

\* A time is a number of seconds times TicksPerSec, so multiples of it are too.
LEMMA TicksMultiply ==
  ASSUME NEW a \in Nat
  PROVE  Ticks(2 * a) = 2 * Ticks(a) /\ Ticks(3 * a) = 3 * Ticks(a) /\ Ticks(4 * a) = 4 * Ticks(a)
  BY TicksAssumption DEF Ticks

\* The instants of a match and how they lie to one another.
LEMMA Instants ==
  /\ Warmup \in Nat /\ Transition \in Nat /\ Shift \in Nat /\ Endgame \in Nat /\ Grace \in Nat
  /\ AutoEnd \in Nat /\ TeleopStart \in Nat /\ TeleopEnd \in Nat
  /\ Warmup <= AutoEnd /\ AutoEnd + Grace <= TeleopStart
  /\ TeleopEnd = TeleopStart + Transition + 4 * Shift + Endgame
  /\ Grace <= Shift /\ 2 * Grace <= Transition
  /\ MaxStall \in Nat /\ 1 <= MaxStall /\ MaxStall <= Grace
  /\ WarmupDurationSec > 0 => Warmup > 0
  /\ PauseDurationSec = 0 => TeleopStart = AutoEnd
<1> USE DurationsAssumption
<1>1. /\ Warmup \in Nat /\ Transition \in Nat /\ Shift \in Nat /\ Endgame \in Nat /\ Grace \in Nat
  BY TicksAddUp DEF Warmup, Transition, Shift, Endgame, Grace
<1>2. AutoEnd = Warmup + Ticks(AutoDurationSec) /\ Ticks(AutoDurationSec) \in Nat
  BY TicksAddUp DEF AutoEnd, Warmup
<1>3. TeleopStart = AutoEnd + Ticks(PauseDurationSec) /\ Ticks(PauseDurationSec) \in Nat
  BY TicksAddUp DEF TeleopStart
<1>4. Ticks(PauseDurationSec) >= Grace
  BY TicksAddUp, PauseAssumption DEF Grace
<1>5. TeleopEnd = TeleopStart + Transition + 4 * Shift + Endgame
  <2>1. /\ Ticks(TransitionShiftDurationSec + 4 * ShiftDurationSec)
             = Transition + Ticks(4 * ShiftDurationSec)
        /\ Ticks(4 * ShiftDurationSec) = 4 * Shift
    BY TicksAddUp, TicksMultiply DEF Transition, Shift
  <2>2. /\ TransitionShiftDurationSec + 4 * ShiftDurationSec \in Nat
        /\ TeleopDurationSec
             = (TransitionShiftDurationSec + 4 * ShiftDurationSec) + EndgameDurationSec
    BY BreakdownAssumption
  <2>3. Ticks(TeleopDurationSec)
          = Ticks(TransitionShiftDurationSec + 4 * ShiftDurationSec) + Endgame
    BY <2>2, TicksAddUp DEF Endgame
  <2> QED
    BY <1>1, <1>2, <1>3, <2>1, <2>3 DEF TeleopEnd
<1>6. Grace <= Shift /\ 2 * Grace <= Transition
  <2>1. Ticks(2 * ScoringGracePeriodSec) = 2 * Grace
    BY TicksMultiply DEF Grace
  <2>2. Ticks(TransitionShiftDurationSec) >= Ticks(2 * ScoringGracePeriodSec)
    BY TicksAddUp, GraceAssumption
  <2>3. Ticks(ShiftDurationSec) >= Ticks(ScoringGracePeriodSec)
    BY TicksAddUp, GraceAssumption
  <2> QED
    BY <1>1, <2>1, <2>2, <2>3 DEF Grace, Shift, Transition
<1>7. MaxStall \in Nat /\ 1 <= MaxStall /\ MaxStall <= Grace
  BY <1>1, StallAssumption DEF Grace, Ticks
<1>8. WarmupDurationSec > 0 => Warmup > 0
  BY TicksAssumption DEF Warmup, Ticks
<1>9. Ticks(0) = 0
  BY TicksAssumption DEF Ticks
<1> QED
  BY <1>1, <1>2, <1>3, <1>4, <1>5, <1>6, <1>7, <1>8, <1>9

\* The ends of the shifts, written out.
LEMMA ShiftEnds ==
  /\ ShiftEnd(0) = AutoEnd
  /\ ShiftEnd(1) = TeleopStart + Transition
  /\ ShiftEnd(2) = TeleopStart + Transition + Shift
  /\ ShiftEnd(3) = TeleopStart + Transition + 2 * Shift
  /\ ShiftEnd(4) = TeleopStart + Transition + 3 * Shift
  /\ ShiftEnd(5) = TeleopStart + Transition + 4 * Shift
  /\ ShiftEnd(6) = TeleopEnd
  /\ ShiftEnd(7) = TeleopEnd
<1> USE DurationsAssumption
<1>1. ShiftEnd(0) = AutoEnd /\ ShiftEnd(6) = TeleopEnd /\ ShiftEnd(7) = TeleopEnd
  BY DEF ShiftEnd, ShiftAuto, ShiftTransition, Shift4
<1>2. \A k \in 1 .. 5 : ShiftEnd(k) = TeleopStart
                          + Ticks(TransitionShiftDurationSec + (k - 1) * ShiftDurationSec)
  BY DEF ShiftEnd, ShiftAuto, ShiftTransition, Shift4
<1>3. \A n \in Nat : Ticks(TransitionShiftDurationSec + n) = Transition + Ticks(n)
  BY TicksAddUp DEF Transition
<1>4. /\ 0 * ShiftDurationSec = 0 /\ 1 * ShiftDurationSec = ShiftDurationSec
      /\ Ticks(0) = 0
  BY TicksAssumption DEF Ticks
<1>5. /\ Ticks(2 * ShiftDurationSec) = 2 * Shift /\ Ticks(3 * ShiftDurationSec) = 3 * Shift
      /\ Ticks(4 * ShiftDurationSec) = 4 * Shift
  BY TicksMultiply DEF Shift
<1>6. ShiftEnd(1) = TeleopStart + Transition
  BY <1>2, <1>3, <1>4, Instants
<1>7. ShiftEnd(2) = TeleopStart + Transition + Shift
  BY <1>2, <1>3, <1>4, Instants DEF Shift
<1>8. /\ 2 * ShiftDurationSec \in Nat /\ 3 * ShiftDurationSec \in Nat
      /\ 4 * ShiftDurationSec \in Nat
  OBVIOUS
<1>9. /\ ShiftEnd(3) = TeleopStart + Ticks(TransitionShiftDurationSec + 2 * ShiftDurationSec)
      /\ ShiftEnd(4) = TeleopStart + Ticks(TransitionShiftDurationSec + 3 * ShiftDurationSec)
      /\ ShiftEnd(5) = TeleopStart + Ticks(TransitionShiftDurationSec + 4 * ShiftDurationSec)
  BY <1>2
<1>10. /\ ShiftEnd(3) = TeleopStart + (Transition + 2 * Shift)
       /\ ShiftEnd(4) = TeleopStart + (Transition + 3 * Shift)
       /\ ShiftEnd(5) = TeleopStart + (Transition + 4 * Shift)
  BY <1>3, <1>5, <1>8, <1>9
<1> QED
  BY <1>1, <1>6, <1>7, <1>10, Instants

\* When each shift stops being scored: the AUTO, transition and post-match shifts a grace
\* period after their ends, an alliance shift when that or at once.
LEMMA ScoringEnds ==
  ASSUME NEW won
  PROVE  /\ ScoringEnd(0, won) = AutoEnd + Grace
         /\ ScoringEnd(1, won) = TeleopStart + Transition + Grace
         /\ ScoringEnd(6, won) = TeleopEnd
         /\ ScoringEnd(7, won) = TeleopEnd + Grace
         /\ \A s \in 2 .. 5 :
              ScoringEnd(s, won) = ShiftEnd(s) + (IF IsShiftActive(s, won) THEN Grace ELSE 0)
<1> USE DEF ScoringEnd, IsShiftActive, ShiftAuto, ShiftTransition, Shift1, Shift4, ShiftEndgame,
            ShiftPostMatch
<1> QED
  BY ShiftEnds, Instants

\* A set of shifts that is not empty has a first one.
LEMMA FirstShift ==
  ASSUME NEW S \in SUBSET Shifts, S # {}
  PROVE  \E s \in S : \A r \in S : s <= r
<1> SUFFICES ASSUME ~\E s \in S : \A r \in S : s <= r
             PROVE  FALSE
  OBVIOUS
<1>1. 0 \notin S
  BY DEF Shifts
<1>2. 1 \notin S
  BY <1>1 DEF Shifts
<1>3. 2 \notin S
  BY <1>1, <1>2 DEF Shifts
<1>4. 3 \notin S
  BY <1>1, <1>2, <1>3 DEF Shifts
<1>5. 4 \notin S
  BY <1>1, <1>2, <1>3, <1>4 DEF Shifts
<1>6. 5 \notin S
  BY <1>1, <1>2, <1>3, <1>4, <1>5 DEF Shifts
<1>7. 6 \notin S
  BY <1>1, <1>2, <1>3, <1>4, <1>5, <1>6 DEF Shifts
<1>8. 7 \notin S
  BY <1>1, <1>2, <1>3, <1>4, <1>5, <1>6, <1>7 DEF Shifts
<1>9. PICK s \in S : TRUE
  OBVIOUS
<1>10. s \in {0, 1, 2, 3, 4, 5, 6, 7}
  BY <1>9 DEF Shifts
<1> QED
  BY <1>1, <1>2, <1>3, <1>4, <1>5, <1>6, <1>7, <1>8, <1>9, <1>10

\* What a time is scored in is the first shift still open, or none is open.
LEMMA ScoringShiftIs ==
  ASSUME NEW won, NEW t \in Nat
  PROVE  \/ /\ ScoringShift(won, t) \in Shifts
            /\ t < ScoringEnd(ScoringShift(won, t), won)
            /\ \A r \in Shifts : t < ScoringEnd(r, won) => ScoringShift(won, t) <= r
         \/ /\ ScoringShift(won, t) = ShiftCount
            /\ \A r \in Shifts : ~(t < ScoringEnd(r, won))
<1> DEFINE Open == {s \in Shifts : t < ScoringEnd(s, won)}
<1>1. CASE Open = {}
  BY <1>1 DEF ScoringShift
<1>2. CASE Open # {}
  <2>1. \E s \in Open : \A r \in Open : s <= r
    BY <1>2, FirstShift
  <2>2. ScoringShift(won, t) = CHOOSE s \in Open : \A r \in Open : s <= r
    BY <1>2 DEF ScoringShift
  <2>3. ScoringShift(won, t) \in Open /\ \A r \in Open : ScoringShift(won, t) <= r
    BY <2>1, <2>2
  <2> QED
    BY <2>3
<1> QED
  BY <1>1, <1>2

\* The shift the field is in is one that is running, or none is.
LEMMA FieldShiftIs ==
  ASSUME NEW t \in Nat
  PROVE  \/ /\ FieldShift(t) \in 0 .. 6
            /\ ShiftStart(FieldShift(t)) <= t /\ t < ShiftEnd(FieldShift(t))
         \/ /\ FieldShift(t) = ShiftCount
            /\ \A s \in 0 .. 6 : ~(ShiftStart(s) <= t /\ t < ShiftEnd(s))
<1> DEFINE Running == {s \in 0 .. 6 : ShiftStart(s) <= t /\ t < ShiftEnd(s)}
<1>0. FieldShift(t) = IF Running = {} THEN ShiftCount ELSE CHOOSE s \in Running : TRUE
  BY DEF FieldShift, ShiftAuto, ShiftEndgame
<1>1. CASE Running = {}
  BY <1>0, <1>1
<1>2. CASE Running # {}
  <2>1. FieldShift(t) \in Running
    BY <1>0, <1>2
  <2> QED
    BY <2>1
<1> QED
  BY <1>1, <1>2

\* When each shift of the field begins.
LEMMA ShiftStarts ==
  /\ ShiftStart(0) = 0 /\ ShiftStart(1) = TeleopStart
  /\ \A s \in 2 .. 6 : ShiftStart(s) = ShiftEnd(s - 1)
  BY DEF ShiftStart, ShiftAuto, ShiftTransition

\* The first shift still open is one of the eight, or there is none.
LEMMA ScoringShiftRange ==
  ASSUME NEW won, NEW t \in Nat
  PROVE  ScoringShift(won, t) \in 0 .. 8
  BY ScoringShiftIs DEF Shifts, ShiftCount

\* A pass within the grace period of the transition shift scores under AUTO or it.
LEMMA EarlyShift ==
  ASSUME NEW won, NEW t \in Nat, t < TeleopStart + Transition + Grace
  PROVE  ScoringShift(won, t) \in {0, 1}
<1>1. 1 \in Shifts /\ t < ScoringEnd(1, won)
  BY ScoringEnds DEF Shifts
<1>2. /\ ScoringShift(won, t) \in Shifts
      /\ ScoringShift(won, t) <= 1
  BY <1>1, ScoringShiftIs
<1> QED
  BY <1>2 DEF Shifts

\* Nothing that arrives in teleop is scored under AUTO.
LEMMA LateShift ==
  ASSUME NEW won, NEW t \in Nat, t >= TeleopStart
  PROVE  ScoringShift(won, t) # 0
  BY ScoringShiftIs, ScoringEnds, Instants DEF ShiftCount

\* ScoringFollowsField holds of any time and any result.
LEMMA ScoringIsFieldOrOneBefore ==
  ASSUME NEW won, NEW t \in Nat,
         FieldShift(t) # ShiftCount, ScoringShift(won, t) # FieldShift(t)
  PROVE  /\ ScoringShift(won, t) = FieldShift(t) - 1
         /\ t < ShiftEnd(ScoringShift(won, t)) + Grace
         /\ IsShiftActive(ScoringShift(won, t), won)
<1> DEFINE f == FieldShift(t)
           s == ScoringShift(won, t)
<1>1. f \in 0 .. 6 /\ ShiftStart(f) <= t /\ t < ShiftEnd(f)
  BY FieldShiftIs
<1>2. \A r \in 0 .. 6 : ShiftEnd(r) <= ScoringEnd(r, won)
  BY ScoringEnds, ShiftEnds, Instants
<1>3. s \in Shifts /\ s <= f /\ t < ScoringEnd(s, won)
  <2>1. f \in Shifts
    BY <1>1 DEF Shifts
  <2>2. t < ScoringEnd(f, won)
    BY <1>1, <1>2, <2>1, ScoringEnds, ShiftEnds, Instants
  <2> QED
    BY <2>1, <2>2, ScoringShiftIs
<1>4. s < f /\ s \in 0 .. 5 /\ f \in 1 .. 6
  BY <1>1, <1>3 DEF Shifts
<1>5. s # 0
  <2>1. t >= TeleopStart
    BY <1>1, <1>4, ShiftStarts, ShiftEnds, Instants
  <2> QED
    BY <2>1, LateShift
<1>6. f \in 2 .. 6 /\ t >= ShiftEnd(f - 1)
  BY <1>1, <1>4, <1>5, ShiftStarts
<1>7. s = f - 1
  BY <1>3, <1>4, <1>5, <1>6, ScoringEnds, ShiftEnds, Instants
<1> QED
  BY <1>3, <1>4, <1>5, <1>6, <1>7, ScoringEnds, ShiftEnds, Instants
     DEF IsShiftActive, ShiftTransition

\* Whole seconds, as int() truncates them: more than n of them are at least n + 1, in ticks.
LEMMA WholeSeconds ==
  ASSUME NEW t \in Nat, NEW n \in Nat
  PROVE  /\ t \div TicksPerSec \in Nat
         /\ t \div TicksPerSec > n => t >= Ticks(n) + TicksPerSec
         /\ t \div TicksPerSec <= n => t < Ticks(n) + TicksPerSec
<1> DEFINE q == t \div TicksPerSec
<1>1. TicksPerSec \in Nat /\ TicksPerSec > 0
  BY TicksAssumption
<1>2. q \in Nat /\ q * TicksPerSec <= t /\ t < q * TicksPerSec + TicksPerSec
  BY <1>1
<1> HIDE DEF q
<1>3. \A m \in Nat : Ticks(m) \in Nat /\ Ticks(m) = m * TicksPerSec
  BY TicksAddUp DEF Ticks
<1>4. Ticks(q) <= t /\ t < Ticks(q) + TicksPerSec
  BY <1>2, <1>3
<1>5. Ticks(n + 1) = Ticks(n) + TicksPerSec
  BY <1>1 DEF Ticks
<1>6. CASE q > n
  <2>1. q >= n + 1 /\ n + 1 \in Nat
    BY <1>2, <1>6
  <2>2. Ticks(q) >= Ticks(n + 1)
    BY <1>2, <2>1, TicksAddUp
  <2> QED
    BY <1>1, <1>2, <1>3, <1>4, <1>5, <1>6, <2>1, <2>2 DEF q
<1>7. CASE q <= n
  <2>1. Ticks(n) >= Ticks(q)
    BY <1>2, <1>7, TicksAddUp
  <2> QED
    BY <1>1, <1>2, <1>3, <1>4, <1>7, <2>1 DEF q
<1> QED
  BY <1>2, <1>6, <1>7 DEF q

\* The cue of teleop, by the handovers that are still to come in whole seconds.
LEMMA TeleopShiftIs ==
  ASSUME NEW r \in Nat
  PROVE  /\ TeleopShift(r) \in 1 .. 6
         /\ \A c \in 1 .. 5 : TeleopShift(r) <= c =>
              r > EndgameDurationSec + (5 - c) * ShiftDurationSec
         /\ \A c \in 2 .. 6 : TeleopShift(r) >= c =>
              \/ c < 6 /\ r <= EndgameDurationSec + (6 - c) * ShiftDurationSec
              \/ c = 6 /\ r <= EndgameDurationSec
<1> DEFINE H == {k \in 1 .. 4 : r > EndgameDurationSec + k * ShiftDurationSec}
           last == CHOOSE k \in H : \A j \in H : j <= k
           left(k) == EndgameDurationSec + k * ShiftDurationSec
<1>1. \A k \in 0 .. 4 : left(k) \in Nat
  BY DurationsAssumption
<1>2. left(0) = EndgameDurationSec /\ left(0) <= left(1) /\ left(1) <= left(2)
      /\ left(2) <= left(3) /\ left(3) <= left(4)
  BY DurationsAssumption
<1>3. \A k \in 1 .. 4 : k \in H <=> r > left(k)
  OBVIOUS
<1>4. H # {} => last \in H /\ \A j \in H : j <= last
  <2> SUFFICES ASSUME H # {} PROVE \E k \in H : \A j \in H : j <= k
    OBVIOUS
  <2>1. H \subseteq {1, 2, 3, 4}
    OBVIOUS
  <2> HIDE DEF H
  <2>2. CASE 4 \in H
    <3>1. \A j \in H : j <= 4
      BY <2>1, <2>2
    <3> QED
      BY <2>2, <3>1
  <2>3. CASE 4 \notin H /\ 3 \in H
    <3>1. \A j \in H : j <= 3
      BY <2>1, <2>3
    <3> QED
      BY <2>3, <3>1
  <2>4. CASE 4 \notin H /\ 3 \notin H /\ 2 \in H
    <3>1. \A j \in H : j <= 2
      BY <2>1, <2>4
    <3> QED
      BY <2>4, <3>1
  <2>5. CASE H \subseteq {1}
    <3>1. PICK j \in H : TRUE
      OBVIOUS
    <3>2. H = {1}
      BY <2>5, <3>1
    <3> QED
      BY <3>2
  <2> QED
    BY <2>1, <2>2, <2>3, <2>4, <2>5
<1>5. TeleopShift(r) = IF r > left(4) THEN 1
                       ELSE IF H = {} /\ r <= EndgameDurationSec THEN 6
                       ELSE IF H = {} THEN 5 ELSE 5 - last
  BY DEF TeleopShift, ShiftTransition, ShiftEndgame, Shift4
<1>6. \A k \in 1 .. 4 : k \in 0 .. 4
  OBVIOUS
<1> HIDE DEF H, last, left
<1>7. H \subseteq 1 .. 4
  BY DEF H
<1>8. CASE r > left(4)
  BY <1>1, <1>2, <1>5, <1>8 DEF left
<1>9. CASE ~(r > left(4)) /\ H = {}
  <2>1. r <= left(1) /\ r <= left(2) /\ r <= left(3) /\ r <= left(4)
    BY <1>1, <1>3, <1>9
  <2> QED
    BY <1>1, <1>2, <1>5, <1>9, <2>1 DEF left
<1>10. CASE ~(r > left(4)) /\ H # {}
  <2>0. last \in 1 .. 4 /\ r > left(last)
    BY <1>3, <1>4, <1>7, <1>10
  <2>1. last \in 1 .. 3 /\ TeleopShift(r) = 5 - last /\ r > left(last)
    BY <1>5, <1>10, <2>0
  <2>2. r <= left(last + 1)
    BY <1>1, <1>3, <1>4, <1>6, <2>1
  <2> QED
    BY <1>1, <1>2, <2>1, <2>2 DEF left
<1> QED
  BY <1>8, <1>9, <1>10

\* From its first instant to its last teleop is in a shift after AUTO.
LEMMA TeleopHasShift ==
  ASSUME NEW t \in Nat, t >= TeleopStart, t < TeleopEnd
  PROVE  FieldShift(t) \in 1 .. 6
<1>1. /\ ShiftStart(1) = TeleopStart /\ ShiftEnd(0) = AutoEnd /\ AutoEnd <= TeleopStart
      /\ ShiftEnd(1) = TeleopStart + Transition /\ ShiftStart(2) = ShiftEnd(1)
      /\ ShiftEnd(2) = TeleopStart + Transition + Shift /\ ShiftStart(3) = ShiftEnd(2)
      /\ ShiftEnd(3) = TeleopStart + Transition + 2 * Shift /\ ShiftStart(4) = ShiftEnd(3)
      /\ ShiftEnd(4) = TeleopStart + Transition + 3 * Shift /\ ShiftStart(5) = ShiftEnd(4)
      /\ ShiftEnd(5) = TeleopStart + Transition + 4 * Shift /\ ShiftStart(6) = ShiftEnd(5)
      /\ ShiftEnd(6) = TeleopEnd
  BY ShiftStarts, ShiftEnds, Instants
<1>2. \E s \in 1 .. 6 : ShiftStart(s) <= t /\ t < ShiftEnd(s)
  <2> SUFFICES ASSUME \A s \in 1 .. 6 : ~(ShiftStart(s) <= t /\ t < ShiftEnd(s)) PROVE FALSE
    OBVIOUS
  <2>1. t >= ShiftEnd(1)
    BY <1>1, Instants
  <2>2. t >= ShiftEnd(2)
    BY <1>1, <2>1, Instants
  <2>3. t >= ShiftEnd(3)
    BY <1>1, <2>2, Instants
  <2>4. t >= ShiftEnd(4)
    BY <1>1, <2>3, Instants
  <2>5. t >= ShiftEnd(5)
    BY <1>1, <2>4, Instants
  <2> QED
    BY <1>1, <2>5, Instants
<1>3. FieldShift(t) # ShiftCount
  BY <1>2, FieldShiftIs DEF ShiftCount
<1>4. FieldShift(t) # 0
  BY <1>1, <1>3, FieldShiftIs, Instants
<1> QED
  BY <1>3, <1>4, FieldShiftIs

\* What a shift of teleop is: its bounds, and what comes before it is over.
LEMMA TeleopShiftBounds ==
  ASSUME NEW t \in Nat, t >= TeleopStart, t < TeleopEnd
  PROVE  /\ FieldShift(t) \in 1 .. 6 /\ t < ShiftEnd(FieldShift(t))
         /\ \A s \in 1 .. 6 : s < FieldShift(t) => ShiftEnd(s) <= t
<1>1. FieldShift(t) \in 1 .. 6 /\ ShiftStart(FieldShift(t)) <= t /\ t < ShiftEnd(FieldShift(t))
  BY TeleopHasShift, FieldShiftIs DEF ShiftCount
<1>2. ASSUME NEW s \in 1 .. 6, s < FieldShift(t)
      PROVE  ShiftEnd(s) <= t
  <2>1. FieldShift(t) \in 2 .. 6 /\ ShiftEnd(FieldShift(t) - 1) <= t
    BY <1>1, <1>2, ShiftStarts
  <2>2. s <= FieldShift(t) - 1
    BY <1>1, <1>2
  <2> QED
    BY <1>1, <1>2, <2>1, <2>2, ShiftEnds, Instants
<1> QED
  BY <1>1, <1>2

\* The cue of teleop against the field's clock, for any time in it.
LEMMA CueIsFieldOrNext ==
  ASSUME NEW t \in Nat, TeleopStart <= t, t < TeleopEnd
  PROVE  /\ FieldShift(t) <= CurrentShift("TeleopPeriod", t)
         /\ CurrentShift("TeleopPeriod", t) <= FieldShift(t + TicksPerSec - 1)
<1> DEFINE left == TeleopEnd - t
           r == left \div TicksPerSec
           cue == CurrentShift("TeleopPeriod", t)
           later == t + TicksPerSec - 1
<1>1. /\ TicksPerSec \in Nat /\ TicksPerSec >= 1
      /\ left \in Nat /\ later \in Nat /\ t <= later
  BY TicksAssumption, Instants
<1>2. cue = TeleopShift(r)
  <2>1. Ticks(TeleopDurationSec) \in Nat
    BY TicksAddUp, DurationsAssumption
  <2>2. left = Ticks(TeleopDurationSec) - (t - TeleopStart)
    BY <2>1, Instants DEF TeleopEnd
  <2> QED
    BY <2>2 DEF CurrentShift
<1> HIDE DEF left, cue, later
<1>3. \A n \in Nat : /\ r \in Nat
                     /\ r > n => left >= Ticks(n) + TicksPerSec
                     /\ r <= n => left < Ticks(n) + TicksPerSec
  BY <1>1, WholeSeconds
<1>4. r \in Nat
  BY <1>3
<1> HIDE DEF r
<1>5. cue \in 1 .. 6
  BY <1>2, <1>4, TeleopShiftIs
<1>6. \A k \in 0 .. 4 : /\ EndgameDurationSec + k * ShiftDurationSec \in Nat
                        /\ Ticks(EndgameDurationSec + k * ShiftDurationSec) = Endgame + k * Shift
  <2> TAKE k \in 0 .. 4
  <2> DEFINE s == k * ShiftDurationSec
  <2>1. s \in Nat
    BY DurationsAssumption
  <2>2. Ticks(s) = k * Shift
    BY TicksAssumption, DurationsAssumption DEF Ticks, Shift
  <2> HIDE DEF s
  <2>3. EndgameDurationSec + s \in Nat /\ Ticks(EndgameDurationSec + s) = Endgame + k * Shift
    BY <2>1, <2>2, TicksAddUp, DurationsAssumption DEF Endgame
  <2> QED
    BY <2>3 DEF s
\* Before the cue's shift ends there is a second left, and it begins within the next.
<1>7. cue < 6 => t < ShiftEnd(cue)
  <2> SUFFICES ASSUME cue < 6 PROVE t < ShiftEnd(cue)
    OBVIOUS
  <2> DEFINE k == 5 - cue
  <2>1. k \in 0 .. 4 /\ cue \in 1 .. 5
    BY <1>5
  <2>2. r > EndgameDurationSec + k * ShiftDurationSec
    BY <1>2, <1>4, <2>1, TeleopShiftIs
  <2>3. left >= Endgame + k * Shift + TicksPerSec
    BY <1>3, <1>6, <2>1, <2>2
  <2> QED
    BY <1>1, <2>1, <2>3, ShiftEnds, Instants DEF left
<1>8. cue > 1 => later >= ShiftEnd(cue - 1)
  <2> SUFFICES ASSUME cue > 1 PROVE later >= ShiftEnd(cue - 1)
    OBVIOUS
  <2> DEFINE k == IF cue = 6 THEN 0 ELSE 6 - cue
  <2>1. k \in 0 .. 4 /\ cue \in 2 .. 6
    BY <1>5
  <2>2. r <= EndgameDurationSec + k * ShiftDurationSec
    BY <1>2, <1>4, <2>1, TeleopShiftIs, DurationsAssumption
  <2>3. left < Endgame + k * Shift + TicksPerSec
    BY <1>3, <1>6, <2>1, <2>2
  <2> QED
    BY <1>1, <2>1, <2>3, ShiftEnds, Instants DEF left, later
<1>9. FieldShift(t) <= cue
  <2>1. FieldShift(t) \in 0 .. 6 /\ ShiftStart(FieldShift(t)) <= t
    BY TeleopHasShift, FieldShiftIs DEF ShiftCount
  <2>2. CASE cue = 6
    BY <2>1, <2>2
  <2>3. CASE cue \in 1 .. 5
    BY <1>7, <2>1, <2>3, ShiftStarts, ShiftEnds, Instants
  <2> QED
    BY <1>5, <2>2, <2>3
<1>10. cue <= FieldShift(later)
  <2>1. CASE FieldShift(later) = ShiftCount
    BY <1>5, <2>1 DEF ShiftCount
  <2>2. CASE FieldShift(later) # ShiftCount
    <3>1. FieldShift(later) \in 0 .. 6 /\ later < ShiftEnd(FieldShift(later))
      BY <1>1, <2>2, FieldShiftIs
    <3>2. later >= TeleopStart
      BY <1>1, Instants
    <3>3. FieldShift(later) # 0
      BY <1>1, <3>1, <3>2, ShiftEnds, Instants
    <3>4. CASE cue = 1
      BY <3>1, <3>3, <3>4
    <3>5. CASE cue \in 2 .. 6
      BY <1>1, <1>8, <3>1, <3>3, <3>5, ShiftEnds, Instants
    <3> QED
      BY <1>5, <3>4, <3>5
  <2> QED
    BY <2>1, <2>2
<1> QED
  BY <1>9, <1>10 DEF cue, later

-----------------------------------------------------------------------------
(* The tallies                                                               *)

\* Adding to one shift adds to the total, and takes nothing from any.
LEMMA TotalOfOneMore ==
  ASSUME NEW counts \in [Shifts -> Nat], NEW s \in Shifts, NEW d \in Nat
  PROVE  /\ [counts EXCEPT ![s] = @ + d] \in [Shifts -> Nat]
         /\ Total([counts EXCEPT ![s] = @ + d]) = Total(counts) + d
         /\ \A r \in Shifts : [counts EXCEPT ![s] = @ + d][r] = counts[r] + (IF r = s THEN d ELSE 0)
<1> DEFINE raised == [counts EXCEPT ![s] = @ + d]
<1>1. raised \in [Shifts -> Nat]
  OBVIOUS
<1>2. \A r \in Shifts : raised[r] = counts[r] + (IF r = s THEN d ELSE 0)
  OBVIOUS
<1>3. /\ \A r \in Shifts : counts[r] \in Nat
      /\ 0 \in Shifts /\ 1 \in Shifts /\ 2 \in Shifts /\ 3 \in Shifts
      /\ 4 \in Shifts /\ 5 \in Shifts /\ 6 \in Shifts /\ 7 \in Shifts
      /\ s \in {0, 1, 2, 3, 4, 5, 6, 7}
  BY DEF Shifts
<1> HIDE DEF raised
<1>4. Total(raised) = Total(counts) + d
  BY <1>2, <1>3 DEF Total
<1> QED
  BY <1>1, <1>2, <1>4 DEF raised

\* Totals are natural numbers, and no tally is more than the total.
LEMMA TotalIsNat ==
  ASSUME NEW counts \in [Shifts -> Nat]
  PROVE  Total(counts) \in Nat
<1>1. \A r \in {0, 1, 2, 3, 4, 5, 6, 7} : counts[r] \in Nat
  BY DEF Shifts
<1> QED
  BY <1>1 DEF Total

\* UpdateState raises the tally of the shift it is found in and no other, to a total that the
\* counter reads; a counter that reads less, or a match with no shift open, changes nothing.
LEMMA UpdateStateRaises ==
  ASSUME NEW counts \in [Shifts -> Nat], NEW won, NEW total \in Nat, NEW t \in Nat
  PROVE  /\ UpdateState(counts, won, total, t) \in [Shifts -> Nat]
         /\ \A r \in Shifts :
              /\ UpdateState(counts, won, total, t)[r] >= counts[r]
              /\ r # ScoringShift(won, t) => UpdateState(counts, won, total, t)[r] = counts[r]
         /\ \/ Total(UpdateState(counts, won, total, t)) = total
            \/ UpdateState(counts, won, total, t) = counts
<1> DEFINE s == ScoringShift(won, t)
           d == total - Total(counts)
<1>1. CASE s # ShiftCount /\ total > Total(counts)
  <2>1. s \in Shifts
    BY <1>1, ScoringShiftIs
  <2>2. d \in Nat /\ Total(counts) \in Nat
    BY <1>1, TotalIsNat
  <2>3. UpdateState(counts, won, total, t) = [counts EXCEPT ![s] = @ + d]
    BY <1>1 DEF UpdateState
  <2>4. \A r \in Shifts : counts[r] \in Nat
    OBVIOUS
  <2> HIDE DEF s, d
  <2>5. /\ [counts EXCEPT ![s] = @ + d] \in [Shifts -> Nat]
        /\ Total([counts EXCEPT ![s] = @ + d]) = Total(counts) + d
        /\ \A r \in Shifts :
             [counts EXCEPT ![s] = @ + d][r] = counts[r] + (IF r = s THEN d ELSE 0)
    BY <2>1, <2>2, TotalOfOneMore
  <2>6. Total(counts) + d = total
    BY <2>2 DEF d
  <2> QED
    BY <2>2, <2>3, <2>4, <2>5, <2>6 DEF s
<1>2. CASE ~(s # ShiftCount /\ total > Total(counts))
  <2>1. UpdateState(counts, won, total, t) = counts
    BY <1>2 DEF UpdateState
  <2> QED
    BY <2>1
<1> QED
  BY <1>1, <1>2

\* The cue names one of the shifts.
LEMMA CurrentShiftRange ==
  ASSUME NEW state, NEW t \in Nat
  PROVE  CurrentShift(state, t) \in Shifts \cup {ShiftCount}
<1>1. ASSUME NEW remaining \in Int
      PROVE  TeleopShift(remaining) \in 1 .. 6
  <2> DEFINE H == {k \in 1 .. 4 : remaining > EndgameDurationSec + k * ShiftDurationSec}
  <2>1. H # {} => (CHOOSE k \in H : \A j \in H : j <= k) \in 1 .. 4
    OBVIOUS
  <2> QED
    BY <2>1 DEF TeleopShift, ShiftTransition, ShiftEndgame, Shift4
<1>2. (Ticks(TeleopDurationSec) - (t - TeleopStart)) \div TicksPerSec \in Int
  BY TicksAssumption, TicksAddUp, DurationsAssumption, Instants
<1> QED
  BY <1>1, <1>2 DEF CurrentShift, Shifts, ShiftCount, ShiftAuto, ShiftPostMatch

-----------------------------------------------------------------------------
(* What a step does                                                          *)

\* A pass leaves the match where its state machine left it, or a stop has ended it.
LEMMA FinishPassMatch ==
  ASSUME NEW state, NEW data, FinishPass(state, data)
  PROVE  /\ \/ MatchState' = state /\ GameData' = data
            \/ state \in InProgress /\ MatchState' = "PostMatch" /\ GameData' = ""
         /\ folded' = FALSE
         /\ AutoWinnerMode' = AutoWinnerMode /\ saving' = saving
         /\ dwell' \in {0, dwell}
         /\ lastShift' = CurrentShift(MatchState', now)
  BY DEF FinishPass

\* What a pass assigns has the types it should, if the state machine's part of it has.
LEMMA FinishPassTypes ==
  ASSUME TypeOK, NEW state \in InProgress \cup {"PreMatch", "PostMatch"},
         NEW data \in {"", "R", "B"},
         FinishPass(state, data)
  PROVE  /\ MatchState' \in InProgress \cup {"PreMatch", "PostMatch"}
         /\ GameData' \in {"", "R", "B"}
         /\ folded' \in BOOLEAN /\ AutoWinnerMode' \in Modes /\ saving' \in BOOLEAN
         /\ dwell' \in Nat /\ lastShift' \in Shifts \cup {ShiftCount}
<1>1. MatchState' \in {state, "PostMatch"} /\ GameData' \in {data, ""}
  BY FinishPassMatch
<1>2. MatchState' \in InProgress \cup {"PreMatch", "PostMatch"} /\ GameData' \in {"", "R", "B"}
  BY <1>1
<1>3. folded' \in BOOLEAN /\ AutoWinnerMode' \in Modes /\ saving' \in BOOLEAN
  BY FinishPassMatch, Zenon DEF TypeOK
<1>4. dwell' \in Nat
  <2>1. dwell \in Nat
    BY DEF TypeOK
  <2>2. CASE dwell' = 0
    BY <2>2
  <2>3. CASE dwell' = dwell
    BY <2>1, <2>3
  <2> QED
    BY <2>2, <2>3, FinishPassMatch
<1>5. lastShift' \in Shifts \cup {ShiftCount}
  <2>1. now \in Nat
    BY DEF TypeOK
  <2> QED
    BY <2>1, FinishPassMatch, CurrentShiftRange
<1> QED
  BY <1>2, <1>3, <1>4, <1>5

\* The result is one of the alliances, and red and blue by themselves.
LEMMA WinnerRange ==
  /\ AssignAutoWinner \subseteq Alliances
  /\ \A winner : GameDataFor(winner) \in {"", "R", "B"}
  /\ \A winner : WonAutoOf(winner) \in [Alliances -> BOOLEAN]
  BY DEF AssignAutoWinner, CountedAutoWinner, Alliances, GameDataFor, WonAutoOf

\* The four kinds of step, by what becomes of the tallies and the result: the counts are
\* folded, or all starts from nothing, or teleop opens, or both are left alone.
Early == {"WarmupPeriod", "AutoPeriod", "PausePeriod"}

Folds ==
  /\ WonAuto' = WonAutoOf(AutoWinner)
  /\ ShiftCounts' = [h \in Alliances |-> UpdateState(ShiftCounts[h], WonAuto'[h], count[h], now)]
  /\ UNCHANGED <<MatchState, now, stalled, count, lost, AutoWinner, GameData, AutoWinnerMode>>

Restarts ==
  /\ ShiftCounts' = [h \in Alliances |-> NoFuel]
  /\ WonAuto' = WonAutoOf("none") /\ AutoWinner' = "none"
  /\ count' = Feed!Zero /\ lost' = Feed!Zero
  /\ MatchState' \notin {"PausePeriod", "TeleopPeriod"}
  /\ MatchState = "StartMatch" \/ MatchState' = "PreMatch"

Opens ==
  /\ MatchState \in Early /\ MatchState' \in {"TeleopPeriod", "PostMatch"}
  /\ AutoWinner' \in AssignAutoWinner /\ WonAuto' = WonAutoOf(AutoWinner')
  /\ MatchState' = "TeleopPeriod" => GameData' = GameDataFor(AutoWinner')
  /\ now >= TeleopStart
  /\ UNCHANGED <<now, count, lost, ShiftCounts, AutoWinnerMode>>

LeavesTallies ==
  /\ UNCHANGED <<ShiftCounts, WonAuto, AutoWinner>>
  /\ \A h \in Alliances : Counted(h)' >= Counted(h)
  /\ MatchState' = "TeleopPeriod" =>
       MatchState = "TeleopPeriod" /\ UNCHANGED <<GameData, AutoWinnerMode>>
  /\ MatchState' \in Early => MatchState \in Early

\* A step that counts no FUEL and replaces no receiver leaves what was counted.
LEMMA CountedStays ==
  ASSUME TypeOK, count' = count, lost' = lost, NEW h \in Alliances
  PROVE  Counted(h)' >= Counted(h)
<1>1. count[h] \in Nat /\ lost[h] \in Nat
  BY DEF TypeOK
<1> QED
  BY <1>1 DEF Counted

\* Opening teleop decides the result and leaves the tallies.
LEMMA OpenTeleopOpens ==
  ASSUME OpenTeleop, MatchState \in Early, now >= TeleopStart
  PROVE  Opens
<1>1. /\ MatchState' \in {"TeleopPeriod", "PostMatch"}
      /\ MatchState' = "TeleopPeriod" => GameData' = GameDataFor(AutoWinner')
      /\ AutoWinnerMode' = AutoWinnerMode
  BY FinishPassMatch DEF OpenTeleop
<1> QED
  BY <1>1 DEF OpenTeleop, Opens, sourceVars

\* A pass of Update opens teleop, starts from nothing or leaves the tallies alone.
LEMMA StepKinds ==
  ASSUME TypeOK, Step
  PROVE  Restarts \/ Opens \/ LeavesTallies
<1> USE DEF InProgress, Timed
<1>1. ASSUME NEW state, NEW data, FinishPass(state, data),
             UNCHANGED <<sourceVars, hubVars, AutoWinner>>,
             state = "TeleopPeriod" => MatchState = "TeleopPeriod" /\ data = GameData,
             state \in Early => MatchState \in Early
      PROVE  LeavesTallies
  <2>1. \A h \in Alliances : Counted(h)' >= Counted(h)
    BY <1>1, CountedStays DEF sourceVars
  <2>2. /\ MatchState' = "TeleopPeriod" =>
             MatchState = "TeleopPeriod" /\ UNCHANGED <<GameData, AutoWinnerMode>>
        /\ MatchState' \in Early => MatchState \in Early
    BY <1>1, FinishPassMatch DEF Early
  <2> QED
    BY <1>1, <2>1, <2>2 DEF LeavesTallies, hubVars
<1>2. CASE PreMatchStep
  BY <1>2, <1>1 DEF PreMatchStep, Early
<1>3. CASE StartMatchStep
  <2>1. MatchState' \notin {"PausePeriod", "TeleopPeriod"}
    <3>1. PICK state \in {"WarmupPeriod", "AutoPeriod"} : FinishPass(state, "")
      BY <1>3 DEF StartMatchStep
    <3> QED
      BY <3>1, FinishPassMatch
  <2> QED
    BY <1>3, <2>1 DEF StartMatchStep, resetHubs, ResetCounts, Restarts
<1>4. CASE WarmupStep
  BY <1>4, <1>1 DEF WarmupStep, Early
<1>5. CASE AutoStep
  <2>0. now \in Nat
    BY DEF TypeOK
  <2>1. CASE now >= AutoEnd /\ PauseDurationSec = 0
    BY <1>5, <2>1, OpenTeleopOpens, Instants DEF AutoStep, Early
  <2>2. CASE now >= AutoEnd /\ PauseDurationSec # 0
    <3>1. PauseDurationSec > 0 /\ ~(now < AutoEnd)
      BY <2>2, <2>0, DurationsAssumption, Instants
    <3>2. FinishPass("PausePeriod", GameData) /\ UNCHANGED <<now, sourceVars, hubVars, AutoWinner>>
      BY <1>5, <3>1 DEF AutoStep
    <3> QED
      BY <1>5, <3>2, <1>1 DEF AutoStep, Early
  <2>3. CASE now < AutoEnd
    <3>1. ~(now >= AutoEnd)
      BY <2>0, <2>3, Instants
    <3> QED
      BY <1>5, <3>1, <1>1 DEF AutoStep, Early
  <2>4. now < AutoEnd \/ now >= AutoEnd
    BY <2>0, Instants
  <2> QED
    BY <2>1, <2>2, <2>3, <2>4
<1>6. CASE PauseStep
  BY <1>6, <1>1, OpenTeleopOpens DEF PauseStep, Early
<1>7. CASE TeleopStep
  <2>1. \/ FinishPass("PostMatch", "")
        \/ FinishPass("TeleopPeriod", GameData)
    BY <1>7 DEF TeleopStep
  <2> QED
    BY <1>7, <2>1, <1>1 DEF TeleopStep, Early
<1>8. CASE PostMatchStep
  <2>1. CASE Clear
    BY <2>1 DEF Clear, resetHubs, ResetCounts, Restarts
  <2>2. CASE ~Clear
    BY <1>8, <2>2, <1>1 DEF PostMatchStep, Early
  <2> QED
    BY <2>1, <2>2
<1> QED
  BY <1>2, <1>3, <1>4, <1>5, <1>6, <1>7, <1>8 DEF Step

\* Every step is of one of the four kinds.
LEMMA FourKindsOfStep ==
  ASSUME TypeOK, [Next]_vars
  PROVE  Folds \/ Restarts \/ Opens \/ LeavesTallies
<1>1. CASE Fold
  BY <1>1 DEF Fold, Folds, sourceVars, resultVars
<1>2. CASE Step
  BY <1>2, StepKinds
<1>3. CASE StartMatch \/ AbortMatch \/ SetAutoWinnerMode \/ SaveSettings
  <2>1. count' = count /\ lost' = lost
    BY <1>3 DEF StartMatch, AbortMatch, SetAutoWinnerMode, SaveSettings, sourceVars
  <2> QED
    BY <1>3, <2>1, CountedStays DEF StartMatch, AbortMatch, SetAutoWinnerMode, SaveSettings,
          LeavesTallies, hubVars, resultVars, InProgress, Timed, Early
<1>4. CASE ClearMatch \/ ResetField
  BY <1>4 DEF ClearMatch, ResetField, Clear, resetHubs, ResetCounts, Restarts
<1>5. CASE LoadSettings
  <2>1. \A h \in Alliances : Counted(h)' >= Counted(h)
    <3> TAKE h \in Alliances
    <3>1. count[h] \in Nat /\ lost[h] \in Nat
      BY DEF TypeOK
    <3>2. count'[h] = 0 /\ lost'[h] = lost[h] + count[h]
      BY <1>5 DEF LoadSettings, Feed!Zero
    <3> QED
      BY <3>1, <3>2 DEF Counted
  <2> QED
    BY <1>5, <2>1 DEF LoadSettings, LeavesTallies, hubVars, resultVars
<1>6. CASE \E h \in Alliances : CountRises(h)
  <2>1. \A h \in Alliances : Counted(h)' >= Counted(h)
    <3> TAKE h \in Alliances
    <3>1. count[h] \in Nat /\ lost[h] \in Nat
      BY DEF TypeOK
    <3>2. count'[h] \in {count[h], count[h] + 1} /\ lost'[h] = lost[h]
      BY <1>6 DEF CountRises, TypeOK
    <3> QED
      BY <3>1, <3>2 DEF Counted
  <2> QED
    BY <1>6, <2>1 DEF CountRises, LeavesTallies, hubVars, resultVars
<1>7. CASE Tick
  BY <1>7, CountedStays DEF Tick, LeavesTallies, hubVars, sourceVars, resultVars
<1>8. CASE UNCHANGED vars
  BY <1>8, CountedStays DEF vars, LeavesTallies, hubVars, sourceVars, resultVars
<1> QED
  BY <1>1, <1>2, <1>3, <1>4, <1>5, <1>6, <1>7, <1>8 DEF Next

-----------------------------------------------------------------------------
(* Types                                                                     *)

\* The tallies keep their types in each kind of step, and so does the result.
LEMMA KindTypes ==
  ASSUME TypeOK, Folds \/ Restarts \/ Opens \/ LeavesTallies
  PROVE  /\ ShiftCounts' \in [Alliances -> [Shifts -> Nat]]
         /\ WonAuto' \in [Alliances -> BOOLEAN]
         /\ AutoWinner' \in Alliances \cup {"none"}
<1>1. /\ ShiftCounts \in [Alliances -> [Shifts -> Nat]] /\ WonAuto \in [Alliances -> BOOLEAN]
      /\ AutoWinner \in Alliances \cup {"none"}
  BY DEF TypeOK
<1>2. CASE Folds
  <2>1. WonAuto' \in [Alliances -> BOOLEAN]
    BY <1>2, WinnerRange, Zenon DEF Folds
  <2>2. ASSUME NEW h \in Alliances
        PROVE  UpdateState(ShiftCounts[h], WonAuto'[h], count[h], now) \in [Shifts -> Nat]
    <3>1. ShiftCounts[h] \in [Shifts -> Nat] /\ count[h] \in Nat /\ now \in Nat
      BY DEF TypeOK
    <3>2. WonAuto'[h] \in BOOLEAN
      BY <2>1
    <3> QED
      BY <3>1, <3>2, UpdateStateRaises
  <2> QED
    BY <1>1, <1>2, <2>1, <2>2 DEF Folds
<1>3. CASE Restarts
  <2>1. [h \in Alliances |-> NoFuel] \in [Alliances -> [Shifts -> Nat]]
    BY DEF NoFuel
  <2> QED
    BY <1>3, <2>1, WinnerRange DEF Restarts
<1>4. CASE Opens
  BY <1>1, <1>4, WinnerRange DEF Opens
<1>5. CASE LeavesTallies
  BY <1>1, <1>5 DEF LeavesTallies
<1> QED
  BY <1>2, <1>3, <1>4, <1>5

\* The receiver's counts stay natural numbers.
LEMMA CountTypes ==
  ASSUME TypeOK, [Next]_vars
  PROVE  count' \in [Alliances -> Nat] /\ lost' \in [Alliances -> Nat]
<1>1. count \in [Alliances -> Nat] /\ lost \in [Alliances -> Nat]
  BY DEF TypeOK
<1>2. Feed!Zero \in [Alliances -> Nat]
  BY DEF Feed!Zero
<1>3. CASE UNCHANGED sourceVars
  BY <1>1, <1>3 DEF sourceVars
<1>4. CASE count' = Feed!Zero /\ lost' = Feed!Zero
  BY <1>2, <1>4
<1>5. CASE LoadSettings
  BY <1>1, <1>2, <1>5 DEF LoadSettings
<1>6. CASE \E h \in Alliances : CountRises(h)
  BY <1>1, <1>6 DEF CountRises
<1>7. CASE Step
  <2> USE DEF Step, PreMatchStep, StartMatchStep, WarmupStep, AutoStep, PauseStep, TeleopStep,
              PostMatchStep, OpenTeleop, Clear, ResetCounts
  <2> QED
    BY <1>3, <1>4, <1>7
<1>8. CASE ClearMatch \/ ResetField
  BY <1>4, <1>8 DEF ClearMatch, ResetField, Clear, ResetCounts
<1>9. CASE Fold \/ StartMatch \/ AbortMatch \/ SetAutoWinnerMode \/ SaveSettings \/ Tick
           \/ UNCHANGED vars
  BY <1>3, <1>9 DEF Fold, StartMatch, AbortMatch, SetAutoWinnerMode, SaveSettings, Tick, vars
<1> QED
  BY <1>5, <1>6, <1>7, <1>8, <1>9 DEF Next

\* A pass leaves the match, its clock and the cue with their types.
LEMMA StepTypes ==
  ASSUME TypeOK, Step
  PROVE  /\ MatchState' \in InProgress \cup {"PreMatch", "PostMatch"}
         /\ GameData' \in {"", "R", "B"}
         /\ folded' \in BOOLEAN /\ AutoWinnerMode' \in Modes /\ saving' \in BOOLEAN
         /\ dwell' \in Nat /\ lastShift' \in Shifts \cup {ShiftCount}
         /\ now' \in {0, now}
<1>1. CASE \E state \in InProgress \cup {"PreMatch", "PostMatch"}, data \in {"", "R", "B"} :
             FinishPass(state, data) /\ now' \in {0, now}
  BY <1>1, FinishPassTypes
<1>2. CASE Clear /\ folded' = FALSE /\ lastShift' = CurrentShift("PreMatch", now)
  <2>1. now \in Nat /\ dwell' = 0 /\ AutoWinnerMode' = AutoWinnerMode /\ saving' = saving
        /\ MatchState' = "PreMatch" /\ GameData' = "" /\ now' = now
    BY <1>2 DEF Clear, TypeOK
  <2>2. folded' \in BOOLEAN /\ AutoWinnerMode' \in Modes /\ saving' \in BOOLEAN
    BY <1>2, <2>1, Zenon DEF TypeOK
  <2>3. lastShift' \in Shifts \cup {ShiftCount}
    BY <1>2, <2>1, CurrentShiftRange
  <2>4. dwell' \in Nat /\ now' \in {0, now}
    BY <2>1
  <2> QED
    BY <2>1, <2>2, <2>3, <2>4
<1>3. GameData \in {"", "R", "B"}
  BY DEF TypeOK
<1>4. CASE PreMatchStep \/ WarmupStep \/ PauseStep \/ TeleopStep
  BY <1>1, <1>3, <1>4, WinnerRange DEF PreMatchStep, WarmupStep, PauseStep, TeleopStep, OpenTeleop,
     InProgress, Timed
<1>5. CASE StartMatchStep
  BY <1>1, <1>5 DEF StartMatchStep, InProgress, Timed
<1>6. CASE AutoStep
  BY <1>1, <1>3, <1>6, WinnerRange DEF AutoStep, OpenTeleop, InProgress, Timed
<1>7. CASE PostMatchStep
  BY <1>1, <1>2, <1>3, <1>7 DEF PostMatchStep
<1> QED
  BY <1>4, <1>5, <1>6, <1>7 DEF Step

\* Types are kept.
LEMMA NextTypes ==
  ASSUME TypeOK, [Next]_vars
  PROVE  TypeOK'
<1>1. /\ ShiftCounts' \in [Alliances -> [Shifts -> Nat]] /\ WonAuto' \in [Alliances -> BOOLEAN]
      /\ AutoWinner' \in Alliances \cup {"none"}
  BY FourKindsOfStep, KindTypes
<1>2. count' \in [Alliances -> Nat] /\ lost' \in [Alliances -> Nat]
  BY CountTypes
<1>3. stalled' \in 0 .. MaxStall
  <2>1. stalled \in 0 .. MaxStall /\ MaxStall \in Nat
    BY Instants DEF TypeOK
  <2>2. CASE stalled' = stalled
    BY <2>1, <2>2
  <2>3. CASE Step
    BY <2>1, <2>3 DEF Step
  <2>4. CASE Tick
    BY <2>1, <2>4 DEF Tick
  <2>5. stalled' = stalled \/ Step \/ Tick
    BY DEF Next, vars, Fold, StartMatch, AbortMatch, ClearMatch, ResetField, SetAutoWinnerMode,
           SaveSettings, LoadSettings, CountRises
  <2> QED
    BY <2>2, <2>3, <2>4, <2>5
<1>4. now' \in Nat /\ dwell' \in Nat
  <2>1. now \in Nat /\ dwell \in Nat
    BY DEF TypeOK
  <2>2. CASE Step
    <3>1. now' = 0 \/ now' = now
      BY <2>2, StepTypes
    <3>2. CASE now' = 0
      BY <2>2, <3>2, StepTypes
    <3>3. CASE now' = now
      BY <2>1, <2>2, <3>3, StepTypes
    <3> QED
      BY <3>1, <3>2, <3>3
  <2>3. CASE Tick
    BY <2>1, <2>3 DEF Tick
  <2>4. CASE now' = now /\ dwell' \in {0, dwell}
    BY <2>1, <2>4
  <2>5. Step \/ Tick \/ (now' = now /\ dwell' \in {0, dwell})
    BY DEF Next, vars, Fold, StartMatch, AbortMatch, ClearMatch, ResetField, Clear,
           SetAutoWinnerMode, SaveSettings, LoadSettings, CountRises
  <2> QED
    BY <2>2, <2>3, <2>4, <2>5
<1>5. /\ MatchState' \in InProgress \cup {"PreMatch", "PostMatch"} /\ GameData' \in {"", "R", "B"}
      /\ folded' \in BOOLEAN /\ AutoWinnerMode' \in Modes /\ saving' \in BOOLEAN
      /\ lastShift' \in Shifts \cup {ShiftCount}
  <2>1. CASE Step
    BY <2>1, StepTypes
  <2>2. CASE ~Step
    BY <2>2, Zenon DEF TypeOK, Next, vars, hubVars, sourceVars, resultVars, Fold, StartMatch,
       AbortMatch, ClearMatch, ResetField, Clear, SetAutoWinnerMode, SaveSettings, LoadSettings,
       CountRises, Tick, InProgress
  <2> QED
    BY <2>1, <2>2
<1> QED
  BY <1>1, <1>2, <1>3, <1>4, <1>5 DEF TypeOK

\* The types of the program at rest.
LEMMA InitTypes ==
  ASSUME Init
  PROVE  TypeOK
<1>1. NowLimit \in Nat /\ 0 \in 0 .. MaxStall
  BY Instants DEF NowLimit
<1>2. now \in Nat /\ dwell \in Nat /\ stalled \in 0 .. MaxStall
  BY <1>1 DEF Init
<1>3. /\ count \in [Alliances -> Nat] /\ lost \in [Alliances -> Nat]
      /\ ShiftCounts \in [Alliances -> [Shifts -> Nat]]
  BY DEF Init, Feed!Zero, NoFuel
<1>4. /\ MatchState \in InProgress \cup {"PreMatch", "PostMatch"}
      /\ AutoWinner \in Alliances \cup {"none"} /\ AutoWinnerMode \in Modes
      /\ GameData \in {"", "R", "B"} /\ lastShift \in Shifts \cup {ShiftCount}
  BY DEF Init
<1>5. folded \in BOOLEAN /\ saving \in BOOLEAN /\ WonAuto \in [Alliances -> BOOLEAN]
  BY WinnerRange, Zenon DEF Init
<1> QED
  BY <1>2, <1>3, <1>4, <1>5 DEF TypeOK

\* Every variable keeps its type.
THEOREM TypeCorrect == Spec => []TypeOK
<1>1. Init => TypeOK
  BY InitTypes
<1>2. TypeOK /\ [Next]_vars => TypeOK'
  BY NextTypes
<1> QED
  BY <1>1, <1>2, PTL DEF Spec

-----------------------------------------------------------------------------
(* The invariant                                                             *)

\* How late the match can be in each period: a pass ends a period no later than MaxStall
\* after its time, so up to three of them add up before teleop.
Timing ==
  /\ MatchState = "WarmupPeriod" => now + 1 <= Warmup + stalled
  /\ MatchState = "AutoPeriod" => now + 1 <= AutoEnd + MaxStall + stalled
  /\ MatchState = "PausePeriod" => now + 1 <= TeleopStart + 2 * MaxStall + stalled
  /\ MatchState = "TeleopPeriod" => now >= TeleopStart

\* The tallying hubs are never behind the result, and nothing is tallied before teleop under
\* a shift the result has a say in.
ResultInForce ==
  /\ WonAuto = WonAutoOf(AutoWinner)
  /\ MatchState = "TeleopPeriod" => AutoWinner \in Alliances /\ GameData = GameDataFor(AutoWinner)
  /\ MatchState \in Early => AutoWinner = "none"
  /\ MatchState \in Early => \A h \in Alliances : \A s \in 2 .. 7 : ShiftCounts[h][s] = 0

IInv == TypeOK /\ Timing /\ TalliedOnce /\ ResultInForce /\ ResultMatchesAuto

\* The clock of a match that has not come to teleop yet.
LEMMA EarlyClock ==
  ASSUME TypeOK, Timing, MatchState \in Early
  PROVE  now \in Nat /\ now < TeleopStart + Transition + Grace
<1>1. now \in Nat /\ stalled \in 0 .. MaxStall
  BY DEF TypeOK
<1>2. MatchState = "WarmupPeriod" \/ MatchState = "AutoPeriod" \/ MatchState = "PausePeriod"
  BY DEF Early
<1>3. now + 1 <= TeleopStart + 2 * MaxStall + stalled
  BY <1>1, <1>2, Instants DEF Timing
<1> QED
  BY <1>1, <1>3, Instants

\* No step lets a match run later than Timing says.
LEMMA TimingKept ==
  ASSUME TypeOK, Timing, [Next]_vars
  PROVE  Timing'
<1>1. now \in Nat /\ stalled \in 0 .. MaxStall
  BY DEF TypeOK
<1> USE DEF Timing
<1>2. CASE Step
  <2>1. stalled' = 0
    BY <1>2 DEF Step
  <2>2. CASE PreMatchStep \/ TeleopStep \/ PostMatchStep
    <3>1. /\ MatchState' \in {"PreMatch", "TeleopPeriod", "PostMatch"} /\ now' = now
          /\ MatchState' = "TeleopPeriod" => MatchState = "TeleopPeriod"
      BY <2>2, FinishPassMatch DEF PreMatchStep, TeleopStep, PostMatchStep, Clear
    <3> QED
      BY <3>1, <2>1
  <2>3. CASE StartMatchStep
    <3>1. PICK state \in {"WarmupPeriod", "AutoPeriod"} :
            FinishPass(state, "") /\ (state = "WarmupPeriod" => WarmupDurationSec > 0)
      BY <2>3 DEF StartMatchStep
    <3>2. MatchState' = state \/ MatchState' = "PostMatch"
      BY <3>1, FinishPassMatch
    <3>3. now' = 0
      BY <2>3 DEF StartMatchStep
    <3>4. CASE MatchState' = "PostMatch"
      BY <3>4
    <3>5. CASE MatchState' = "WarmupPeriod" /\ state = "WarmupPeriod"
      <4>1. Warmup \in Nat /\ Warmup > 0 /\ now' = 0 /\ stalled' = 0
        BY <3>1, <3>3, <3>5, <2>1, Instants
      <4> QED
        BY <3>5, <4>1
    <3>6. CASE MatchState' = "AutoPeriod"
      <4>1. AutoEnd \in Nat /\ MaxStall \in Nat /\ 1 <= MaxStall /\ now' = 0 /\ stalled' = 0
        BY <3>3, <2>1, Instants
      <4> QED
        BY <3>6, <4>1
    <3> QED
      BY <3>2, <3>4, <3>5, <3>6
  <2>4. CASE WarmupStep
    <3>1. now' = now /\ MatchState = "WarmupPeriod"
      BY <2>4 DEF WarmupStep
    <3>2. \/ MatchState' = "AutoPeriod" \/ MatchState' = "PostMatch"
          \/ MatchState' = "WarmupPeriod" /\ ~(now >= Warmup)
      BY <2>4, FinishPassMatch DEF WarmupStep, Warmup
    <3> QED
      BY <3>1, <3>2, <2>1, <1>1, Instants
  <2>5. CASE AutoStep
    <3>1. now' = now /\ MatchState = "AutoPeriod"
      BY <2>5 DEF AutoStep, OpenTeleop
    <3>2. \/ MatchState' = "PausePeriod" \/ MatchState' = "PostMatch"
          \/ MatchState' = "AutoPeriod" /\ now < AutoEnd
          \/ MatchState' = "TeleopPeriod" /\ now >= AutoEnd /\ ~(PauseDurationSec > 0)
      BY <2>5, FinishPassMatch DEF AutoStep, OpenTeleop
    <3>3. ~(PauseDurationSec > 0) => TeleopStart = AutoEnd
      BY Instants, DurationsAssumption
    <3> QED
      BY <3>1, <3>2, <3>3, <2>1, <1>1, Instants
  <2>6. CASE PauseStep
    <3>1. now' = now /\ MatchState = "PausePeriod"
      BY <2>6 DEF PauseStep, OpenTeleop
    <3>2. \/ MatchState' = "PausePeriod" /\ now < TeleopStart
          \/ MatchState' = "TeleopPeriod" /\ now >= TeleopStart
          \/ MatchState' = "PostMatch"
      BY <2>6, FinishPassMatch DEF PauseStep, OpenTeleop
    <3> QED
      BY <3>1, <3>2, <2>1, <1>1, Instants
  <2> QED
    BY <1>2, <2>2, <2>3, <2>4, <2>5, <2>6 DEF Step
<1>3. CASE Tick
  <2>1. MatchState' = MatchState /\ stalled' = stalled + 1
    BY <1>3 DEF Tick
  <2>2. CASE now' = now + 1
    BY <2>1, <2>2, <1>1, Instants
  <2>3. CASE now' = now
    BY <2>1, <2>3, <1>1, Instants
  <2> QED
    BY <1>3, <2>2, <2>3 DEF Tick
<1>4. CASE ~Step /\ ~Tick
  <2>1. /\ now' = now
        /\ \/ MatchState' = MatchState /\ stalled' = stalled
           \/ MatchState' \in {"PreMatch", "StartMatch", "PostMatch"}
    BY <1>4 DEF Next, vars, Fold, StartMatch, AbortMatch, ClearMatch, ResetField, Clear,
           SetAutoWinnerMode, SaveSettings, LoadSettings, CountRises
  <2>2. CASE MatchState' = MatchState /\ stalled' = stalled
    BY <2>1, <2>2
  <2>3. CASE MatchState' \in {"PreMatch", "StartMatch", "PostMatch"}
    BY <2>3
  <2> QED
    BY <2>1, <2>2, <2>3
<1> QED
  BY <1>2, <1>3, <1>4

\* What Folds does to the tallies of one Hub, said of each.
LEMMA FoldedTallies ==
  ASSUME TypeOK, Folds, NEW h \in Alliances
  PROVE  /\ ShiftCounts[h] \in [Shifts -> Nat] /\ ShiftCounts'[h] \in [Shifts -> Nat]
         /\ \A s \in Shifts :
              /\ ShiftCounts'[h][s] >= ShiftCounts[h][s]
              /\ s # ScoringShift(WonAuto'[h], now) => ShiftCounts'[h][s] = ShiftCounts[h][s]
         /\ Total(ShiftCounts'[h]) = count[h] \/ ShiftCounts'[h] = ShiftCounts[h]
<1>1. ShiftCounts[h] \in [Shifts -> Nat] /\ count[h] \in Nat /\ now \in Nat
  BY DEF TypeOK
<1>2. ShiftCounts'[h] = UpdateState(ShiftCounts[h], WonAuto'[h], count[h], now)
  BY DEF Folds
<1> QED
  BY <1>1, <1>2, UpdateStateRaises

\* The tallies never pass what was counted.
LEMMA TalliedOnceKept ==
  ASSUME TypeOK, TalliedOnce, [Next]_vars
  PROVE  TalliedOnce'
<1> SUFFICES ASSUME NEW h \in Alliances
             PROVE  Total(ShiftCounts'[h]) <= Counted(h)'
  BY DEF TalliedOnce
<1>1. count[h] \in Nat /\ lost[h] \in Nat /\ count'[h] \in Nat /\ lost'[h] \in Nat
  BY CountTypes DEF TypeOK
<1>2. /\ Total(ShiftCounts[h]) \in Nat /\ Total(ShiftCounts[h]) <= Counted(h)
      /\ Counted(h) = count[h] + lost[h] /\ Counted(h)' = count'[h] + lost'[h]
  BY TotalIsNat DEF TalliedOnce, Counted, TypeOK
<1>3. CASE Folds
  <2>1. count'[h] = count[h] /\ lost'[h] = lost[h]
    BY <1>3 DEF Folds
  <2>2. CASE Total(ShiftCounts'[h]) = count[h]
    BY <1>1, <1>2, <2>1, <2>2
  <2>3. CASE ShiftCounts'[h] = ShiftCounts[h]
    BY <1>1, <1>2, <2>1, <2>3
  <2> QED
    BY <1>3, <2>2, <2>3, FoldedTallies
<1>4. CASE Restarts
  <2>1. ShiftCounts'[h] = NoFuel /\ Total(NoFuel) = 0
    BY <1>4 DEF Restarts, NoFuel, Total, Shifts
  <2> QED
    BY <1>1, <1>2, <2>1
<1>5. CASE Opens \/ LeavesTallies
  <2>1. ShiftCounts'[h] = ShiftCounts[h] /\ Counted(h)' >= Counted(h)
    BY <1>5, CountedStays DEF Opens, LeavesTallies
  <2> QED
    BY <1>1, <1>2, <2>1
<1> QED
  BY <1>3, <1>4, <1>5, FourKindsOfStep

\* The result stays in force, and the hubs with it.
LEMMA ResultKept ==
  ASSUME TypeOK, Timing, ResultInForce, [Next]_vars
  PROVE  ResultInForce'
<1> USE DEF ResultInForce
<1>1. CASE Folds
  <2>1. ASSUME MatchState' \in Early, NEW h \in Alliances, NEW s \in 2 .. 7
        PROVE  ShiftCounts'[h][s] = 0
    <3>1. MatchState \in Early
      BY <1>1, <2>1 DEF Folds
    <3>2. ScoringShift(WonAuto'[h], now) \in {0, 1}
      BY <1>1, <3>1, EarlyClock, EarlyShift, FoldedTallies
    <3>3. s \in Shifts /\ s # ScoringShift(WonAuto'[h], now)
      BY <3>2 DEF Shifts
    <3>4. ShiftCounts'[h][s] = ShiftCounts[h][s]
      BY <1>1, <3>3, FoldedTallies
    <3> QED
      BY <3>1, <3>4
  <2> QED
    BY <1>1, <2>1 DEF Folds
<1>2. CASE Restarts
  BY <1>2 DEF Restarts, NoFuel, Shifts, Early
<1>3. CASE Opens
  BY <1>3, WinnerRange DEF Opens, Early
<1>4. CASE LeavesTallies
  BY <1>4 DEF LeavesTallies
<1> QED
  BY <1>1, <1>2, <1>3, <1>4, FourKindsOfStep

\* The AUTO tallies stay as they were when the result was drawn from them.
LEMMA MatchingResultKept ==
  ASSUME TypeOK, Timing, ResultInForce, ResultMatchesAuto, [Next]_vars
  PROVE  ResultMatchesAuto'
<1> USE DEF ResultMatchesAuto
<1>1. CASE Folds
  <2> SUFFICES ASSUME MatchState = "TeleopPeriod"
               PROVE  \A h \in Alliances : ShiftCounts'[h][0] = ShiftCounts[h][0]
    BY <1>1 DEF Folds, ShiftAuto, Alliances
  <2> TAKE h \in Alliances
  <2>1. now >= TeleopStart
    BY DEF Timing
  <2>2. now \in Nat
    BY DEF TypeOK
  <2>3. 0 \in Shifts /\ 0 # ScoringShift(WonAuto'[h], now)
    BY <2>1, <2>2, LateShift DEF Shifts
  <2> QED
    BY <1>1, <2>3, FoldedTallies
<1>2. CASE Restarts
  BY <1>2 DEF Restarts
<1>3. CASE Opens
  BY <1>3 DEF Opens, AssignAutoWinner, Alliances
<1>4. CASE LeavesTallies
  BY <1>4 DEF LeavesTallies
<1> QED
  BY <1>1, <1>2, <1>3, <1>4, FourKindsOfStep

\* The invariant of every behaviour.
LEMMA ScoringInvariant == Spec => []IInv
<1>1. Init => TypeOK
  BY InitTypes
<1>2. Init => IInv
  <2> SUFFICES ASSUME Init PROVE IInv
    OBVIOUS
  <2>1. TalliedOnce
    <3> SUFFICES ASSUME NEW h \in Alliances PROVE Total(ShiftCounts[h]) <= Counted(h)
      BY DEF TalliedOnce
    <3>1. ShiftCounts[h] = NoFuel
      BY DEF Init
    <3>0. Total(NoFuel) = 0
      BY DEF NoFuel, Total, Shifts
    <3>2. Counted(h) = 0 + 0
      BY DEF Init, Counted, Feed!Zero
    <3> QED
      BY <3>0, <3>1, <3>2
  <2> QED
    BY <1>1, <2>1 DEF Init, IInv, Timing, ResultInForce, ResultMatchesAuto, Early
<1>3. IInv /\ [Next]_vars => IInv'
  BY NextTypes, TimingKept, TalliedOnceKept, ResultKept, MatchingResultKept DEF IInv
<1> QED
  BY <1>2, <1>3, PTL DEF Spec

-----------------------------------------------------------------------------
(* Theorems on the scoring                                                   *)

\* No FUEL is tallied twice: the tallies never add up to more than was counted (UpdateState,
\* resetHubs, applyHubCounterSettings).
THEOREM NoFuelTwice == Spec => []TalliedOnce
<1>1. IInv => TalliedOnce
  BY DEF IInv
<1> QED
  BY <1>1, ScoringInvariant, PTL

\* A counted AUTO result is the one the AUTO tallies say, all through teleop
\* (countedAutoWinner, getCurrentShift).
THEOREM ResultIsTheTallies == Spec => []ResultMatchesAuto
<1>1. IInv => ResultMatchesAuto
  BY DEF IInv
<1> QED
  BY <1>1, ScoringInvariant, PTL

\* The hubs alternate by the result the driver stations were sent (handleAutoWinner,
\* syncHubWonAuto).
THEOREM HubsAlternateByResult == Spec => []HubsFollowResult
<1>1. IInv => HubsFollowResult
  BY DEF IInv, ResultInForce, HubsFollowResult
<1> QED
  BY <1>1, ScoringInvariant, PTL

\* The scoring clock is the field's with a grace period (getCurrentShift against
\* GetCurrentShiftTiming).
THEOREM ScoringClockIsFieldClock == Spec => []ScoringFollowsField
<1>1. TypeOK => ScoringFollowsField
  <2> SUFFICES ASSUME TypeOK, NEW h \in Alliances,
                      FieldShift(now) # ShiftCount, ScoringShift(WonAuto[h], now) # FieldShift(now)
               PROVE  /\ ScoringShift(WonAuto[h], now) = FieldShift(now) - 1
                      /\ now < ShiftEnd(ScoringShift(WonAuto[h], now)) + Grace
                      /\ IsShiftActive(ScoringShift(WonAuto[h], now), WonAuto[h])
    BY DEF ScoringFollowsField
  <2>1. now \in Nat
    BY DEF TypeOK
  <2>2. WonAuto[h] \in BOOLEAN
    BY DEF TypeOK
  <2> QED
    BY <2>1, <2>2, ScoringIsFieldOrOneBefore
<1> QED
  BY <1>1, TypeCorrect, PTL

\* A Hub's credit falls with none of its tallies, while the result stays.
LEMMA CreditIsMonotone ==
  ASSUME NEW more \in [Shifts -> Nat], NEW counts \in [Shifts -> Nat], NEW won,
         \A s \in Shifts : more[s] >= counts[s]
  PROVE  Total(Credit(more, won)) >= Total(Credit(counts, won))
<1> DEFINE m == Credit(more, won)
           c == Credit(counts, won)
<1>1. \A s \in Shifts : m[s] \in Nat /\ c[s] \in Nat /\ m[s] >= c[s]
  BY DEF Credit
<1>2. \A s \in {0, 1, 2, 3, 4, 5, 6, 7} : s \in Shifts
  BY DEF Shifts
<1> HIDE DEF m, c
<1>3. Total(m) >= Total(c)
  BY <1>1, <1>2 DEF Total
<1> QED
  BY <1>3 DEF m, c

\* With nothing tallied but under AUTO and the transition shift, the result has no say.
LEMMA EarlyCredit ==
  ASSUME NEW counts \in [Shifts -> Nat], NEW won, NEW other, \A s \in 2 .. 7 : counts[s] = 0
  PROVE  Total(Credit(counts, won)) = Total(Credit(counts, other))
<1>1. \A s \in Shifts : Credit(counts, won)[s] = Credit(counts, other)[s]
  <2> TAKE s \in Shifts
  <2>1. CASE s \in {0, 1}
    BY <2>1 DEF Credit, IsShiftActive, ShiftAuto, ShiftTransition
  <2>2. CASE s \in 2 .. 7
    BY <2>2 DEF Credit
  <2> QED
    BY <2>1, <2>2 DEF Shifts
<1>2. \A s \in {0, 1, 2, 3, 4, 5, 6, 7} : s \in Shifts
  BY DEF Shifts
<1> QED
  BY <1>1, <1>2 DEF Total

\* FUEL that was credited stays credited to the end of the match (isShiftActive,
\* handleAutoWinner).
THEOREM CreditIsForGood == Spec => CreditStands
<1>1. IInv /\ IInv' /\ [Next]_vars =>
        (hubVars' # hubVars /\ MatchState \in Timed \cup {"PostMatch"}
           /\ MatchState' # "PreMatch" =>
           \A h \in Alliances : Credited(h)' >= Credited(h))
  <2> SUFFICES ASSUME IInv, IInv', [Next]_vars, NEW h \in Alliances,
                      MatchState \in Timed \cup {"PostMatch"}, MatchState' # "PreMatch"
               PROVE  Total(Credit(ShiftCounts'[h], WonAuto'[h]))
                        >= Total(Credit(ShiftCounts[h], WonAuto[h]))
    BY DEF Credited
  <2>1. /\ ShiftCounts[h] \in [Shifts -> Nat] /\ ShiftCounts'[h] \in [Shifts -> Nat]
    BY DEF IInv, TypeOK
  <2>0. \A s \in Shifts : ShiftCounts[h][s] >= ShiftCounts[h][s]
    BY <2>1
  <2>2. CASE Folds
    <3>1. \A s \in Shifts : ShiftCounts'[h][s] >= ShiftCounts[h][s]
      BY <2>2, FoldedTallies DEF IInv
    <3>2. WonAuto' = WonAuto
      BY <2>2 DEF Folds, IInv, ResultInForce
    <3> QED
      BY <2>1, <3>1, <3>2, CreditIsMonotone
  <2>3. CASE Restarts
    <3>1. MatchState = "StartMatch"
      BY <2>3 DEF Restarts
    <3> QED
      BY <3>1 DEF Timed
  <2>4. CASE Opens
    <3>1. ShiftCounts' = ShiftCounts /\ \A s \in 2 .. 7 : ShiftCounts[h][s] = 0
      BY <2>4 DEF Opens, IInv, ResultInForce
    <3>2. Total(Credit(ShiftCounts[h], WonAuto'[h])) = Total(Credit(ShiftCounts[h], WonAuto[h]))
      BY <2>1, <3>1, EarlyCredit
    <3> QED
      BY <2>1, <2>0, <3>1, <3>2, CreditIsMonotone
  <2>5. CASE LeavesTallies
    BY <2>0, <2>1, <2>5, CreditIsMonotone DEF LeavesTallies
  <2> QED
    BY <2>2, <2>3, <2>4, <2>5, FourKindsOfStep DEF IInv
<1> QED
  BY <1>1, ScoringInvariant, PTL DEF Spec, CreditStands

\* A pass that ends in teleop has sounded the cue of its own time.
LEMMA PassSoundsCue ==
  ASSUME TypeOK, [Next]_vars, PassEnds, MatchState' = "TeleopPeriod"
  PROVE  now' = now /\ lastShift' = CurrentShift("TeleopPeriod", now)
<1>1. Step
  BY DEF PassEnds, Next, vars, Fold, StartMatch, AbortMatch, ClearMatch, ResetField,
         SetAutoWinnerMode, SaveSettings, LoadSettings, CountRises, Tick
<1>2. ASSUME NEW state, NEW data, FinishPass(state, data)
      PROVE  lastShift' = CurrentShift("TeleopPeriod", now)
  BY <1>2, FinishPassMatch
<1>3. CASE PreMatchStep \/ WarmupStep \/ AutoStep \/ PauseStep \/ TeleopStep
  BY <1>2, <1>3 DEF PreMatchStep, WarmupStep, AutoStep, PauseStep, TeleopStep, OpenTeleop
<1>4. CASE StartMatchStep
  <2>1. PICK state \in {"WarmupPeriod", "AutoPeriod"} : FinishPass(state, "")
    BY <1>4 DEF StartMatchStep
  <2> QED
    BY <2>1, FinishPassMatch
<1>5. CASE PostMatchStep
  BY <1>2, <1>5 DEF PostMatchStep, Clear
<1> QED
  BY <1>1, <1>3, <1>4, <1>5 DEF Step

\* The cue of a shift sounds in teleop by the pass that finds the field in it, and less than a
\* second before (currentShift, teleopShift against GetCurrentShiftTiming).
THEOREM CueIsOnTime == Spec => CueNearHandover
<1>1. IInv /\ IInv' /\ [Next]_vars =>
        (PassEnds /\ MatchState' = "TeleopPeriod" /\ now < TeleopEnd =>
           FieldShift(now) <= lastShift' /\ lastShift' <= FieldShift(now + TicksPerSec - 1))
  <2> SUFFICES ASSUME IInv, IInv', [Next]_vars,
                      PassEnds, MatchState' = "TeleopPeriod", now < TeleopEnd
               PROVE  /\ FieldShift(now) <= lastShift'
                      /\ lastShift' <= FieldShift(now + TicksPerSec - 1)
    OBVIOUS
  <2>1. now' = now /\ lastShift' = CurrentShift("TeleopPeriod", now)
    BY PassSoundsCue DEF IInv
  <2>2. now \in Nat /\ TeleopStart <= now
    <3>1. now' >= TeleopStart /\ now \in Nat
      BY DEF IInv, Timing, TypeOK
    <3> QED
      BY <2>1, <3>1
  <2> QED
    BY <2>1, <2>2, CueIsFieldOrNext
<1> QED
  BY <1>1, ScoringInvariant, PTL DEF Spec, CueNearHandover

\* While no receiver was replaced, a pass that finds a shift open tallies all that was counted.
AllFuelIsTallied ==
  [][Fold /\ now < NowLimit =>
       \A h \in Alliances : lost[h] = 0 => Total(ShiftCounts'[h]) = count[h]]_vars

\* While a shift is open FUEL is tallied: the post-match shift is the last to be closed.
LEMMA SomeShiftIsOpen ==
  ASSUME NEW won, NEW t \in Nat, t < NowLimit
  PROVE  ScoringShift(won, t) \in Shifts
<1>1. 7 \in Shifts /\ t < ScoringEnd(7, won)
  BY ScoringEnds DEF NowLimit, Shifts
<1> QED
  BY <1>1, ScoringShiftIs

\* No FUEL goes missing either: a pass that finds a shift open brings the tallies to all that
\* was counted, unless a settings save replaced the receiver (UpdateState, updateHubCounts).
THEOREM NoFuelMissed == Spec => AllFuelIsTallied
<1>1. IInv /\ [Next]_vars =>
        (Fold /\ now < NowLimit =>
           \A h \in Alliances : lost[h] = 0 => Total(ShiftCounts'[h]) = count[h])
  <2> SUFFICES ASSUME IInv, Fold, now < NowLimit, NEW h \in Alliances, lost[h] = 0
               PROVE  Total(ShiftCounts'[h]) = count[h]
    OBVIOUS
  <2>1. /\ ShiftCounts[h] \in [Shifts -> Nat] /\ count[h] \in Nat /\ now \in Nat
        /\ Total(ShiftCounts[h]) <= count[h]
    <3>1. /\ ShiftCounts[h] \in [Shifts -> Nat] /\ count[h] \in Nat /\ now \in Nat
          /\ Total(ShiftCounts[h]) <= Counted(h)
      BY DEF IInv, TypeOK, TalliedOnce
    <3> QED
      BY <3>1 DEF Counted
  <2>2. Total(ShiftCounts[h]) \in Nat
    BY <2>1, TotalIsNat
  <2>3. ShiftCounts'[h] = UpdateState(ShiftCounts[h], WonAuto'[h], count[h], now)
    BY DEF Fold
  <2>4. ScoringShift(WonAuto'[h], now) \in Shifts
    BY <2>1, SomeShiftIsOpen
  <2>5. CASE count[h] = Total(ShiftCounts[h])
    <3>1. ShiftCounts'[h] = ShiftCounts[h]
      BY <2>1, <2>2, <2>3, <2>5 DEF UpdateState
    <3> QED
      BY <2>5, <3>1
  <2>6. CASE count[h] > Total(ShiftCounts[h])
    <3> DEFINE s == ScoringShift(WonAuto'[h], now)
               d == count[h] - Total(ShiftCounts[h])
    <3>1. s # ShiftCount
      BY <2>4 DEF Shifts, ShiftCount
    <3>2. ShiftCounts'[h] = [ShiftCounts[h] EXCEPT ![s] = @ + d]
      BY <2>3, <2>6, <3>1 DEF UpdateState
    <3>3. d \in Nat /\ Total(ShiftCounts[h]) + d = count[h]
      BY <2>1, <2>2, <2>6
    <3> HIDE DEF s, d
    <3>4. s \in Shifts
      BY <2>4 DEF s
    <3> QED
      BY <2>1, <3>2, <3>3, <3>4, TotalOfOneMore
  <2> QED
    BY <2>1, <2>2, <2>5, <2>6
<1> QED
  BY <1>1, ScoringInvariant, PTL DEF Spec, AllFuelIsTallied

-----------------------------------------------------------------------------
(* The match cycle and the feed                                              *)

Cycle == INSTANCE MatchCycle WITH phase <- MatchState, result <- GameData

\* Without teleop there is no result to be told.
Withheld == MatchState # "TeleopPeriod" => GameData = ""

\* What the end of a pass does to the match, as MatchCycle sees it.
LEMMA FinishPassCycles ==
  ASSUME NEW state, NEW data, FinishPass(state, data),
         state \in {"PreMatch", "PostMatch"} \cup InProgress, MatchState \in InProgress,
         Withheld,
         \/ state = MatchState /\ data = GameData
         \/ MatchState = "StartMatch" /\ state \in {"WarmupPeriod", "AutoPeriod"} /\ data = ""
         \/ MatchState = "WarmupPeriod" /\ state = "AutoPeriod" /\ data = GameData
         \/ MatchState = "AutoPeriod" /\ state = "PausePeriod" /\ data = GameData
         \/ /\ MatchState \in {"AutoPeriod", "PausePeriod"}
            /\ state = "TeleopPeriod" /\ data \in {"R", "B"}
         \/ MatchState = "TeleopPeriod" /\ state = "PostMatch" /\ data = ""
  PROVE  [Cycle!Next]_(Cycle!vars) /\ Withheld'
<1> USE DEF Cycle!Next, Cycle!vars, Cycle!Arm, Cycle!Advance, Cycle!OpenTeleop, Cycle!Over,
            Cycle!Recycle, Cycle!Underway, InProgress, Timed, Withheld
<1>1. CASE MatchState' = "PostMatch" /\ GameData' = ""
  BY <1>1
<1>2. CASE MatchState' = state /\ GameData' = data
  BY <1>2
<1> QED
  BY <1>1, <1>2, FinishPassMatch

\* Every step of the scoring is a step of the match cycle or leaves the match alone.
LEMMA StepsCycle ==
  ASSUME TypeOK, Withheld, [Next]_vars
  PROVE  [Cycle!Next]_(Cycle!vars) /\ Withheld'
<1> DEFINE Cycles == [Cycle!Next]_(Cycle!vars) /\ Withheld'
<1> USE DEF InProgress, Timed
<1>1. MatchState' = MatchState /\ GameData' = GameData => Cycles
  BY DEF Cycle!vars, Withheld
<1>2. Clear /\ MatchState \in {"PreMatch", "PostMatch"} => Cycles
  BY DEF Clear, Withheld, Cycle!vars, Cycle!Next, Cycle!Recycle
<1>3. MatchState \in InProgress /\ MatchState' = "PostMatch" /\ GameData' = "" => Cycles
  BY DEF Withheld, Cycle!Next, Cycle!Over, Cycle!Underway
<1>4. MatchState = "PreMatch" /\ MatchState' = "StartMatch" /\ GameData' = GameData => Cycles
  BY DEF Withheld, Cycle!Next, Cycle!Arm
<1>5. CASE PreMatchStep
  <2>1. MatchState = "PreMatch" /\ FinishPass("PreMatch", GameData)
    BY <1>5 DEF PreMatchStep
  <2>2. MatchState' = "PreMatch" /\ GameData' = GameData
    BY <2>1 DEF FinishPass
  <2> QED
    BY <1>1, <2>1, <2>2
<1>6. CASE StartMatchStep
  <2>1. MatchState = "StartMatch"
    BY <1>6 DEF StartMatchStep
  <2>2. FinishPass("WarmupPeriod", "") \/ FinishPass("AutoPeriod", "")
    BY <1>6 DEF StartMatchStep
  <2> QED
    BY <2>1, <2>2, FinishPassCycles
<1>7. CASE WarmupStep
  <2>1. MatchState = "WarmupPeriod"
    BY <1>7 DEF WarmupStep
  <2>2. FinishPass("WarmupPeriod", GameData) \/ FinishPass("AutoPeriod", GameData)
    BY <1>7 DEF WarmupStep
  <2> QED
    BY <2>1, <2>2, FinishPassCycles
<1>8. ASSUME OpenTeleop, MatchState \in {"AutoPeriod", "PausePeriod"}
      PROVE  Cycles
  <2>1. AutoWinner' \in Alliances
    BY <1>8, WinnerRange DEF OpenTeleop
  <2>2. GameDataFor(AutoWinner') \in {"R", "B"}
    BY <2>1 DEF GameDataFor, Alliances
  <2>3. FinishPass("TeleopPeriod", GameDataFor(AutoWinner'))
    BY <1>8 DEF OpenTeleop
  <2> QED
    BY <1>8, <2>2, <2>3, FinishPassCycles
<1>9. CASE AutoStep
  <2>1. MatchState = "AutoPeriod"
    BY <1>9 DEF AutoStep
  <2>2. OpenTeleop \/ \E state \in {"AutoPeriod", "PausePeriod"} : FinishPass(state, GameData)
    BY <1>9 DEF AutoStep
  <2> QED
    BY <1>8, <2>1, <2>2, FinishPassCycles
<1>10. CASE PauseStep
  <2>1. MatchState = "PausePeriod"
    BY <1>10 DEF PauseStep
  <2>2. OpenTeleop \/ FinishPass("PausePeriod", GameData)
    BY <1>10 DEF PauseStep
  <2> QED
    BY <1>8, <2>1, <2>2, FinishPassCycles
<1>11. CASE TeleopStep
  <2>1. MatchState = "TeleopPeriod"
    BY <1>11 DEF TeleopStep
  <2>2. FinishPass("PostMatch", "") \/ FinishPass("TeleopPeriod", GameData)
    BY <1>11 DEF TeleopStep
  <2> QED
    BY <2>1, <2>2, FinishPassCycles
<1>12. CASE PostMatchStep
  <2>1. MatchState = "PostMatch" /\ (Clear \/ FinishPass("PostMatch", GameData))
    BY <1>12 DEF PostMatchStep
  <2> QED
    BY <1>1, <1>2, <2>1, FinishPassMatch
<1>13. CASE Step
  BY <1>5, <1>6, <1>7, <1>9, <1>10, <1>11, <1>12, <1>13 DEF Step
<1>14. CASE ClearMatch \/ ResetField
  BY <1>2, <1>14 DEF ClearMatch, ResetField
<1>15. CASE StartMatch
  BY <1>4, <1>15 DEF StartMatch, resultVars
<1>16. CASE AbortMatch
  BY <1>3, <1>16 DEF AbortMatch
<1>17. CASE Fold \/ SetAutoWinnerMode \/ SaveSettings \/ LoadSettings
            \/ (\E h \in Alliances : CountRises(h)) \/ Tick \/ UNCHANGED vars
  BY <1>1, <1>17 DEF Fold, SetAutoWinnerMode, SaveSettings, LoadSettings, CountRises, Tick,
     resultVars, vars
<1> QED
  BY <1>13, <1>14, <1>15, <1>16, <1>17 DEF Next

\* The scoring's side of Update takes the match through the cycle the arena's takes it through
\* (Update, StartMatch, AbortMatch, clearMatchLocked).
THEOREM ScoringImplementsMatchCycle == Spec => Cycle!Spec
<1>1. Init => Cycle!Init /\ Withheld
  BY DEF Init, Cycle!Init, Withheld
<1>2. TypeOK /\ Withheld /\ [Next]_vars => [Cycle!Next]_(Cycle!vars) /\ Withheld'
  BY StepsCycle
<1> QED
  BY <1>1, <1>2, TypeCorrect, PTL DEF Spec, Cycle!Spec

\* The steps in which the source starts over: the reset at the start of a match and at its
\* clearing, and the save that puts a new receiver in the old one's place.
SourceStartsOver == StartMatchStep \/ Clear \/ LoadSettings

\* What the scoring reads is a feed of counts as HubFeed promises it, the saves that replace
\* the receiver included (ResetMatch, applyHubCounterSettings).
THEOREM ScoringIsFed == Spec => Feed!Init /\ [][Feed!Step(SourceStartsOver)]_count
<1>1. Init => Feed!Init
  BY DEF Init, Feed!Init
<1>2. TypeOK /\ [Next]_vars => [Feed!Step(SourceStartsOver)]_count
  <2> SUFFICES ASSUME TypeOK, [Next]_vars, count' # count
               PROVE  Feed!Step(SourceStartsOver)
    OBVIOUS
  <2>1. SourceStartsOver => count' = Feed!Zero
    BY DEF SourceStartsOver, StartMatchStep, Clear, ResetCounts, LoadSettings
  <2>2. ~SourceStartsOver => \E h \in Alliances : CountRises(h)
    <3> SUFFICES ASSUME ~SourceStartsOver, ~\E h \in Alliances : CountRises(h)
                 PROVE  count' = count
      OBVIOUS
    <3>1. CASE Step
      BY <3>1 DEF Step, SourceStartsOver, PreMatchStep, WarmupStep, AutoStep, PauseStep,
         TeleopStep, PostMatchStep, OpenTeleop, sourceVars
    <3>2. CASE ~Step
      BY <3>2 DEF Next, vars, SourceStartsOver, Fold, StartMatch, AbortMatch, ClearMatch,
         ResetField, SetAutoWinnerMode, SaveSettings, Tick, sourceVars
    <3> QED
      BY <3>1, <3>2
  <2>3. ASSUME NEW h \in Alliances, CountRises(h)
        PROVE  count' \in [Alliances -> Nat] /\ \A g \in Alliances : count'[g] >= count[g]
    <3>1. count' = [count EXCEPT ![h] = @ + 1] /\ count \in [Alliances -> Nat]
      BY <2>3 DEF CountRises, TypeOK
    <3> QED
      BY <3>1
  <2> QED
    BY <2>1, <2>2, <2>3 DEF Feed!Step, Feed!Rise, Feed!ResetMatch
<1> QED
  BY <1>1, <1>2, TypeCorrect, PTL DEF Spec

-----------------------------------------------------------------------------
(* The scoring under the lights                                              *)

\* A step of the lit field is a step of the scoring or leaves the scoring alone.
LEMMA LitStepScores ==
  ASSUME [LitNext]_allVars
  PROVE  [Next]_vars
<1>1. CASE LitStep
  BY <1>1 DEF LitStep, Next
<1>2. CASE LightsOff
  BY <1>2 DEF LightsOff
<1>3. CASE LitLoadSettings
  BY <1>3 DEF LitLoadSettings, Next
<1>4. CASE LitTick
  BY <1>4 DEF LitTick, Next
<1>5. CASE LitOther
  BY <1>5 DEF LitOther, Next
<1>6. CASE UNCHANGED allVars
  BY <1>6 DEF allVars
<1> QED
  BY <1>1, <1>2, <1>3, <1>4, <1>5, <1>6 DEF LitNext

\* The lights only watch: the lit field implements the scoring, whose theorems hold of it
\* (updateHubLeds).
THEOREM LightsOnlyWatch == LitSpec => Spec
<1>1. LitInit => Init
  BY DEF LitInit
<1>2. [LitNext]_allVars => [Next]_vars
  BY LitStepScores
<1> QED
  BY <1>1, <1>2, PTL DEF LitSpec, Spec

\* The scoring's invariant, under the lights.
LEMMA ScoringHolds == LitSpec => []IInv
  BY LightsOnlyWatch, ScoringInvariant, PTL

\* A pass ends with LitStep alone.
LEMMA PassEndsInStep ==
  ASSUME [LitNext]_allVars, PassEnds
  PROVE  LitStep
<1> USE DEF PassEnds
<1>1. CASE LightsOff \/ LitLoadSettings \/ LitTick \/ UNCHANGED allVars
  BY <1>1 DEF LightsOff, LitLoadSettings, LoadSettings, LitTick, Tick, allVars, vars
<1>2. CASE LitOther
  BY <1>2 DEF LitOther, Fold, StartMatch, AbortMatch, ClearMatch, ResetField, SetAutoWinnerMode,
              SaveSettings, CountRises
<1> QED
  BY <1>1, <1>2 DEF LitNext

-----------------------------------------------------------------------------
(* A pass in teleop                                                          *)

\* A pass that leaves the match in teleop is not past its end.
LEMMA TeleopClock ==
  ASSUME TypeOK, Timing, Step, MatchState' = "TeleopPeriod"
  PROVE  now \in Nat /\ now' = now /\ now >= TeleopStart /\ now < TeleopEnd
<1>1. now \in Nat
  BY DEF TypeOK
<1>2. CASE TeleopStep
  <2>0. ASSUME now >= TeleopEnd PROVE FALSE
    <3>1. FinishPass("PostMatch", "")
      BY <1>2, <2>0 DEF TeleopStep
    <3>2. MatchState' = "PostMatch"
      BY <3>1, FinishPassMatch, Zenon
    <3> QED
      BY <3>2
  <2>1. MatchState = "TeleopPeriod" /\ now' = now /\ ~(now >= TeleopEnd)
    BY <1>2, <2>0 DEF TeleopStep
  <2> QED
    BY <1>1, <2>1, Instants DEF Timing
<1>3. CASE AutoStep \/ PauseStep
  <2>1. MatchState \in Early /\ now' = now
    BY <1>3 DEF AutoStep, PauseStep, OpenTeleop, Early
  <2>2. now < TeleopStart + Transition + Grace
    BY <2>1, EarlyClock
  <2>3. now >= TeleopStart
    <3>1. Timing'
      BY TimingKept DEF Next
    <3> QED
      BY <2>1, <3>1 DEF Timing
  <2> QED
    BY <1>1, <2>1, <2>2, <2>3, Instants
<1>4. CASE PreMatchStep \/ StartMatchStep \/ WarmupStep \/ PostMatchStep
  <2>1. MatchState' # "TeleopPeriod"
    <3>1. \/ \E state \in {"PreMatch", "WarmupPeriod", "AutoPeriod", "PostMatch"} :
               \E data : FinishPass(state, data)
          \/ MatchState' = "PreMatch"
      BY <1>4 DEF PreMatchStep, StartMatchStep, WarmupStep, PostMatchStep, Clear
    <3> QED
      BY <3>1, FinishPassMatch
  <2> QED
    BY <2>1
<1> QED
  BY <1>2, <1>3, <1>4 DEF Step

-----------------------------------------------------------------------------
(* What a light is told                                                      *)

\* The modes of updateTeleopHubLeds in the shifts of teleop: on when, and only when, the shift
\* is one the alliance scores in; and dark after a shift whose last seconds pulsed.
LEMMA TeleopModes ==
  ASSUME NEW h \in Alliances, NEW winner \in Alliances, NEW t, FieldShift(t) \in 1 .. 6
  PROVE  /\ TeleopMode(h, winner, t) \in Lit \cup {"Off"}
         /\ TeleopMode(h, winner, t) # "Off" <=> IsShiftActive(FieldShift(t), winner = h)
<1> USE DEF TeleopMode, Pulses, Marks, IsShiftActive, Lit, ShiftAuto, ShiftTransition, Shift1,
            Shift2, Shift3, Shift4, ShiftEndgame, ShiftPostMatch
<1>1. FieldShift(t) \in {1, 2, 3, 4, 5, 6}
  OBVIOUS
<1>2. CASE winner = h
  BY <1>1, <1>2
<1>3. CASE winner # h
  BY <1>1, <1>3
<1> QED
  BY <1>2, <1>3

\* A shift a HUB is lit in, before one it is dark in, is one it pulses at the end of.
LEMMA PulsesBeforeDark ==
  ASSUME NEW h \in Alliances, NEW winner \in Alliances, NEW s \in 1 .. 5,
         IsShiftActive(s, winner = h), ~IsShiftActive(s + 1, winner = h)
  PROVE  Pulses(h, s, winner)
<1>1. s \in {1, 2, 3, 4, 5}
  OBVIOUS
<1> QED
  BY <1>1 DEF Pulses, IsShiftActive, ShiftAuto, ShiftTransition, Shift1, Shift2, Shift3, Shift4,
              ShiftEndgame, ShiftPostMatch

-----------------------------------------------------------------------------
(* The invariant of the lights                                               *)

\* In teleop a light that is on was switched on by a pass that is no more than a stall ago.
Fresh ==
  MatchState = "TeleopPeriod" =>
    \A h \in Alliances :
      mode[h] # "Off" =>
        \E t \in Nat : /\ TeleopStart <= t /\ t < TeleopEnd /\ t <= now /\ now <= t + stalled
                       /\ mode[h] = TeleopMode(h, AutoWinner, t)

\* Lights left on by a pass that found the match over have a goroutine to darken them.
OffIsDue ==
  lastMatchState = "PostMatch" /\ (\E h \in Alliances : mode[h] # "Off") => offTimers # {}

LitInv == LitTypeOK /\ Fresh /\ OffIsDue

\* What a pass tells the lights while it leaves the match in teleop.
LEMMA TeleopPass ==
  ASSUME TypeOK, Timing, ResultInForce, LitStep, MatchState' = "TeleopPeriod"
  PROVE  /\ now \in Nat /\ TeleopStart <= now /\ now < TeleopEnd /\ now' = now
         /\ FieldShift(now) \in 1 .. 6
         /\ AutoWinner' \in Alliances /\ WonAuto' = WonAutoOf(AutoWinner')
         /\ GameData' = GameDataFor(AutoWinner')
         /\ mode' = [h \in Alliances |-> TeleopMode(h, AutoWinner', now)]
<1>1. Step /\ updateHubLeds
  BY DEF LitStep
<1>2. now \in Nat /\ TeleopStart <= now /\ now < TeleopEnd /\ now' = now
  BY <1>1, TeleopClock, Instants
<1>3. FieldShift(now) \in 1 .. 6
  BY <1>2, TeleopHasShift
<1>4. ResultInForce'
  BY <1>1, ResultKept DEF Next
<1>5. mode' = [h \in Alliances |-> TeleopMode(h, AutoWinner', now)]
  BY <1>1, <1>2, <1>3 DEF updateHubLeds, ShiftCount
<1> QED
  BY <1>2, <1>3, <1>4, <1>5 DEF ResultInForce

\* Types are kept.
LEMMA LitTypesKept ==
  ASSUME TypeOK, Timing, ResultInForce, LitTypeOK, [LitNext]_allVars
  PROVE  LitTypeOK'
<1> USE DEF LitTypeOK
<1>1. AssessmentTicks \in Nat
  BY TicksAddUp, LightsAssumption DEF AssessmentTicks
<1>2. \A m \in Lit \cup {"Off"} : Both(m) \in [Alliances -> Lit \cup {"Off"}]
  BY DEF Both
<1>3. CASE LitStep
  <2>1. mode' \in [Alliances -> Lit \cup {"Off"}]
    <3>1. CASE MatchState' = "TeleopPeriod"
      <4>1. \A h \in Alliances : TeleopMode(h, AutoWinner', now) \in Lit \cup {"Off"}
        BY <1>3, <3>1, TeleopPass, TeleopModes
      <4> QED
        BY <1>3, <3>1, <4>1, TeleopPass
    <3>2. CASE MatchState' # "TeleopPeriod"
      <4>1. mode' \in {Both("Startup"), Both("Solid"), Both("White"), mode}
        BY <1>3, <3>2 DEF LitStep, updateHubLeds
      <4> QED
        BY <4>1, <1>2 DEF Lit
    <3> QED
      BY <3>1, <3>2
  <2>2. offTimers' \subseteq 0 .. AssessmentTicks
    BY <1>1, <1>3 DEF LitStep, updateHubLeds
  <2>3. lastMatchState' \in InProgress \cup {"PreMatch", "PostMatch", "none"}
    BY <1>3, StepTypes DEF LitStep, updateHubLeds
  <2> QED
    BY <2>1, <2>2, <2>3
<1>4. CASE LightsOff \/ LitLoadSettings
  <2>1. mode' = Both("Off") /\ lastMatchState' = lastMatchState /\ offTimers' \subseteq offTimers
    BY <1>4 DEF LightsOff, LitLoadSettings
  <2> QED
    BY <2>1, <1>2
<1>5. CASE LitTick
  <2>1. \A age \in offTimers : age + 1 \in 0 .. AssessmentTicks
    BY <1>1, <1>5 DEF LitTick
  <2> QED
    BY <1>5, <2>1 DEF LitTick
<1>6. CASE LitOther \/ UNCHANGED allVars
  BY <1>6 DEF LitOther, lightVars, allVars
<1> QED
  BY <1>3, <1>4, <1>5, <1>6 DEF LitNext

\* A step that is no pass of Update leaves a match in teleop alone, but for the time.
LEMMA TeleopElsewhere ==
  ASSUME [LitNext]_allVars, ~LitStep, MatchState' = "TeleopPeriod"
  PROVE  /\ MatchState = "TeleopPeriod" /\ AutoWinner' = AutoWinner
         /\ mode' = mode \/ mode' = Both("Off")
         /\ \/ now' = now /\ stalled' = stalled
            \/ LitTick
<1>1. CASE LightsOff
  BY <1>1 DEF LightsOff, vars, resultVars
<1>2. CASE LitLoadSettings
  BY <1>2 DEF LitLoadSettings, LoadSettings, resultVars
<1>3. CASE LitTick
  BY <1>3 DEF LitTick, Tick, resultVars
<1>4. CASE LitOther
  BY <1>4 DEF LitOther, lightVars, Fold, StartMatch, AbortMatch, ClearMatch, ResetField, Clear,
              SetAutoWinnerMode, SaveSettings, CountRises, resultVars
<1>5. CASE UNCHANGED allVars
  BY <1>5 DEF allVars, vars, lightVars, resultVars
<1> QED
  BY <1>1, <1>2, <1>3, <1>4, <1>5 DEF LitNext

\* A light that is on stays fresh.
LEMMA FreshKept ==
  ASSUME TypeOK, Timing, ResultInForce, Fresh, [LitNext]_allVars
  PROVE  Fresh'
<1> SUFFICES ASSUME MatchState' = "TeleopPeriod", NEW h \in Alliances, mode'[h] # "Off"
             PROVE  \E t \in Nat : /\ TeleopStart <= t /\ t < TeleopEnd
                                   /\ t <= now' /\ now' <= t + stalled'
                                   /\ mode'[h] = TeleopMode(h, AutoWinner', t)
  BY DEF Fresh
<1>1. CASE LitStep
  <2>1. stalled' = 0 /\ now' = now /\ now \in Nat /\ TeleopStart <= now /\ now < TeleopEnd
    BY <1>1, TeleopPass DEF LitStep, Step
  <2>2. mode'[h] = TeleopMode(h, AutoWinner', now)
    BY <1>1, TeleopPass
  <2>3. now <= now' /\ now' <= now + stalled'
    BY <2>1
  <2> QED
    BY <2>1, <2>2, <2>3
<1>2. CASE ~LitStep
  <2>1. MatchState = "TeleopPeriod" /\ AutoWinner' = AutoWinner
    BY <1>2, TeleopElsewhere
  <2>2. mode' = mode /\ mode[h] # "Off"
    BY <1>2, TeleopElsewhere DEF Both
  <2>3. PICK t \in Nat : /\ TeleopStart <= t /\ t < TeleopEnd /\ t <= now /\ now <= t + stalled
                         /\ mode[h] = TeleopMode(h, AutoWinner, t)
    BY <2>1, <2>2 DEF Fresh
  <2>4. now \in Nat /\ stalled \in Nat
    <3>1. now \in Nat /\ stalled \in 0 .. MaxStall
      BY DEF TypeOK
    <3> QED
      BY <3>1
  <2>5. t <= now' /\ now' <= t + stalled'
    <3>1. CASE now' = now /\ stalled' = stalled
      BY <2>3, <3>1
    <3>2. CASE LitTick
      <4>1. stalled' = stalled + 1 /\ (now' = now + 1 \/ now' = now)
        BY <3>2 DEF LitTick, Tick
      <4> QED
        BY <2>3, <2>4, <4>1
    <3> QED
      BY <1>2, <3>1, <3>2, TeleopElsewhere
  <2> QED
    BY <2>1, <2>2, <2>3, <2>5
<1> QED
  BY <1>1, <1>2

\* A goroutine is due for the lights of every match that is over.
LEMMA OffIsDueKept ==
  ASSUME LitTypeOK, OffIsDue, [LitNext]_allVars
  PROVE  OffIsDue'
<1> USE DEF OffIsDue
<1>1. CASE LitStep
  <2> SUFFICES ASSUME lastMatchState' = "PostMatch", NEW h \in Alliances, mode'[h] # "Off"
               PROVE  offTimers' # {}
    OBVIOUS
  <2>1. MatchState' = "PostMatch" /\ updateHubLeds
    BY <1>1 DEF LitStep, updateHubLeds
  <2>2. CASE lastMatchState = "PostMatch"
    BY <2>1, <2>2 DEF updateHubLeds
  <2>3. CASE lastMatchState # "PostMatch"
    BY <2>1, <2>3 DEF updateHubLeds
  <2> QED
    BY <2>2, <2>3
<1>2. CASE LightsOff \/ LitLoadSettings
  BY <1>2 DEF LightsOff, LitLoadSettings, Both
<1>3. CASE LitTick
  BY <1>3 DEF LitTick
<1>4. CASE LitOther \/ UNCHANGED allVars
  BY <1>4 DEF LitOther, lightVars, allVars
<1> QED
  BY <1>1, <1>2, <1>3, <1>4 DEF LitNext

\* The invariant of the lights, over that of the scoring.
LEMMA LitInvariant == LitSpec => [](IInv /\ LitInv)
<1>1. LitInit => LitInv
  BY DEF LitInit, Init, LitInv, LitTypeOK, Fresh, OffIsDue, Both
<1>2. IInv /\ LitInv /\ [LitNext]_allVars => LitInv'
  BY LitTypesKept, FreshKept, OffIsDueKept DEF IInv, LitInv
<1> QED
  BY <1>1, <1>2, ScoringHolds, PTL DEF LitSpec

-----------------------------------------------------------------------------
(* Theorems on the lights                                                    *)

\* The lights' types are right in every state.
THEOREM LitTypeCorrect == LitSpec => []LitTypeOK
<1>1. LitInv => LitTypeOK
  BY DEF LitInv
<1> QED
  BY <1>1, LitInvariant, PTL

\* While a HUB is lit after a match a goroutine is due that darkens it, or the pass that
\* starts one is (updateHubLeds).
THEOREM NoLightIsLeftOn == LitSpec => []LightsGoOff
<1>1. LitInv => LightsGoOff
  BY DEF LitInv, OffIsDue, LightsGoOff
<1> QED
  BY <1>1, LitInvariant, PTL

\* FUEL that comes a stall after a time a HUB's own shift ran at is scored under a shift the
\* HUB is active in: the grace period covers the stall.
LEMMA ScoredWhileFresh ==
  ASSUME NEW won, NEW t \in Nat, NEW n \in Nat,
         TeleopStart <= t, t < TeleopEnd, t <= n, n <= t + Grace,
         IsShiftActive(FieldShift(t), won)
  PROVE  IsShiftActive(ScoringShift(won, n), won)
<1> DEFINE f == FieldShift(t)
           s == ScoringShift(won, n)
<1>1. f \in 1 .. 6 /\ t < ShiftEnd(f) /\ \A r \in 1 .. 6 : r < f => ShiftEnd(r) <= t
  BY TeleopShiftBounds
<1>2. \A r \in 0 .. 7 : ShiftEnd(r) \in Nat /\ ScoringEnd(r, won) \in Nat
  BY ShiftEnds, ScoringEnds, Instants
<1>3. ASSUME f \in 1 .. 5 PROVE s \in 0 .. 7 /\ s <= f /\ n < ScoringEnd(s, won)
  <2>1. ScoringEnd(f, won) = ShiftEnd(f) + Grace
    BY <1>3, ScoringEnds, ShiftEnds
  <2>2. n < ScoringEnd(f, won) /\ f \in Shifts
    BY <1>1, <1>2, <1>3, <2>1, Instants DEF Shifts
  <2> QED
    BY <2>2, ScoringShiftIs DEF Shifts
<1>4. ASSUME f = 6 PROVE s \in 0 .. 7 /\ n < ScoringEnd(s, won)
  <2>1. ScoringEnd(7, won) = TeleopEnd + Grace
    BY ScoringEnds
  <2>2. n < ScoringEnd(7, won) /\ 7 \in Shifts
    BY <2>1, Instants DEF Shifts
  <2> QED
    BY <2>2, ScoringShiftIs DEF Shifts
<1>5. CASE s \notin 2 .. 5
  <2>1. s \in {0, 1, 6, 7}
    BY <1>1, <1>3, <1>4, <1>5
  <2> QED
    BY <2>1 DEF IsShiftActive, ShiftAuto, ShiftTransition, ShiftEndgame, ShiftPostMatch
<1>6. CASE s \in 2 .. 5
  <2> SUFFICES ASSUME ~IsShiftActive(s, won) PROVE FALSE
    OBVIOUS
  <2>1. n < ScoringEnd(s, won) /\ s <= f
    BY <1>1, <1>3, <1>4, <1>6
  <2>2. ScoringEnd(s, won) = ShiftEnd(s)
    BY <1>2, <1>6, ScoringEnds
  <2>3. s # f
    OBVIOUS
  <2>4. ShiftEnd(s) <= t
    BY <1>1, <1>6, <2>1, <2>3
  <2> QED
    BY <1>2, <1>6, <2>1, <2>2, <2>4
<1> QED
  BY <1>5, <1>6

\* What a robot shoots at a HUB that is lit is credited, whatever the scoring's clock makes of
\* it (updateTeleopHubLeds, getCurrentShift).
THEOREM LitHubsCredit == LitSpec => []LitHubCredits
<1>1. IInv /\ LitInv => LitHubCredits
  <2> SUFFICES ASSUME IInv, LitInv, NEW h \in Alliances, mode[h] # "Off",
                      MatchState \in {"AutoPeriod", "PausePeriod", "TeleopPeriod"}
               PROVE  IsShiftActive(ScoringShift(WonAuto[h], now), WonAuto[h])
    BY DEF LitHubCredits
  <2>1. now \in Nat /\ stalled \in 0 .. MaxStall
    BY DEF IInv, TypeOK
  <2>2. CASE MatchState \in {"AutoPeriod", "PausePeriod"}
    <3>1. now < TeleopStart + Transition + Grace
      BY <2>2, EarlyClock DEF IInv, Early
    <3>2. ScoringShift(WonAuto[h], now) \in {0, 1}
      BY <2>1, <3>1, EarlyShift
    <3> QED
      BY <3>2 DEF IsShiftActive, ShiftAuto, ShiftTransition
  <2>3. CASE MatchState = "TeleopPeriod"
    <3>1. AutoWinner \in Alliances /\ WonAuto[h] = (AutoWinner = h)
      BY <2>3 DEF IInv, ResultInForce, WonAutoOf
    <3>2. PICK t \in Nat : /\ TeleopStart <= t /\ t < TeleopEnd /\ t <= now /\ now <= t + stalled
                           /\ mode[h] = TeleopMode(h, AutoWinner, t)
      BY <2>3 DEF LitInv, Fresh
    <3>3. FieldShift(t) \in 1 .. 6
      BY <3>2, TeleopHasShift
    <3>4. IsShiftActive(FieldShift(t), AutoWinner = h)
      BY <3>1, <3>2, <3>3, TeleopModes
    <3>5. now <= t + Grace
      BY <2>1, <3>2, Instants
    <3>6. IsShiftActive(ScoringShift(AutoWinner = h, now), AutoWinner = h)
      BY <2>1, <3>2, <3>4, <3>5, ScoredWhileFresh
    <3> QED
      BY <3>1, <3>6, Zenon
  <2> QED
    BY <2>2, <2>3
<1> QED
  BY <1>1, LitInvariant, PTL

\* After every pass in teleop a HUB is lit exactly when its alliance scores (updateHubLeds).
THEOREM LightsTellTheTruth == LitSpec => LightsShowActivity
<1>1. IInv /\ [LitNext]_allVars =>
        (PassEnds /\ MatchState' = "TeleopPeriod" /\ FieldShift(now) # ShiftCount =>
           \A h \in Alliances :
             mode'[h] # "Off" <=> IsShiftActive(FieldShift(now), WonAuto'[h]))
  <2> SUFFICES ASSUME IInv, [LitNext]_allVars, PassEnds, MatchState' = "TeleopPeriod",
                      NEW h \in Alliances
               PROVE  mode'[h] # "Off" <=> IsShiftActive(FieldShift(now), WonAuto'[h])
    OBVIOUS
  <2>1. /\ FieldShift(now) \in 1 .. 6 /\ AutoWinner' \in Alliances
        /\ WonAuto' = WonAutoOf(AutoWinner')
        /\ mode' = [g \in Alliances |-> TeleopMode(g, AutoWinner', now)]
    BY PassEndsInStep, TeleopPass DEF IInv
  <2>2. mode'[h] = TeleopMode(h, AutoWinner', now)
    BY <2>1
  <2>3. WonAuto'[h] = (AutoWinner' = h)
    BY <2>1 DEF WonAutoOf
  <2>4. TeleopMode(h, AutoWinner', now) # "Off" <=> IsShiftActive(FieldShift(now), AutoWinner' = h)
    BY <2>1, TeleopModes
  <2> QED
    BY <2>2, <2>3, <2>4, Zenon
<1> QED
  BY <1>1, LitInvariant, PTL DEF LitSpec, LightsShowActivity

\* In the transition shift the lights mark the alliance the game data names
\* (updateTeleopHubLeds, gameDataForAutoWinner).
THEOREM LightsNameTheWinner == LitSpec => MarkedHubIsNamed
<1>1. ASSUME NEW h \in Alliances, NEW winner \in Alliances, NEW t,
             FieldShift(t) = ShiftTransition
      PROVE  TeleopMode(h, winner, t) \in {"Pulse", "Advantage"} <=> h = winner
  BY <1>1 DEF TeleopMode, Pulses, Marks, ShiftTransition, Shift1, Shift2, Shift3, ShiftEndgame
<1>2. IInv /\ [LitNext]_allVars =>
        (PassEnds /\ MatchState' = "TeleopPeriod" /\ FieldShift(now) = ShiftTransition =>
           \E winner \in Alliances :
             /\ {h \in Alliances : mode'[h] \in {"Pulse", "Advantage"}} = {winner}
             /\ GameData' = GameDataFor(winner))
  <2> SUFFICES ASSUME IInv, [LitNext]_allVars, PassEnds, MatchState' = "TeleopPeriod",
                      FieldShift(now) = ShiftTransition
               PROVE  \E winner \in Alliances :
                        /\ {h \in Alliances : mode'[h] \in {"Pulse", "Advantage"}} = {winner}
                        /\ GameData' = GameDataFor(winner)
    OBVIOUS
  <2>1. /\ AutoWinner' \in Alliances /\ GameData' = GameDataFor(AutoWinner')
        /\ mode' = [g \in Alliances |-> TeleopMode(g, AutoWinner', now)]
    BY PassEndsInStep, TeleopPass DEF IInv
  <2>2. \A h \in Alliances : mode'[h] \in {"Pulse", "Advantage"} <=> h = AutoWinner'
    BY <1>1, <2>1
  <2>3. {h \in Alliances : mode'[h] \in {"Pulse", "Advantage"}} = {AutoWinner'}
    BY <2>1, <2>2
  <2> QED
    BY <2>1, <2>3
<1> QED
  BY <1>2, LitInvariant, PTL DEF LitSpec, MarkedHubIsNamed

\* When a shift a HUB is lit in has turned into one it is dark in, no more than a stall after
\* a pass, that pass was in the warning of the shift.
LEMMA WarningCoversStall ==
  ASSUME NEW h \in Alliances, NEW winner \in Alliances, NEW t \in Nat, NEW n \in Nat,
         TeleopStart <= t, t <= n, n <= t + MaxStall, n < TeleopEnd,
         IsShiftActive(FieldShift(t), winner = h), ~IsShiftActive(FieldShift(n), winner = h)
  PROVE  TeleopMode(h, winner, t) = "Pulse"
<1> DEFINE f == FieldShift(t)
           g == FieldShift(n)
<1>0. t < TeleopEnd /\ TeleopStart <= n
  BY Instants
<1>1. f \in 1 .. 6 /\ t < ShiftEnd(f) /\ \A r \in 1 .. 6 : r < f => ShiftEnd(r) <= t
  BY <1>0, TeleopShiftBounds
<1>2. g \in 1 .. 6 /\ n < ShiftEnd(g) /\ \A r \in 1 .. 6 : r < g => ShiftEnd(r) <= n
  BY <1>0, TeleopShiftBounds
<1>3. \A r \in 1 .. 6 : ShiftEnd(r) \in Nat
  BY ShiftEnds, Instants
<1>4. f # g
  OBVIOUS
<1>5. f < g
  <2>1. ~(g < f)
    BY <1>1, <1>2, <1>3
  <2> QED
    BY <1>1, <1>2, <1>4, <2>1
<1>6. ShiftEnd(f) <= n
  BY <1>1, <1>2, <1>5
<1>7. g = f + 1
  <2> SUFFICES ASSUME g > f + 1 PROVE FALSE
    BY <1>1, <1>2, <1>5
  <2>1. f \in 1 .. 4 /\ f + 1 \in 1 .. 6 /\ f + 1 < g
    BY <1>1, <1>2
  <2>2. ShiftEnd(f + 1) <= n
    BY <1>2, <2>1
  <2>3. f \in {1, 2, 3, 4}
    BY <2>1
  <2>4. ShiftEnd(f + 1) = ShiftEnd(f) + Shift
    BY <2>3, ShiftEnds, Instants
  <2> QED
    BY <1>1, <1>3, <2>2, <2>4, Instants
<1>8. Pulses(h, f, winner)
  <2>1. f \in 1 .. 5 /\ g = f + 1
    BY <1>1, <1>2, <1>7
  <2> QED
    BY <2>1, PulsesBeforeDark
<1>9. Remaining(f, t) <= Ticks(hubLightWarningSec)
  <2>1. MaxStall <= Ticks(hubLightWarningSec) /\ Ticks(hubLightWarningSec) \in Nat
    BY WarningAssumption, TicksAddUp, LightsAssumption DEF Ticks
  <2> QED
    BY <1>1, <1>3, <1>6, <2>1, Instants DEF Remaining
<1> QED
  BY <1>8, <1>9 DEF TeleopMode

\* No HUB goes dark in teleop that did not pulse (hubLightWarningSec).
THEOREM DarkIsForetold == LitSpec => WarnedBeforeDark
<1>1. IInv /\ LitInv /\ [LitNext]_allVars =>
        (PassEnds /\ MatchState = "TeleopPeriod" /\ MatchState' = "TeleopPeriod" =>
           \A h \in Alliances : mode[h] # "Off" /\ mode'[h] = "Off" => mode[h] = "Pulse")
  <2> SUFFICES ASSUME IInv, LitInv, [LitNext]_allVars, PassEnds, MatchState = "TeleopPeriod",
                      MatchState' = "TeleopPeriod",
                      NEW h \in Alliances, mode[h] # "Off", mode'[h] = "Off"
               PROVE  mode[h] = "Pulse"
    OBVIOUS
  <2>1. LitStep
    BY PassEndsInStep
  <2>2. /\ now \in Nat /\ TeleopStart <= now /\ now < TeleopEnd /\ FieldShift(now) \in 1 .. 6
        /\ mode' = [g \in Alliances |-> TeleopMode(g, AutoWinner', now)]
    BY <2>1, TeleopPass DEF IInv
  <2>3. AutoWinner' = AutoWinner /\ AutoWinner \in Alliances
    <3>1. TeleopStep
      BY <2>1 DEF LitStep, Step, PreMatchStep, StartMatchStep, WarmupStep, AutoStep, PauseStep,
                  PostMatchStep
    <3> QED
      BY <3>1 DEF TeleopStep, IInv, ResultInForce
  <2>4. PICK t \in Nat : /\ TeleopStart <= t /\ t < TeleopEnd /\ t <= now /\ now <= t + stalled
                         /\ mode[h] = TeleopMode(h, AutoWinner, t)
    BY DEF LitInv, Fresh
  <2>5. now <= t + MaxStall
    <3>1. stalled \in 0 .. MaxStall
      BY DEF IInv, TypeOK
    <3> QED
      BY <2>2, <2>4, <3>1, Instants
  <2>6. IsShiftActive(FieldShift(t), AutoWinner = h)
    BY <2>3, <2>4, TeleopHasShift, TeleopModes
  <2>7. ~IsShiftActive(FieldShift(now), AutoWinner = h)
    BY <2>2, <2>3, TeleopModes
  <2> QED
    BY <2>2, <2>3, <2>4, <2>5, <2>6, <2>7, WarningCoversStall
<1> QED
  BY <1>1, LitInvariant, PTL DEF LitSpec, WarnedBeforeDark
=============================================================================
