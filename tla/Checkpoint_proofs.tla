-------------------------- MODULE Checkpoint_proofs --------------------------
(***************************************************************************)
(* Proofs about the checkpoints of the CPU solver, for every number of     *)
(* processes, every amount of data and every schedule: whatever crashes    *)
(* and restarts have happened, the data of a running job is of the step it *)
(* is in, cp.txt names a complete checkpoint, and a complete one is there  *)
(* while the next is written.                                              *)
(*                                                                         *)
(* The argument: two collective statements enclose a segment of update     *)
(* that all processes are in together (Together); within it each knows     *)
(* where its region begins (Chain) and what has been written stays         *)
(* (OnDisk); and only a checkpoint nobody relies on is written (Safe).     *)
(* The scheduler of each process waits for the next step that is due       *)
(* (InTime), so all processes write the same checkpoints.                  *)
(*                                                                         *)
(* A scheduler comes first, for all schedules: asked at one time after the *)
(* other, without a gap or with one, it is due exactly when one of its     *)
(* schedules is.                                                           *)
(***************************************************************************)
EXTENDS Checkpoint, NaturalLemmas

-----------------------------------------------------------------------------
(* Steps of a schedule *)

\* Where a number lies among the multiples of another.
LEMMA Quotient ==
  ASSUME NEW n \in Nat, NEW s \in Nat \ {0}
  PROVE  n \div s \in Nat /\ (n \div s) * s <= n /\ n < (n \div s + 1) * s
OBVIOUS

\* The multiples in front of it are the first ones ...
LEMMA FirstMultiples ==
  ASSUME NEW n \in Nat, NEW s \in Nat \ {0}, NEW k \in Nat, k * s <= n
  PROVE  k <= n \div s
<1>1. SUFFICES ASSUME n \div s + 1 <= k PROVE FALSE
  BY Quotient
<1>2. (n \div s + 1) * s <= k * s
  BY <1>1, Quotient
<1> QED
  BY <1>2, Quotient

\* ... and those behind it the others.
LEMMA LaterMultiples ==
  ASSUME NEW n \in Nat, NEW s \in Nat \ {0}, NEW k \in Nat, n < k * s
  PROVE  n \div s + 1 <= k
<1>1. SUFFICES ASSUME k <= n \div s PROVE FALSE
  BY Quotient
<1>2. k * s <= (n \div s) * s
  BY <1>1, Quotient
<1> QED
  BY <1>2, Quotient

\* A number without remainder is a multiple.
LEMMA WithoutRemainder ==
  ASSUME NEW n \in Nat, NEW s \in Nat \ {0}
  PROVE  n % s = 0 <=> n = (n \div s) * s
OBVIOUS

\* addSchedule drops no time that is scheduled, and the end it stores is one of them.
LEMMA EndsMoved ==
  ASSUME NEW s \in Schedules
  PROVE  /\ Adapted(s).step = s.step /\ Adapted(s).begin = s.begin
         /\ s.step \in Nat \ {0} /\ s.begin \in Nat /\ s.end \in Nat /\ s.end <= Infinity
         /\ Adapted(s).end \in Nat /\ s.begin <= Adapted(s).end /\ Adapted(s).end <= s.end
         /\ s.end < Infinity => \E m \in Nat : Adapted(s).end = s.begin + m * s.step
         /\ \A k \in Nat : s.begin + k * s.step <= s.end => s.begin + k * s.step <= Adapted(s).end
<1>1. /\ s \in [step : Nat \ {0}, begin : Nat, end : 0 .. Infinity] /\ Infinity \in Nat
      /\ s.begin <= s.end
  BY SchedulesAssumption
<1>2. s.step \in Nat \ {0} /\ s.begin \in Nat /\ s.end \in Nat /\ s.end <= Infinity
  BY <1>1
<1>3. CASE s.end < Infinity
  <2> DEFINE n == s.end - s.begin
             m == n \div s.step
  <2>1. n \in Nat /\ s.end = s.begin + n
    BY <1>1, <1>2
  <2>2. Adapted(s) = [s EXCEPT !.end = s.begin + m * s.step]
    BY <1>3 DEF Adapted
  <2>3. Adapted(s).step = s.step /\ Adapted(s).begin = s.begin /\ Adapted(s).end = s.begin + m * s.step
    BY ONLY <1>1, <2>2
  <2>4. m \in Nat /\ m * s.step <= n
    BY <1>2, <2>1, Quotient
  <2>5. \A k \in Nat : k * s.step <= n => k <= m
    BY <1>2, <2>1, FirstMultiples
  <2> HIDE DEF n, m
  <2>6. \A k \in Nat : k <= m => k * s.step <= m * s.step
    BY <1>2, <2>4
  <2>7. m * s.step \in Nat /\ \A k \in Nat : k * s.step \in Nat
    BY <1>2, <2>4
  <2>8. /\ s.begin + m * s.step \in Nat /\ s.begin <= s.begin + m * s.step
        /\ s.begin + m * s.step <= s.end
    BY <1>2, <2>1, <2>4, <2>7
  <2>9. \A k \in Nat : s.begin + k * s.step <= s.end => s.begin + k * s.step <= s.begin + m * s.step
    BY <1>2, <2>1, <2>5, <2>6, <2>7
  <2> QED
    BY <1>2, <2>3, <2>4, <2>8, <2>9
<1>4. CASE ~(s.end < Infinity)
  BY <1>1, <1>2, <1>4 DEF Adapted
<1> QED
  BY <1>3, <1>4

\* maxT is the end of a schedule, and none ends later.
LEMMA Latest ==
  /\ maxT \in Nat /\ \E s \in Schedules : maxT = Adapted(s).end
  /\ \A s \in Schedules : Adapted(s).end <= maxT
<1> DEFINE ends == { s.end : s \in schedules }
           left == { Infinity - t : t \in ends }
<1>1. \A t \in ends : t \in Nat /\ t <= Infinity /\ \E s \in Schedules : t = Adapted(s).end
  <2> TAKE t \in ends
  <2>1. PICK a \in schedules : t = a.end
    OBVIOUS
  <2>2. PICK s \in Schedules : a = Adapted(s)
    BY DEF schedules
  <2>3. t = Adapted(s).end
    BY <2>1, <2>2
  <2>4. Infinity \in Nat
    BY SchedulesAssumption
  <2>5. Adapted(s).end \in Nat /\ Adapted(s).end <= s.end /\ s.end <= Infinity /\ s.end \in Nat
    BY EndsMoved
  <2> QED
    BY <2>3, <2>4, <2>5
<1>2. ends # {} /\ Infinity \in Nat
  <2>1. PICK s \in Schedules : TRUE
    BY SchedulesAssumption
  <2>2. Adapted(s) \in schedules
    BY DEF schedules
  <2> QED
    BY <2>2, SchedulesAssumption
<1>3. left \subseteq Nat /\ left # {}
  BY <1>1, <1>2
<1>4. PICK n \in left : \A m \in left : n =< m
  BY <1>3, LeastElement
<1>5. PICK t \in ends : n = Infinity - t
  BY <1>4
<1>6. \A u \in ends : Infinity - t <= Infinity - u
  BY <1>4, <1>5
<1>7. \A u \in ends : u <= t
  <2> TAKE u \in ends
  <2>1. u \in Nat /\ t \in Nat /\ Infinity \in Nat
    BY <1>1, <1>2
  <2>2. Infinity - t <= Infinity - u
    BY <1>6
  <2> QED
    BY ONLY <2>1, <2>2
<1>8. \A s \in schedules : s.end \in ends
  OBVIOUS
<1>9. maxT \in ends /\ \A s \in schedules : s.end <= maxT
  <2>1. \E u \in ends : \A s \in schedules : s.end <= u
    BY <1>7, <1>8
  <2> QED
    BY <2>1 DEF maxT
<1> QED
  BY <1>1, <1>9 DEF schedules

\* The candidates for the next time.
Found(start) == {maxT} \cup UNION { calcNextDueTimeForSchedule(s, start) : s \in schedules }

\* What they are.
LEMMA Candidates ==
  ASSUME NEW start \in Nat \cup {-1}
  PROVE  /\ Found(start) \subseteq Nat
         /\ \A t \in Found(start) : t > start \/ t = maxT
         /\ \A t \in Found(start) :
              t = maxT \/ \E s \in Schedules : \E k \in Nat : t = s.begin + k * s.step /\ t <= s.end
<1> SUFFICES ASSUME NEW t \in Found(start), t # maxT
             PROVE  /\ t \in Nat /\ t > start
                    /\ \E s \in Schedules : \E k \in Nat : t = s.begin + k * s.step /\ t <= s.end
  BY Latest
<1>1. PICK s \in Schedules : t \in calcNextDueTimeForSchedule(Adapted(s), start)
  BY DEF Found, schedules
<1> DEFINE n == start - s.begin
           k == n \div s.step + 1
<1>2. /\ s.step \in Nat \ {0} /\ s.begin \in Nat /\ s.end \in Nat
      /\ Adapted(s).step = s.step /\ Adapted(s).begin = s.begin
      /\ s.begin <= Adapted(s).end /\ Adapted(s).end <= s.end /\ Adapted(s).end \in Nat
  BY EndsMoved
<1>3. CASE start < s.begin
  <2>1. t = s.begin
    BY <1>1, <1>2, <1>3 DEF calcNextDueTimeForSchedule
  <2>2. t = s.begin + 0 * s.step /\ t <= s.end
    BY <1>2, <2>1
  <2> QED
    BY <1>2, <1>3, <2>1, <2>2
<1>4. CASE ~(start < s.begin)
  <2>1. n \in Nat /\ start = s.begin + n
    BY <1>2, <1>4
  <2>2. t = s.begin + k * s.step /\ t <= Adapted(s).end
    BY <1>1, <1>2, <1>4 DEF calcNextDueTimeForSchedule
  <2>3. k \in Nat /\ n < k * s.step
    <3> HIDE DEF n
    <3>1. n \div s.step \in Nat /\ n < (n \div s.step + 1) * s.step
      BY <1>2, <2>1, Quotient
    <3> QED
      BY <3>1
  <2> HIDE DEF n, k
  <2>4. k * s.step \in Nat
    BY <1>2, <2>3
  <2>5. t \in Nat /\ t > start /\ t <= s.end
    BY <1>2, <2>1, <2>2, <2>3, <2>4
  <2> QED
    BY <2>2, <2>3, <2>5
<1> QED
  BY <1>3, <1>4

\* The next time is the first candidate.
LEMMA NextIsFirst ==
  ASSUME NEW start \in Nat \cup {-1}
  PROVE  NextDueTime(start) \in Found(start) /\ \A t \in Found(start) : NextDueTime(start) <= t
<1>1. Found(start) \subseteq Nat /\ Found(start) # {}
  BY Candidates DEF Found
<1>2. \E t \in Found(start) : \A u \in Found(start) : t <= u
  BY <1>1, LeastElement
<1>3. NextDueTime(start) = CHOOSE t \in Found(start) : \A u \in Found(start) : t <= u
  BY DEF NextDueTime, Found
<1> QED
  BY <1>2, <1>3

\* The times of a schedule, by number.
LEMMA ByNumber ==
  ASSUME NEW t \in Nat
  PROVE  Scheduled(t) <=> \E s \in Schedules : \E k \in Nat : t = s.begin + k * s.step /\ t <= s.end
<1>1. ASSUME Scheduled(t)
      PROVE  \E s \in Schedules : \E k \in Nat : t = s.begin + k * s.step /\ t <= s.end
  <2>1. PICK s \in Schedules : s.begin <= t /\ t <= s.end /\ (t - s.begin) % s.step = 0
    BY <1>1 DEF Scheduled
  <2>2. s.step \in Nat \ {0} /\ s.begin \in Nat /\ t - s.begin \in Nat
    BY <2>1, EndsMoved
  <2>3. t - s.begin = ((t - s.begin) \div s.step) * s.step /\ (t - s.begin) \div s.step \in Nat
    BY <2>1, <2>2, WithoutRemainder, Quotient
  <2>4. t = s.begin + ((t - s.begin) \div s.step) * s.step
    BY <2>2, <2>3
  <2> QED
    BY <2>1, <2>3, <2>4
<1>2. ASSUME NEW s \in Schedules, NEW k \in Nat, t = s.begin + k * s.step, t <= s.end
      PROVE  Scheduled(t)
  <2>1. s.step \in Nat \ {0} /\ s.begin \in Nat
    BY EndsMoved
  <2>2. k * s.step \in Nat /\ (k * s.step) % s.step = 0
    BY <2>1, DivideProduct
  <2>3. t - s.begin = k * s.step /\ s.begin <= t
    BY <1>2, <2>1, <2>2
  <2> QED
    BY <1>2, <2>2, <2>3 DEF Scheduled
<1> QED
  BY <1>1, <1>2

\* A search does not go past a time that is scheduled.
LEMMA NotLate ==
  ASSUME NEW start \in Nat \cup {-1}, NEW t \in Nat, Scheduled(t), start < t
  PROVE  NextDueTime(start) <= t /\ t <= maxT
<1>1. PICK s \in Schedules, k \in Nat : t = s.begin + k * s.step /\ t <= s.end
  BY ByNumber
<1> DEFINE n == start - s.begin
           j == n \div s.step + 1
<1>2. /\ s.step \in Nat \ {0} /\ s.begin \in Nat /\ s.end \in Nat
      /\ Adapted(s).step = s.step /\ Adapted(s).begin = s.begin /\ Adapted(s).end \in Nat
      /\ t <= Adapted(s).end /\ Adapted(s).end <= maxT
  BY <1>1, EndsMoved, Latest
<1>3. k * s.step \in Nat
  BY <1>2
<1>4. \E u \in calcNextDueTimeForSchedule(Adapted(s), start) : u <= t
  <2>1. CASE start < s.begin
    <3>1. calcNextDueTimeForSchedule(Adapted(s), start) = {s.begin}
      BY <1>2, <2>1 DEF calcNextDueTimeForSchedule
    <3> QED
      BY <1>1, <1>2, <1>3, <3>1
  <2>2. CASE ~(start < s.begin)
    <3>1. n \in Nat /\ start = s.begin + n
      BY <1>2, <2>2
    <3>2. n < k * s.step
      BY <1>1, <1>2, <1>3, <3>1
    <3>3. j \in Nat /\ j <= k
      BY <1>2, <3>1, <3>2, Quotient, LaterMultiples
    <3>4. calcNextDueTimeForSchedule(Adapted(s), start)
            = { u \in { s.begin + j * s.step } : u <= Adapted(s).end }
      BY <1>2, <2>2 DEF calcNextDueTimeForSchedule
    <3> HIDE DEF n, j
    <3>5. j * s.step <= k * s.step /\ j * s.step \in Nat
      BY <1>2, <3>3
    <3>6. s.begin + j * s.step <= t
      BY <1>1, <1>2, <1>3, <3>5
    <3>7. s.begin + j * s.step <= Adapted(s).end
      BY <1>2, <3>5, <3>6
    <3> QED
      BY <3>4, <3>6, <3>7
  <2> QED
    BY <2>1, <2>2
<1>5. PICK u \in Found(start) : u <= t
  BY <1>4 DEF Found, schedules
<1>6. NextDueTime(start) <= u /\ NextDueTime(start) \in Nat /\ u \in Nat
  BY NextIsFirst, Candidates
<1> QED
  BY <1>2, <1>5, <1>6, Latest

\* The search finds a time exactly if it is scheduled.
LEMMA FoundIfScheduled ==
  ASSUME NEW t \in Nat, t < Infinity
  PROVE  NextDueTime(t - 1) = t <=> Scheduled(t)
<1>1. t - 1 \in Nat \cup {-1} /\ t - 1 < t
  OBVIOUS
<1>2. ASSUME Scheduled(t) PROVE NextDueTime(t - 1) = t
  <2>1. NextDueTime(t - 1) <= t /\ t <= maxT
    BY <1>1, <1>2, NotLate
  <2>2. NextDueTime(t - 1) \in Nat /\ (NextDueTime(t - 1) > t - 1 \/ NextDueTime(t - 1) = maxT)
    BY <1>1, NextIsFirst, Candidates
  <2> QED
    BY <2>1, <2>2, Latest
<1>3. ASSUME NextDueTime(t - 1) = t PROVE Scheduled(t)
  <2>1. t \in Found(t - 1)
    BY <1>1, <1>3, NextIsFirst
  <2>2. CASE t = maxT
    <3>1. PICK s \in Schedules : t = Adapted(s).end
      BY <2>2, Latest
    <3>2. s.end < Infinity /\ t <= s.end
      <4>1. s.end <= Infinity /\ s.end \in Nat /\ t <= s.end /\ Infinity \in Nat
        <5>1. Infinity \in Nat
          BY SchedulesAssumption
        <5>2. s.end <= Infinity /\ s.end \in Nat /\ Adapted(s).end <= s.end
          BY EndsMoved
        <5> QED
          BY <3>1, <5>1, <5>2
      <4>2. s.end = Infinity => t = Infinity
        <5>1. ~(Infinity < Infinity)
          BY <4>1
        <5> QED
          BY <3>1, <5>1 DEF Adapted
      <4> QED
        BY <4>1, <4>2
    <3>3. \E m \in Nat : t = s.begin + m * s.step
      BY <3>1, <3>2, EndsMoved
    <3> QED
      BY <3>2, <3>3, ByNumber
  <2>3. CASE t # maxT
    BY <1>1, <2>1, <2>3, Candidates, ByNumber
  <2> QED
    BY <2>2, <2>3
<1> QED
  BY <1>2, <1>3

-----------------------------------------------------------------------------
(* A scheduler that is asked *)

\* A scheduler that has last been asked at a time: it was due then or before, and
\* nothing that is scheduled later lies before the time it waits for.
Waiting(sch, time) ==
  /\ sch = [lastDueTime |-> sch.lastDueTime, nextDueTime |-> sch.nextDueTime]
  /\ sch.lastDueTime \in Int /\ sch.nextDueTime \in Int
  /\ sch.lastDueTime <= time
  /\ \A t \in Nat : Scheduled(t) /\ t > time => sch.nextDueTime <= t

\* A new scheduler waits, whatever the time is.
LEMMA NewWaits ==
  ASSUME NEW time \in Nat
  PROVE  Waiting(NewScheduler, time)
<1>1. NextDueTime(Never) \in Nat /\ \A t \in Nat : Scheduled(t) => NextDueTime(Never) <= t
  BY NextIsFirst, Candidates, NotLate DEF Never
<1> QED
  BY <1>1 DEF Waiting, NewScheduler, Never

\* Asked at a later time a scheduler is due exactly if one of its schedules is,
\* and then waits for the next.
THEOREM DueOnSchedule ==
  ASSUME NEW time \in Nat, NEW sch, Waiting(sch, time),
         NEW t \in Nat, time < t, t < Infinity
  PROVE  /\ isDue(sch, t) <=> Scheduled(t)
         /\ Waiting(Asked(sch, t), t)
<1>1. t - 1 \in Nat \cup {-1} /\ maxT \in Nat
  BY Latest
<1>2. NextDueTime(t - 1) = t <=> Scheduled(t)
  BY FoundIfScheduled
<1>3. Scheduled(t) => t <= maxT /\ sch.nextDueTime <= t
  BY <1>1, NotLate DEF Waiting
<1>4. t > sch.lastDueTime /\ sch.lastDueTime \in Int /\ sch.nextDueTime \in Int
  BY DEF Waiting
<1>5. t \in {actDueTime(t), nextDueTime(t)} <=> NextDueTime(t - 1) = t
  BY DEF actDueTime, nextDueTime, SearchesOn
<1>6. isDue(sch, t) <=> Ahead(sch, t) /\ NextDueTime(t - 1) = t
  BY <1>4, <1>5 DEF isDue, Behindhand
<1>7. isDue(sch, t) <=> Scheduled(t)
  BY <1>2, <1>3, <1>4, <1>6 DEF Ahead
<1>8. NextDueTime(t - 1) \in Nat /\ NextDueTime(t) \in Nat
  BY <1>1, NextIsFirst, Candidates
<1>9. ASSUME NEW u \in Nat, Scheduled(u), u > t PROVE NextDueTime(t - 1) <= u /\ NextDueTime(t) <= u
  BY <1>1, <1>9, NotLate
<1>10. Waiting(Asked(sch, t), t)
  <2>1. CASE Ahead(sch, t)
    <3>1. /\ Asked(sch, t).nextDueTime = nextDueTime(t)
          /\ Asked(sch, t).lastDueTime \in {t, sch.lastDueTime}
      BY <2>1 DEF Asked
    <3>2. nextDueTime(t) \in {NextDueTime(t - 1), NextDueTime(t)}
      BY DEF nextDueTime
    <3> QED
      BY <1>4, <1>8, <1>9, <3>1, <3>2 DEF Waiting, Asked
  <2>2. CASE ~Ahead(sch, t)
    <3>1. /\ Asked(sch, t).nextDueTime = sch.nextDueTime
          /\ Asked(sch, t).lastDueTime = sch.lastDueTime
      BY <1>4, <2>2 DEF Asked, Behindhand
    <3>2. \A u \in Nat : Scheduled(u) /\ u > t => sch.nextDueTime <= u
      BY DEF Waiting
    <3> QED
      BY <1>4, <3>1, <3>2 DEF Waiting, Asked
  <2> QED
    BY <2>1, <2>2
<1> QED
  BY <1>7, <1>10

-----------------------------------------------------------------------------
(* The invariant of the checkpoints *)

\* The statements of update at which all processes wait for each other.
Collectives == {1, 2, 3, 4, 5, 8, 10, 13, 14, 16, 18, 21}

\* The checkpoints that process r has behind it: after the last close its data is on
\* the disk, although it may not have written cp.txt yet.
Behind(r) == { s \in Due : s <= step[r] /\ (s = step[r] => at[r] \notin 1 .. 21) }

Together ==
  running => \A q, r \in Ranks :
    /\ Behind(q) = Behind(r)
    /\ at[r] # 0 => step[r] \in Due
    /\ at[r] \in 2 .. 21 => step[q] = step[r] /\ \A c \in Collectives : at[q] <= c <=> at[r] <= c

Shape ==
  /\ disk = [s \in Due |-> [f \in Files |-> [count |-> disk[s][f].count, unit |-> disk[s][f].unit]]]
  /\ \A s \in Due, f \in Files : disk[s][f].count \in [Ranks -> Int]

HeldNow == running => held = [r \in Ranks |-> [f \in Files |-> [k \in 1 .. Cells[f][r] |-> step[r]]]]

\* An offset is on its way to r while r is still to receive it.
Waits(r)     == r # 0 /\ at[r] \in {9, 17} /\ at[r - 1] = at[r] + 1
ChainFile(i) == IF i = 9 THEN "cpDataSetF" ELSE "cpBC"
Chain ==
  running => \A r \in Ranks :
    /\ message[r] = IF Waits(r) THEN <<Begin[ChainFile(at[r])][r]>> ELSE << >>
    /\ r # 0 /\ at[r] \in {10, 18} => at[r - 1] = at[r]
    /\ at[r] \in 10 .. 13 => offset[r] = Begin["cpDataSetF"][r]
    /\ at[r] \in 18 .. 21 => offset[r] = Begin["cpBC"][r]

\* Where update writes the count and the units of a file.
CountAt(f) == CASE f = "cpBlocks" -> 6 [] f = "cpDataSetF" -> 11 [] f = "cpArrays" -> 15 [] f = "cpBC" -> 19
UnitsAt(f) == CASE f = "cpBlocks" -> 7 [] f = "cpDataSetF" -> 12 [] f = "cpArrays" -> 15 [] f = "cpBC" -> 20
HasCount(s, f, r) == disk[s][f].count[r] = Cells[f][r]
HasUnits(s, f, r) ==
  \A k \in 1 .. Cells[f][r] :
    /\ Begin[f][r] + k \in DOMAIN disk[s][f].unit
    /\ disk[s][f].unit[Begin[f][r] + k] = Unit(r, f, k, s)
OnDisk ==
  running => \A r \in Ranks : at[r] \in 1 .. 21 => \A f \in Files : Writes(r, f) =>
    /\ f # "cpArrays" /\ at[r] > CountAt(f) => HasCount(step[r], f, r)
    /\ at[r] > UnitsAt(f) => HasUnits(step[r], f, r)

MaxComplete(S) == \A s \in S : (\A t \in S : t <= s) => Complete(s)
Safe ==
  /\ running => \A r \in Ranks : MaxComplete(Behind(r)) /\ MaxComplete(Ended(r))
  /\ running /\ ~backward /\ cp # NoStep => \A r \in Ranks : cp \in Behind(r)
  /\ ~backward /\ cp # NoStep => Complete(cp)

\* The scheduler of a process waits for the next of its times.
InTime ==
  running => scheduler = [r \in Ranks |-> scheduler[r]] /\ \A r \in Ranks : Waiting(scheduler[r], step[r])

Inv == TypeOK /\ Together /\ Shape /\ HeldNow /\ Chain /\ OnDisk /\ Safe /\ InTime

-----------------------------------------------------------------------------
(* The statements of update *)

\* update is a sequence of 23 statements.
LEMMA Statements ==
  /\ DOMAIN update = 1 .. 23 /\ Len(update) = 23
  /\ update[1] = Statement("clear", "cpBlocks")
  /\ update[2] = Statement("clear", "cpDataSetF")
  /\ update[3] = Statement("clear", "cpArrays")
  /\ update[4] = Statement("clear", "cpBC")
  /\ update[5] = Statement("open", "cpBlocks")
  /\ update[6] = Statement("count", "cpBlocks")
  /\ update[7] = Statement("units", "cpBlocks")
  /\ update[8] = Statement("close", "cpBlocks")
  /\ update[9] = Statement("offset", "cpDataSetF")
  /\ update[10] = Statement("open", "cpDataSetF")
  /\ update[11] = Statement("count", "cpDataSetF")
  /\ update[12] = Statement("units", "cpDataSetF")
  /\ update[13] = Statement("close", "cpDataSetF")
  /\ update[14] = Statement("open", "cpArrays")
  /\ update[15] = Statement("units", "cpArrays")
  /\ update[16] = Statement("close", "cpArrays")
  /\ update[17] = Statement("offset", "cpBC")
  /\ update[18] = Statement("open", "cpBC")
  /\ update[19] = Statement("count", "cpBC")
  /\ update[20] = Statement("units", "cpBC")
  /\ update[21] = Statement("close", "cpBC")
  /\ update[22] = Statement("truncate", "cp.txt")
  /\ update[23] = Statement("write", "cp.txt")
BY DEF update, clearAllFiles, writeBlocks, writeDataSet, writeBoundaryConds, writeCpTimeStep, Write

\* What each of them does ...
LEMMA Does ==
  ASSUME NEW i \in 1 .. 23
  PROVE  /\ update[i].do \in {"clear", "open", "close"} <=> i \in Collectives
         /\ update[i].do = "clear" <=> i \in 1 .. 4
         /\ update[i].do = "offset" <=> i \in {9, 17}
         /\ update[i].do = "count" <=> i \in {6, 11, 19}
         /\ update[i].do = "units" <=> i \in {7, 12, 15, 20}
         /\ update[i].do = "truncate" <=> i = 22
         /\ update[i].do = "write" <=> i = 23
<1>1. \/ i = 1 \/ i = 2 \/ i = 3 \/ i = 4 \/ i = 5 \/ i = 6 \/ i = 7 \/ i = 8
      \/ i = 9 \/ i = 10 \/ i = 11 \/ i = 12 \/ i = 13 \/ i = 14 \/ i = 15 \/ i = 16
      \/ i = 17 \/ i = 18 \/ i = 19 \/ i = 20 \/ i = 21 \/ i = 22 \/ i = 23
  OBVIOUS
<1> QED
  BY <1>1, Statements DEF Statement, Collectives

\* ... and to which file.
LEMMA Concerns ==
  /\ \A i \in 1 .. 4 : update[i].file \in Files
  /\ update[9].file = "cpDataSetF" /\ update[17].file = "cpBC"
  /\ update[6].file = "cpBlocks" /\ update[7].file = "cpBlocks"
  /\ update[11].file = "cpDataSetF" /\ update[12].file = "cpDataSetF"
  /\ update[15].file = "cpArrays"
  /\ update[19].file = "cpBC" /\ update[20].file = "cpBC"
<1>1. \A i \in 1 .. 4 : i = 1 \/ i = 2 \/ i = 3 \/ i = 4
  OBVIOUS
<1> QED
  BY <1>1, Statements DEF Statement, Files

\* The end of update is followed by the time loop.
LEMMA Follows ==
  ASSUME NEW i \in 1 .. 23
  PROVE  Following(i) = IF i = 23 THEN 0 ELSE i + 1
BY Statements DEF Following
-----------------------------------------------------------------------------
(* The data *)

\* Types of what the constants say about the data.
LEMMA Constants ==
  /\ 0 \in Ranks /\ Ranks \subseteq Nat /\ Shared \subseteq Files /\ Due \subseteq Nat
  /\ \A f \in Files, r \in Ranks : Cells[f][r] \in Nat \ {0} /\ Begin[f][r] \in Nat
  /\ \A f \in Shared, r \in Ranks : Begin[f][r] = 0 /\ Cells[f][r] = Cells[f][0]
  /\ 0 \notin Due /\ Due \subseteq 1 .. MaxStep
<1>1. 0 \in Ranks /\ Ranks \subseteq Nat
  BY SizeAssumption DEF Ranks
<1>2. Shared \subseteq Files
  BY DEF Shared, Files
<1>3. Due \subseteq Nat /\ 0 \notin Due /\ Due \subseteq 1 .. MaxStep
  BY DEF Due
<1>4. \A f \in Files, r \in Ranks : Cells[f][r] \in Nat \ {0} /\ Begin[f][r] \in Nat
  BY CellsAssumption
<1>5. \A f \in Shared, r \in Ranks : Begin[f][r] = 0 /\ Cells[f][r] = Cells[f][0]
  BY CellsAssumption
<1> QED
  BY <1>1, <1>2, <1>3, <1>4, <1>5

\* The regions of two processes in a file do not overlap.
LEMMA Regions ==
  ASSUME NEW f \in Files \ Shared, NEW q \in Ranks, NEW r \in Ranks, q < r
  PROVE  Begin[f][q] + Cells[f][q] <= Begin[f][r]
<1> DEFINE S == { d \in Nat : q + 1 + d \in Ranks => Begin[f][q] + Cells[f][q] <= Begin[f][q + 1 + d] }
<1>1. q \in Nat /\ r \in Nat /\ r - (q + 1) \in Nat
  BY DEF Ranks
<1>2. \A p \in Ranks \ {0} : Begin[f][p] = Begin[f][p - 1] + Cells[f][p - 1]
  BY CellsAssumption
<1>3. 0 \in S
  <2>1. q + 1 \in Ranks => q + 1 \in Ranks \ {0} /\ (q + 1) - 1 = q
    BY <1>1
  <2>2. Begin[f][q] \in Nat /\ Cells[f][q] \in Nat
    BY Constants
  <2> QED
    BY <1>1, <1>2, <2>1, <2>2
<1>4. \A d \in 0 .. r - (q + 1) - 1 : d \in S => d + 1 \in S
  <2> SUFFICES ASSUME NEW d \in 0 .. r - (q + 1) - 1, d \in S, q + 1 + (d + 1) \in Ranks
               PROVE  Begin[f][q] + Cells[f][q] <= Begin[f][q + 1 + (d + 1)]
    OBVIOUS
  <2>1. q + 1 + d \in Ranks /\ q + 1 + (d + 1) # 0 /\ (q + 1 + (d + 1)) - 1 = q + 1 + d
    BY <1>1, SizeAssumption DEF Ranks
  <2>2. Begin[f][q + 1 + (d + 1)] = Begin[f][q + 1 + d] + Cells[f][q + 1 + d]
    BY <1>2, <2>1
  <2>3. Begin[f][q] + Cells[f][q] <= Begin[f][q + 1 + d]
    BY <2>1
  <2>4. Begin[f][q + 1 + d] \in Nat /\ Cells[f][q + 1 + d] \in Nat /\ Begin[f][q] \in Nat /\ Cells[f][q] \in Nat
    BY Constants, <2>1
  <2> QED
    BY <2>2, <2>3, <2>4
<1>5. r - (q + 1) \in S
  <2> HIDE DEF S
  <2>1. 0 .. r - (q + 1) \subseteq S
    BY <1>1, <1>3, <1>4, SegmentInduction
  <2> QED
    BY <1>1, <2>1
<1>6. q + 1 + (r - (q + 1)) = r
  BY <1>1
<1> QED
  BY <1>5, <1>6

\* A checkpoint whose file nobody has touched is as it was.
LEMMA Untouched ==
  ASSUME NEW s, disk'[s] = disk[s]
  PROVE  Complete(s)' <=> Complete(s)
BY DEF Complete, Restored, Readable

\* cp.txt names a complete checkpoint that nobody touches.
LEMMA NamesComplete ==
  ASSUME NEW s, cp' = s, disk'[s] = disk[s], Complete(s)
  PROVE  Complete(cp)'
<1>1. Complete(s)'
  BY Untouched
<1>2. ASSUME NEW f \in Files, NEW r \in Ranks, NEW k \in 1 .. Cells[f][r]
      PROVE  Restored(cp, f, r, k)' = s
  <2>1. Restored(s, f, r, k)' = s
    BY <1>1, <1>2 DEF Complete
  <2> QED
    BY <2>1 DEF Restored, Readable
<1> QED
  BY <1>2 DEF Complete

\* A checkpoint that all processes have written is complete.
LEMMA AllWritten ==
  ASSUME NEW s \in Due,
         \A f \in Files, r \in Ranks : Writes(r, f) =>
           (f # "cpArrays" => HasCount(s, f, r)) /\ HasUnits(s, f, r)
  PROVE  Complete(s)
<1> SUFFICES ASSUME NEW f \in Files, NEW r \in Ranks, NEW k \in 1 .. Cells[f][r]
             PROVE  Restored(s, f, r, k) = s
  BY DEF Complete
<1> DEFINE o == IF f = "cpBlocks" THEN 0 ELSE r
<1>1. o \in Ranks /\ Writes(o, f) /\ Begin[f][o] = Begin[f][r] /\ k \in 1 .. Cells[f][o] /\ Owner(f, o) = Owner(f, r)
  <2>1. f = "cpBlocks" => f \in Shared
    BY DEF Shared
  <2> QED
    BY Constants, <2>1 DEF Writes, Owner
<1>2. /\ Begin[f][r] + k \in DOMAIN disk[s][f].unit
      /\ disk[s][f].unit[Begin[f][r] + k] = Unit(o, f, k, s)
  BY <1>1 DEF HasUnits
<1>3. Unit(o, f, k, s).owner = Owner(f, r) /\ Unit(o, f, k, s).index = k /\ Unit(o, f, k, s).step = s
  BY <1>1 DEF Unit
<1>4. Readable(s, f, r)
  <2> SUFFICES ASSUME f # "cpArrays", NEW q \in (IF f \in Shared THEN {0} ELSE 0 .. r)
               PROVE  disk[s][f].count[q] = Cells[f][q]
    BY DEF Readable
  <2>1. q \in Ranks
    BY Constants, SizeAssumption DEF Ranks
  <2>2. Writes(q, f)
    BY DEF Writes, Shared
  <2> QED
    BY <2>1, <2>2 DEF HasCount
<1> QED
  BY <1>2, <1>3, <1>4 DEF Restored
-----------------------------------------------------------------------------
(* Where the processes are *)

\* Types of the positions.
LEMMA Positions ==
  ASSUME TypeOK
  PROVE  /\ at \in [Ranks -> 0 .. 23] /\ step \in [Ranks -> Nat] /\ offset \in [Ranks -> Nat]
         /\ \A r \in Ranks : step[r] <= MaxStep
         /\ \A r \in Ranks : Behind(r) \subseteq Due /\ Ended(r) \subseteq Behind(r)
<1>1. at \in [Ranks -> 0 .. 23]
  BY Statements DEF TypeOK
<1>2. step \in [Ranks -> Nat] /\ \A r \in Ranks : step[r] <= MaxStep
  BY StepsAssumption DEF TypeOK
<1>3. \A r \in Ranks : Behind(r) \subseteq Due
  BY DEF Behind
<1>4. \A r \in Ranks : Ended(r) \subseteq Behind(r)
  BY DEF Behind, Ended
<1>5. offset \in [Ranks -> Nat]
  BY DEF TypeOK
<1> QED
  BY <1>1, <1>2, <1>3, <1>4, <1>5

\* A process that goes on to its next statement, other than by a collective one,
\* changes nothing for the others.
LEMMA Alone ==
  ASSUME TypeOK, Together, NEW r \in Ranks, running, running' = running, step' = step,
         at[r] \in 1 .. 23 \ Collectives, Proceed(r)
  PROVE  /\ at' \in [Ranks -> 0 .. 23] /\ at'[r] = (IF at[r] = 23 THEN 0 ELSE at[r] + 1)
         /\ \A q \in Ranks \ {r} : at'[q] = at[q]
         /\ \A q \in Ranks : Behind(q)' = Behind(q)
         /\ \A q \in Ranks : Ended(q)' = Ended(q) \/ Ended(q)' = Behind(q)
         /\ Together'
<1>1. at \in [Ranks -> 0 .. 23] /\ step \in [Ranks -> Nat]
  BY Positions
<1>2. Following(at[r]) = IF at[r] = 23 THEN 0 ELSE at[r] + 1
  BY Follows
<1>3. at'[r] = (IF at[r] = 23 THEN 0 ELSE at[r] + 1) /\ \A q \in Ranks \ {r} : at'[q] = at[q]
  BY <1>1, <1>2 DEF Proceed
<1>4. at' \in [Ranks -> 0 .. 23]
  BY <1>1, <1>2 DEF Proceed
<1>5. at[r] \notin {1, 21} /\ (at'[r] \in 1 .. 21 <=> at[r] \in 1 .. 21) /\ (at'[r] \in 2 .. 21 <=> at[r] \in 2 .. 21)
  BY <1>1, <1>3 DEF Collectives
<1>6. \A q \in Ranks : Behind(q)' = Behind(q)
  <2> TAKE q \in Ranks
  <2>1. at'[q] \in 1 .. 21 <=> at[q] \in 1 .. 21
    BY <1>3, <1>5
  <2> QED
    BY <2>1 DEF Behind
<1>7. \A q \in Ranks : Ended(q)' = Ended(q) \/ Ended(q)' = Behind(q)
  <2> TAKE q \in Ranks
  <2>1. CASE at'[q] = 0 <=> at[q] = 0
    BY <2>1 DEF Ended
  <2>2. CASE ~(at'[q] = 0 <=> at[q] = 0)
    <3>1. q = r /\ at[r] = 23 /\ at'[r] = 0
      BY <1>1, <1>3, <2>2
    <3> QED
      BY <3>1 DEF Ended, Behind
  <2> QED
    BY <2>1, <2>2
<1>8. \A q \in Ranks, c \in Collectives : at[q] \in 1 .. 21 \/ q # r => (at'[q] <= c <=> at[q] <= c)
  <2> TAKE q \in Ranks, c \in Collectives
  <2>1. c \in Nat /\ at[r] # c
    BY DEF Collectives
  <2> QED
    BY <1>1, <1>3, <2>1
<1>9. Together'
  <2> SUFFICES ASSUME NEW p \in Ranks, NEW q \in Ranks
               PROVE  /\ Behind(p)' = Behind(q)'
                      /\ at'[q] # 0 => step[q] \in Due
                      /\ at'[q] \in 2 .. 21 => step[p] = step[q] /\ \A c \in Collectives : at'[p] <= c <=> at'[q] <= c
    BY DEF Together
  <2>1. Behind(p)' = Behind(q)'
    BY <1>6 DEF Together
  <2>2. at'[q] # 0 => at[q] # 0
    BY <1>3
  <2>3. at'[q] \in 2 .. 21 => at[q] \in 2 .. 21
    BY <1>3, <1>5
  <2>4. at[q] \in 2 .. 21 => at[p] \in 2 .. 21
    BY <1>1 DEF Together, Collectives
  <2> QED
    BY <2>1, <2>2, <2>3, <2>4, <1>8 DEF Together
<1> QED
  BY <1>3, <1>4, <1>6, <1>7, <1>9

\* A collective statement takes all processes into the next segment.
LEMMA AllTogether ==
  ASSUME TypeOK, Together, running, running' = running, step' = step,
         NEW i \in Collectives, \A r \in Ranks : at[r] = i, at' = [r \in Ranks |-> Following(i)]
  PROVE  /\ at' = [r \in Ranks |-> i + 1] /\ at' \in [Ranks -> 0 .. 23]
         /\ \A r \in Ranks : step[r] = step[0] /\ step[0] \in Due /\ step[0] \notin Behind(r)
         /\ \A r \in Ranks : Behind(r)' = (IF i = 21 THEN Behind(r) \cup {step[0]} ELSE Behind(r))
         /\ \A r \in Ranks : Ended(r)' = Ended(r)
         /\ Together'
<1>1. at \in [Ranks -> 0 .. 23] /\ step \in [Ranks -> Nat]
  BY Positions
<1>2. i \in 1 .. 21 /\ i + 1 \in 2 .. 22
  BY DEF Collectives
<1>3. at' = [r \in Ranks |-> i + 1] /\ at' \in [Ranks -> 0 .. 23]
  BY <1>2, Follows
<1>4. \A r \in Ranks : step[r] = step[0] /\ step[r] \in Due
  <2> TAKE r \in Ranks
  <2>1. step[0] \in Due /\ step[r] \in Due /\ 0 \in Ranks
    BY <1>2, Constants DEF Together
  <2>2. step[0] \notin Behind(0) /\ step[r] \notin Behind(r)
    BY <1>2, <2>1 DEF Behind
  <2>3. Behind(0) = Behind(r)
    BY <2>1 DEF Together
  <2>4. ~(step[0] < step[r]) /\ ~(step[r] < step[0])
    BY <1>1, <2>1, <2>2, <2>3 DEF Behind
  <2> QED
    BY <1>1, <2>1, <2>4
<1>5. \A r \in Ranks : step[0] \notin Behind(r)
  BY <1>2, <1>4 DEF Behind
<1>6. \A r \in Ranks : Behind(r)' = (IF i = 21 THEN Behind(r) \cup {step[0]} ELSE Behind(r))
  <2> TAKE r \in Ranks
  <2>1. at[r] \in 1 .. 21 /\ (at'[r] \in 1 .. 21 <=> i # 21)
    BY <1>2, <1>3
  <2> QED
    BY <1>1, <1>4, <2>1 DEF Behind
<1>7. \A r \in Ranks : Ended(r)' = Ended(r)
  BY <1>1, <1>2, <1>3 DEF Ended
<1>8. Together'
  BY SMTT(30), <1>2, <1>3, <1>4, <1>6 DEF Together
<1> QED
  BY <1>3, <1>4, <1>5, <1>6, <1>7, <1>8
-----------------------------------------------------------------------------
(* What stays *)

\* Checkpoints that nobody writes keep what Safe says of them.
LEMMA SafeStays ==
  ASSUME Inv, running, running' = running, UNCHANGED backward,
         \A r \in Ranks : Behind(r)' = Behind(r),
         \A r \in Ranks : Ended(r)' = Ended(r) \/ Ended(r)' = Behind(r),
         \A s \in Behind(0) : disk'[s] = disk[s],
         cp' = cp \/ cp' = NoStep \/ (cp' \in Behind(0) /\ \A s \in Behind(0) : s <= cp')
  PROVE  Safe'
<1>0. Safe /\ 0 \in Ranks
  BY Constants DEF Inv
<1>1. \A r \in Ranks : Behind(r) = Behind(0)
  BY <1>0 DEF Inv, Together
<1>2. \A s \in Behind(0) : Complete(s)' <=> Complete(s)
  BY Untouched
<1>3. \A r \in Ranks : Ended(r) \subseteq Behind(0)
  BY <1>1, Positions DEF Inv
<1>4. ASSUME NEW S, S \subseteq Behind(0), MaxComplete(S)
      PROVE  \A s \in S : (\A t \in S : t <= s) => Complete(s)'
  BY <1>2, <1>4 DEF MaxComplete
<1>5. ASSUME NEW r \in Ranks PROVE MaxComplete(Behind(r))'
  BY <1>0, <1>1, <1>2 DEF Safe, MaxComplete
<1>6. ASSUME NEW r \in Ranks PROVE MaxComplete(Ended(r))'
  <2>1. CASE Ended(r)' = Ended(r)
    BY <1>0, <1>2, <1>3, <2>1 DEF Safe, MaxComplete
  <2>2. CASE Ended(r)' = Behind(r)
    BY <1>0, <1>1, <1>2, <2>2 DEF Safe, MaxComplete
  <2> QED
    BY <2>1, <2>2
<1>7. ~backward /\ cp' # NoStep => cp' \in Behind(0) /\ Complete(cp)'
  <2> SUFFICES ASSUME ~backward, cp' # NoStep PROVE cp' \in Behind(0) /\ Complete(cp)'
    OBVIOUS
  <2>1. cp' \in Behind(0) /\ Complete(cp')
    <3>1. CASE cp' = cp
      BY <1>0, <3>1 DEF Safe
    <3>2. CASE cp' \in Behind(0) /\ \A s \in Behind(0) : s <= cp'
      BY <1>0, <3>2 DEF Safe, MaxComplete
    <3> QED
      BY <3>1, <3>2
  <2>2. disk'[cp'] = disk[cp']
    BY <2>1
  <2> QED
    BY <2>1, <2>2, NamesComplete
<1>8. ~backward' /\ cp' # NoStep => Complete(cp)'
  BY <1>7
<1>9. ASSUME NEW r \in Ranks PROVE ~backward' /\ cp' # NoStep => cp' \in Behind(r)'
  BY <1>1, <1>7
<1> QED
  BY <1>5, <1>6, <1>8, <1>9 DEF Safe

\* A statement that is not an exchange of offsets leaves the chain alone.
LEMMA ChainStays ==
  ASSUME Inv, NEW r \in Ranks, running, running' = running, UNCHANGED <<step, offset, message>>,
         at[r] \in 1 .. 23 \ (Collectives \cup {9, 17}), Proceed(r)
  PROVE  Chain'
<1>1. /\ at' \in [Ranks -> 0 .. 23] /\ at'[r] = (IF at[r] = 23 THEN 0 ELSE at[r] + 1)
      /\ \A q \in Ranks \ {r} : at'[q] = at[q]
      /\ at \in [Ranks -> 0 .. 23]
  BY Alone, Positions DEF Inv
<1>2. at[r] \notin {9, 10, 17, 18} /\ at'[r] \notin {9, 10, 17, 18}
  BY <1>1 DEF Collectives
<1>3. \A q \in Ranks : q # 0 => q - 1 \in Ranks
  BY SizeAssumption DEF Ranks
<1>4. ASSUME NEW q \in Ranks PROVE Waits(q)' <=> Waits(q)
  BY <1>1, <1>2, <1>3 DEF Waits
<1>5. ASSUME NEW q \in Ranks
      PROVE  /\ message'[q] = (IF Waits(q)' THEN <<Begin[ChainFile(at'[q])][q]>> ELSE << >>)
             /\ q # 0 /\ at'[q] \in {10, 18} => at'[q - 1] = at'[q]
  <2>1. message'[q] = message[q] /\ (Waits(q) => q # r /\ at'[q] = at[q])
    BY <1>1, <1>2 DEF Waits
  <2>2. q # 0 /\ at'[q] \in {10, 18} => q # r /\ at[q] \in {10, 18} /\ at[q - 1] = at[q] /\ q - 1 \in Ranks
    BY <1>1, <1>2, <1>3 DEF Inv, Chain
  <2> QED
    BY ZenonT(40), <1>1, <1>2, <1>4, <2>1, <2>2 DEF Inv, Chain
<1>6. ASSUME NEW q \in Ranks
      PROVE  /\ at'[q] \in 10 .. 13 => offset'[q] = Begin["cpDataSetF"][q]
             /\ at'[q] \in 18 .. 21 => offset'[q] = Begin["cpBC"][q]
  <2>1. /\ at'[q] \in 10 .. 13 => at[q] \in 10 .. 13
        /\ at'[q] \in 18 .. 21 => at[q] \in 18 .. 21
    BY <1>1, <1>2
  <2> QED
    BY <2>1 DEF Inv, Chain
<1> QED
  BY <1>5, <1>6 DEF Chain

\* Where the files are written is not where processes wait.
LEMMA WritesApart ==
  ASSUME NEW f \in Files
  PROVE  CountAt(f) \in {6, 11, 15, 19} /\ UnitsAt(f) \in {7, 12, 15, 20}
BY DEF Files, CountAt, UnitsAt

\* A statement that writes no file leaves what has been written.
LEMMA OnDiskStays ==
  ASSUME Inv, NEW r \in Ranks, running, running' = running, UNCHANGED <<step, disk>>,
         at[r] \in {9, 17, 22, 23}, Proceed(r)
  PROVE  OnDisk'
<1>1. /\ at' \in [Ranks -> 0 .. 23] /\ at'[r] = (IF at[r] = 23 THEN 0 ELSE at[r] + 1)
      /\ \A q \in Ranks \ {r} : at'[q] = at[q]
      /\ at \in [Ranks -> 0 .. 23]
  BY Alone, Positions DEF Inv, Collectives
<1> SUFFICES ASSUME NEW q \in Ranks, at'[q] \in 1 .. 21, NEW f \in Files, Writes(q, f)
             PROVE  /\ f # "cpArrays" /\ at'[q] > CountAt(f) => HasCount(step[q], f, q)
                    /\ at'[q] > UnitsAt(f) => HasUnits(step[q], f, q)
  BY DEF OnDisk, HasCount, HasUnits
<1>2. at[q] \in 1 .. 21
  BY <1>1
<1>3. (at'[q] > CountAt(f) => at[q] > CountAt(f)) /\ (at'[q] > UnitsAt(f) => at[q] > UnitsAt(f))
  BY <1>1, <1>2, WritesApart
<1> QED
  BY <1>2, <1>3 DEF Inv, OnDisk
-----------------------------------------------------------------------------
(* The statements of update keep the invariant *)

\* All processes clear, open or close a file.
LEMMA CollectiveKeeps == ASSUME Inv, Collective PROVE Inv'
<1>1. PICK i \in DOMAIN update :
        /\ update[i].do \in {"clear", "open", "close"}
        /\ \A r \in Ranks : running /\ at[r] = i
        /\ at' = [r \in Ranks |-> Following(i)]
        /\ disk' = IF update[i].do = "clear" THEN [disk EXCEPT ![step[0]][update[i].file] = Empty] ELSE disk
  BY DEF Collective
<1>2. UNCHANGED <<running, step, scheduler, held, offset, message, cp, backward, crashes>> /\ running
  BY <1>1, Constants DEF Collective
<1>3. i \in 1 .. 23 /\ i \in Collectives /\ i \in 1 .. 21 /\ (update[i].do = "clear" <=> i \in 1 .. 4)
  <2>1. i \in 1 .. 23
    BY Statements
  <2> QED
    BY <1>1, <2>1, Does DEF Collectives
<1>4. /\ at' = [r \in Ranks |-> i + 1] /\ at' \in [Ranks -> 0 .. 23]
      /\ \A r \in Ranks : step[r] = step[0] /\ step[0] \in Due /\ step[0] \notin Behind(r)
      /\ \A r \in Ranks : Behind(r)' = (IF i = 21 THEN Behind(r) \cup {step[0]} ELSE Behind(r))
      /\ \A r \in Ranks : Ended(r)' = Ended(r)
      /\ Together'
  BY <1>1, <1>2, <1>3, AllTogether DEF Inv
<1>5. TypeOK'
  BY <1>2, <1>4, Statements DEF Inv, TypeOK
<1>6. \A s \in Due : s # step[0] => disk'[s] = disk[s]
  BY <1>1, <1>4 DEF Inv, Shape
<1>7. Shape'
  <2>1. CASE update[i].do = "clear"
    <3>1. update[i].file \in Files
      BY <1>3, <2>1, Concerns
    <3>2. Empty = [count |-> Empty.count, unit |-> Empty.unit] /\ Empty.count \in [Ranks -> Int]
      BY DEF Empty, None
    <3>3. disk' = [disk EXCEPT ![step[0]][update[i].file] = Empty] /\ step[0] \in Due
      BY <1>1, <1>4, <2>1, Constants
    <3>4. \A s \in Due, f \in Files : disk'[s][f] = disk[s][f] \/ disk'[s][f] = Empty
      BY <3>1, <3>3 DEF Inv, Shape
    <3>5. disk' = [s \in Due |-> [f \in Files |-> disk'[s][f]]]
      BY <3>1, <3>3 DEF Inv, Shape
    <3>6. \A s \in Due, f \in Files :
            /\ disk'[s][f] = [count |-> disk'[s][f].count, unit |-> disk'[s][f].unit]
            /\ disk'[s][f].count \in [Ranks -> Int]
      BY <3>2, <3>4 DEF Inv, Shape
    <3> QED
      BY <3>5, <3>6 DEF Shape
  <2>2. CASE update[i].do # "clear"
    BY <1>1, <2>2 DEF Inv, Shape
  <2> QED
    BY <2>1, <2>2
<1>8. HeldNow' /\ InTime'
  BY <1>2 DEF Inv, HeldNow, InTime
<1>9. Chain'
  <2>1. \A r \in Ranks : r # 0 => r - 1 \in Ranks
    BY SizeAssumption DEF Ranks
  <2>2. \A r \in Ranks : ~Waits(r) /\ ~Waits(r)'
    BY <1>1, <1>2, <1>3, <1>4, <2>1 DEF Waits
  <2>3. \A r \in Ranks : message'[r] = << >>
    BY <1>2, <2>2 DEF Inv, Chain
  <2>4. \A r \in Ranks : r # 0 => at'[r - 1] = at'[r]
    BY <1>4, <2>1
  <2>5. \A r \in Ranks : /\ at'[r] \in 10 .. 13 => at[r] \in 10 .. 13
                         /\ at'[r] \in 18 .. 21 => at[r] \in 18 .. 21
    BY <1>1, <1>3, <1>4 DEF Collectives
  <2>6. \A r \in Ranks : /\ at'[r] \in 10 .. 13 => offset'[r] = Begin["cpDataSetF"][r]
                         /\ at'[r] \in 18 .. 21 => offset'[r] = Begin["cpBC"][r]
    BY <1>2, <2>5 DEF Inv, Chain
  <2> QED
    BY <2>2, <2>3, <2>4, <2>6 DEF Chain
<1>10. OnDisk'
  <2> SUFFICES ASSUME NEW q \in Ranks, at'[q] \in 1 .. 21, NEW f \in Files, Writes(q, f)
               PROVE  /\ f # "cpArrays" /\ at'[q] > CountAt(f) => HasCount(step[q], f, q)'
                      /\ at'[q] > UnitsAt(f) => HasUnits(step[q], f, q)'
    BY <1>2 DEF OnDisk, HasCount, HasUnits
  <2>1. at'[q] = i + 1 /\ at[q] = i
    BY <1>1, <1>4
  <2>2. CASE i \in 1 .. 4
    BY <2>1, <2>2, WritesApart
  <2>3. CASE i \notin 1 .. 4
    <3>1. disk' = disk /\ at[q] \in 1 .. 21
      BY <1>1, <1>3, <2>3
    <3>2. (i + 1 > CountAt(f) /\ f # "cpArrays" => i > CountAt(f)) /\ (i + 1 > UnitsAt(f) => i > UnitsAt(f))
      BY <1>3, WritesApart DEF Collectives
    <3>3. /\ f # "cpArrays" /\ at'[q] > CountAt(f) => HasCount(step[q], f, q)
          /\ at'[q] > UnitsAt(f) => HasUnits(step[q], f, q)
      BY <1>2, <2>1, <3>1, <3>2 DEF Inv, OnDisk
    <3> QED
      BY <1>2, <3>1, <3>3 DEF HasCount, HasUnits
  <2> QED
    BY <2>2, <2>3
<1>11. Safe'
  <2>1. 0 \in Ranks
    BY Constants
  <2>2. CASE i # 21
    <3>1. \A s \in Behind(0) : disk'[s] = disk[s]
      BY <1>4, <1>6, <2>1, Positions DEF Inv
    <3>2. \A r \in Ranks : Behind(r)' = Behind(r)
      BY <1>4, <2>2
    <3> QED
      BY <1>2, <1>4, <3>1, <3>2, SafeStays
  <2>3. CASE i = 21
    <3>1. disk' = disk
      BY <1>1, <1>3, <2>3
    <3>2. Complete(step[0])
      <4>1. \A f \in Files, r \in Ranks : Writes(r, f) =>
              (f # "cpArrays" => HasCount(step[0], f, r)) /\ HasUnits(step[0], f, r)
        BY <1>1, <1>2, <1>4, <2>3, WritesApart DEF Inv, OnDisk
      <4> QED
        BY <1>4, <2>1, <4>1, AllWritten
    <3>3. \A s : Complete(s)' <=> Complete(s)
      BY <3>1, Untouched
    <3>4. \A r \in Ranks : MaxComplete(Ended(r))'
      BY <1>2, <1>4, <3>3 DEF Inv, Safe, MaxComplete
    <3>5. \A r \in Ranks : MaxComplete(Behind(r))'
      <4> SUFFICES ASSUME NEW r \in Ranks, NEW s \in Behind(r)', \A t \in Behind(r)' : t <= s
                   PROVE  Complete(s)
        BY <3>3 DEF MaxComplete
      <4>1. Behind(r)' = Behind(r) \cup {step[0]}
        BY <1>4, <2>3
      <4>2. \A t \in Behind(r) : t <= step[0] /\ t \in Nat
        BY <1>4, Constants DEF Behind
      <4>3. step[0] <= s /\ step[0] \in Nat
        BY <1>4, <4>1, Constants
      <4>4. s = step[0]
        BY <4>1, <4>2, <4>3
      <4> QED
        BY <3>2, <4>4
    <3>6. ~backward /\ cp # NoStep => Complete(cp) /\ \A r \in Ranks : cp \in Behind(r)'
      BY <1>2, <1>4 DEF Inv, Safe
    <3>7. ~backward /\ cp # NoStep => Complete(cp)'
      BY <1>2, <3>1, <3>6, NamesComplete
    <3> QED
      BY <1>2, <3>1, <3>4, <3>5, <3>6, <3>7 DEF Safe
  <2> QED
    BY <2>2, <2>3
<1> QED
  BY <1>4, <1>5, <1>7, <1>8, <1>9, <1>10, <1>11 DEF Inv

\* The facts about a process that goes on alone, from its statement.
LEMMA Goes ==
  ASSUME Inv, NEW r \in Ranks, NEW do, At(r, do), running' = running, UNCHANGED step, Proceed(r)
  PROVE  /\ running /\ at[r] \in 1 .. 23 /\ update[at[r]].do = do
         /\ at[r] \notin Collectives =>
              /\ at' \in [Ranks -> 0 .. 23] /\ at'[r] = (IF at[r] = 23 THEN 0 ELSE at[r] + 1)
              /\ \A q \in Ranks \ {r} : at'[q] = at[q]
              /\ \A q \in Ranks : Behind(q)' = Behind(q)
              /\ \A q \in Ranks : Ended(q)' = Ended(q) \/ Ended(q)' = Behind(q)
              /\ Together'
         /\ step[r] \in Due
<1>1. running /\ at[r] \in 1 .. 23 /\ update[at[r]].do = do
  BY Positions DEF Inv, At
<1>2. step[r] \in Due
  BY <1>1 DEF Inv, Together
<1> QED
  BY <1>1, <1>2, Alone DEF Inv

\* A process gets to know where its region begins.
LEMMA ExchangeOffsetKeeps == ASSUME Inv, NEW r \in Ranks, ExchangeOffset(r) PROVE Inv'
<1>1. /\ At(r, "offset") /\ (r # 0 => message[r] # << >>)
      /\ offset' = [offset EXCEPT ![r] = IF r = 0 THEN 0 ELSE Head(message[r])]
      /\ message' = [q \in Ranks |->
           LET rest == IF q = r /\ r # 0 THEN Tail(message[q]) ELSE message[q]
           IN IF q = r + 1 /\ HasNext(r) THEN Append(rest, NextOffset(r, File(r))) ELSE rest]
      /\ Proceed(r) /\ UNCHANGED <<running, step, scheduler, held, disk, cp, backward, crashes>>
  BY DEF ExchangeOffset
<1>2. running /\ at[r] \in {9, 17} /\ at[r] \notin Collectives
  <2>1. running /\ at[r] \in 1 .. 23 /\ update[at[r]].do = "offset"
    BY <1>1, Goes
  <2> QED
    BY <2>1, Does DEF Collectives
<1>3. /\ at' \in [Ranks -> 0 .. 23] /\ at'[r] = at[r] + 1
      /\ \A q \in Ranks \ {r} : at'[q] = at[q]
      /\ \A q \in Ranks : Behind(q)' = Behind(q)
      /\ \A q \in Ranks : Ended(q)' = Ended(q) \/ Ended(q)' = Behind(q)
      /\ Together' /\ step[r] \in Due
  BY <1>1, <1>2, Goes
<1>4. File(r) = ChainFile(at[r]) /\ File(r) \in Files \ Shared
  BY <1>2, Concerns DEF File, ChainFile, Files, Shared
<1>5. r # 0 => message[r] = <<Begin[File(r)][r]>> /\ at[r - 1] = at[r] + 1 /\ r - 1 \in Ranks
  <2>1. r # 0 => Waits(r)
    BY <1>1, <1>2 DEF Inv, Chain
  <2>2. r # 0 => r - 1 \in Ranks
    BY SizeAssumption DEF Ranks
  <2> QED
    BY <1>2, <1>4, <2>1, <2>2 DEF Inv, Chain, Waits
<1>6. Begin[File(r)][0] = 0
  BY <1>4, CellsAssumption
<1>7. offset' \in [Ranks -> Nat] /\ offset'[r] = Begin[File(r)][r] /\ \A q \in Ranks \ {r} : offset'[q] = offset[q]
  BY <1>1, <1>4, <1>5, <1>6, Constants, Positions DEF Inv
<1>8. NextOffset(r, File(r)) = Begin[File(r)][r] + Cells[File(r)][r]
  BY <1>5, <1>6 DEF NextOffset
<1>9. ASSUME NEW q \in Ranks
      PROVE  /\ message'[q] = (IF Waits(q)' THEN <<Begin[ChainFile(at'[q])][q]>> ELSE << >>)
             /\ q # 0 /\ at'[q] \in {10, 18} => at'[q - 1] = at'[q]
  <2>0. q \in Nat /\ r \in Nat /\ at \in [Ranks -> 0 .. 23] /\ (q # 0 => q - 1 \in Ranks)
    BY Positions, SizeAssumption DEF Inv, Ranks
  <2>1. CASE q = r
    <3>1. message'[q] = << >>
      <4>1. q # r + 1
        BY <2>0, <2>1
      <4>2. message'[q] = IF r # 0 THEN Tail(message[r]) ELSE message[r]
        BY <1>1, <2>1, <4>1
      <4>3. r = 0 => message[r] = << >>
        BY <1>2 DEF Inv, Chain, Waits
      <4>4. ASSUME NEW x PROVE Tail(<<x>>) = << >>
        OBVIOUS
      <4> QED
        BY <1>5, <4>2, <4>3, <4>4
    <3>2. ~Waits(q)'
      BY <1>2, <1>3, <2>1 DEF Waits
    <3>3. q # 0 => at'[q - 1] = at'[q]
      BY <1>3, <1>5, <2>0, <2>1
    <3> QED
      BY <3>1, <3>2, <3>3
  <2>2. CASE q = r + 1
    <3>1. HasNext(r) /\ q - 1 = r /\ q # 0 /\ q # r
      BY <2>0, <2>2, SizeAssumption DEF HasNext, Ranks
    <3>2. at[q] = at[r]
      <4>1. \A c \in Collectives : at[q] <= c <=> at[r] <= c
        BY <1>2 DEF Inv, Together
      <4>2. at[q] \in {at[r], at[r] + 1}
        <5>1. 8 \in Collectives /\ 10 \in Collectives /\ 16 \in Collectives /\ 18 \in Collectives
          BY DEF Collectives
        <5> QED
          BY <1>2, <2>0, <4>1, <5>1
      <4>3. at[q] \in {10, 18} => at[r] = at[q]
        BY <1>2, <3>1 DEF Inv, Chain
      <4> QED
        BY <1>2, <4>2, <4>3
    <3>3. Waits(q)' /\ at'[q] = at[q]
      BY <1>2, <1>3, <3>1, <3>2 DEF Waits
    <3>4. message[q] = << >>
      <4>1. ~Waits(q)
        BY <3>1, <3>2, <2>0 DEF Waits
      <4> QED
        BY <1>2, <4>1 DEF Inv, Chain
    <3>5. message'[q] = Append(<< >>, NextOffset(r, File(r)))
      BY <1>1, <2>2, <3>1, <3>4
    <3>6. Begin[File(r)][q] = NextOffset(r, File(r))
      <4>1. q \in Ranks \ {0}
        BY <3>1
      <4> QED
        BY <1>4, <1>8, <3>1, <4>1, CellsAssumption
    <3>7. \A x : Append(<< >>, x) = <<x>>
      OBVIOUS
    <3>8. at'[q] \notin {10, 18}
      BY <1>2, <3>2, <3>3
    <3> QED
      BY <1>4, <3>2, <3>3, <3>5, <3>6, <3>7, <3>8
  <2>3. CASE q # r /\ q # r + 1
    <3>1. message'[q] = message[q] /\ at'[q] = at[q] /\ (q # 0 => q - 1 # r)
      BY <1>1, <1>3, <2>0, <2>3
    <3>2. Waits(q)' <=> Waits(q)
      BY <1>3, <2>0, <3>1 DEF Waits
    <3> QED
      BY <1>2, <1>3, <2>0, <3>1, <3>2 DEF Inv, Chain
  <2> QED
    BY <2>1, <2>2, <2>3
<1>10. ASSUME NEW q \in Ranks
       PROVE  /\ at'[q] \in 10 .. 13 => offset'[q] = Begin["cpDataSetF"][q]
              /\ at'[q] \in 18 .. 21 => offset'[q] = Begin["cpBC"][q]
  <2>1. CASE q = r
    BY <1>2, <1>3, <1>4, <1>7, <2>1 DEF ChainFile
  <2>2. CASE q # r
    BY <1>2, <1>3, <1>7, <2>2 DEF Inv, Chain
  <2> QED
    BY <2>1, <2>2
<1>11. Chain'
  BY <1>9, <1>10 DEF Chain
<1>12. TypeOK'
  <2>1. \A q \in Ranks : \A i \in DOMAIN message'[q] : message'[q][i] \in Nat
    <3> SUFFICES ASSUME NEW q \in Ranks, NEW i \in DOMAIN message'[q] PROVE message'[q][i] \in Nat
      OBVIOUS
    <3>1. ChainFile(at'[q]) \in Files
      BY DEF ChainFile, Files
    <3>2. Begin[ChainFile(at'[q])][q] \in Nat
      BY <3>1, Constants
    <3>3. ASSUME NEW x \in Nat, NEW j \in DOMAIN <<x>> PROVE <<x>>[j] \in Nat
      OBVIOUS
    <3>4. message'[q] # << >>
      OBVIOUS
    <3> QED
      BY <1>9, <3>2, <3>3, <3>4
  <2> QED
    BY <1>1, <1>3, <1>7, <2>1, Statements DEF Inv, TypeOK
<1>13. HeldNow' /\ Shape' /\ InTime'
  BY <1>1 DEF Inv, HeldNow, Shape, InTime
<1>14. OnDisk'
  BY <1>1, <1>2, OnDiskStays
<1>15. Safe'
  BY <1>1, <1>2, <1>3, SafeStays
<1> QED
  BY <1>3, <1>11, <1>12, <1>13, <1>14, <1>15 DEF Inv

\* A process that writes its files does not write a checkpoint anybody relies on.
LEMMA OthersUntouched ==
  ASSUME Inv, NEW r \in Ranks, running, at[r] \in 1 .. 21
  PROVE  step[r] \in Due /\ step[r] \notin Behind(0)
<1>1. step[r] \in Due /\ step[r] \notin Behind(r)
  BY DEF Inv, Together, Behind
<1>2. Behind(r) = Behind(0)
  BY Constants DEF Inv, Together
<1> QED
  BY <1>1, <1>2

\* A process writes its count.
LEMMA WriteCountKeeps == ASSUME Inv, NEW r \in Ranks, WriteCount(r) PROVE Inv'
<1> DEFINE f == File(r)
           s == step[r]
<1>1. /\ At(r, "count")
      /\ disk' = IF Writes(r, f) THEN [disk EXCEPT ![s][f].count[r] = Cells[f][r]] ELSE disk
      /\ Proceed(r) /\ UNCHANGED <<running, step, scheduler, held, offset, message, cp, backward, crashes>>
  BY DEF WriteCount
<1>2. running /\ at[r] \in {6, 11, 19} /\ at[r] \in 1 .. 23 \ (Collectives \cup {9, 17})
  <2>1. running /\ at[r] \in 1 .. 23 /\ update[at[r]].do = "count"
    BY <1>1, Goes
  <2> QED
    BY <2>1, Does DEF Collectives
<1>3. /\ at' \in [Ranks -> 0 .. 23] /\ at'[r] = at[r] + 1
      /\ \A q \in Ranks \ {r} : at'[q] = at[q]
      /\ \A q \in Ranks : Behind(q)' = Behind(q)
      /\ \A q \in Ranks : Ended(q)' = Ended(q) \/ Ended(q)' = Behind(q)
      /\ Together' /\ s \in Due
  BY <1>1, <1>2, Goes
<1>4. f \in Files /\ f # "cpArrays" /\ CountAt(f) = at[r]
  BY <1>2, Concerns DEF File, Files, CountAt
<1>5. \A g \in Files : g # f /\ g # "cpArrays" => CountAt(g) # CountAt(f)
  BY <1>4 DEF Files, CountAt
<1> HIDE DEF f, s
<1>6. /\ \A t \in Due : t # s => disk'[t] = disk[t]
      /\ \A t \in Due, g \in Files : (t # s \/ g # f) => disk'[t][g] = disk[t][g]
      /\ disk'[s][f].unit = disk[s][f].unit
      /\ disk'[s][f].count = IF Writes(r, f) THEN [disk[s][f].count EXCEPT ![r] = Cells[f][r]] ELSE disk[s][f].count
      /\ disk'[s][f] = [count |-> disk'[s][f].count, unit |-> disk'[s][f].unit]
      /\ disk' = [t \in Due |-> [g \in Files |-> disk'[t][g]]]
  <2> DEFINE file == [count |-> IF Writes(r, f) THEN [disk[s][f].count EXCEPT ![r] = Cells[f][r]] ELSE disk[s][f].count,
                      unit |-> disk[s][f].unit]
  <2>1. disk = [t \in Due |-> [g \in Files |-> [count |-> disk[t][g].count, unit |-> disk[t][g].unit]]]
    BY DEF Inv, Shape
  <2>2. disk[s][f] = [count |-> disk[s][f].count, unit |-> disk[s][f].unit]
    BY <1>3, <1>4, <2>1
  <2>3. disk' = [disk EXCEPT ![s][f] = file]
    <3>1. CASE Writes(r, f)
      <4>1. disk' = [disk EXCEPT ![s] = [disk[s] EXCEPT ![f] =
                        [disk[s][f] EXCEPT !.count = [disk[s][f].count EXCEPT ![r] = Cells[f][r]]]]]
        BY ONLY <1>1, <3>1
      <4>2. ASSUME NEW x PROVE [disk[s][f] EXCEPT !.count = x] = [count |-> x, unit |-> disk[s][f].unit]
        BY <2>2
      <4>3. [disk[s][f] EXCEPT !.count = [disk[s][f].count EXCEPT ![r] = Cells[f][r]]] = file
        BY <3>1, <4>2
      <4> HIDE DEF file
      <4> QED
        BY ONLY <4>1, <4>3
    <3>2. CASE ~Writes(r, f)
      BY ZenonT(40), <1>1, <1>3, <1>4, <2>1, <2>2, <3>2
    <3> QED
      BY <3>1, <3>2
  <2> HIDE DEF file
  <2>4. disk' = [t \in Due |-> [g \in Files |-> IF t = s /\ g = f THEN file ELSE disk[t][g]]]
    BY <2>1, <2>3
  <2>5. \A t \in Due : t # s => disk'[t] = disk[t]
    BY <2>1, <2>3
  <2>6. disk'[s][f] = file
    BY <1>3, <1>4, <2>4
  <2>7. \A t \in Due, g \in Files : (t # s \/ g # f) => disk'[t][g] = disk[t][g]
    BY <2>4
  <2>8. disk' = [t \in Due |-> [g \in Files |-> disk'[t][g]]]
    BY <2>4
  <2> QED
    BY <2>5, <2>6, <2>7, <2>8 DEF file
<1>7. Shape'
  <2> USE DEF Inv
  <2>1. disk'[s][f].count \in [Ranks -> Int]
    BY <1>3, <1>4, <1>6, Constants DEF Inv, Shape
  <2>2. \A t \in Due, g \in Files :
          /\ disk'[t][g] = [count |-> disk'[t][g].count, unit |-> disk'[t][g].unit]
          /\ disk'[t][g].count \in [Ranks -> Int]
    <3> TAKE t \in Due, g \in Files
    <3>1. CASE t = s /\ g = f
      <4>1. disk'[s][f] = [count |-> disk'[s][f].count, unit |-> disk'[s][f].unit]
        BY <1>6
      <4> QED
        BY ONLY <2>1, <3>1, <4>1
    <3>2. CASE ~(t = s /\ g = f)
      <4>1. disk'[t][g] = disk[t][g]
        BY <1>6, <3>2
      <4> QED
        BY ONLY <4>1, Shape DEF Shape
    <3> QED
      BY <3>1, <3>2
  <2>3. disk' = [t \in Due |-> [g \in Files |-> disk'[t][g]]]
    BY <1>6
  <2> QED
    BY ONLY <2>2, <2>3 DEF Shape
<1>8. OnDisk'
  <2> SUFFICES ASSUME NEW q \in Ranks, at'[q] \in 1 .. 21, NEW g \in Files, Writes(q, g)
               PROVE  /\ g # "cpArrays" /\ at'[q] > CountAt(g) => HasCount(step[q], g, q)'
                      /\ at'[q] > UnitsAt(g) => HasUnits(step[q], g, q)'
    BY <1>1 DEF OnDisk, HasCount, HasUnits
  <2>1. at[q] \in 1 .. 21 /\ step[q] \in Due
    BY <1>2, <1>3, Positions DEF Inv, Together
  <2>2. at'[q] > UnitsAt(g) => HasUnits(step[q], g, q)'
    <3>1. at'[q] > UnitsAt(g) => at[q] > UnitsAt(g)
      BY <1>2, <1>3, <2>1, WritesApart
    <3>2. disk'[step[q]][g].unit = disk[step[q]][g].unit
      BY <1>6, <2>1
    <3> QED
      BY <1>1, <1>2, <2>1, <3>1, <3>2 DEF Inv, OnDisk, HasUnits
  <2>3. ASSUME g # "cpArrays", at'[q] > CountAt(g) PROVE HasCount(step[q], g, q)'
    <3>1. CASE q = r /\ g = f
      <4>1. disk'[s][f].count[r] = Cells[f][r]
        BY <1>3, <1>4, <1>6, <3>1 DEF Inv, Shape
      <4> QED
        BY <1>1, <3>1, <4>1 DEF HasCount, s
    <3>2. CASE ~(q = r /\ g = f)
      <4>1. at[q] > CountAt(g)
        BY <1>2, <1>3, <1>4, <1>5, <2>1, <2>3, <3>2, WritesApart
      <4>2. HasCount(step[q], g, q)
        BY <1>2, <2>1, <2>3, <4>1 DEF Inv, OnDisk
      <4>3. disk'[step[q]][g].count[q] = disk[step[q]][g].count[q]
        <5>1. CASE step[q] = s /\ g = f
          <6>1. disk[s][f].count \in [Ranks -> Int] /\ q # r
            BY <1>3, <1>4, <3>2, <5>1 DEF Inv, Shape
          <6> QED
            BY <1>6, <5>1, <6>1
        <5>2. CASE ~(step[q] = s /\ g = f)
          BY <1>6, <2>1, <5>2
        <5> QED
          BY <5>1, <5>2
      <4> QED
        BY <1>1, <4>2, <4>3 DEF HasCount
    <3> QED
      BY <3>1, <3>2
  <2> QED
    BY <2>2, <2>3
<1>9. Safe'
  <2>1. at[r] \in 1 .. 21
    BY <1>2
  <2>2. s \notin Behind(0)
    BY <1>2, <2>1, OthersUntouched DEF s
  <2>3. \A t \in Behind(0) : disk'[t] = disk[t]
    BY <1>6, <2>2 DEF Behind
  <2> QED
    BY <1>1, <1>2, <1>3, <2>3, SafeStays
<1>10. Chain'
  BY <1>1, <1>2, ChainStays
<1>11. TypeOK' /\ HeldNow' /\ InTime'
  <2>1. UNCHANGED <<running, step, scheduler, held, offset, message, cp, backward, crashes>> /\ at' \in [Ranks -> 0 .. 23]
    BY <1>1, <1>3
  <2>2. TypeOK /\ HeldNow /\ InTime
    BY DEF Inv
  <2>3. InTime'
    BY ONLY <2>1, <2>2 DEF InTime
  <2> QED
    BY ONLY SMTT(30), <2>1, <2>2, <2>3, Statements DEF TypeOK, HeldNow
<1>12. Together'
  BY <1>3
<1> QED
  BY <1>7, <1>8, <1>9, <1>10, <1>11, <1>12 DEF Inv

\* A process writes its units of data, at the beginning of its region.
LEMMA WriteUnitsKeeps == ASSUME Inv, NEW r \in Ranks, WriteUnits(r) PROVE Inv'
<1> DEFINE f == File(r)
           s == step[r]
           start == IF f \in Shared THEN 0 ELSE offset[r]
           units == [k \in 1 .. Cells[f][r] |-> Unit(r, f, k, held[r][f][k])]
           file == IF Writes(r, f) THEN Written(disk[s][f], start, units) ELSE disk[s][f]
<1>1. /\ At(r, "units") /\ Proceed(r)
      /\ UNCHANGED <<running, step, scheduler, held, offset, message, cp, backward, crashes>>
  BY DEF WriteUnits
<1>2. running /\ at[r] \in {7, 12, 15, 20} /\ at[r] \in 1 .. 23 \ (Collectives \cup {9, 17})
  <2>1. running /\ at[r] \in 1 .. 23 /\ update[at[r]].do = "units"
    BY <1>1, Goes
  <2> QED
    BY <2>1, Does DEF Collectives
<1>3. /\ at' \in [Ranks -> 0 .. 23] /\ at'[r] = at[r] + 1
      /\ \A q \in Ranks \ {r} : at'[q] = at[q]
      /\ \A q \in Ranks : Behind(q)' = Behind(q)
      /\ \A q \in Ranks : Ended(q)' = Ended(q) \/ Ended(q)' = Behind(q)
      /\ Together' /\ s \in Due
  BY <1>1, <1>2, Goes
<1>4. f \in Files /\ UnitsAt(f) = at[r]
  BY <1>2, Concerns DEF File, Files, UnitsAt
<1>5. \A g \in Files : g # f => UnitsAt(g) # UnitsAt(f)
  BY <1>4 DEF Files, UnitsAt
<1>6. start = Begin[f][r] /\ start \in Nat
  <2>1. CASE f \in Shared
    BY <1>4, <2>1, Constants
  <2>2. CASE f \notin Shared
    <3>1. (f = "cpDataSetF" /\ at[r] \in 10 .. 13) \/ (f = "cpBC" /\ at[r] \in 18 .. 21)
      BY <1>2, <1>4, <2>2, Concerns DEF Files, Shared, UnitsAt
    <3>2. offset[r] = Begin[f][r]
      BY ZenonT(40), <1>2, <3>1 DEF Inv, Chain
    <3> QED
      BY <1>4, <2>2, <3>2, Constants
  <2> QED
    BY <2>1, <2>2
<1>7. units = [k \in 1 .. Cells[f][r] |-> Unit(r, f, k, s)]
  <2>1. \A k \in 1 .. Cells[f][r] : held[r][f][k] = s
    <3>1. held = [q \in Ranks |-> [g \in Files |-> [k \in 1 .. Cells[g][q] |-> step[q]]]]
      BY <1>2 DEF Inv, HeldNow
    <3> HIDE DEF f
    <3> QED
      BY <1>4, <3>1
  <2> QED
    BY <2>1
<1>8. disk' = [disk EXCEPT ![s][f] = file]
  <2>1. CASE Writes(r, f)
    BY <2>1 DEF WriteUnits
  <2>2. CASE ~Writes(r, f)
    <3>1. disk' = disk
      BY <2>2 DEF WriteUnits
    <3>2. disk = [t \in Due |-> [g \in Files |-> [count |-> disk[t][g].count, unit |-> disk[t][g].unit]]]
      BY DEF Inv, Shape
    <3>3. file = disk[s][f]
      BY <2>2
    <3> HIDE DEF file, s, f
    <3> QED
      BY <1>3, <1>4, <3>1, <3>2, <3>3
  <2> QED
    BY <2>1, <2>2
<1>9. /\ Writes(r, f) => \A k \in 1 .. Cells[f][r] :
           start + k \in DOMAIN file.unit /\ file.unit[start + k] = Unit(r, f, k, s)
      /\ \A p \in DOMAIN disk[s][f].unit : p - start \notin 1 .. Cells[f][r] \/ ~Writes(r, f) =>
           p \in DOMAIN file.unit /\ file.unit[p] = disk[s][f].unit[p]
      /\ file = [count |-> disk[s][f].count, unit |-> file.unit]
  <2>1. disk[s][f] = [count |-> disk[s][f].count, unit |-> disk[s][f].unit]
    <3>1. disk = [t \in Due |-> [g \in Files |-> [count |-> disk[t][g].count, unit |-> disk[t][g].unit]]]
      BY DEF Inv, Shape
    <3> QED
      BY <1>3, <1>4, <3>1
  <2>2. CASE Writes(r, f)
    <3> DEFINE there == DOMAIN disk[s][f].unit \cup { start + k : k \in DOMAIN units }
               all == [p \in there |-> IF p - start \in DOMAIN units THEN units[p - start] ELSE disk[s][f].unit[p]]
    <3>1. file = [disk[s][f] EXCEPT !.unit = all]
      BY <2>2 DEF Written
    <3>2. ASSUME NEW x PROVE [disk[s][f] EXCEPT !.unit = x] = [count |-> disk[s][f].count, unit |-> x]
      BY <2>1
    <3>3. file = [count |-> disk[s][f].count, unit |-> all]
      <4> HIDE DEF file, all
      <4> QED
        BY ONLY <3>1, <3>2
    <3>4. file.unit = all
      <4> HIDE DEF file, all
      <4> QED
        BY ONLY <3>3
    <3>5. Cells[f][r] \in Nat /\ DOMAIN units = 1 .. Cells[f][r]
      BY <1>4, Constants
    <3> HIDE DEF file, start, units
    <3>6. \A k \in 1 .. Cells[f][r] : (start + k) - start = k /\ start + k \in there
      BY <1>6, <3>5
    <3>7. \A k \in 1 .. Cells[f][r] : start + k \in DOMAIN all /\ all[start + k] = Unit(r, f, k, s)
      BY <1>7, <3>5, <3>6
    <3>8. \A p \in DOMAIN disk[s][f].unit : p - start \notin 1 .. Cells[f][r] =>
            p \in DOMAIN all /\ all[p] = disk[s][f].unit[p]
      BY <3>5
    <3> HIDE DEF all
    <3> QED
      BY <2>2, <3>3, <3>4, <3>7, <3>8
  <2>3. CASE ~Writes(r, f)
    BY <2>1, <2>3
  <2> QED
    BY <2>2, <2>3
<1> HIDE DEF f, s, start, units, file
<1>10. /\ \A t \in Due : t # s => disk'[t] = disk[t]
       /\ \A t \in Due, g \in Files : (t # s \/ g # f) => disk'[t][g] = disk[t][g]
       /\ disk'[s][f] = file
       /\ disk' = [t \in Due |-> [g \in Files |-> disk'[t][g]]]
  <2>1. disk = [t \in Due |-> [g \in Files |-> [count |-> disk[t][g].count, unit |-> disk[t][g].unit]]]
    BY DEF Inv, Shape
  <2>2. disk' = [t \in Due |-> [g \in Files |-> IF t = s /\ g = f THEN file ELSE disk[t][g]]]
    BY <1>8, <2>1
  <2>3. \A t \in Due : t # s => disk'[t] = disk[t]
    BY <1>8, <2>1
  <2>4. disk'[s][f] = file
    BY <1>3, <1>4, <2>2
  <2>5. \A t \in Due, g \in Files : (t # s \/ g # f) => disk'[t][g] = disk[t][g]
    BY <2>2
  <2>6. disk' = [t \in Due |-> [g \in Files |-> disk'[t][g]]]
    BY <2>2
  <2> QED
    BY <2>3, <2>4, <2>5, <2>6
<1>11. \A t \in Due, g \in Files : disk'[t][g].count = disk[t][g].count
  <2>1. file.count = disk[s][f].count
    BY <1>9
  <2> QED
    BY <1>10, <2>1
<1>12. Shape'
  <2>1. \A t \in Due, g \in Files : disk'[t][g] = [count |-> disk'[t][g].count, unit |-> disk'[t][g].unit]
    <3> TAKE t \in Due, g \in Files
    <3>1. CASE t = s /\ g = f
      <4>1. disk'[s][f] = [count |-> disk[s][f].count, unit |-> file.unit]
        BY <1>9, <1>10
      <4>2. ASSUME NEW x, NEW c, NEW u, x = [count |-> c, unit |-> u] PROVE x = [count |-> x.count, unit |-> x.unit]
        BY <4>2
      <4> QED
        BY ONLY <3>1, <4>1, <4>2
    <3>2. CASE ~(t = s /\ g = f)
      <4>1. disk'[t][g] = disk[t][g]
        BY <1>10, <3>2
      <4>2. Shape
        BY DEF Inv
      <4> QED
        BY ONLY <4>1, <4>2 DEF Shape
    <3> QED
      BY <3>1, <3>2
  <2>2. \A t \in Due, g \in Files : disk'[t][g].count \in [Ranks -> Int]
    BY <1>11 DEF Inv, Shape
  <2>3. disk' = [t \in Due |-> [g \in Files |-> disk'[t][g]]]
    BY <1>10
  <2> QED
    BY ONLY <2>1, <2>2, <2>3 DEF Shape
<1>13. OnDisk'
  <2> SUFFICES ASSUME NEW q \in Ranks, at'[q] \in 1 .. 21, NEW g \in Files, Writes(q, g)
               PROVE  /\ g # "cpArrays" /\ at'[q] > CountAt(g) => HasCount(step[q], g, q)'
                      /\ at'[q] > UnitsAt(g) => HasUnits(step[q], g, q)'
    BY <1>1 DEF OnDisk, HasCount, HasUnits
  <2>1. at[q] \in 1 .. 21 /\ step[q] \in Due
    BY <1>2, <1>3, Positions DEF Inv, Together
  <2>2. g # "cpArrays" /\ at'[q] > CountAt(g) => HasCount(step[q], g, q)'
    <3>1. g # "cpArrays" => CountAt(g) \in {6, 11, 19}
      BY DEF Files, CountAt
    <3>2. g # "cpArrays" /\ at'[q] > CountAt(g) => at[q] > CountAt(g)
      BY <1>2, <1>3, <2>1, <3>1
    <3>3. disk'[step[q]][g].count = disk[step[q]][g].count
      BY <1>11, <2>1
    <3> QED
      BY <1>1, <1>2, <2>1, <3>2, <3>3 DEF Inv, OnDisk, HasCount
  <2>3. ASSUME at'[q] > UnitsAt(g) PROVE HasUnits(step[q], g, q)'
    <3>1. CASE q = r /\ g = f
      <4>1. \A k \in 1 .. Cells[f][r] :
              Begin[f][r] + k \in DOMAIN disk'[s][f].unit /\ disk'[s][f].unit[Begin[f][r] + k] = Unit(r, f, k, s)
        BY <1>6, <1>9, <1>10, <3>1
      <4> QED
        BY <1>1, <3>1, <4>1 DEF HasUnits, s
    <3>2. CASE ~(q = r /\ g = f)
      <4>1. at[q] > UnitsAt(g)
        BY <1>2, <1>3, <1>4, <1>5, <2>1, <2>3, <3>2, WritesApart
      <4>2. HasUnits(step[q], g, q)
        BY <1>2, <2>1, <4>1 DEF Inv, OnDisk
      <4>3. CASE ~(step[q] = s /\ g = f)
        <5>1. disk'[step[q]][g] = disk[step[q]][g]
          BY <1>10, <2>1, <4>3
        <5> QED
          BY <1>1, <4>2, <5>1 DEF HasUnits
      <4>4. CASE step[q] = s /\ g = f
        <5> SUFFICES ASSUME NEW k \in 1 .. Cells[f][q]
                     PROVE  /\ Begin[f][q] + k \in DOMAIN file.unit
                            /\ file.unit[Begin[f][q] + k] = Unit(q, f, k, s)
          BY <1>1, <1>10, <4>4 DEF HasUnits
        <5> DEFINE p == Begin[f][q] + k
        <5>1. p \in DOMAIN disk[s][f].unit /\ disk[s][f].unit[p] = Unit(q, f, k, s)
          BY <4>2, <4>4 DEF HasUnits
        <5>2. CASE f \in Shared
          <6>1. Begin[f][q] = 0 /\ Begin[f][r] = 0 /\ Cells[f][q] = Cells[f][r] /\ Unit(q, f, k, s) = Unit(r, f, k, s)
            BY <5>2, Constants DEF Unit, Owner
          <6>2. start + k = p
            BY <1>6, <6>1
          <6>3. k \in 1 .. Cells[f][r]
            BY <6>1
          <6> HIDE DEF p
          <6>4. CASE Writes(r, f)
            BY <1>9, <6>1, <6>2, <6>3, <6>4 DEF p
          <6>5. CASE ~Writes(r, f)
            BY <1>9, <5>1, <6>5 DEF p
          <6> QED
            BY <6>4, <6>5
        <5>3. CASE f \notin Shared
          <6>1. /\ Begin[f][q] \in Nat /\ Begin[f][r] \in Nat /\ Cells[f][q] \in Nat /\ Cells[f][r] \in Nat
                /\ q \in Nat /\ r \in Nat /\ q # r /\ f \in Files \ Shared
            BY <1>4, <3>2, <4>4, <5>3, Constants
          <6>2. Begin[f][q] + Cells[f][q] <= Begin[f][r] \/ Begin[f][r] + Cells[f][r] <= Begin[f][q]
            BY <6>1, Regions
          <6>3. p - start \notin 1 .. Cells[f][r]
            BY <1>6, <6>1, <6>2
          <6> HIDE DEF p
          <6> QED
            BY <1>9, <5>1, <6>3 DEF p
        <5> QED
          BY <5>2, <5>3
      <4> QED
        BY <4>3, <4>4
    <3> QED
      BY <3>1, <3>2
  <2> QED
    BY <2>2, <2>3
<1>14. Safe'
  <2>1. at[r] \in 1 .. 21
    BY <1>2
  <2>2. s \notin Behind(0)
    BY <1>2, <2>1, OthersUntouched DEF s
  <2>3. \A t \in Behind(0) : disk'[t] = disk[t]
    BY <1>10, <2>2 DEF Behind
  <2> QED
    BY <1>1, <1>2, <1>3, <2>3, SafeStays
<1>15. Chain'
  BY <1>1, <1>2, ChainStays
<1>16. TypeOK' /\ HeldNow' /\ InTime'
  <2>1. UNCHANGED <<running, step, scheduler, held, offset, message, cp, backward, crashes>> /\ at' \in [Ranks -> 0 .. 23]
    BY <1>1, <1>3
  <2>2. TypeOK /\ HeldNow /\ InTime
    BY DEF Inv
  <2>3. InTime'
    BY ONLY <2>1, <2>2 DEF InTime
  <2> QED
    BY ONLY SMTT(30), <2>1, <2>2, <2>3, Statements DEF TypeOK, HeldNow
<1>17. Together'
  BY <1>3
<1> QED
  BY <1>12, <1>13, <1>14, <1>15, <1>16, <1>17 DEF Inv

\* A process empties cp.txt, or has nothing to do with it.
LEMMA TruncateCpKeeps == ASSUME Inv, NEW r \in Ranks, TruncateCp(r) PROVE Inv'
<1>1. /\ At(r, "truncate") /\ cp' = (IF r = 0 THEN NoStep ELSE cp)
      /\ Proceed(r) /\ UNCHANGED <<running, step, scheduler, held, offset, message, disk, backward, crashes>>
  BY DEF TruncateCp
<1>2. running /\ at[r] = 22 /\ at[r] \in 1 .. 23 \ (Collectives \cup {9, 17})
  <2>1. running /\ at[r] \in 1 .. 23 /\ update[at[r]].do = "truncate"
    BY <1>1, Goes
  <2> QED
    BY <2>1, Does DEF Collectives
<1>3. /\ at' \in [Ranks -> 0 .. 23]
      /\ \A q \in Ranks : Behind(q)' = Behind(q)
      /\ \A q \in Ranks : Ended(q)' = Ended(q) \/ Ended(q)' = Behind(q)
      /\ Together'
  BY <1>1, <1>2, Goes
<1>4. TypeOK'
  BY <1>1, <1>3, Statements DEF Inv, TypeOK
<1>5. HeldNow' /\ Shape' /\ InTime'
  BY <1>1 DEF Inv, HeldNow, Shape, InTime
<1>6. Chain'
  BY <1>1, <1>2, ChainStays
<1>7. OnDisk'
  BY <1>1, <1>2, OnDiskStays
<1>8. Safe'
  BY <1>1, <1>2, <1>3, SafeStays
<1>9. Together'
  BY <1>3
<1> QED
  BY <1>4, <1>5, <1>6, <1>7, <1>8, <1>9 DEF Inv

\* The root writes the step into cp.txt: the last one all have behind them.
LEMMA WriteCpKeeps == ASSUME Inv, NEW r \in Ranks, WriteCp(r) PROVE Inv'
<1>1. /\ At(r, "write") /\ cp' = (IF r = 0 THEN step[r] ELSE cp)
      /\ Proceed(r) /\ UNCHANGED <<running, step, scheduler, held, offset, message, disk, backward, crashes>>
  BY DEF WriteCp
<1>2. running /\ at[r] = 23 /\ at[r] \in 1 .. 23 \ (Collectives \cup {9, 17})
  <2>1. running /\ at[r] \in 1 .. 23 /\ update[at[r]].do = "write"
    BY <1>1, Goes
  <2> QED
    BY <2>1, Does DEF Collectives
<1>3. /\ at' \in [Ranks -> 0 .. 23] /\ step[r] \in Due
      /\ \A q \in Ranks : Behind(q)' = Behind(q)
      /\ \A q \in Ranks : Ended(q)' = Ended(q) \/ Ended(q)' = Behind(q)
      /\ Together'
  BY <1>1, <1>2, Goes
<1>4. TypeOK'
  BY <1>1, <1>3, Statements DEF Inv, TypeOK
<1>5. HeldNow' /\ Shape' /\ InTime'
  BY <1>1 DEF Inv, HeldNow, Shape, InTime
<1>6. Chain'
  BY <1>1, <1>2, ChainStays
<1>7. OnDisk'
  BY <1>1, <1>2, OnDiskStays
<1>8. Safe'
  <2>1. step[r] \in Nat
    BY <1>3, Constants
  <2>2. r = 0 => cp' \in Behind(0) /\ \A s \in Behind(0) : s <= cp'
    BY <1>1, <1>2, <1>3, <2>1 DEF Behind
  <2> QED
    BY <1>1, <1>2, <1>3, <2>2, SafeStays
<1>9. Together'
  BY <1>3
<1> QED
  BY <1>4, <1>5, <1>6, <1>7, <1>8, <1>9 DEF Inv
-----------------------------------------------------------------------------
(* The time loop, crashes and restarts keep the invariant *)

\* A process calculates a time step: no other is among the files meanwhile.
LEMMA CalculateKeeps == ASSUME Inv, NEW r \in Ranks, Calculate(r) PROVE Inv'
<1>1. /\ running /\ at[r] = 0 /\ step[r] < MaxStep
      /\ step' = [step EXCEPT ![r] = @ + 1]
      /\ held' = [held EXCEPT ![r] =
           [f \in Files |-> [k \in DOMAIN @[f] |-> IF @[f][k] = None THEN None ELSE @[f][k] + 1]]]
      /\ at' = [at EXCEPT ![r] = IF isDue(scheduler[r], step[r] + 1) THEN 1 ELSE 0]
      /\ scheduler' = [scheduler EXCEPT ![r] = Asked(@, step[r] + 1)]
      /\ UNCHANGED <<running, offset, message, disk, cp, backward, crashes>>
  BY DEF Calculate
<1>2. at \in [Ranks -> 0 .. 23] /\ step \in [Ranks -> Nat]
  BY Positions DEF Inv
<1>3. /\ isDue(scheduler[r], step[r] + 1) <=> step[r] + 1 \in Due
      /\ Waiting(Asked(scheduler[r], step[r] + 1), step[r] + 1)
  <2>1. /\ step[r] \in Nat /\ step[r] + 1 \in Nat /\ step[r] < step[r] + 1
        /\ step[r] + 1 < Infinity /\ step[r] + 1 \in 1 .. MaxStep
    BY <1>1, <1>2, StepsAssumption, SchedulesAssumption
  <2>2. Waiting(scheduler[r], step[r])
    BY <1>1 DEF Inv, InTime
  <2>3. /\ isDue(scheduler[r], step[r] + 1) <=> Scheduled(step[r] + 1)
        /\ Waiting(Asked(scheduler[r], step[r] + 1), step[r] + 1)
    BY <2>1, <2>2, DueOnSchedule
  <2> QED
    BY <2>1, <2>3 DEF Due
<1>4. /\ at' \in [Ranks -> 0 .. 23] /\ at'[r] = (IF step[r] + 1 \in Due THEN 1 ELSE 0) /\ step'[r] = step[r] + 1
      /\ \A q \in Ranks \ {r} : at'[q] = at[q] /\ step'[q] = step[q]
      /\ step' \in [Ranks -> 0 .. MaxStep]
  <2>1. step \in [Ranks -> 0 .. MaxStep] /\ step[r] + 1 \in 0 .. MaxStep
    BY <1>1, <1>2, StepsAssumption DEF Inv, TypeOK
  <2> QED
    BY <1>1, <1>2, <1>3, <2>1
<1>5. \A q \in Ranks : at[q] \in {0, 1, 22, 23}
  <2>1. \A q \in Ranks : at[q] \in 2 .. 21 => (at[r] <= 1 <=> at[q] <= 1)
    BY <1>1 DEF Inv, Together, Collectives
  <2> QED
    BY <1>1, <1>2, <2>1
<1>6. \A q \in Ranks : at'[q] \in {0, 1, 22, 23}
  BY <1>4, <1>5
<1>7. \A q \in Ranks : Behind(q)' = Behind(q) /\ Ended(q)' = Ended(q)
  <2> TAKE q \in Ranks
  <2>1. CASE q = r
    <3> SUFFICES ASSUME NEW s \in Due
                 PROVE  /\ s \in Behind(r)' <=> s \in Behind(r)
                        /\ s \in Ended(r)' <=> s \in Ended(r)
      BY <2>1 DEF Behind, Ended
    <3>1. s \in Nat /\ step[r] \in Nat
      BY <1>2, Constants
    <3>2. s \in Behind(r) <=> s <= step[r]
      BY <1>1 DEF Behind
    <3>3. s \in Ended(r) <=> s <= step[r]
      BY <1>1 DEF Ended
    <3>4. s = step[r] + 1 => at'[r] = 1
      BY <1>4
    <3>5. s \in Behind(r)' <=> s <= step[r]
      BY <1>4, <3>1, <3>4 DEF Behind
    <3>6. s \in Ended(r)' <=> s <= step[r]
      BY <1>4, <3>1, <3>4 DEF Ended
    <3> QED
      BY <3>2, <3>3, <3>5, <3>6
  <2>2. CASE q # r
    BY <1>4, <2>2 DEF Behind, Ended
  <2> QED
    BY <2>1, <2>2
<1>8. TypeOK'
  BY <1>1, <1>4, Statements DEF Inv, TypeOK
<1>9. Together'
  <2>1. \A q \in Ranks : at'[q] # 0 => step'[q] \in Due
    BY <1>1, <1>4 DEF Inv, Together
  <2>2. \A p, q \in Ranks : Behind(p)' = Behind(q)'
    BY <1>1, <1>7 DEF Inv, Together
  <2> QED
    BY <1>6, <2>1, <2>2 DEF Together
<1>10. Shape'
  BY <1>1 DEF Inv, Shape
<1>11. HeldNow'
  <2>1. held = [q \in Ranks |-> [f \in Files |-> [k \in 1 .. Cells[f][q] |-> step[q]]]]
    BY <1>1 DEF Inv, HeldNow
  <2>2. [f \in Files |-> [k \in DOMAIN held[r][f] |-> IF held[r][f][k] = None THEN None ELSE held[r][f][k] + 1]]
        = [f \in Files |-> [k \in 1 .. Cells[f][r] |-> step'[r]]]
    <3>1. step[r] # None
      BY <1>2 DEF None
    <3> QED
      BY <1>4, <2>1, <3>1
  <2>3. held' = [held EXCEPT ![r] = [f \in Files |-> [k \in 1 .. Cells[f][r] |-> step'[r]]]]
    BY <1>1, <2>2
  <2>4. held' = [q \in Ranks |-> [f \in Files |-> [k \in 1 .. Cells[f][q] |-> step'[q]]]]
    BY <1>4, <2>1, <2>3
  <2> QED
    BY <2>4 DEF HeldNow
<1>12. Chain'
  <2>1. \A q \in Ranks : ~Waits(q) /\ ~Waits(q)'
    BY <1>5, <1>6 DEF Waits
  <2>2. \A q \in Ranks : message'[q] = << >>
    BY <1>1, <2>1 DEF Inv, Chain
  <2> QED
    BY <1>6, <2>1, <2>2 DEF Chain
<1>13. OnDisk'
  <2>1. \A q \in Ranks : at'[q] \in 1 .. 21 => at'[q] = 1
    BY <1>6
  <2> QED
    BY <2>1, WritesApart DEF OnDisk
<1>14. Safe'
  BY <1>1, <1>7, SafeStays
<1>15. InTime'
  <2>1. scheduler = [q \in Ranks |-> scheduler[q]] /\ \A q \in Ranks : Waiting(scheduler[q], step[q])
    BY <1>1 DEF Inv, InTime
  <2>2. scheduler' = [q \in Ranks |-> scheduler'[q]]
    BY <1>1, <2>1
  <2>3. scheduler'[r] = Asked(scheduler[r], step[r] + 1) /\ \A q \in Ranks \ {r} : scheduler'[q] = scheduler[q]
    BY <1>1, <2>1
  <2>4. \A q \in Ranks : Waiting(scheduler'[q], step'[q])
    BY <1>4, <1>3, <2>1, <2>3
  <2> QED
    BY ONLY <2>2, <2>4 DEF InTime
<1> QED
  BY <1>8, <1>9, <1>10, <1>11, <1>12, <1>13, <1>14, <1>15 DEF Inv

\* The job dies.
LEMMA CrashKeeps == ASSUME Inv, Crash PROVE Inv'
<1>1. /\ running' = FALSE /\ crashes < MaxCrashes /\ crashes' = crashes + 1
      /\ UNCHANGED <<step, held, at, offset, message, disk, cp, backward>>
  BY DEF Crash, process
<1>2. TypeOK'
  <2>1. crashes' \in 0 .. MaxCrashes
    BY <1>1, StepsAssumption DEF Inv, TypeOK
  <2> QED
    BY <1>1, <2>1 DEF Inv, TypeOK
<1>3. Shape'
  BY <1>1 DEF Inv, Shape
<1>4. Together' /\ HeldNow' /\ Chain' /\ OnDisk' /\ InTime'
  BY <1>1 DEF Together, HeldNow, Chain, OnDisk, InTime
<1>5. Safe'
  <2>1. \A s : Complete(s)' <=> Complete(s)
    BY <1>1, Untouched
  <2>2. ~backward /\ cp # NoStep => Complete(cp)
    BY DEF Inv, Safe
  <2>3. ~backward /\ cp # NoStep => Complete(cp)'
    BY <1>1, <2>2, NamesComplete
  <2> QED
    BY <1>1, <2>3 DEF Safe
<1> QED
  BY <1>2, <1>3, <1>4, <1>5 DEF Inv

\* A new job, at a step from which nothing later is relied on.
LEMMA StartKeeps ==
  ASSUME Inv, NEW s \in 0 .. MaxStep, Start(s), at' = [r \in Ranks |-> 0],
         held' = [r \in Ranks |-> [f \in Files |-> [k \in 1 .. Cells[f][r] |-> s]]],
         UNCHANGED <<disk, cp, backward, crashes>>,
         s = 0 \/ (s \in Due /\ Complete(s)),
         ~backward /\ cp # NoStep => s = cp
  PROVE  Inv'
<1>1. /\ running' = TRUE /\ step' = [r \in Ranks |-> s] /\ scheduler' = [r \in Ranks |-> NewScheduler]
      /\ offset' = [r \in Ranks |-> 0] /\ message' = [r \in Ranks |-> << >>]
  BY DEF Start
<1>2. TypeOK'
  BY <1>1 DEF Inv, TypeOK
<1>3. Shape'
  BY DEF Inv, Shape
<1>4. HeldNow'
  BY <1>1 DEF HeldNow
<1>5. \A r \in Ranks : Behind(r)' = { t \in Due : t <= s } /\ Ended(r)' = { t \in Due : t <= s }
  <2> TAKE r \in Ranks
  <2>1. step'[r] = s /\ at'[r] = 0 /\ 0 \notin 1 .. 21
    BY <1>1
  <2>2. Behind(r)' = { t \in Due : t <= s }
    BY ONLY <2>1 DEF Behind
  <2>3. Ended(r)' = { t \in Due : t <= s }
    BY ONLY <2>1 DEF Ended
  <2> QED
    BY <2>2, <2>3
<1>6. Together'
  <2>1. \A r \in Ranks : at'[r] = 0
    OBVIOUS
  <2>2. \A q, r \in Ranks : Behind(q)' = Behind(r)'
    BY <1>5
  <2> QED
    BY ONLY <2>1, <2>2 DEF Together
<1>7. Chain'
  BY <1>1 DEF Chain, Waits
<1>8. OnDisk'
  BY DEF OnDisk
<1>9. Safe'
  <2>1. \A t : Complete(t)' <=> Complete(t)
    BY Untouched
  <2>2. \A t \in Due : t <= s /\ (\A u \in Due : u <= s => u <= t) => Complete(t)
    <3> SUFFICES ASSUME NEW t \in Due, t <= s, \A u \in Due : u <= s => u <= t PROVE Complete(t)
      OBVIOUS
    <3>1. t \in Nat /\ t # 0 /\ s \in Nat
      BY Constants, StepsAssumption
    <3>2. s # 0 /\ s <= t
      BY <3>1
    <3> QED
      BY <3>1, <3>2
  <2>3. \A r \in Ranks : MaxComplete(Behind(r))' /\ MaxComplete(Ended(r))'
    BY <1>5, <2>1, <2>2 DEF MaxComplete
  <2>4. ~backward /\ cp # NoStep => cp \in { t \in Due : t <= s }
    BY Constants DEF Inv, TypeOK
  <2>5. ~backward /\ cp # NoStep => Complete(cp)
    BY DEF Inv, Safe
  <2>6. Complete(cp)' <=> Complete(cp)
    <3>1. cp' = cp /\ disk' = disk
      OBVIOUS
    <3> QED
      BY ONLY <3>1 DEF Complete, Restored, Readable
  <2>7. ~backward /\ cp # NoStep => \A r \in Ranks : cp \in Behind(r)'
    BY <1>5, <2>4
  <2> QED
    BY <2>3, <2>5, <2>6, <2>7 DEF Safe
<1>10. InTime'
  <2>1. s \in Nat
    BY StepsAssumption
  <2>2. Waiting(NewScheduler, s)
    BY <2>1, NewWaits
  <2> QED
    BY <1>1, <2>2 DEF InTime
<1> QED
  BY <1>2, <1>3, <1>4, <1>6, <1>7, <1>8, <1>9, <1>10 DEF Inv

\* A restart from a checkpoint finds in it the data of its step.
LEMMA RestartKeeps == ASSUME Inv, Restart PROVE Inv'
<1>1. PICK s \in RestartSteps :
        /\ Start(s) /\ at' = [r \in Ranks |-> 0]
        /\ held' = [r \in Ranks |-> [f \in Files |-> [k \in 1 .. Cells[f][r] |-> Restored(s, f, r, k)]]]
        /\ UNCHANGED <<disk, cp, backward, crashes>>
  BY DEF Restart, Resumed
<1>2. s \in Due /\ Complete(s) /\ (~backward /\ cp # NoStep => s = cp)
  <2>1. ~backward /\ cp # NoStep => cp \in Due /\ Complete(cp)
    BY DEF Inv, TypeOK, Safe
  <2> QED
    BY <1>1, <2>1 DEF RestartSteps
<1>3. \A r \in Ranks, f \in Files : \A k \in 1 .. Cells[f][r] : Restored(s, f, r, k) = s
  BY <1>2 DEF Complete
<1>4. held' = [r \in Ranks |-> [f \in Files |-> [k \in 1 .. Cells[f][r] |-> s]]]
  BY <1>1, <1>3
<1>5. s \in 0 .. MaxStep
  BY <1>2, Constants, StepsAssumption
<1> QED
  BY <1>1, <1>2, <1>4, <1>5, StartKeeps

\* A simulation that is begun again has no checkpoint to contradict.
LEMMA StartAnewKeeps == ASSUME Inv, StartAnew PROVE Inv'
<1>1. /\ RestartSteps = {} /\ Start(0) /\ at' = [r \in Ranks |-> 0]
      /\ held' = [r \in Ranks |-> [f \in Files |-> [k \in 1 .. Cells[f][r] |-> 0]]]
      /\ UNCHANGED <<disk, cp, backward, crashes>>
  BY DEF StartAnew
<1>2. ~(~backward /\ cp # NoStep)
  BY <1>1 DEF RestartSteps
<1>3. 0 \in 0 .. MaxStep
  BY StepsAssumption
<1> QED
  BY <1>1, <1>2, <1>3, StartKeeps
-----------------------------------------------------------------------------
(* The theorems *)

\* The simulation begins without a checkpoint.
LEMMA Begins == Init => Inv
<1> SUFFICES ASSUME Init PROVE Inv
  OBVIOUS
<1>1. \A r \in Ranks : Behind(r) = {} /\ Ended(r) = {}
  <2>1. \A r \in Ranks : step[r] = 0
    BY DEF Init
  <2>2. \A s \in Due : ~(s <= 0)
    BY Constants
  <2> QED
    BY <2>1, <2>2 DEF Behind, Ended
<1>2. TypeOK
  BY Statements, StepsAssumption DEF Init, TypeOK, NoStep
<1>3. Together
  BY <1>1 DEF Init, Together
<1>4. Shape
  <2>1. Empty = [count |-> Empty.count, unit |-> Empty.unit] /\ Empty.count \in [Ranks -> Int]
    BY DEF Empty, None
  <2>2. disk = [s \in Due |-> [f \in Files |-> Empty]]
    BY DEF Init
  <2> QED
    BY ONLY <2>1, <2>2 DEF Shape
<1>5. HeldNow
  BY DEF Init, HeldNow
<1>6. Chain /\ OnDisk
  BY DEF Init, Chain, Waits, OnDisk
<1>7. Safe
  BY <1>1 DEF Init, Safe, MaxComplete
<1>8. InTime
  BY NewWaits DEF Init, InTime
<1> QED
  BY <1>2, <1>3, <1>4, <1>5, <1>6, <1>7, <1>8 DEF Inv

\* Every step keeps the invariant.
LEMMA Keeps == Inv /\ [Next]_vars => Inv'
<1> SUFFICES ASSUME Inv, [Next]_vars PROVE Inv'
  OBVIOUS
<1>1. CASE Collective
  BY <1>1, CollectiveKeeps
<1>2. ASSUME NEW r \in Ranks, Act(r) PROVE Inv'
  BY <1>2, CalculateKeeps, ExchangeOffsetKeeps, WriteCountKeeps, WriteUnitsKeeps, TruncateCpKeeps, WriteCpKeeps DEF Act
<1>3. CASE Crash
  BY <1>3, CrashKeeps
<1>4. CASE Restart
  BY <1>4, RestartKeeps
<1>5. CASE StartAnew
  BY <1>5, StartAnewKeeps
<1>6. CASE UNCHANGED vars
  <2>1. UNCHANGED <<running, step, scheduler, held, at, offset, message, disk, cp, backward, crashes>>
    BY <1>6 DEF vars, process
  <2>2. TypeOK' /\ Shape' /\ HeldNow' /\ InTime'
    BY <2>1 DEF Inv, TypeOK, Shape, HeldNow, InTime
  <2>3. Together'
    BY <2>1 DEF Inv, Together, Behind
  <2>4. Chain'
    BY <2>1 DEF Inv, Chain, Waits
  <2>5. OnDisk'
    BY <2>1 DEF Inv, OnDisk, HasCount, HasUnits
  <2>6. Safe'
    <3>1. \A s : Complete(s)' <=> Complete(s)
      BY <2>1, Untouched
    <3>2. Complete(cp)' <=> Complete(cp)
      BY <2>1 DEF Complete, Restored, Readable
    <3>3. \A r \in Ranks : Behind(r)' = Behind(r) /\ Ended(r)' = Ended(r)
      BY <2>1 DEF Behind, Ended
    <3>4. Safe
      BY DEF Inv
    <3> QED
      BY <2>1, <3>1, <3>2, <3>3, <3>4 DEF Safe, MaxComplete
  <2> QED
    BY <2>2, <2>3, <2>4, <2>5, <2>6 DEF Inv
<1> QED
  BY <1>1, <1>2, <1>3, <1>4, <1>5, <1>6 DEF Next, Job

\* The invariant holds of every state of the program.
THEOREM Invariance == Spec => []Inv
  BY Begins, Keeps, PTL DEF Spec

\* The processes of a job are in the time loop or at a statement of update,
\* and cp.txt holds a step that is due or nothing.
THEOREM TypeCorrect == Spec => []TypeOK
<1>1. Inv => TypeOK
  BY DEF Inv
<1> QED
  BY <1>1, Invariance, PTL

\* Whatever has crashed and been restarted, a running job holds the data of the
\* time step it is in, in all its blocks and boundary conditions.
THEOREM RestoredInTime == Spec => []StateOfTimeStep
<1>1. Inv => StateOfTimeStep
  <2> SUFFICES ASSUME Inv, running, NEW r \in Ranks, NEW f \in Files, NEW k \in 1 .. Cells[f][r]
               PROVE  held[r][f][k] = step[r]
    BY DEF StateOfTimeStep
  <2>1. held = [q \in Ranks |-> [g \in Files |-> [j \in 1 .. Cells[g][q] |-> step[q]]]]
    BY DEF Inv, HeldNow
  <2> QED
    BY <2>1
<1> QED
  BY <1>1, Invariance, PTL

\* cp.txt names a complete checkpoint or none.
THEOREM CpNamesComplete == Spec => []CpStepComplete
<1>1. Inv => CpStepComplete
  BY DEF Inv, Safe, CpStepComplete
<1> QED
  BY <1>1, Invariance, PTL

\* A set of due steps that is not empty has a last one.
LEMMA LastOfThem ==
  ASSUME NEW S, S \subseteq Due, S # {}
  PROVE  \E s \in S : \A t \in S : t <= s
<1> DEFINE left == { MaxStep - s : s \in S }
<1>1. MaxStep \in Nat /\ \A s \in S : s \in Nat /\ s <= MaxStep
  BY StepsAssumption, Constants
<1>2. left \subseteq Nat /\ left # {}
  BY <1>1
<1>3. PICK n \in left : \A m \in left : n =< m
  BY <1>2, LeastElement
<1>4. PICK s \in S : n = MaxStep - s
  BY <1>3
<1>5. \A t \in S : MaxStep - s <= MaxStep - t
  BY <1>3, <1>4
<1>6. \A t \in S : t <= s
  BY <1>1, <1>5
<1> QED
  BY <1>6

\* While a checkpoint is written, the last one before it stays complete.
THEOREM AlwaysRecoverable == Spec => []CheckpointSurvives
<1>1. Inv => CheckpointSurvives
  <2> SUFFICES ASSUME Inv, running, NEW r \in Ranks, Ended(r) # {}
               PROVE  Complete(CHOOSE s \in Ended(r) : \A t \in Ended(r) : t <= s)
    BY DEF CheckpointSurvives
  <2> DEFINE last == CHOOSE s \in Ended(r) : \A t \in Ended(r) : t <= s
  <2>1. Ended(r) \subseteq Due
    BY DEF Ended
  <2>2. \E s \in Ended(r) : \A t \in Ended(r) : t <= s
    BY <2>1, LastOfThem
  <2>3. last \in Ended(r) /\ \A t \in Ended(r) : t <= last
    BY <2>2
  <2>4. MaxComplete(Ended(r))
    BY DEF Inv, Safe
  <2> HIDE DEF last
  <2>5. Complete(last)
    BY <2>3, <2>4 DEF MaxComplete
  <2> QED
    BY <2>5 DEF last
<1> QED
  BY <1>1, Invariance, PTL

\* A process writes its checkpoint at the scheduled steps and at no others, also
\* when a new job has begun in the middle of a schedule.
THEOREM OnSchedule == Spec => WrittenOnSchedule
<1> DEFINE A == running /\ running' => \A r \in Ranks :
                  step'[r] # step[r] => (at'[r] # 0 <=> Scheduled(step'[r]))
<1>1. ASSUME Inv, [Next]_vars PROVE [A]_vars
  <2> SUFFICES ASSUME Next, running, running', NEW r \in Ranks, step'[r] # step[r]
               PROVE  at'[r] # 0 <=> Scheduled(step'[r])
    BY <1>1
  <2>1. CASE Collective
    BY <2>1 DEF Collective
  <2>2. ASSUME NEW q \in Ranks, Act(q) PROVE at'[r] # 0 <=> Scheduled(step'[r])
    <3>1. Calculate(q)
      BY <2>2 DEF Act, ExchangeOffset, WriteCount, WriteUnits, TruncateCp, WriteCp
    <3>2. /\ running /\ at[q] = 0 /\ step[q] < MaxStep
          /\ step' = [step EXCEPT ![q] = @ + 1]
          /\ at' = [at EXCEPT ![q] = IF isDue(scheduler[q], step[q] + 1) THEN 1 ELSE 0]
      BY <3>1 DEF Calculate
    <3>3. at \in [Ranks -> 0 .. 23] /\ step \in [Ranks -> Nat]
      BY <1>1, Positions DEF Inv
    <3>4. q = r
      BY <3>2, <3>3
    <3>5. step'[r] = step[r] + 1 /\ (at'[r] # 0 <=> isDue(scheduler[r], step[r] + 1))
      BY <3>2, <3>3, <3>4
    <3>6. step[r] \in Nat /\ step[r] + 1 \in Nat /\ step[r] < step[r] + 1 /\ step[r] + 1 < Infinity
      BY <3>2, <3>3, <3>4, StepsAssumption, SchedulesAssumption
    <3>7. Waiting(scheduler[r], step[r])
      BY <1>1, <3>2 DEF Inv, InTime
    <3>8. isDue(scheduler[r], step[r] + 1) <=> Scheduled(step[r] + 1)
      BY <3>6, <3>7, DueOnSchedule
    <3> QED
      BY <3>5, <3>8
  <2>3. CASE Crash
    BY <2>3 DEF Crash
  <2>4. CASE Restart
    BY <2>4 DEF Restart
  <2>5. CASE StartAnew
    BY <2>5 DEF StartAnew
  <2> QED
    BY <2>1, <2>2, <2>3, <2>4, <2>5 DEF Next, Job
<1>2. Spec => [][A]_vars
  <2> HIDE DEF A
  <2> QED
    BY <1>1, Invariance, PTL DEF Spec
<1> QED
  BY <1>2 DEF WrittenOnSchedule
=============================================================================
