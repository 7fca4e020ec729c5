----------------------------- MODULE UbScheduler -----------------------------
(***************************************************************************)
(* UbScheduler (src/basics/utilities/UbScheduler.h): the times at which an *)
(* observer is due.  Schedules with a begin, an end and a step are merged; *)
(* a scheduler remembers when it was due and when it will be, and is asked *)
(* with one time after the other.                                          *)
(*                                                                         *)
(* Times are whole numbers, the time steps of Simulation::run.             *)
(***************************************************************************)
EXTENDS Integers

CONSTANTS
  Schedules,   \* what addSchedule has been called with
  Infinity     \* Ub::inf, later than every time a scheduler is asked for

ASSUME SchedulesAssumption ==
  /\ Infinity \in Nat /\ Schedules # {}
  /\ Schedules \subseteq [step : Nat \ {0}, begin : Nat, end : 0 .. Infinity]
  /\ \A s \in Schedules : s.begin <= s.end

\* Faulty variant: an end between two steps stays where it is.
EndAsGiven(s) == s
\* addSchedule: an end between two steps is moved to the one before.
Adapted(s) ==
  IF s.end < Infinity THEN [s EXCEPT !.end = s.begin + ((s.end - s.begin) \div s.step) * s.step] ELSE s

schedules == { Adapted(s) : s \in Schedules }

maxT == CHOOSE t \in { s.end : s \in schedules } : \A s \in schedules : s.end <= t

\* The first time of a schedule after searchStart, if there is one.
calcNextDueTimeForSchedule(s, searchStart) ==
  IF searchStart < s.begin THEN {s.begin}
  ELSE { t \in { s.begin + ((searchStart - s.begin) \div s.step + 1) * s.step } : t <= s.end }

\* The first of all schedules; maxT if all have ended.
NextDueTime(searchStart) ==
  LET found == {maxT} \cup UNION { calcNextDueTimeForSchedule(s, searchStart) : s \in schedules }
  IN CHOOSE t \in found : \A u \in found : t <= u

\* The time before the first.
Never == -1
NewScheduler == [lastDueTime |-> Never, nextDueTime |-> NextDueTime(Never)]

\* isDue(t) searches again if the next due time has come, and if t lies in the past.
Ahead(scheduler, t)  == t >= scheduler.nextDueTime /\ t <= maxT
Behindhand(scheduler, t) == t < scheduler.nextDueTime /\ t < scheduler.lastDueTime

\* The search begins at t - 1 and goes on until it is past t or at the end: one
\* turn, or two if t is due.
SearchesOn(t)  == NextDueTime(t - 1) = t /\ t # maxT
actDueTime(t)  == IF SearchesOn(t) THEN t ELSE t - 1
nextDueTime(t) == IF SearchesOn(t) THEN NextDueTime(t) ELSE NextDueTime(t - 1)

\* What isDue(t) returns ...
isDue(scheduler, t) ==
  \/ Ahead(scheduler, t) /\ t \in {actDueTime(t), nextDueTime(t)}
  \/ t < scheduler.nextDueTime /\ t = scheduler.lastDueTime
  \/ Behindhand(scheduler, t) /\ t = NextDueTime(t - 1)

\* ... and what it leaves behind.
Asked(scheduler, t) ==
  [lastDueTime |-> IF Ahead(scheduler, t) /\ isDue(scheduler, t) THEN t ELSE scheduler.lastDueTime,
   nextDueTime |-> IF Ahead(scheduler, t) THEN nextDueTime(t)
                   ELSE IF Behindhand(scheduler, t) THEN NextDueTime(t - 1) ELSE scheduler.nextDueTime]

-----------------------------------------------------------------------------
\* What a user who gives the schedules expects.
Scheduled(t) == \E s \in Schedules : s.begin <= t /\ t <= s.end /\ (t - s.begin) % s.step = 0
=============================================================================
