------------------------------ MODULE Checkpoint ------------------------------
(***************************************************************************)
(* Checkpoints of the CPU solver: MPIIORestartSimulationObserver, and the  *)
(* part of MPIIOSimulationObserver and Simulation::run that it needs.      *)
(*                                                                         *)
(* At a step that is due, all processes empty the files of the checkpoint  *)
(* of that step, write their blocks, distributions and boundary conditions *)
(* to one file after another, each into its own region, and at last the    *)
(* root writes the step into cp.txt.  A process learns where its region    *)
(* begins from the one before it.  A job may die at any time; another one  *)
(* is then started from a checkpoint.                                      *)
(*                                                                         *)
(* MPI_File_open and MPI_File_close are collective: here, as in the        *)
(* libraries in use, no process leaves one before all have come to it.     *)
(* What a process has written stays when it dies (a crash of the machine   *)
(* is not looked at).                                                      *)
(***************************************************************************)
EXTENDS Integers, Sequences, UbScheduler

CONSTANTS
  Size,        \* number of processes
  Cells,       \* Cells[f][r]: the units of data process r has of file f
  Begin,       \* Begin[f][r]: the units of the processes before r
  MaxStep,     \* numberOfTimeSteps
  MaxCrashes   \* bound

Ranks == 0 .. Size - 1
Files == {"cpBlocks", "cpDataSetF", "cpArrays", "cpBC"}

\* cpBlocks and cpArrays hold what all processes know, at the beginning of the
\* file; the others have a region for each process.
Shared == {"cpBlocks", "cpArrays"}

\* Every process has a block, hence data.  Begin is the sum of the earlier Cells.
ASSUME SizeAssumption == Size \in Nat \ {0}
ASSUME CellsAssumption ==
  /\ Cells \in [Files -> [Ranks -> Nat \ {0}]] /\ Begin \in [Files -> [Ranks -> Nat]]
  /\ \A f \in Files : Begin[f][0] = 0
  /\ \A f \in Shared, r \in Ranks : Begin[f][r] = 0 /\ Cells[f][r] = Cells[f][0]
  /\ \A f \in Files \ Shared : \A r \in Ranks \ {0} : Begin[f][r] = Begin[f][r - 1] + Cells[f][r - 1]
ASSUME StepsAssumption == MaxStep \in Nat /\ MaxStep < Infinity /\ MaxCrashes \in Nat

\* The steps whose checkpoints are to be written.
Due == { s \in 1 .. MaxStep : Scheduled(s) }

VARIABLES
  running,    \* whether there is a job
  step,       \* step[r]: the time step process r is in
  scheduler,  \* scheduler[r]: the observer's, of process r
  held,       \* held[r][f][k]: the step of its k-th unit of data for file f
  at,         \* at[r]: the statement of update process r is at, 0 outside
  offset,     \* offset[r]: where its region begins in the file it is at
  message,    \* message[r]: offsets sent to process r
  disk,       \* disk[s][f]: the counts and units in file f of checkpoint s
  cp,         \* what cp.txt holds: a step or ...
  backward,   \* whether users restart from a checkpoint cp.txt does not name
  crashes

process == <<step, scheduler, held, at, offset, message>>
vars    == <<running, process, disk, cp, backward, crashes>>

NoStep == 0     \* ... nothing
None   == -1

-----------------------------------------------------------------------------
(* The files *)

Empty == [count |-> [r \in Ranks |-> None], unit |-> << >>]

\* In a shared file it does not matter which process has written a unit.
Owner(f, r) == IF f \in Shared THEN 0 ELSE r

\* A file with some units beginning at a position written over.
Written(file, position, units) ==
  [file EXCEPT !.unit =
     [p \in DOMAIN @ \cup { position + k : k \in DOMAIN units } |->
        IF p - position \in DOMAIN units THEN units[p - position] ELSE @[p]]]

Unit(r, f, k, s) == [owner |-> Owner(f, r), index |-> k, step |-> s]

\* The count is read by its process, or by all in a shared file; files with
\* regions are read at the sum of all earlier counts, and a count that is
\* missing shifts what follows.
Readable(s, f, r) ==
  f # "cpArrays" => \A q \in (IF f \in Shared THEN {0} ELSE 0 .. r) : disk[s][f].count[q] = Cells[f][q]

\* What process r gets for the k-th unit of a file.
Restored(s, f, r, k) ==
  LET p == Begin[f][r] + k
  IN IF Readable(s, f, r) /\ p \in DOMAIN disk[s][f].unit
        /\ disk[s][f].unit[p].owner = Owner(f, r) /\ disk[s][f].unit[p].index = k
     THEN disk[s][f].unit[p].step ELSE None

Complete(s) == \A f \in Files : \A r \in Ranks : \A k \in 1 .. Cells[f][r] : Restored(s, f, r, k) = s

-----------------------------------------------------------------------------
(* MPIIORestartSimulationObserver::update *)

Statement(do, file) == [do |-> do, file |-> file]

\* One file: open, what is written, close.
Write(f, contents) ==
  <<Statement("open", f)>> \o [i \in DOMAIN contents |-> Statement(contents[i], f)] \o <<Statement("close", f)>>

clearAllFiles == <<Statement("clear", "cpBlocks"), Statement("clear", "cpDataSetF"),
                   Statement("clear", "cpArrays"), Statement("clear", "cpBC")>>
writeBlocks   == Write("cpBlocks", <<"count", "units">>)
writeDataSet  == <<Statement("offset", "cpDataSetF")>> \o Write("cpDataSetF", <<"count", "units">>)
                 \o Write("cpArrays", <<"units">>)
writeBoundaryConds == <<Statement("offset", "cpBC")>> \o Write("cpBC", <<"count", "units">>)
writeCpTimeStep    == <<Statement("truncate", "cp.txt"), Statement("write", "cp.txt")>>

\* Faulty variant: the step is written before the boundary conditions.
StepBeforeBoundaryConds == clearAllFiles \o writeBlocks \o writeDataSet \o writeCpTimeStep \o writeBoundaryConds
update == clearAllFiles \o writeBlocks \o writeDataSet \o writeBoundaryConds \o writeCpTimeStep

At(r, do) == running /\ at[r] # 0 /\ update[at[r]].do = do
File(r)   == update[at[r]].file

\* Faulty variant: update ends one statement late.
AfterLastStatement(i) == IF i > Len(update) THEN 0 ELSE i + 1
\* The next statement, or the end of update.
Following(i) == IF i = Len(update) THEN 0 ELSE i + 1
Proceed(r)   == at' = [at EXCEPT ![r] = Following(@)]

\* Open and close, and the emptying of a file between them.
Collective ==
  /\ \E i \in DOMAIN update :
       /\ update[i].do \in {"clear", "open", "close"}
       /\ \A r \in Ranks : running /\ at[r] = i
       /\ at' = [r \in Ranks |-> Following(i)]
       /\ disk' = IF update[i].do = "clear" THEN [disk EXCEPT ![step[0]][update[i].file] = Empty] ELSE disk
  /\ UNCHANGED <<running, step, scheduler, held, offset, message, cp, backward, crashes>>

\* Faulty variant: a process forwards the offset it has got itself.
OwnOffset(r, f) == IF r = 0 THEN 0 ELSE Head(message[r])
NextOffset(r, f) == (IF r = 0 THEN 0 ELSE Head(message[r])) + Cells[f][r]
\* Faulty variant: the last process but one does not forward the offset.
HasFollowers(r) == r < Size - 2
HasNext(r) == r < Size - 1

\* The chain of offsets: receive from the process before, send to the next.
\* (The send is a few bytes; the next process receives it in any case.)
ExchangeOffset(r) ==
  /\ At(r, "offset") /\ (r # 0 => message[r] # << >>)
  /\ offset' = [offset EXCEPT ![r] = IF r = 0 THEN 0 ELSE Head(message[r])]
  /\ message' = [q \in Ranks |->
       LET rest == IF q = r /\ r # 0 THEN Tail(message[q]) ELSE message[q]
       IN IF q = r + 1 /\ HasNext(r) THEN Append(rest, NextOffset(r, File(r))) ELSE rest]
  /\ Proceed(r) /\ UNCHANGED <<running, step, scheduler, held, disk, cp, backward, crashes>>

\* Only the root writes cpBlocks; all write the same to cpArrays.
Writes(r, f) == f = "cpBlocks" => r = 0

WriteCount(r) ==
  /\ At(r, "count")
  /\ disk' = IF Writes(r, File(r)) THEN [disk EXCEPT ![step[r]][File(r)].count[r] = Cells[File(r)][r]] ELSE disk
  /\ Proceed(r) /\ UNCHANGED <<running, step, scheduler, held, offset, message, cp, backward, crashes>>

WriteUnits(r) ==
  /\ At(r, "units")
  /\ LET f     == File(r)
         units == [k \in 1 .. Cells[f][r] |-> Unit(r, f, k, held[r][f][k])]
     IN disk' = IF Writes(r, f)
                THEN [disk EXCEPT ![step[r]][f] = Written(@, IF f \in Shared THEN 0 ELSE offset[r], units)]
                ELSE disk
  /\ Proceed(r) /\ UNCHANGED <<running, step, scheduler, held, offset, message, cp, backward, crashes>>

\* UbFileOutputASCII opens the file, which empties it; the step is in the
\* file when it is flushed.
TruncateCp(r) ==
  /\ At(r, "truncate")
  /\ cp' = IF r = 0 THEN NoStep ELSE cp
  /\ Proceed(r) /\ UNCHANGED <<running, step, scheduler, held, offset, message, disk, backward, crashes>>

WriteCp(r) ==
  /\ At(r, "write")
  /\ cp' = IF r = 0 THEN step[r] ELSE cp
  /\ Proceed(r) /\ UNCHANGED <<running, step, scheduler, held, offset, message, disk, backward, crashes>>

-----------------------------------------------------------------------------
(* The time loop, crashes and restarts *)

\* The processes of a new job, at a step.
Start(s) ==
  /\ running' = TRUE
  /\ step' = [r \in Ranks |-> s] /\ scheduler' = [r \in Ranks |-> NewScheduler]
  /\ offset' = [r \in Ranks |-> 0] /\ message' = [r \in Ranks |-> << >>]

Init ==
  /\ running = TRUE
  /\ step = [r \in Ranks |-> 0] /\ scheduler = [r \in Ranks |-> NewScheduler]
  /\ held = [r \in Ranks |-> [f \in Files |-> [k \in 1 .. Cells[f][r] |-> 0]]]
  /\ at = [r \in Ranks |-> 0]
  /\ offset = [r \in Ranks |-> 0] /\ message = [r \in Ranks |-> << >>]
  /\ disk = [s \in Due |-> [f \in Files |-> Empty]]
  /\ cp = NoStep /\ crashes = 0
  /\ backward \in BOOLEAN

\* A time step of process r, and notifyObservers.
Calculate(r) ==
  /\ running /\ at[r] = 0 /\ step[r] < MaxStep
  /\ step' = [step EXCEPT ![r] = @ + 1]
  /\ held' = [held EXCEPT ![r] =
       [f \in Files |-> [k \in DOMAIN @[f] |-> IF @[f][k] = None THEN None ELSE @[f][k] + 1]]]
  /\ at' = [at EXCEPT ![r] = IF isDue(scheduler[r], step[r] + 1) THEN 1 ELSE 0]
  /\ scheduler' = [scheduler EXCEPT ![r] = Asked(@, step[r] + 1)]
  /\ UNCHANGED <<running, offset, message, disk, cp, backward, crashes>>

Crash ==
  /\ running /\ crashes < MaxCrashes
  /\ running' = FALSE /\ crashes' = crashes + 1
  /\ UNCHANGED <<process, disk, cp, backward>>

\* Faulty variant: the observers are called for the restored step again.
Notified(s) == IF s \in Due THEN 1 ELSE 0
\* Simulation::Simulation: the first time step is the one after the restored.
Resumed(s) == 0

\* The step a user restarts from: the one in cp.txt, or else one of which all
\* files have been written.
RestartSteps ==
  IF cp # NoStep /\ ~backward THEN {cp} ELSE { s \in Due : Complete(s) }

Restart ==
  /\ ~running
  /\ \E s \in RestartSteps :
       /\ Start(s)
       /\ held' = [r \in Ranks |-> [f \in Files |-> [k \in 1 .. Cells[f][r] |-> Restored(s, f, r, k)]]]
       /\ at' = [r \in Ranks |-> Resumed(s)]
  /\ UNCHANGED <<disk, cp, backward, crashes>>

\* Without a checkpoint the simulation is begun again.
StartAnew ==
  /\ ~running /\ RestartSteps = {}
  /\ Start(0)
  /\ held' = [r \in Ranks |-> [f \in Files |-> [k \in 1 .. Cells[f][r] |-> 0]]]
  /\ at' = [r \in Ranks |-> 0]
  /\ UNCHANGED <<disk, cp, backward, crashes>>

Act(r) == \/ Calculate(r) \/ ExchangeOffset(r) \/ WriteCount(r) \/ WriteUnits(r)
          \/ TruncateCp(r) \/ WriteCp(r)
Job  == Collective \/ \E r \in Ranks : Act(r)
Next == Job \/ Crash \/ Restart \/ StartAnew

\* Processes and MPI go on, and a dead job is started again.
Spec == Init /\ [][Next]_vars /\ WF_vars(Job) /\ WF_vars(Restart) /\ WF_vars(StartAnew)

-----------------------------------------------------------------------------
(* Properties *)

\* The processes of a job are in the time loop or at a statement of update,
\* and cp.txt holds a step that is due or nothing.
TypeOK ==
  /\ running \in BOOLEAN /\ backward \in BOOLEAN /\ crashes \in 0 .. MaxCrashes
  /\ step \in [Ranks -> 0 .. MaxStep]
  /\ at \in [Ranks -> 0 .. Len(update)]
  /\ offset \in [Ranks -> Nat]
  /\ cp \in Due \cup {NoStep}
  /\ \A r \in Ranks : \A i \in DOMAIN message[r] : message[r][i] \in Nat

\* Whatever has crashed and been restarted before, all that a process holds
\* is of its own blocks and of the time step it is in.
StateOfTimeStep ==
  running => \A r \in Ranks : \A f \in Files : \A k \in 1 .. Cells[f][r] : held[r][f][k] = step[r]

\* The step in cp.txt can be restarted from, unless a user has gone back
\* behind it, in which case a later job may be writing it anew.
CpStepComplete == ~backward /\ cp # NoStep => Complete(cp)

\* The last checkpoint that a process has ended, or was restarted from, stays
\* complete while the next one is written: at no moment would a crash leave
\* nothing to restart from.
Ended(r) == { s \in Due : s <= step[r] /\ (s = step[r] => at[r] = 0) }
CheckpointSurvives ==
  running => \A r \in Ranks : Ended(r) # {} =>
    Complete(CHOOSE s \in Ended(r) : \A t \in Ended(r) : t <= s)

\* A process writes a checkpoint at the steps its user has asked for and at no
\* other, also with a new scheduler in the middle of a schedule.
WrittenOnSchedule ==
  [][running /\ running' => \A r \in Ranks :
       step'[r] # step[r] => (at'[r] # 0 <=> Scheduled(step'[r]))]_vars

\* After the last crash the simulation comes to its end with all its
\* checkpoints written: neither the chain of offsets nor a collective
\* operation stops it.
SimulationEnds == <>(\A r \in Ranks : running /\ step[r] = MaxStep /\ at[r] = 0)
=============================================================================
