-------------------------- MODULE Simulation_proofs --------------------------
(***************************************************************************)
(* Proofs about the CPU time loop, for any grid, any number of ranks and   *)
(* levels and any buffering of MPI.  The argument goes from the control of *)
(* the loop (ControlOK: straightStartLevel stands for the lowest set bit   *)
(* of staggeredStep) to the steps every level has made (Counting), from    *)
(* there to the couplings of the levels (Coupled), and from the three to   *)
(* the refinement of NestedTimeStepping; that two levels are never more    *)
(* than one coarse step apart follows from nested time stepping alone.     *)
(*                                                                         *)
(* The second half is about what the ranks exchange.  The messages of a    *)
(* pool carry no number and ranks make different exchanges after different *)
(* steps; the argument numbers the exchanges a level could make, three     *)
(* after every step, and says of every pool which numbers are still under  *)
(* way (InTransit).  That the two ends of a pool agree on which exchanges  *)
(* happen, although each decides it from loop variables of its own,        *)
(* follows from Counting.                                                  *)
(***************************************************************************)
EXTENDS Simulation, NaturalLemmas

-----------------------------------------------------------------------------
(* Shl[k] is a power of two *)

\* A power of two is positive.
LEMMA ShlPositive ==
  \A k \in 0 .. MaxLevel : Shl[k] \in Nat /\ Shl[k] > 0
<1> DEFINE S == { k \in 0 .. MaxLevel : Shl[k] > 0 }
<1>1. 0 \in S
  BY ShiftAssumption, LevelAssumption
<1>2. \A k \in 0 .. MaxLevel - 1 : k \in S => k + 1 \in S
  BY ShiftAssumption, LevelAssumption
<1>3. 0 .. MaxLevel \subseteq S
  <2> HIDE DEF S
  <2> QED
    BY <1>1, <1>2, SegmentInduction, LevelAssumption
<1> QED
  BY <1>3, ShiftAssumption

\* Powers of two multiply by adding their exponents.
LEMMA ShlProduct ==
  ASSUME NEW i \in 0 .. MaxLevel, NEW j \in 0 .. MaxLevel, i + j =< MaxLevel
  PROVE  Shl[i + j] = Shl[i] * Shl[j]
<1> DEFINE S == { k \in 0 .. MaxLevel : i + k =< MaxLevel => Shl[i + k] = Shl[i] * Shl[k] }
<1>1. 0 \in S
  BY ShiftAssumption, LevelAssumption, ShlPositive
<1>2. ASSUME NEW k \in 0 .. MaxLevel - 1, k \in S PROVE k + 1 \in S
  <2>1. CASE i + (k + 1) =< MaxLevel
    <3>1. Shl[k + 1] = 2 * Shl[k] /\ Shl[(i + k) + 1] = 2 * Shl[i + k]
      BY <2>1, ShiftAssumption, LevelAssumption
    <3>2. Shl[i + k] = Shl[i] * Shl[k]
      BY <1>2, <2>1, LevelAssumption
    <3>3. k \in 0 .. MaxLevel /\ i \in Nat /\ k \in Nat /\ i + (k + 1) = (i + k) + 1
      BY LevelAssumption
    <3>4. Shl[i] \in Nat /\ Shl[k] \in Nat
      BY <3>3, ShlPositive
    <3>5. 2 * (Shl[i] * Shl[k]) = Shl[i] * (2 * Shl[k])
      BY <3>4
    <3> QED
      BY <3>1, <3>2, <3>3, <3>5, LevelAssumption
  <2> QED
    BY <2>1, LevelAssumption
<1>3. 0 .. MaxLevel \subseteq S
  <2> HIDE DEF S
  <2> QED
    BY <1>1, <1>2, SegmentInduction, LevelAssumption
<1> QED
  BY <1>3

-----------------------------------------------------------------------------
(* Control: which levels take a step *)

Exchange == {"sendLocal", "prepareRemote", "sendRemote", "receiveRemote"}
Coupling == {"interSendLocal", "interSendRemote", "interReceiveLocal", "interReceiveRemote"}
Substep  == {"preBC", "calculate", "postBC", "swap", "interPrepare", "endSubstep", "notify"}
              \cup Exchange \cup Coupling

ControlType ==
  /\ pc \in [Ranks -> Places]
  /\ calcStep \in [Ranks -> StartTimeStep .. NumberOfTimeSteps + 1]
  /\ staggeredStep \in [Ranks -> 1 .. InternalIterations]
  /\ straightStartLevel \in [Ranks -> MinLevel .. MaxInitLevel]
  /\ threshold \in [Ranks -> Nat \ {0}]
  /\ lvl \in [Ranks -> Levels]
  /\ return \in [Ranks -> {"postBC", "interPrepare", "notify"}]

\* The bits below the one under test are clear.
Searching(r) ==
  /\ staggeredStep[r] < InternalIterations
  /\ threshold[r] = Shl[MaxInitLevel - straightStartLevel[r]]
  /\ \E k \in Nat : staggeredStep[r] = k * threshold[r]

\* straightStartLevel stands for the lowest bit of staggeredStep that is set.
Chosen(r) ==
  \E k \in Nat : /\ staggeredStep[r] = k * Shl[MaxInitLevel - straightStartLevel[r]]
                 /\ straightStartLevel[r] > MinLevel => k % 2 = 1

\* What a rank's place in the loop says about the variables of the loop.
ControlAt(r) ==
  /\ pc[r] # "finished" => calcStep[r] =< NumberOfTimeSteps
  /\ pc[r] = "threshold" => Searching(r)
  /\ pc[r] \in Substep => Chosen(r)
  /\ pc[r] = "calculate" => lvl[r] \in straightStartLevel[r] .. MaxInitLevel
  /\ pc[r] \in Coupling => lvl[r] \in straightStartLevel[r] .. MaxInitLevel - 1
  /\ (pc[r] = "interPrepare" \/ (pc[r] \in Exchange /\ return[r] = "interPrepare"))
       => straightStartLevel[r] < MaxInitLevel
  /\ (pc[r] = "notify" \/ (pc[r] \in Exchange /\ return[r] = "notify"))
       => staggeredStep[r] = InternalIterations

ControlOK == ControlType /\ \A r \in Ranks : ControlAt(r)

\* The ranges the assumptions give the levels and the iterations.
LEMMA LevelFacts ==
  /\ MinLevel \in Nat /\ MaxLevel \in Nat /\ MaxInitLevel \in Nat
  /\ MinLevel =< MaxInitLevel /\ MaxInitLevel =< MaxLevel
  /\ InternalIterations \in Nat /\ InternalIterations > 0
BY LevelAssumption, ShlPositive DEF MaxInitLevel, InternalIterations

\* The search stops before straightStartLevel leaves the levels: a multiple of
\* InternalIterations is not less than InternalIterations.
LEMMA SearchStops ==
  ASSUME ControlOK, NEW r \in Ranks, pc[r] = "threshold"
  PROVE  straightStartLevel[r] > MinLevel
<1>1. Searching(r) /\ straightStartLevel[r] \in MinLevel .. MaxInitLevel
      /\ staggeredStep[r] \in Nat /\ staggeredStep[r] > 0
  BY LevelFacts DEF ControlOK, ControlType, ControlAt
<1>2. SUFFICES ASSUME straightStartLevel[r] = MinLevel PROVE FALSE
  BY <1>1, LevelFacts
<1>3. PICK k \in Nat : staggeredStep[r] = k * InternalIterations
  BY <1>1, <1>2 DEF Searching, InternalIterations
<1>4. k > 0
  BY <1>1, <1>3, LevelFacts
<1>5. k * InternalIterations >= InternalIterations
  BY <1>4, LevelFacts
<1> QED
  BY <1>1, <1>3, <1>5, LevelFacts DEF Searching

\* The loop variables start in range.
LEMMA ControlInit == Init => ControlOK
<1> SUFFICES ASSUME Init PROVE ControlOK
  OBVIOUS
<1>1. ControlType
  BY LevelFacts, StepAssumption DEF Init, ControlType, Places, Levels
<1>2. \A r \in Ranks : ControlAt(r)
  BY StepAssumption DEF Init, ControlAt, Substep, Exchange, Coupling
<1> QED
  BY <1>1, <1>2 DEF ControlOK

\* Steps that leave the loop variables alone.
LEMMA ControlKept ==
  ASSUME ControlOK, NEW r \in Ranks,
         \/ SizeSend(r) \/ SizeReceive(r) \/ InterSizeSend(r) \/ InterSizeReceive(r)
         \/ PreCollisionBC(r) \/ Calculate(r) \/ PostCollisionBC(r) \/ SwapDistributions(r)
         \/ SendLocal(r) \/ PrepareRemote(r) \/ SendBegin(r) \/ SendReturn(r) \/ SendsDone(r)
         \/ ReceiveRemote(r) \/ InterPrepare(r) \/ InterSendLocal(r) \/ InterSendsDone(r)
         \/ InterReceiveLocal(r) \/ InterReceiveRemote(r) \/ Throw(r)
  PROVE  ControlOK'
<1> USE LevelFacts
<1> DEFINE Same == UNCHANGED control /\ \A q \in Ranks \ {r} : UNCHANGED <<pc[q], lvl[q], return[q]>>
<1>0. ControlType /\ \A q \in Ranks : ControlAt(q)
  BY DEF ControlOK
<1>1. Same
  BY <1>0 DEF ControlType, SizeSend, SizeReceive, InterSizeSend, InterSizeReceive,
     PreCollisionBC, Calculate, PostCollisionBC, SwapDistributions, SendLocal, PrepareRemote,
     SendBegin, SendReturn, SendsDone, ReceiveRemote, InterPrepare, InterSendLocal,
     InterSendsDone, InterReceiveLocal, InterReceiveRemote, Throw, Goto, EnterLevelLoop, control
<1>2. ControlType' /\ ControlAt(r)'
  <2> USE DEF ControlType, ControlAt, Goto, EnterLevelLoop, control, Places, Substep, Exchange,
          Coupling, Levels, Chosen, Searching
  <2>1. CASE SizeSend(r) \/ SizeReceive(r) \/ InterSizeSend(r) \/ InterSizeReceive(r)
    BY <1>0, <2>1 DEF SizeSend, SizeReceive, InterSizeSend, InterSizeReceive
  <2>2. CASE PreCollisionBC(r)
    BY <1>0, <2>2 DEF PreCollisionBC
  <2>3. CASE Calculate(r)
    BY <1>0, <2>3 DEF Calculate
  <2>4. CASE PostCollisionBC(r) \/ SwapDistributions(r)
    BY <1>0, <2>4 DEF PostCollisionBC, SwapDistributions
  <2>5. CASE SendLocal(r) \/ PrepareRemote(r) \/ SendBegin(r) \/ SendReturn(r) \/ SendsDone(r)
    BY <1>0, <2>5 DEF SendLocal, PrepareRemote, SendBegin, SendReturn, SendsDone
  <2>6. CASE ReceiveRemote(r)
    BY <1>0, <2>6 DEF ReceiveRemote, MoreToExchange
  <2>7. CASE InterPrepare(r) \/ InterSendLocal(r) \/ InterSendsDone(r)
    BY <1>0, <2>7 DEF InterPrepare, InterSendLocal, InterSendsDone
  <2>8. CASE InterReceiveLocal(r) \/ InterReceiveRemote(r)
    BY <1>0, <2>8 DEF InterReceiveLocal, InterReceiveRemote
  <2>9. CASE Throw(r)
    BY <1>0, <2>9 DEF Throw
  <2> QED
    BY <2>1, <2>2, <2>3, <2>4, <2>5, <2>6, <2>7, <2>8, <2>9
<1> QED
  BY <1>0, <1>1, <1>2 DEF ControlOK, ControlAt, Searching, Chosen, control

\* Select starts at the coarsest level or starts the search.
LEMMA ControlSelect ==
  ASSUME ControlOK, NEW r \in Ranks, Select(r)
  PROVE  ControlOK'
<1> USE LevelFacts
<1>0. ControlType /\ \A q \in Ranks : ControlAt(q)
  BY DEF ControlOK
<1>1. ControlType'
  BY <1>0 DEF Select, Goto, ControlType, Places
<1>2. ControlAt(r)'
  <2>1. CASE staggeredStep[r] = InternalIterations
    <3>1. pc'[r] = "preBC" /\ straightStartLevel'[r] = MinLevel
          /\ staggeredStep'[r] = staggeredStep[r] /\ calcStep'[r] = calcStep[r]
      BY <1>0, <2>1 DEF Select, Goto, ControlType
    <3>2. Chosen(r)'
      BY <2>1, <3>1 DEF Chosen, InternalIterations
    <3> QED
      BY <1>0, <3>1, <3>2 DEF ControlAt, Select, Substep, Exchange, Coupling
  <2>2. CASE staggeredStep[r] # InternalIterations
    <3>1. /\ pc'[r] = "threshold" /\ straightStartLevel'[r] = MaxInitLevel /\ threshold'[r] = 1
          /\ staggeredStep'[r] = staggeredStep[r] /\ calcStep'[r] = calcStep[r]
      BY <1>0, <2>2 DEF Select, Goto, ControlType
    <3>2. Searching(r)'
      BY <1>0, <2>2, <3>1, ShiftAssumption DEF Searching, ControlType
    <3> QED
      BY <1>0, <3>1, <3>2 DEF ControlAt, Select, Substep, Exchange, Coupling
  <2> QED
    BY <2>1, <2>2
<1> QED
  BY <1>0, <1>1, <1>2 DEF ControlOK, ControlAt, ControlType, Searching, Chosen, Select, Goto

\* A test of the search keeps the bits below the tested one clear.
LEMMA ControlThreshold ==
  ASSUME ControlOK, NEW r \in Ranks, Threshold(r)
  PROVE  ControlOK'
<1> USE LevelFacts
<1>0. ControlType /\ \A q \in Ranks : ControlAt(q)
  BY DEF ControlOK
<1>1. pc[r] = "threshold" /\ Searching(r)
  BY <1>0 DEF Threshold, ControlAt
<1>2. straightStartLevel[r] > MinLevel
  BY <1>1, SearchStops
<1>3. /\ threshold[r] \in Nat /\ threshold[r] > 0
      /\ straightStartLevel[r] \in MinLevel .. MaxInitLevel
      /\ staggeredStep[r] \in Nat /\ staggeredStep[r] > 0
  BY <1>0 DEF ControlType
<1>4. PICK k \in Nat : staggeredStep[r] = k * threshold[r]
  BY <1>1 DEF Searching
<1>5. staggeredStep[r] \div threshold[r] = k
  BY <1>3, <1>4, DivideProduct
<1>6. ControlType'
  BY <1>0, <1>2 DEF Threshold, Goto, ControlType, Places
<1>7. ControlAt(r)'
  <2>1. CASE BitIsSet(r)
    <3>1. pc'[r] = "preBC" /\ straightStartLevel'[r] = straightStartLevel[r]
          /\ staggeredStep'[r] = staggeredStep[r] /\ calcStep'[r] = calcStep[r]
      BY <1>0, <2>1 DEF Threshold, Goto, ControlType
    <3>2. k % 2 = 1
      BY <1>5, <2>1 DEF BitIsSet
    <3>3. Chosen(r)'
      BY <1>1, <1>4, <3>1, <3>2 DEF Chosen, Searching
    <3> QED
      BY <1>0, <1>1, <3>1, <3>3 DEF ControlAt, Substep, Exchange, Coupling
  <2>2. CASE ~BitIsSet(r)
    <3>1. /\ pc'[r] = "threshold" /\ straightStartLevel'[r] = straightStartLevel[r] - 1
          /\ threshold'[r] = 2 * threshold[r]
          /\ staggeredStep'[r] = staggeredStep[r] /\ calcStep'[r] = calcStep[r]
      BY <1>0, <1>1, <2>2 DEF Threshold, Goto, ControlType
    <3>2. PICK h \in Nat : k = 2 * h
      <4>1. k % 2 # 1
        BY <1>5, <2>2 DEF BitIsSet
      <4>2. k = 2 * (k \div 2) /\ k \div 2 \in Nat
        BY <4>1
      <4> QED
        BY <4>2
    <3>3. staggeredStep[r] = h * (2 * threshold[r])
      BY <1>3, <1>4, <3>2
    <3>4. Shl[(MaxInitLevel - straightStartLevel[r]) + 1] = 2 * threshold[r]
      <4>1. MaxInitLevel - straightStartLevel[r] \in 0 .. MaxLevel - 1
        BY <1>2, <1>3
      <4> QED
        BY <1>1, <4>1, ShiftAssumption DEF Searching
    <3>5. (MaxInitLevel - straightStartLevel[r]) + 1 = MaxInitLevel - (straightStartLevel[r] - 1)
      BY <1>3
    <3>6. Searching(r)'
      BY <1>1, <3>1, <3>3, <3>4, <3>5 DEF Searching
    <3> QED
      BY <1>0, <1>1, <3>1, <3>6 DEF ControlAt, Substep, Exchange, Coupling
  <2> QED
    BY <2>1, <2>2
<1> QED
  BY <1>0, <1>6, <1>7 DEF ControlOK, ControlAt, ControlType, Searching, Chosen, Threshold, Goto

\* The counters of the two loops stay in range.
LEMMA ControlEndSubstep ==
  ASSUME ControlOK, NEW r \in Ranks, EndSubstep(r) \/ Notify(r)
  PROVE  ControlOK'
<1> USE LevelFacts
<1>0. ControlType /\ \A q \in Ranks : ControlAt(q)
  BY DEF ControlOK
<1>1. CASE EndSubstep(r)
  <2>1. ControlType'
    BY <1>0, <1>1 DEF EndSubstep, Goto, EnterLevelLoop, ControlType, ControlAt, Places, Levels
  <2>2. /\ pc'[r] \in {"select", "sendLocal", "notify"}
        /\ calcStep'[r] = calcStep[r] /\ straightStartLevel'[r] = straightStartLevel[r]
        /\ pc[r] = "endSubstep"
    BY <1>0, <1>1 DEF EndSubstep, Goto, EnterLevelLoop, ControlType
  <2>3. ControlAt(r)'
    <3>1. CASE staggeredStep[r] < InternalIterations
      <4>1. pc'[r] = "select"
        BY <1>0, <1>1, <3>1 DEF EndSubstep, Goto, ControlType
      <4> QED
        BY <1>0, <2>2, <4>1 DEF ControlAt, Substep, Exchange, Coupling
    <3>2. CASE ~(staggeredStep[r] < InternalIterations)
      <4>1. /\ pc'[r] = "notify" \/ (pc'[r] = "sendLocal" /\ return'[r] = "notify")
            /\ staggeredStep'[r] = staggeredStep[r]
        BY <1>0, <1>1, <3>2 DEF EndSubstep, Goto, EnterLevelLoop, ControlType
      <4>2. staggeredStep[r] = InternalIterations
        BY <1>0, <3>2 DEF ControlType
      <4>3. Chosen(r)'
        BY <1>0, <2>2, <4>1 DEF ControlAt, Chosen, Substep
      <4> QED
        BY <1>0, <2>2, <4>1, <4>2, <4>3 DEF ControlAt, Substep, Exchange, Coupling
    <3> QED
      BY <3>1, <3>2
  <2> QED
    BY <1>0, <1>1, <2>1, <2>3 DEF ControlOK, ControlAt, ControlType, Searching, Chosen, EndSubstep,
       Goto, EnterLevelLoop
<1>2. CASE Notify(r)
  <2>1. calcStep[r] \in StartTimeStep .. NumberOfTimeSteps
    BY <1>0, <1>2, StepAssumption DEF Notify, ControlType, ControlAt
  <2>2. /\ calcStep'[r] = calcStep[r] + 1
        /\ pc'[r] = IF calcStep[r] < NumberOfTimeSteps THEN "select" ELSE "finished"
    BY <1>0, <1>2 DEF Notify, Goto, ControlType
  <2>3. ControlType'
    BY <1>0, <1>2, <2>1, StepAssumption DEF Notify, Goto, ControlType, Places
  <2>4. ControlAt(r)'
    BY <2>1, <2>2, StepAssumption DEF ControlAt, Substep, Exchange, Coupling
  <2> QED
    BY <1>0, <1>2, <2>3, <2>4 DEF ControlOK, ControlAt, ControlType, Searching, Chosen, Notify, Goto
<1> QED
  BY <1>1, <1>2

\* The variables that steer the time loop keep to their ranges; above all
\* straightStartLevel, which the search counts down without a test of its own.
THEOREM Control == Spec => []ControlOK
<1>1. ControlOK /\ [Next]_vars => ControlOK'
  <2> SUFFICES ASSUME ControlOK, [Next]_vars PROVE ControlOK'
    OBVIOUS
  <2>1. ASSUME NEW r \in Ranks, Step(r) \/ Throw(r) PROVE ControlOK'
    BY <2>1, ControlKept, ControlSelect, ControlThreshold, ControlEndSubstep DEF Step
  <2>2. CASE UNCHANGED vars
    BY <2>2 DEF vars, control, ControlOK, ControlType, ControlAt, Searching, Chosen
  <2> QED
    BY <2>1, <2>2 DEF Next
<1> QED
  BY ControlInit, <1>1, PTL DEF Spec

-----------------------------------------------------------------------------
(* Counting: on a grid whose coarsest level is level 0 *)

Waiting == {"sizeSend", "sizeReceive", "interSizeSend", "interSizeReceive",
            "select", "threshold", "preBC", "finished"}

\* The steps of level l after n staggered steps of the current time step.
Elapsed(r, l, n) ==
  (calcStep[r] - StartTimeStep) * Shl[l] + n \div Shl[MaxLevel - l]

DistType == dist \in [Ranks -> [Levels -> Version]]

Counts(r) ==
  \A l \in Levels :
    dist[r][l].step =
      Elapsed(r, l, IF pc[r] \in Waiting \/ (pc[r] = "calculate" /\ lvl[r] =< l)
                      THEN staggeredStep[r] - 1 ELSE staggeredStep[r])

Counting == DistType /\ \A r \in Ranks : Counts(r)

\* A level below straightStartLevel is not due, ...
LEMMA NotDue ==
  ASSUME MinLevel = 0, ControlOK, NEW r \in Ranks, Chosen(r),
         NEW l \in Levels, l < straightStartLevel[r]
  PROVE  staggeredStep[r] \div Shl[MaxLevel - l] = (staggeredStep[r] - 1) \div Shl[MaxLevel - l]
<1> DEFINE L == straightStartLevel[r]
           s == staggeredStep[r]
           d == Shl[MaxLevel - l]
           e == Shl[L - l - 1]
           t == Shl[MaxLevel - L]
<1>1. /\ L \in 0 .. MaxLevel /\ s \in Nat /\ s > 0 /\ l \in Nat /\ MaxLevel \in Nat
      /\ MaxInitLevel = MaxLevel
  BY LevelFacts DEF ControlOK, ControlType, Levels, MaxInitLevel
<1>2. d \in Nat /\ d > 0 /\ e \in Nat /\ t \in Nat /\ t > 0
  BY <1>1, ShlPositive
<1>3. d = t * (2 * e)
  <2>1. Shl[(L - l - 1) + 1] = 2 * e
    <3>1. L - l - 1 \in 0 .. MaxLevel - 1
      BY <1>1
    <3> QED
      BY <3>1, ShiftAssumption
  <2>2. Shl[(MaxLevel - L) + (L - l)] = t * Shl[L - l]
    <3>1. MaxLevel - L \in 0 .. MaxLevel /\ L - l \in 0 .. MaxLevel
          /\ (MaxLevel - L) + (L - l) =< MaxLevel
      BY <1>1
    <3> QED
      BY <3>1, ShlProduct
  <2>3. (L - l - 1) + 1 = L - l /\ (MaxLevel - L) + (L - l) = MaxLevel - l
    BY <1>1
  <2> QED
    BY <2>1, <2>2, <2>3
<1>4. PICK k \in Nat : s = k * t /\ k % 2 = 1
  BY <1>1, LevelFacts DEF Chosen
<1> HIDE DEF s, d, e, t
<1>5. s % d # 0
  <2>1. SUFFICES ASSUME s % d = 0 PROVE FALSE
    OBVIOUS
  <2> DEFINE q == s \div d
  <2>2. s = d * q /\ q \in Nat
    BY <1>1, <1>2, <2>1 DEF s
  <2> HIDE DEF q
  <2>3. k * t = (2 * (e * q)) * t
    BY <1>2, <1>3, <1>4, <2>2
  <2>4. e * q \in Nat
    BY <1>2, <2>2
  <2>5. k = 2 * (e * q)
    <3> DEFINE m == e * q
    <3> HIDE DEF m
    <3>1. k * t = (2 * m) * t /\ m \in Nat
      BY <2>3, <2>4 DEF m
    <3>2. k = 2 * m
      BY <1>2, <3>1, DivideProduct
    <3> QED
      BY <3>2 DEF m
  <2> QED
    BY <1>4, <2>4, <2>5
<1>6. s - 1 \in Nat /\ (s - 1) + 1 = s
  BY <1>1 DEF s
<1>7. s \div d = (s - 1) \div d
  BY <1>2, <1>5, <1>6, DivideSuccessor
<1> QED
  BY <1>7 DEF s, d

\* ... and every level from straightStartLevel on is.
LEMMA Due ==
  ASSUME MinLevel = 0, ControlOK, NEW r \in Ranks, Chosen(r),
         NEW l \in Levels, l >= straightStartLevel[r]
  PROVE  /\ staggeredStep[r] % Shl[MaxLevel - l] = 0
         /\ staggeredStep[r] \div Shl[MaxLevel - l]
              = (staggeredStep[r] - 1) \div Shl[MaxLevel - l] + 1
<1> DEFINE L == straightStartLevel[r]
           s == staggeredStep[r]
           d == Shl[MaxLevel - l]
           e == Shl[l - L]
<1>1. /\ L \in 0 .. MaxLevel /\ s \in Nat /\ s > 0 /\ l \in Nat /\ l =< MaxLevel
      /\ MaxLevel \in Nat /\ MaxInitLevel = MaxLevel
  BY LevelFacts DEF ControlOK, ControlType, Levels, MaxInitLevel
<1>2. d \in Nat /\ d > 0 /\ e \in Nat
  BY <1>1, ShlPositive
<1>3. Shl[MaxLevel - L] = d * e
  <2>1. MaxLevel - l \in 0 .. MaxLevel /\ l - L \in 0 .. MaxLevel
        /\ (MaxLevel - l) + (l - L) =< MaxLevel
        /\ (MaxLevel - l) + (l - L) = MaxLevel - L
    BY <1>1
  <2> QED
    BY <2>1, ShlProduct
<1>4. PICK k \in Nat : s = k * (d * e)
  BY <1>1, <1>3 DEF Chosen
<1> HIDE DEF s, d, e
<1>5. s = (k * e) * d /\ k * e \in Nat
  BY <1>2, <1>4
<1>6. s % d = 0
  BY <1>2, <1>5, DivideProduct
<1>7. s - 1 \in Nat /\ (s - 1) + 1 = s
  BY <1>1 DEF s
<1>8. s \div d = (s - 1) \div d + 1
  BY <1>2, <1>6, <1>7, DivideSuccessor
<1> QED
  BY <1>6, <1>8 DEF s, d

\* A full time step of 2^MaxLevel staggered steps is 2^l steps of level l.
LEMMA FullStep ==
  ASSUME MinLevel = 0, NEW l \in Levels
  PROVE  InternalIterations \div Shl[MaxLevel - l] = Shl[l]
<1>1. l \in 0 .. MaxLevel /\ MaxLevel - l \in 0 .. MaxLevel /\ l + (MaxLevel - l) =< MaxLevel
      /\ l + (MaxLevel - l) = MaxLevel - 0 - 0
  BY LevelFacts DEF Levels
<1>2. InternalIterations = Shl[l] * Shl[MaxLevel - l]
  BY <1>1, ShlProduct DEF InternalIterations, MaxInitLevel
<1> QED
  BY <1>1, <1>2, ShlPositive, DivideProduct

\* No level has stepped at the start.
LEMMA CountingInit == MinLevel = 0 /\ Init => Counting
<1> SUFFICES ASSUME MinLevel = 0, Init PROVE Counting
  OBVIOUS
<1>1. DistType
  BY DEF Init, DistType, Version, Stages, Initial
<1>2. ASSUME NEW r \in Ranks, NEW l \in Levels
      PROVE  dist[r][l].step = Elapsed(r, l, 0)
  <2>1. Shl[l] \in Nat /\ Shl[MaxLevel - l] \in Nat /\ Shl[MaxLevel - l] > 0
    BY LevelFacts, ShlPositive DEF Levels
  <2>2. 0 \div Shl[MaxLevel - l] = 0
    BY <2>1
  <2>3. (StartTimeStep - StartTimeStep) * Shl[l] = 0
    BY <2>1, StepAssumption
  <2> QED
    BY <2>2, <2>3 DEF Init, Initial, Elapsed
<1>3. \A r \in Ranks : pc[r] \in Waiting /\ staggeredStep[r] - 1 = 0
  BY DEF Init, Waiting
<1> QED
  BY <1>1, <1>2, <1>3 DEF Counting, Counts

\* Steps that neither count nor move a level.
LEMMA CountingKept ==
  ASSUME ControlOK, Counting, NEW r \in Ranks,
         \/ SizeSend(r) \/ SizeReceive(r) \/ InterSizeSend(r) \/ InterSizeReceive(r)
         \/ Select(r) \/ Threshold(r)
         \/ SendLocal(r) \/ PrepareRemote(r) \/ SendBegin(r) \/ SendReturn(r) \/ SendsDone(r)
         \/ ReceiveRemote(r) \/ InterPrepare(r) \/ InterSendLocal(r) \/ InterSendsDone(r)
         \/ InterReceiveLocal(r) \/ InterReceiveRemote(r) \/ Throw(r)
  PROVE  Counting'
<1>1. ControlType
  BY DEF ControlOK
<1>2. UNCHANGED <<dist, calcStep, staggeredStep>>
  BY DEF SizeSend, SizeReceive, InterSizeSend, InterSizeReceive, Select, Threshold, SendLocal,
     PrepareRemote, SendBegin, SendReturn, SendsDone, ReceiveRemote, InterPrepare, InterSendLocal,
     InterSendsDone, InterReceiveLocal, InterReceiveRemote, Throw, control, data
<1>3. \A q \in Ranks : /\ pc'[q] \in Waiting <=> pc[q] \in Waiting
                       /\ pc'[q] = "calculate" <=> pc[q] = "calculate"
                       /\ pc'[q] = "calculate" => lvl'[q] = lvl[q]
  <2> USE DEF ControlType, Goto, EnterLevelLoop, Waiting
  <2>1. CASE SizeSend(r) \/ SizeReceive(r) \/ InterSizeSend(r) \/ InterSizeReceive(r)
    BY <1>1, <2>1 DEF SizeSend, SizeReceive, InterSizeSend, InterSizeReceive
  <2>2. CASE Select(r) \/ Threshold(r)
    BY <1>1, <2>2 DEF Select, Threshold
  <2>3. CASE SendLocal(r) \/ PrepareRemote(r) \/ SendBegin(r) \/ SendReturn(r) \/ SendsDone(r)
    BY <1>1, <2>3 DEF SendLocal, PrepareRemote, SendBegin, SendReturn, SendsDone
  <2>4. CASE ReceiveRemote(r)
    BY <1>1, <2>4 DEF ReceiveRemote
  <2>5. CASE InterPrepare(r) \/ InterSendLocal(r) \/ InterSendsDone(r)
    BY <1>1, <2>5 DEF InterPrepare, InterSendLocal, InterSendsDone
  <2>6. CASE InterReceiveLocal(r) \/ InterReceiveRemote(r) \/ Throw(r)
    BY <1>1, <2>6 DEF InterReceiveLocal, InterReceiveRemote, Throw
  <2> QED
    BY <2>1, <2>2, <2>3, <2>4, <2>5, <2>6
<1> QED
  BY <1>2, <1>3 DEF Counting, DistType, Counts, Elapsed

\* SetStage keeps the step of every level.
LEMMA StageOnly ==
  ASSUME DistType, NEW r \in Ranks, NEW stage \in Stages, SetStage(r, stage)
  PROVE  /\ DistType'
         /\ \A q \in Ranks, l \in Levels : dist'[q][l].step = dist[q][l].step
BY DEF SetStage, DistType, Version

\* The frame of a step of rank r.
LEMMA OtherRanksCount ==
  ASSUME Counting, NEW r \in Ranks, NEW q \in Ranks, q # r,
         UNCHANGED <<pc[q], lvl[q], calcStep[q], staggeredStep[q], dist[q]>>
  PROVE  Counts(q)'
BY DEF Counting, Counts, Elapsed

\* On entering the loop over the levels those not due count as done.
LEMMA CountingPreBC ==
  ASSUME MinLevel = 0, ControlOK, Counting, NEW r \in Ranks, PreCollisionBC(r)
  PROVE  Counting'
<1>1. ControlType /\ Chosen(r) /\ DistType
  BY DEF ControlOK, ControlAt, Substep, PreCollisionBC, Counting
<1>2. DistType' /\ \A q \in Ranks, l \in Levels : dist'[q][l].step = dist[q][l].step
  BY <1>1, StageOnly DEF PreCollisionBC, Stages
<1>3. /\ pc[r] = "preBC" /\ pc'[r] = "calculate" /\ lvl'[r] = straightStartLevel[r]
      /\ UNCHANGED <<calcStep, staggeredStep>>
      /\ \A q \in Ranks \ {r} : UNCHANGED <<pc[q], lvl[q]>>
  BY <1>1 DEF PreCollisionBC, EnterLevelLoop, Goto, ControlType, control
<1>4. Counts(r)'
  <2>1. SUFFICES ASSUME NEW l \in Levels
                 PROVE  dist[r][l].step =
                          Elapsed(r, l, IF straightStartLevel[r] =< l
                                          THEN staggeredStep[r] - 1 ELSE staggeredStep[r])
    BY <1>2, <1>3 DEF Counts, Elapsed, Waiting
  <2>2. dist[r][l].step = Elapsed(r, l, staggeredStep[r] - 1)
    BY <1>3 DEF Counting, Counts, Waiting
  <2>3. CASE straightStartLevel[r] =< l
    BY <2>2, <2>3
  <2>4. CASE ~(straightStartLevel[r] =< l)
    <3>1. l < straightStartLevel[r]
      BY <1>1, <2>4, LevelFacts DEF ControlType, Levels
    <3> QED
      BY <1>1, <2>2, <2>4, <3>1, NotDue DEF Elapsed
  <2> QED
    BY <2>3, <2>4
<1>5. \A q \in Ranks \ {r} : Counts(q)'
  BY <1>2, <1>3 DEF Counting, Counts, Elapsed
<1> QED
  BY <1>2, <1>4, <1>5 DEF Counting

\* Calculate makes the due step of one level.
LEMMA CountingCalculate ==
  ASSUME MinLevel = 0, ControlOK, Counting, NEW r \in Ranks, Calculate(r)
  PROVE  Counting'
<1> DEFINE k == lvl[r]
<1>1. /\ ControlType /\ Chosen(r) /\ DistType
      /\ k \in straightStartLevel[r] .. MaxInitLevel /\ k \in Levels
      /\ MaxInitLevel = MaxLevel
  BY LevelFacts DEF ControlOK, ControlType, ControlAt, Substep, Calculate, Counting, MaxInitLevel
<1>2. /\ pc[r] = "calculate"
      /\ UNCHANGED <<calcStep, staggeredStep>>
      /\ \A q \in Ranks \ {r} : UNCHANGED <<pc[q], lvl[q], dist[q]>>
  BY <1>1 DEF Calculate, EnterLevelLoop, Goto, ControlType, DistType, control
<1>3. \/ pc'[r] = "calculate" /\ lvl'[r] = k + 1
      \/ pc'[r] = "sendLocal" /\ k = MaxLevel
  BY <1>1, LevelFacts DEF Calculate, EnterLevelLoop, Goto, ControlType
<1>4. /\ DistType'
      /\ dist'[r][k].step = dist[r][k].step + 1
      /\ \A l \in Levels \ {k} : dist'[r][l] = dist[r][l]
  BY <1>1 DEF Calculate, DistType, Version, Stages
<1>5. Counts(r)'
  <2>1. SUFFICES ASSUME NEW l \in Levels
                 PROVE  dist'[r][l].step =
                          Elapsed(r, l, IF k + 1 =< l
                                          THEN staggeredStep[r] - 1 ELSE staggeredStep[r])
    <3>1. k \in Int /\ \A j \in Levels : j \in Int /\ j =< MaxLevel
      BY <1>1, LevelFacts DEF Levels
    <3> QED
      BY <1>2, <1>3, <3>1 DEF Counts, Elapsed, Waiting
  <2>2. dist[r][l].step = Elapsed(r, l, IF k =< l THEN staggeredStep[r] - 1 ELSE staggeredStep[r])
    BY <1>2 DEF Counting, Counts, Waiting
  <2>3. CASE l # k
    <3>1. (k =< l) <=> (k + 1 =< l)
      BY <1>1, <2>3, LevelFacts DEF Levels
    <3> QED
      BY <1>4, <2>2, <2>3, <3>1
  <2>4. CASE l = k
    <3> DEFINE c == (calcStep[r] - StartTimeStep) * Shl[k]
               n == (staggeredStep[r] - 1) \div Shl[MaxLevel - k]
    <3>1. staggeredStep[r] \div Shl[MaxLevel - k] = n + 1
      BY <1>1, LevelFacts, Due DEF ControlType
    <3>2. dist[r][k].step = c + n
      BY <2>2, <2>4, <1>1, LevelFacts DEF Elapsed, Levels
    <3>3. c \in Int /\ n \in Int
      <4>1. calcStep[r] - StartTimeStep \in Int /\ Shl[k] \in Int
        BY <1>1, StepAssumption, LevelFacts, ShlPositive DEF ControlType, Levels
      <4>2. staggeredStep[r] - 1 \in Int /\ Shl[MaxLevel - k] \in Int /\ Shl[MaxLevel - k] > 0
        BY <1>1, LevelFacts, ShlPositive DEF ControlType, Levels
      <4> QED
        BY <4>1, <4>2
    <3>4. Elapsed(r, k, staggeredStep[r]) = c + (n + 1)
      BY <3>1 DEF Elapsed
    <3>5. ~(k + 1 =< k)
      BY <1>1, LevelFacts DEF Levels
    <3> HIDE DEF c, n
    <3>6. dist'[r][k].step = (c + n) + 1
      BY <1>4, <3>2
    <3> QED
      BY <2>4, <3>3, <3>4, <3>5, <3>6
  <2> QED
    BY <2>3, <2>4
<1>6. \A q \in Ranks \ {r} : Counts(q)'
  BY <1>2, OtherRanksCount
<1> QED
  BY <1>4, <1>5, <1>6 DEF Counting

\* Boundary conditions and the swap count nothing.
LEMMA CountingStages ==
  ASSUME ControlOK, Counting, NEW r \in Ranks, PostCollisionBC(r) \/ SwapDistributions(r)
  PROVE  Counting'
<1>1. ControlType /\ DistType
  BY DEF ControlOK, Counting
<1>2. DistType' /\ \A q \in Ranks, l \in Levels : dist'[q][l].step = dist[q][l].step
  BY <1>1, StageOnly DEF PostCollisionBC, SwapDistributions, Stages
<1>3. /\ UNCHANGED <<calcStep, staggeredStep>>
      /\ \A q \in Ranks : /\ pc'[q] \in Waiting <=> pc[q] \in Waiting
                          /\ pc'[q] = "calculate" <=> pc[q] = "calculate"
                          /\ pc'[q] = "calculate" => lvl'[q] = lvl[q]
  BY <1>1 DEF PostCollisionBC, SwapDistributions, EnterLevelLoop, Goto, ControlType, control, Waiting
<1> QED
  BY <1>2, <1>3 DEF Counting, Counts, Elapsed

\* The next staggered step begins with every level where it stands.
LEMMA CountingEndSubstep ==
  ASSUME ControlOK, Counting, NEW r \in Ranks, EndSubstep(r)
  PROVE  Counting'
<1>1. ControlType /\ DistType
  BY DEF ControlOK, Counting
<1>2. /\ UNCHANGED <<calcStep, dist>>
      /\ \A q \in Ranks \ {r} : UNCHANGED <<pc[q], lvl[q], staggeredStep[q]>>
  BY <1>1 DEF EndSubstep, EnterLevelLoop, Goto, ControlType, data
<1>3. \/ pc'[r] = "select" /\ staggeredStep'[r] - 1 = staggeredStep[r]
      \/ pc'[r] \in {"sendLocal", "notify"} /\ staggeredStep'[r] = staggeredStep[r]
  BY <1>1, LevelFacts DEF EndSubstep, EnterLevelLoop, Goto, ControlType
<1>4. \A l \in Levels : dist[r][l].step = Elapsed(r, l, staggeredStep[r])
  BY DEF EndSubstep, Counting, Counts, Waiting
<1>5. Counts(r)'
  BY <1>2, <1>3, <1>4 DEF Counts, Elapsed, Waiting
<1> QED
  BY <1>1, <1>2, <1>5, OtherRanksCount DEF Counting, DistType

\* The next time step begins with every level where it stands.
LEMMA CountingNotify ==
  ASSUME MinLevel = 0, ControlOK, Counting, NEW r \in Ranks, Notify(r)
  PROVE  Counting'
<1>1. ControlType /\ DistType /\ staggeredStep[r] = InternalIterations
  BY DEF ControlOK, ControlAt, Counting, Notify
<1>2. /\ UNCHANGED dist
      /\ \A q \in Ranks \ {r} : UNCHANGED <<pc[q], lvl[q], staggeredStep[q], calcStep[q]>>
  BY <1>1 DEF Notify, Goto, ControlType, data
<1>3. pc'[r] \in Waiting /\ staggeredStep'[r] - 1 = 0 /\ calcStep'[r] = calcStep[r] + 1
  BY <1>1 DEF Notify, Goto, ControlType, Waiting
<1>4. Counts(r)'
  <2>1. SUFFICES ASSUME NEW l \in Levels
                 PROVE  dist[r][l].step = (calcStep'[r] - StartTimeStep) * Shl[l]
                                            + (staggeredStep'[r] - 1) \div Shl[MaxLevel - l]
    BY <1>2, <1>3 DEF Counts, Elapsed
  <2>2. dist[r][l].step = (calcStep[r] - StartTimeStep) * Shl[l] + Shl[l]
    BY <1>1, FullStep DEF Notify, Counting, Counts, Waiting, Elapsed
  <2>3. /\ Shl[l] \in Nat /\ Shl[MaxLevel - l] \in Nat /\ Shl[MaxLevel - l] > 0
        /\ calcStep[r] \in Int /\ StartTimeStep \in Int
    BY <1>1, LevelFacts, ShlPositive, StepAssumption DEF ControlType, Levels
  <2>4. (staggeredStep'[r] - 1) \div Shl[MaxLevel - l] = 0
    BY <1>3, <2>3
  <2>5. (calcStep[r] + 1 - StartTimeStep) * Shl[l] = (calcStep[r] - StartTimeStep) * Shl[l] + Shl[l]
    BY <2>3
  <2>6. (calcStep'[r] - StartTimeStep) * Shl[l] = dist[r][l].step /\ dist[r][l].step \in Int
    BY <1>3, <2>2, <2>3, <2>5
  <2> QED
    BY <2>4, <2>6
<1> QED
  BY <1>1, <1>2, <1>4, OtherRanksCount DEF Counting, DistType

\* Every level has made the steps its time step allows.
LEMMA CountingInvariant == ASSUME MinLevel = 0 PROVE Spec => []Counting
<1>1. ControlOK /\ Counting /\ [Next]_vars => Counting'
  <2> SUFFICES ASSUME ControlOK, Counting, [Next]_vars PROVE Counting'
    OBVIOUS
  <2>1. ASSUME NEW r \in Ranks, Step(r) \/ Throw(r) PROVE Counting'
    BY <2>1, CountingKept, CountingPreBC, CountingCalculate, CountingStages, CountingEndSubstep,
       CountingNotify DEF Step
  <2>2. CASE UNCHANGED vars
    BY <2>2 DEF vars, control, data, Counting, DistType, Counts, Elapsed
  <2> QED
    BY <2>1, <2>2 DEF Next
<1> QED
  BY CountingInit, Control, <1>1, PTL DEF Spec

\* On a grid with blocks of level 0, whatever the ranks, the number of levels
\* and of time steps: observers see all levels at the time they are told.
THEOREM ObserversInTime == ASSUME MinLevel = 0 PROVE Spec => []ObserversSeeOneTime
<1>1. ControlOK /\ Counting => ObserversSeeOneTime
  <2> SUFFICES ASSUME ControlOK, Counting, NEW r \in Ranks, pc[r] = "notify", NEW l \in Levels
               PROVE  dist[r][l].step = (calcStep[r] - StartTimeStep + 1) * Shl[l - MinLevel]
    BY DEF ObserversSeeOneTime
  <2>1. staggeredStep[r] = InternalIterations /\ ControlType
    BY DEF ControlOK, ControlAt
  <2>2. dist[r][l].step = (calcStep[r] - StartTimeStep) * Shl[l] + Shl[l]
    BY <2>1, FullStep DEF Counting, Counts, Waiting, Elapsed
  <2>3. Shl[l] \in Nat /\ calcStep[r] \in Int /\ StartTimeStep \in Int /\ l - MinLevel = l
    BY <2>1, LevelFacts, ShlPositive, StepAssumption DEF ControlType, Levels
  <2> QED
    BY <2>2, <2>3
<1> QED
  BY Control, CountingInvariant, <1>1, PTL

-----------------------------------------------------------------------------
(* Coupling *)

BeforeReceive  == {"postBC", "swap", "interPrepare", "interSendLocal", "interSendRemote"}
WhileReceiving == {"interReceiveLocal", "interReceiveRemote"}

\* Level l has stepped and has not been coupled to level l + 1 since.
Pending(r, l) ==
  \/ pc[r] = "calculate" /\ straightStartLevel[r] =< l /\ l < lvl[r]
  \/ pc[r] \in BeforeReceive /\ straightStartLevel[r] =< l
  \/ pc[r] \in Exchange /\ return[r] # "notify" /\ straightStartLevel[r] =< l
  \/ pc[r] \in WhileReceiving /\ lvl[r] =< l

Couples(r) ==
  \A l \in Interfaces : dist[r][l].step = coupled[r][l] + (IF Pending(r, l) THEN 1 ELSE 0)

CoupledType == coupled \in [Ranks -> [Interfaces -> Nat]]

Coupled == CoupledType /\ DistType /\ \A r \in Ranks : Couples(r)

\* Both sides of an interface are levels.
LEMMA InterfacesAreLevels ==
  /\ Interfaces \subseteq Levels
  /\ \A l \in Interfaces : l + 1 \in Levels
BY LevelFacts DEF Interfaces, Levels

\* All interfaces start coupled.
LEMMA CoupledInit == Init => Coupled
BY InterfacesAreLevels DEF Init, Coupled, CoupledType, Couples, Pending, DistType, Initial, Version, Stages,
   BeforeReceive, WhileReceiving, Exchange

\* Steps that neither move a level nor couple two.
LEMMA CoupledKept ==
  ASSUME MinLevel = 0, ControlOK, Coupled, NEW r \in Ranks,
         \/ SizeSend(r) \/ SizeReceive(r) \/ InterSizeSend(r) \/ InterSizeReceive(r)
         \/ Select(r) \/ Threshold(r)
         \/ SendLocal(r) \/ PrepareRemote(r) \/ SendBegin(r) \/ SendReturn(r) \/ SendsDone(r)
         \/ ReceiveRemote(r) \/ InterPrepare(r) \/ InterSendLocal(r) \/ InterSendsDone(r)
         \/ InterReceiveLocal(r) \/ EndSubstep(r) \/ Notify(r) \/ Throw(r)
  PROVE  Coupled'
<1>1. ControlType /\ MaxInitLevel = MaxLevel /\ \A q \in Ranks : ControlAt(q)
  BY LevelFacts DEF ControlOK, MaxInitLevel
<1>2. UNCHANGED <<dist, coupled>>
  BY DEF SizeSend, SizeReceive, InterSizeSend, InterSizeReceive, Select, Threshold, SendLocal,
     PrepareRemote, SendBegin, SendReturn, SendsDone, ReceiveRemote, InterPrepare, InterSendLocal,
     InterSendsDone, InterReceiveLocal, EndSubstep, Notify, Throw, control, data
<1>3. \A q \in Ranks, l \in Interfaces : Pending(q, l)' <=> Pending(q, l)
  <2> USE LevelFacts DEF ControlType, Goto, EnterLevelLoop, Pending, BeforeReceive, WhileReceiving,
          Exchange, control, Interfaces
  <2>1. CASE SizeSend(r) \/ SizeReceive(r) \/ InterSizeSend(r) \/ InterSizeReceive(r)
    BY <1>1, <2>1 DEF SizeSend, SizeReceive, InterSizeSend, InterSizeReceive
  <2>2. CASE Select(r) \/ Threshold(r)
    BY <1>1, <2>2 DEF Select, Threshold
  <2>3. CASE SendLocal(r) \/ PrepareRemote(r) \/ SendBegin(r) \/ SendReturn(r) \/ SendsDone(r)
    BY <1>1, <2>3 DEF SendLocal, PrepareRemote, SendBegin, SendReturn, SendsDone
  <2>4. CASE ReceiveRemote(r)
    BY <1>1, <2>4 DEF ReceiveRemote
  <2>5. CASE InterPrepare(r) \/ InterSendLocal(r)
    BY <1>1, <2>5 DEF InterPrepare, InterSendLocal
  <2>6. CASE InterSendsDone(r)
    BY <1>1, <2>6 DEF InterSendsDone
  <2>7. CASE InterReceiveLocal(r)
    BY <1>1, <2>7 DEF InterReceiveLocal
  <2>8. CASE EndSubstep(r) \/ Notify(r) \/ Throw(r)
    BY <1>1, <2>8 DEF EndSubstep, Notify, Throw
  <2> QED
    BY <2>1, <2>2, <2>3, <2>4, <2>5, <2>6, <2>7, <2>8
<1> QED
  BY <1>2, <1>3 DEF Coupled, CoupledType, DistType, Couples

\* Boundary conditions and the swap couple nothing.
LEMMA CoupledStages ==
  ASSUME MinLevel = 0, ControlOK, Coupled, NEW r \in Ranks,
         PreCollisionBC(r) \/ PostCollisionBC(r) \/ SwapDistributions(r)
  PROVE  Coupled'
<1>1. ControlType /\ MaxInitLevel = MaxLevel /\ DistType
  BY LevelFacts DEF ControlOK, MaxInitLevel, Coupled
<1>2. DistType' /\ \A q \in Ranks, l \in Levels : dist'[q][l].step = dist[q][l].step
  BY <1>1, StageOnly DEF PreCollisionBC, PostCollisionBC, SwapDistributions, Stages
<1>3. UNCHANGED coupled /\ Interfaces \subseteq Levels
  BY InterfacesAreLevels DEF PreCollisionBC, PostCollisionBC, SwapDistributions
<1>4. \A q \in Ranks, l \in Interfaces : Pending(q, l)' <=> Pending(q, l)
  <2> USE LevelFacts DEF ControlType, Goto, EnterLevelLoop, Pending, BeforeReceive, WhileReceiving,
          Exchange, control, Interfaces
  <2>1. CASE PreCollisionBC(r)
    BY <1>1, <2>1 DEF PreCollisionBC
  <2>2. CASE PostCollisionBC(r)
    BY <1>1, <2>2 DEF PostCollisionBC
  <2>3. CASE SwapDistributions(r)
    BY <1>1, <2>3 DEF SwapDistributions, Refinement
  <2> QED
    BY <2>1, <2>2, <2>3
<1> QED
  BY <1>2, <1>3, <1>4 DEF Coupled, CoupledType, Couples

\* A level that steps is pending until it is coupled again.
LEMMA CoupledCalculate ==
  ASSUME MinLevel = 0, ControlOK, Coupled, NEW r \in Ranks, Calculate(r)
  PROVE  Coupled'
<1> DEFINE k == lvl[r]
<1>1. /\ ControlType /\ DistType /\ CoupledType
      /\ k \in straightStartLevel[r] .. MaxInitLevel /\ k \in Levels
      /\ MaxInitLevel = MaxLevel
  BY LevelFacts DEF ControlOK, ControlType, ControlAt, Calculate, Coupled, MaxInitLevel
<1>2. /\ pc[r] = "calculate" /\ UNCHANGED <<coupled, straightStartLevel>>
      /\ \A q \in Ranks \ {r} : UNCHANGED <<pc[q], lvl[q], return[q], dist[q]>>
  BY <1>1 DEF Calculate, EnterLevelLoop, Goto, ControlType, DistType, control
<1>3. \/ pc'[r] = "calculate" /\ lvl'[r] = k + 1
      \/ pc'[r] = "sendLocal" /\ return'[r] = "postBC" /\ k = MaxLevel
  BY <1>1, LevelFacts DEF Calculate, EnterLevelLoop, Goto, ControlType
<1>4. /\ DistType'
      /\ dist'[r][k].step = dist[r][k].step + 1
      /\ \A l \in Levels \ {k} : dist'[r][l] = dist[r][l]
  BY <1>1 DEF Calculate, DistType, Version, Stages
<1>5. ASSUME NEW l \in Interfaces
      PROVE  dist'[r][l].step = coupled[r][l] + (IF Pending(r, l)' THEN 1 ELSE 0)
  <2>1. l \in Nat /\ k \in Nat /\ l \in Levels /\ l < MaxLevel
    BY <1>1, LevelFacts DEF Interfaces, Levels
  <2>2. dist[r][l].step = coupled[r][l] + (IF Pending(r, l) THEN 1 ELSE 0)
    BY DEF Coupled, Couples
  <2>3. Pending(r, l) <=> straightStartLevel[r] =< l /\ l < k
    BY <1>2 DEF Pending, BeforeReceive, WhileReceiving, Exchange
  <2>4. Pending(r, l)' <=> straightStartLevel[r] =< l /\ l < k + 1
    BY <1>2, <1>3, <2>1 DEF Pending, BeforeReceive, WhileReceiving, Exchange
  <2>5. CASE l = k
    BY <1>1, <1>4, <2>1, <2>2, <2>3, <2>4, <2>5 DEF CoupledType
  <2>6. CASE l # k
    BY <1>4, <2>1, <2>2, <2>3, <2>4, <2>6
  <2> QED
    BY <2>5, <2>6
<1>6. \A q \in Ranks \ {r} : Couples(q)'
  BY <1>2 DEF Coupled, Couples, Pending
<1> QED
  BY <1>1, <1>2, <1>4, <1>5, <1>6 DEF Coupled, CoupledType, Couples

\* InterReceiveRemote couples the interface it is at.
LEMMA CoupledReceive ==
  ASSUME MinLevel = 0, ControlOK, Coupled, NEW r \in Ranks, InterReceiveRemote(r)
  PROVE  Coupled'
<1> DEFINE k == lvl[r]
<1>1. /\ ControlType /\ DistType /\ CoupledType
      /\ k \in straightStartLevel[r] .. MaxInitLevel - 1 /\ k \in Interfaces
      /\ MaxInitLevel = MaxLevel
  BY LevelFacts DEF ControlOK, ControlType, ControlAt, InterReceiveRemote, Coupled, MaxInitLevel,
     Coupling, Interfaces
<1>2. /\ pc[r] = "interReceiveRemote" /\ UNCHANGED <<dist, straightStartLevel>>
      /\ \A q \in Ranks \ {r} : UNCHANGED <<pc[q], lvl[q], return[q], coupled[q]>>
  BY <1>1 DEF InterReceiveRemote, Goto, ControlType, CoupledType, control
<1>3. \/ pc'[r] = "interReceiveLocal" /\ lvl'[r] = k + 1
      \/ pc'[r] = "endSubstep" /\ k = MaxLevel - 1
  BY <1>1, LevelFacts DEF InterReceiveRemote, Goto, ControlType
<1>4. /\ coupled'[r][k] = dist[r][k].step
      /\ \A l \in Interfaces \ {k} : coupled'[r][l] = coupled[r][l]
  BY <1>1 DEF InterReceiveRemote, CoupledType
<1>5. dist[r][k].step \in Nat /\ k \in Levels
  BY <1>1, InterfacesAreLevels DEF DistType, Version
<1>6. CoupledType'
  BY <1>1, <1>5 DEF InterReceiveRemote, CoupledType
<1>7. ASSUME NEW l \in Interfaces
      PROVE  dist[r][l].step = coupled'[r][l] + (IF Pending(r, l)' THEN 1 ELSE 0)
  <2>1. l \in Nat /\ k \in Nat /\ l < MaxLevel
    BY <1>1, LevelFacts DEF Interfaces
  <2>2. dist[r][l].step = coupled[r][l] + (IF Pending(r, l) THEN 1 ELSE 0)
    BY DEF Coupled, Couples
  <2>3. Pending(r, l) <=> k =< l
    BY <1>2 DEF Pending, BeforeReceive, WhileReceiving, Exchange
  <2>4. Pending(r, l)' <=> k + 1 =< l
    BY <1>2, <1>3, <2>1, LevelFacts DEF Pending, BeforeReceive, WhileReceiving, Exchange
  <2>5. CASE l = k
    BY <1>4, <1>5, <2>1, <2>4, <2>5
  <2>6. CASE l # k
    BY <1>4, <2>1, <2>2, <2>3, <2>4, <2>6
  <2> QED
    BY <2>5, <2>6
<1>8. \A q \in Ranks \ {r} : Couples(q)'
  BY <1>2 DEF Coupled, Couples, Pending
<1> QED
  BY <1>1, <1>2, <1>6, <1>7, <1>8 DEF Coupled, DistType, Couples

\* A level is one step past its coupling exactly while it is pending.
LEMMA CoupledInvariant == ASSUME MinLevel = 0 PROVE Spec => []Coupled
<1>1. ControlOK /\ Coupled /\ [Next]_vars => Coupled'
  <2> SUFFICES ASSUME ControlOK, Coupled, [Next]_vars PROVE Coupled'
    OBVIOUS
  <2>1. ASSUME NEW r \in Ranks, Step(r) \/ Throw(r) PROVE Coupled'
    BY <2>1, CoupledKept, CoupledStages, CoupledCalculate, CoupledReceive DEF Step
  <2>2. CASE UNCHANGED vars
    BY <2>2 DEF vars, control, data, Coupled, CoupledType, DistType, Couples, Pending
  <2> QED
    BY <2>1, <2>2 DEF Next
<1> QED
  BY CoupledInit, Control, <1>1, PTL DEF Spec

-----------------------------------------------------------------------------
(* Every rank's loop is a nested time stepping *)

\* After the same number of staggered steps the finer level has made twice
\* the steps of the coarser one, or one more.
LEMMA Halves ==
  ASSUME MinLevel = 0, ControlType, NEW r \in Ranks, NEW l \in Interfaces, NEW n \in Nat
  PROVE  \E c \in Int, h \in Nat :
           /\ Elapsed(r, l, n) = c + h \div 2
           /\ Elapsed(r, l + 1, n) = 2 * c + h
           /\ n % Shl[MaxLevel - l] = 0 => h % 2 = 0
<1> DEFINE d == Shl[MaxLevel - (l + 1)]
           a == calcStep[r] - StartTimeStep
           b == Shl[l]
           h == n \div d
<1>1. l \in 0 .. MaxLevel - 1 /\ MaxLevel - (l + 1) \in 0 .. MaxLevel - 1 /\ l \in Nat
  BY LevelFacts DEF Interfaces
<1>2. d \in Nat /\ d > 0 /\ b \in Nat /\ a \in Int
  BY <1>1, LevelFacts, ShlPositive, StepAssumption DEF ControlType
<1>3. Shl[MaxLevel - l] = 2 * d
  <2>1. Shl[(MaxLevel - (l + 1)) + 1] = 2 * d
    BY <1>1, ShiftAssumption
  <2>2. (MaxLevel - (l + 1)) + 1 = MaxLevel - l
    BY <1>1, LevelFacts
  <2> QED
    BY <2>1, <2>2
<1>4. Shl[l + 1] = 2 * b
  BY <1>1, ShiftAssumption
<1>5. n \div (2 * d) = h \div 2
  <2> HIDE DEF d
  <2> QED
    BY <1>2, DivideTwice
<1>6. Elapsed(r, l, n) = a * b + h \div 2
  BY <1>3, <1>5 DEF Elapsed
<1>7. Elapsed(r, l + 1, n) = 2 * (a * b) + h
  <2>1. a * (2 * b) = 2 * (a * b)
    <3> HIDE DEF a, b
    <3> QED
      BY <1>2
  <2> QED
    BY <1>4, <2>1 DEF Elapsed
<1>8. a * b \in Int /\ h \in Nat
  <2> HIDE DEF a, b, d
  <2> QED
    BY <1>2
<1>9. ASSUME n % (2 * d) = 0 PROVE h % 2 = 0
  <2> DEFINE q == n \div (2 * d)
  <2> HIDE DEF d
  <2>1. n = (2 * d) * q /\ q \in Nat
    BY <1>2, <1>9
  <2> HIDE DEF q
  <2>2. n = (2 * q) * d /\ 2 * q \in Nat
    BY <1>2, <2>1
  <2>3. n \div d = 2 * q
    BY <1>2, <2>2, DivideProduct
  <2> QED
    BY <2>1, <2>3
<1> HIDE DEF a, b, d, h
<1> QED
  BY <1>3, <1>6, <1>7, <1>8, <1>9

\* The steps of all levels are those of the abstract counters.
LEMMA StepsKept ==
  ASSUME \A q \in Ranks, l \in Levels : dist'[q][l].step = dist[q][l].step,
         UNCHANGED coupled
  PROVE  UNCHANGED Nested!vars
BY DEF Nested!vars

\* The initial states are those of the abstract specification.
LEMMA NestedInit == Init => Nested!Init
BY DEF Init, Nested!Init, Initial, Levels, Interfaces, Nested!Level, Nested!Interface

\* A level that is about to step is within two steps of its last coupling to
\* the coarser level.
LEMMA CoupledHalf ==
  ASSUME MinLevel = 0, ControlOK, Counting, Coupled, NEW r \in Ranks, pc[r] = "calculate",
         lvl[r] - 1 \in Interfaces
  PROVE  dist[r][lvl[r]].step \div 2 = coupled[r][lvl[r] - 1]
<1> DEFINE k == lvl[r]
           s == staggeredStep[r]
<1>1. /\ ControlType /\ DistType /\ CoupledType /\ k \in Levels
      /\ k \in straightStartLevel[r] .. MaxInitLevel /\ MaxInitLevel = MaxLevel
  BY LevelFacts DEF ControlOK, ControlType, ControlAt, Coupled, MaxInitLevel
<1>2. \A l \in Levels : dist[r][l].step = Elapsed(r, l, IF k =< l THEN s - 1 ELSE s)
  BY DEF Counting, Counts, Waiting
<1>3. \A l \in Interfaces :
        dist[r][l].step = coupled[r][l]
                            + (IF straightStartLevel[r] =< l /\ l < k THEN 1 ELSE 0)
  BY DEF Coupled, Couples, Pending, BeforeReceive, WhileReceiving, Exchange
<1>4. s - 1 \in Nat /\ k \in Int /\ (k - 1) + 1 = k /\ s \in Nat
      /\ straightStartLevel[r] \in 0 .. MaxLevel
  <2>1. s \in 1 .. InternalIterations /\ straightStartLevel[r] \in 0 .. MaxLevel
    BY <1>1 DEF ControlType
  <2>2. k \in Int
    BY <1>1, LevelFacts DEF Levels
  <2> QED
    BY <2>1, <2>2, LevelFacts
<1>5. PICK c \in Int, h \in Nat :
        Elapsed(r, k - 1, s - 1) = c + h \div 2 /\ Elapsed(r, k, s - 1) = 2 * c + h
  <2> DEFINE j == k - 1
  <2>1. j \in Interfaces /\ k = j + 1
    BY <1>4
  <2> HIDE DEF j, s
  <2>2. \E c \in Int, h \in Nat :
          Elapsed(r, j, s - 1) = c + h \div 2 /\ Elapsed(r, j + 1, s - 1) = 2 * c + h
    BY <1>1, <1>4, <2>1, Halves
  <2> QED
    BY <2>1, <2>2 DEF j
<1>6. dist[r][k].step = 2 * c + h
  BY <1>1, <1>2, <1>4, <1>5
<1>7. coupled[r][k - 1] = c + h \div 2
  <2>1. CASE straightStartLevel[r] =< k - 1
    <3>1. k - 1 \in Levels /\ ~(k =< k - 1)
      BY <1>4, InterfacesAreLevels
    <3>2. dist[r][k - 1].step = Elapsed(r, k - 1, s)
      BY <1>2, <3>1
    <3>3. dist[r][k - 1].step = coupled[r][k - 1] + 1
      BY <1>3, <1>4, <2>1
    <3>4. Chosen(r)
      BY <1>1 DEF ControlOK, ControlAt, Substep
    <3>5. s \div Shl[MaxLevel - (k - 1)] = (s - 1) \div Shl[MaxLevel - (k - 1)] + 1
      BY <2>1, <3>1, <3>4, <1>4, Due
    <3>6. /\ (calcStep[r] - StartTimeStep) * Shl[k - 1] \in Int
          /\ (s - 1) \div Shl[MaxLevel - (k - 1)] \in Int
      <4>1. Shl[k - 1] \in Nat /\ Shl[MaxLevel - (k - 1)] \in Nat /\ Shl[MaxLevel - (k - 1)] > 0
            /\ calcStep[r] - StartTimeStep \in Int
        BY <1>1, <3>1, ShlPositive, LevelFacts, StepAssumption DEF ControlType, Levels
      <4> QED
        BY <1>4, <4>1
    <3>7. Elapsed(r, k - 1, s) = Elapsed(r, k - 1, s - 1) + 1
      BY <3>5, <3>6 DEF Elapsed
    <3>8. coupled[r][k - 1] \in Nat
      BY <1>1 DEF CoupledType
    <3> QED
      BY <1>5, <3>2, <3>3, <3>7, <3>8
  <2>2. CASE ~(straightStartLevel[r] =< k - 1)
    <3>1. k - 1 \in Levels /\ k - 1 < straightStartLevel[r] /\ ~(k =< k - 1)
      BY <1>4, <2>2, InterfacesAreLevels
    <3>2. dist[r][k - 1].step = Elapsed(r, k - 1, s)
      BY <1>2, <3>1
    <3>3. dist[r][k - 1].step = coupled[r][k - 1] + 0 /\ coupled[r][k - 1] \in Nat
      BY <1>1, <1>3, <2>2 DEF CoupledType
    <3>4. Chosen(r)
      BY <1>1 DEF ControlOK, ControlAt, Substep
    <3>5. Elapsed(r, k - 1, s) = Elapsed(r, k - 1, s - 1)
      BY <3>1, <3>4, NotDue DEF Elapsed
    <3> QED
      BY <1>5, <3>2, <3>3, <3>5
  <2> QED
    BY <2>1, <2>2
<1>8. (2 * c + h) \div 2 = c + h \div 2
  BY <1>5
<1> QED
  BY <1>6, <1>7, <1>8

\* It stands at its last coupling to the finer level.
LEMMA CoupledSame ==
  ASSUME MinLevel = 0, ControlOK, Coupled, NEW r \in Ranks, pc[r] = "calculate",
         lvl[r] \in Interfaces
  PROVE  dist[r][lvl[r]].step = coupled[r][lvl[r]]
<1> DEFINE k == lvl[r]
<1>1. k \in Int /\ coupled[r][k] \in Nat
  <2>1. CoupledType
    BY DEF Coupled
  <2> QED
    BY <2>1, LevelFacts DEF CoupledType, Interfaces
<1>2. ~Pending(r, k)
  BY <1>1 DEF Pending, BeforeReceive, WhileReceiving, Exchange
<1>3. dist[r][k].step = coupled[r][k] + 0
  BY <1>2 DEF Coupled, Couples
<1> QED
  BY <1>1, <1>3

\* Calculate steps a level that has been coupled to both its neighbours.
LEMMA NestedAdvance ==
  ASSUME MinLevel = 0, ControlOK, Counting, Coupled, NEW r \in Ranks, Calculate(r)
  PROVE  Nested!Advance(r, lvl[r])
<1> DEFINE k == lvl[r]
<1>1. /\ ControlType /\ DistType /\ CoupledType
      /\ k \in straightStartLevel[r] .. MaxInitLevel /\ k \in Levels
      /\ MaxInitLevel = MaxLevel /\ pc[r] = "calculate"
  BY LevelFacts DEF ControlOK, ControlType, ControlAt, Calculate, Coupled, MaxInitLevel
<1>2. k \in Interfaces => dist[r][k].step = coupled[r][k]
  BY <1>1, CoupledSame
<1>3. ASSUME k - 1 \in Interfaces
      PROVE  dist[r][k].step < 2 * (coupled[r][k - 1] + 1)
  <2>1. dist[r][k].step \div 2 = coupled[r][k - 1]
    BY <1>1, <1>3, CoupledHalf
  <2>2. dist[r][k].step \in Nat
    BY <1>1 DEF DistType, Version
  <2> QED
    BY <2>1, <2>2
<1>4. [q \in Ranks |-> [l \in Levels |-> dist'[q][l].step]]
        = [[q \in Ranks |-> [l \in Levels |-> dist[q][l].step]] EXCEPT ![r][k] = @ + 1]
  <2>1. dist' = [dist EXCEPT ![r][k] = [step |-> @.step + 1, stage |-> "collided"]]
    BY DEF Calculate
  <2>2. \A q \in Ranks, l \in Levels :
          dist'[q][l].step = IF q = r /\ l = k THEN dist[r][k].step + 1 ELSE dist[q][l].step
    BY <1>1, <2>1 DEF DistType, Version
  <2> DEFINE old == [q \in Ranks |-> [l \in Levels |-> dist[q][l].step]]
             new == [q \in Ranks |-> [l \in Levels |-> dist'[q][l].step]]
  <2>3. \A q \in Ranks : new[q] = [old EXCEPT ![r][k] = @ + 1][q]
    <3>1. SUFFICES ASSUME NEW q \in Ranks PROVE new[q] = [old EXCEPT ![r][k] = @ + 1][q]
      OBVIOUS
    <3>2. CASE q = r
      BY <1>1, <2>2, <3>2
    <3>3. CASE q # r
      BY <2>2, <3>3
    <3> QED
      BY <3>2, <3>3
  <2> QED
    BY <2>3
<1>5. coupled' = coupled
  BY DEF Calculate
<1> QED
  BY <1>1, <1>2, <1>3, <1>4, <1>5 DEF Nested!Advance, Nested!Interface, Interfaces, Levels

\* While a rank interpolates, two active levels next to each other stand at
\* the same time: the finer one has made twice the steps.
LEMMA FineTwice ==
  ASSUME MinLevel = 0, ControlOK, Counting, NEW r \in Ranks, pc[r] \in Coupling,
         NEW k \in Interfaces, straightStartLevel[r] =< k
  PROVE  dist[r][k + 1].step = 2 * dist[r][k].step
<1> DEFINE s == staggeredStep[r]
<1>1. ControlType /\ k \in Levels /\ k + 1 \in Levels /\ k \in Int /\ s \in Nat
  BY InterfacesAreLevels, LevelFacts DEF ControlOK, ControlType, Interfaces
<1>2. dist[r][k].step = Elapsed(r, k, s) /\ dist[r][k + 1].step = Elapsed(r, k + 1, s)
  BY <1>1 DEF Counting, Counts, Waiting, Coupling
<1>3. PICK c \in Int, h \in Nat :
        /\ Elapsed(r, k, s) = c + h \div 2
        /\ Elapsed(r, k + 1, s) = 2 * c + h
        /\ s % Shl[MaxLevel - k] = 0 => h % 2 = 0
  BY <1>1, Halves
<1>4. s % Shl[MaxLevel - k] = 0
  <2>1. Chosen(r) /\ k >= straightStartLevel[r]
    BY <1>1, LevelFacts DEF ControlOK, ControlType, ControlAt, Substep
  <2> QED
    BY <1>1, <2>1, Due
<1> QED
  BY <1>2, <1>3, <1>4

\* InterReceiveRemote couples two levels that stand at the same time.
LEMMA NestedCouple ==
  ASSUME MinLevel = 0, ControlOK, Counting, Coupled, NEW r \in Ranks, InterReceiveRemote(r)
  PROVE  lvl[r] \in Interfaces /\ Nested!Couple(r, lvl[r])
<1> DEFINE k == lvl[r]
<1>1. /\ ControlType /\ DistType /\ CoupledType
      /\ k \in straightStartLevel[r] .. MaxInitLevel - 1 /\ k \in Interfaces
      /\ MaxInitLevel = MaxLevel /\ pc[r] = "interReceiveRemote"
  BY LevelFacts DEF ControlOK, ControlType, ControlAt, InterReceiveRemote, Coupled, MaxInitLevel,
     Coupling, Interfaces
<1>2. k \in Levels /\ k + 1 \in Levels /\ k \in Int
  BY <1>1, InterfacesAreLevels, LevelFacts DEF Levels
<1>3. dist[r][k + 1].step = 2 * dist[r][k].step
  BY <1>1, <1>2, FineTwice, LevelFacts DEF Coupling
<1>4. dist[r][k].step = coupled[r][k] + 1 /\ coupled[r][k] \in Nat
  <2>1. Pending(r, k)
    BY <1>1, <1>2 DEF Pending, WhileReceiving
  <2> QED
    BY <1>1, <2>1 DEF Coupled, Couples, CoupledType
<1>5. coupled' = [coupled EXCEPT ![r][k] = @ + 1] /\ UNCHANGED dist
  BY <1>4 DEF InterReceiveRemote
<1> QED
  BY <1>1, <1>2, <1>3, <1>4, <1>5 DEF Nested!Couple

\* Every step is a step of the abstract specification or leaves it alone.
LEMMA NestedStep ==
  ASSUME MinLevel = 0, ControlOK, Counting, Coupled, [Next]_vars
  PROVE  [Nested!Next]_(Nested!vars)
<1>1. ASSUME NEW r \in Ranks, Calculate(r) PROVE Nested!Next
  <2>1. lvl[r] \in Nested!Level
    BY DEF ControlOK, ControlType, Nested!Level, Levels
  <2>2. Nested!Advance(r, lvl[r])
    BY <1>1, NestedAdvance
  <2> QED
    BY <2>1, <2>2, Zenon DEF Nested!Next, Nested!Advance
<1>2. ASSUME NEW r \in Ranks, InterReceiveRemote(r) PROVE Nested!Next
  BY <1>2, NestedCouple DEF Nested!Next, Nested!Interface, Interfaces
<1>3. ASSUME NEW r \in Ranks,
             PreCollisionBC(r) \/ PostCollisionBC(r) \/ SwapDistributions(r)
      PROVE  UNCHANGED Nested!vars
  <2>1. \A q \in Ranks, l \in Levels : dist'[q][l].step = dist[q][l].step
    BY <1>3, StageOnly DEF PreCollisionBC, PostCollisionBC, SwapDistributions, Stages, Counting
  <2>2. UNCHANGED coupled
    BY <1>3 DEF PreCollisionBC, PostCollisionBC, SwapDistributions
  <2> QED
    BY <2>1, <2>2, StepsKept
<1>4. ASSUME NEW r \in Ranks,
             \/ SizeSend(r) \/ SizeReceive(r) \/ InterSizeSend(r) \/ InterSizeReceive(r)
             \/ Select(r) \/ Threshold(r)
             \/ SendLocal(r) \/ PrepareRemote(r) \/ SendBegin(r) \/ SendReturn(r) \/ SendsDone(r)
             \/ ReceiveRemote(r) \/ InterPrepare(r) \/ InterSendLocal(r) \/ InterSendsDone(r)
             \/ InterReceiveLocal(r) \/ EndSubstep(r) \/ Notify(r) \/ Throw(r)
      PROVE  UNCHANGED Nested!vars
  <2>1. UNCHANGED <<dist, coupled>>
    BY <1>4 DEF SizeSend, SizeReceive, InterSizeSend, InterSizeReceive, Select, Threshold,
       SendLocal, PrepareRemote, SendBegin, SendReturn, SendsDone, ReceiveRemote, InterPrepare,
       InterSendLocal, InterSendsDone, InterReceiveLocal, EndSubstep, Notify, Throw, data
  <2> QED
    BY <2>1, StepsKept
<1>5. CASE UNCHANGED vars
  BY <1>5, StepsKept DEF vars, data
<1> QED
  BY <1>1, <1>2, <1>3, <1>4, <1>5 DEF Next, Step

\* On a grid with blocks of level 0, for any number of ranks and levels: no
\* level runs past the last coupling by more than the coupling is good for,
\* and two levels are coupled only when they stand at the same time.
THEOREM RefinesNestedTimeStepping == ASSUME MinLevel = 0 PROVE Spec => NestedSteps
<1>1. Init => Nested!Init
  BY NestedInit
<1>2. ControlOK /\ Counting /\ Coupled /\ [Next]_vars => [Nested!Next]_(Nested!vars)
  BY NestedStep
<1> QED
  BY <1>1, <1>2, Control, CountingInvariant, CoupledInvariant, PTL
     DEF Spec, NestedSteps, Nested!Spec

-----------------------------------------------------------------------------
(* What follows from nested time stepping alone, on any grid: the levels    *)
(* above and below an interface are within one coarse step of the time of   *)
(* their last coupling, in whatever order the levels step.                  *)

\* WithinOneCoarseStep of the steps s and the couplings c.
CoarseSteps(s, c) ==
  \A q \in Ranks : \A k \in Interfaces :
    /\ s[q][k] \in c[q][k] .. c[q][k] + 1
    /\ s[q][k + 1] \in 2 * c[q][k] .. 2 * c[q][k] + 2

\* It is kept when a level takes a step that nested time stepping allows.
LEMMA OneStepMore ==
  ASSUME NEW s \in [Ranks -> [Levels -> Nat]], NEW c \in [Ranks -> [Interfaces -> Nat]], CoarseSteps(s, c),
         NEW r \in Ranks, NEW l \in Levels, l \in Interfaces => s[r][l] = c[r][l],
         l - 1 \in Interfaces => s[r][l] < 2 * (c[r][l - 1] + 1),
         NEW t, t = [s EXCEPT ![r][l] = @ + 1]
  PROVE  t \in [Ranks -> [Levels -> Nat]] /\ CoarseSteps(t, c)
<1>1. ASSUME NEW q \in Ranks, NEW k \in Interfaces
      PROVE  /\ t[q][k] \in c[q][k] .. c[q][k] + 1
             /\ t[q][k + 1] \in 2 * c[q][k] .. 2 * c[q][k] + 2
  <2>1. s[q][k] \in c[q][k] .. c[q][k] + 1 /\ s[q][k + 1] \in 2 * c[q][k] .. 2 * c[q][k] + 2
    BY DEF CoarseSteps
  <2>2. k \in Levels /\ k + 1 \in Levels /\ k + 1 # k /\ k \in Int /\ l \in Int
    BY LevelAssumption DEF Levels, Interfaces
  <2>3. s[q][k] \in Nat /\ s[q][k + 1] \in Nat /\ c[q][k] \in Nat
    BY <2>2
  <2>4. CASE q = r /\ k = l
    <3>1. t[r][l] = s[r][l] + 1 /\ t[r][l + 1] = s[r][l + 1]
      BY <2>2, <2>4
    <3> QED
      BY <2>1, <2>3, <2>4, <3>1
  <2>5. CASE q = r /\ k + 1 = l
    <3>1. l - 1 = k
      BY <2>2, <2>5
    <3>2. t[r][l] = s[r][l] + 1 /\ t[r][k] = s[r][k]
      BY <2>2, <2>5
    <3>3. s[r][l] < 2 * (c[r][k] + 1)
      BY <2>5, <3>1
    <3> QED
      BY <2>1, <2>3, <2>5, <3>2, <3>3
  <2>6. CASE ~(q = r /\ k = l) /\ ~(q = r /\ k + 1 = l)
    BY <2>1, <2>2, <2>6
  <2> QED
    BY <2>4, <2>5, <2>6
<1>2. t \in [Ranks -> [Levels -> Nat]]
  OBVIOUS
<1> QED
  BY <1>1, <1>2 DEF CoarseSteps

\* Typing and closeness are inductive together.
LEMMA NestedWithinOneCoarseStep == Nested!Spec => [](Nested!TypeOK /\ Nested!WithinOneCoarseStep)
<1> DEFINE S == [q \in Ranks |-> [k \in Levels |-> dist[q][k].step]]
<1>1. Nested!TypeOK /\ Nested!WithinOneCoarseStep
        <=> S \in [Ranks -> [Levels -> Nat]] /\ coupled \in [Ranks -> [Interfaces -> Nat]] /\ CoarseSteps(S, coupled)
  BY DEF Nested!TypeOK, Nested!WithinOneCoarseStep, Nested!Level, Nested!Interface, Levels, Interfaces, CoarseSteps
<1>2. Nested!Init => S \in [Ranks -> [Levels -> Nat]] /\ coupled \in [Ranks -> [Interfaces -> Nat]] /\ CoarseSteps(S, coupled)
  <2> SUFFICES ASSUME Nested!Init
               PROVE  S \in [Ranks -> [Levels -> Nat]] /\ coupled \in [Ranks -> [Interfaces -> Nat]] /\ CoarseSteps(S, coupled)
    OBVIOUS
  <2>1. S = [q \in Ranks |-> [k \in Levels |-> 0]] /\ coupled = [q \in Ranks |-> [k \in Interfaces |-> 0]]
    BY DEF Nested!Init, Nested!Level, Nested!Interface, Levels, Interfaces
  <2>2. \A k \in Interfaces : k \in Levels /\ k + 1 \in Levels
    BY LevelAssumption DEF Levels, Interfaces
  <2> HIDE DEF S
  <2> QED
    BY <2>1, <2>2 DEF CoarseSteps
<1>3. ASSUME S \in [Ranks -> [Levels -> Nat]], coupled \in [Ranks -> [Interfaces -> Nat]], CoarseSteps(S, coupled),
             [Nested!Next]_(Nested!vars)
      PROVE  S' \in [Ranks -> [Levels -> Nat]] /\ coupled' \in [Ranks -> [Interfaces -> Nat]] /\ CoarseSteps(S', coupled')
  <2>1. ASSUME NEW r \in Ranks, NEW l \in Levels, Nested!Advance(r, l)
        PROVE  S' \in [Ranks -> [Levels -> Nat]] /\ coupled' \in [Ranks -> [Interfaces -> Nat]] /\ CoarseSteps(S', coupled')
    <3>1. /\ l \in Interfaces => S[r][l] = coupled[r][l]
          /\ l - 1 \in Interfaces => S[r][l] < 2 * (coupled[r][l - 1] + 1)
      BY <2>1 DEF Nested!Advance, Nested!Interface, Interfaces
    <3>2. S' = [S EXCEPT ![r][l] = @ + 1] /\ coupled' = coupled
      BY <2>1 DEF Nested!Advance
    <3> HIDE DEF S
    <3>3. S' \in [Ranks -> [Levels -> Nat]] /\ CoarseSteps(S', coupled)
      BY <1>3, <3>1, <3>2, OneStepMore
    <3> QED
      BY <1>3, <3>2, <3>3
  <2>2. ASSUME NEW r \in Ranks, NEW l \in Interfaces, Nested!Couple(r, l)
        PROVE  S' \in [Ranks -> [Levels -> Nat]] /\ coupled' \in [Ranks -> [Interfaces -> Nat]] /\ CoarseSteps(S', coupled')
    <3>1. S[r][l] = coupled[r][l] + 1 /\ S[r][l + 1] = 2 * (coupled[r][l] + 1)
      BY <2>2 DEF Nested!Couple
    <3>2. coupled' = [coupled EXCEPT ![r][l] = @ + 1] /\ S' = S
      BY <2>2 DEF Nested!Couple
    <3> HIDE DEF S
    <3> QED
      BY <1>3, <3>1, <3>2 DEF CoarseSteps
  <2>3. CASE UNCHANGED Nested!vars
    <3>1. S' = S /\ coupled' = coupled
      BY <2>3 DEF Nested!vars
    <3> HIDE DEF S
    <3> QED
      BY <1>3, <3>1
  <2> QED
    BY <1>3, <2>1, <2>2, <2>3 DEF Nested!Next, Nested!Level, Nested!Interface, Levels, Interfaces
<1> QED
  <2>1. Nested!Init => Nested!TypeOK /\ Nested!WithinOneCoarseStep
    BY <1>1, <1>2
  <2>2. (Nested!TypeOK /\ Nested!WithinOneCoarseStep) /\ [Nested!Next]_(Nested!vars)
          => (Nested!TypeOK /\ Nested!WithinOneCoarseStep)'
    <3>1. (Nested!TypeOK /\ Nested!WithinOneCoarseStep)'
            <=> S' \in [Ranks -> [Levels -> Nat]] /\ coupled' \in [Ranks -> [Interfaces -> Nat]] /\ CoarseSteps(S', coupled')
      BY DEF Nested!TypeOK, Nested!WithinOneCoarseStep, Nested!Level, Nested!Interface, Levels, Interfaces, CoarseSteps
    <3> QED
      BY <1>1, <1>3, <3>1
  <2> QED
    BY <2>1, <2>2, PTL DEF Nested!Spec

\* On a grid with blocks of level 0: at any time of the staggered loop, between any two
\* of its statements, the levels above and below an interface are within one coarse
\* step of the time of their last coupling (Simulation::run).
THEOREM OneCoarseStep == ASSUME MinLevel = 0 PROVE Spec => []Nested!WithinOneCoarseStep
<1>1. Nested!Spec => []Nested!WithinOneCoarseStep
  BY NestedWithinOneCoarseStep, PTL
<1>2. Spec => Nested!Spec
  BY RefinesNestedTimeStepping DEF NestedSteps
<1> QED
  BY <1>1, <1>2, PTL

-----------------------------------------------------------------------------
(* The data: versions, requests and messages *)

\* A pool names two ranks and two levels; same-level pools are remote.
LEMMA PoolTypes ==
  /\ \A p \in Pools : p[1] \in Ranks /\ p[2] \in Levels /\ p[3] \in Ranks /\ p[4] \in Levels
  /\ None \notin Pools
  /\ SamePools \subseteq RemotePools
<1>1. Pools \subseteq Ranks \X Levels \X Ranks \X Levels
  <2>1. SamePools \subseteq Ranks \X Levels \X Ranks \X Levels
    BY TopologyAssumption DEF SamePools, Levels
  <2>2. \A a \in Refined : a[1] \in Levels /\ a[1] + 1 \in Levels /\ a[2] \in Ranks /\ a[3] \in Ranks
    BY TopologyAssumption, LevelFacts DEF Levels
  <2> QED
    BY <2>1, <2>2 DEF Pools, InterPools, CFPools, FCPools
<1>2. \A a \in Adjacent : a[2] \in Ranks /\ a[3] \in Ranks
  BY TopologyAssumption
<1>3. SamePools \subseteq RemotePools
  BY <1>2 DEF SamePools, RemotePools, Pools, IsLocal
<1> QED
  BY <1>1, <1>3, TopologyAssumption DEF Levels

\* A local buffer always holds something to read.
DataOK ==
  /\ unsent \in [Ranks -> SUBSET Pools]
  /\ sending \in [Ranks -> Pools \cup {None}]
  /\ dist \in [Ranks -> [Levels -> Version]]
  /\ halo \in [Ranks -> [Levels -> [Ranks -> Message]]]
  /\ iface \in [InterPools -> Message]
  /\ coupled \in [Ranks -> [Interfaces -> Nat]]
  /\ posted \subseteq RemotePools
  /\ net \in [Pools -> Seq(Message)]
  /\ eager \subseteq Pools
  /\ \A p \in Pools \ RemotePools : net[p] # <<>>

\* The data start with their types.
LEMMA DataInit == Init => DataOK
<1> SUFFICES ASSUME Init PROVE DataOK
  OBVIOUS
<1>1. Initial \in Version /\ Initial \in Message
  BY DEF Initial, Version, Stages, Message
<1>2. net \in [Pools -> Seq(Message)] /\ \A p \in Pools \ RemotePools : net[p] # <<>>
  BY <1>1 DEF Init, RemotePools
<1> QED
  BY <1>1, <1>2, EagerAssumption DEF Init, DataOK

\* The handshake of initRemoteConnectors.
LEMMA DataHandshake ==
  ASSUME DataOK, NEW r \in Ranks,
         SizeSend(r) \/ SizeReceive(r) \/ InterSizeSend(r) \/ InterSizeReceive(r)
  PROVE  DataOK'
<1>1. UNCHANGED <<unsent, sending, dist, halo, iface, coupled, posted, eager>>
  BY DEF SizeSend, SizeReceive, InterSizeSend, InterSizeReceive, data
<1>2. Order \in Message
  BY DEF Message
<1>3. ASSUME NEW ps \in SUBSET RemotePools, SendOrders(ps) \/ ReceiveOrders(ps)
      PROVE  net' \in [Pools -> Seq(Message)] /\ \A p \in Pools \ RemotePools : net'[p] # <<>>
  <2>1. net \in [Pools -> Seq(Message)] /\ \A p \in Pools \ RemotePools : net[p] # <<>>
    BY DEF DataOK
  <2>2. RemotePools \subseteq Pools
    BY DEF RemotePools
  <2>3. CASE SendOrders(ps)
    BY <1>2, <2>1, <2>2, <2>3 DEF SendOrders
  <2>4. CASE ReceiveOrders(ps)
    BY <2>1, <2>2, <2>4 DEF ReceiveOrders
  <2> QED
    BY <1>3, <2>3, <2>4
<1>4. /\ SameOut(r, lvl[r]) \subseteq RemotePools /\ SameIn(r, lvl[r]) \subseteq RemotePools
      /\ { p \in InterPools : Source(p) = r /\ ~IsLocal(p) } \subseteq RemotePools
      /\ { p \in InterPools : Target(p) = r /\ ~IsLocal(p) } \subseteq RemotePools
  BY PoolTypes DEF SameOut, SameIn, RemotePools, Pools
<1>5. net' \in [Pools -> Seq(Message)] /\ \A p \in Pools \ RemotePools : net'[p] # <<>>
  BY <1>3, <1>4 DEF SizeSend, SizeReceive, InterSizeSend, InterSizeReceive
<1> QED
  BY <1>1, <1>5 DEF DataOK

\* Steps that change distributions only, or none of the data.
LEMMA DataBlocks ==
  ASSUME ControlType, DataOK, NEW r \in Ranks,
         \/ Select(r) \/ Threshold(r) \/ PreCollisionBC(r) \/ Calculate(r) \/ PostCollisionBC(r)
         \/ SwapDistributions(r) \/ SendsDone(r) \/ InterSendsDone(r) \/ EndSubstep(r)
         \/ Notify(r) \/ Throw(r)
  PROVE  DataOK'
<1>1. UNCHANGED <<unsent, sending, halo, iface, coupled, posted, net, eager>>
  BY DEF Select, Threshold, PreCollisionBC, Calculate, PostCollisionBC, SwapDistributions,
     SendsDone, InterSendsDone, EndSubstep, Notify, Throw, data, mpi
<1>2. dist' \in [Ranks -> [Levels -> Version]]
  <2>1. CASE PreCollisionBC(r) \/ PostCollisionBC(r) \/ SwapDistributions(r)
    BY <2>1, StageOnly DEF PreCollisionBC, PostCollisionBC, SwapDistributions, Stages, DataOK, DistType
  <2>2. CASE Calculate(r)
    BY <2>2 DEF Calculate, DataOK, ControlType, Version, Stages
  <2>3. CASE Select(r) \/ Threshold(r) \/ SendsDone(r) \/ InterSendsDone(r) \/ EndSubstep(r)
               \/ Notify(r) \/ Throw(r)
    BY <2>3 DEF Select, Threshold, SendsDone, InterSendsDone, EndSubstep, Notify, Throw, data, DataOK
  <2> QED
    BY <2>1, <2>2, <2>3
<1> QED
  BY <1>1, <1>2 DEF DataOK

\* What the exchanges send.
LEMMA DataSend ==
  ASSUME ControlType, DataOK, NEW r \in Ranks,
         \/ SendLocal(r) \/ PrepareRemote(r) \/ SendBegin(r) \/ SendReturn(r)
         \/ InterPrepare(r) \/ InterSendLocal(r)
  PROVE  DataOK'
<1>1. CASE SendLocal(r)
  <2>1. \A l \in Levels : dist[r][l] \in Message
    BY DEF DataOK, Message
  <2>2. halo' \in [Ranks -> [Levels -> [Ranks -> Message]]]
    BY <1>1, <2>1 DEF SendLocal, DataOK, ControlType
  <2> QED
    BY <1>1, <2>2 DEF SendLocal, DataOK, mpi
<1>2. CASE PrepareRemote(r)
  <2>1. SameIn(r, lvl[r]) \subseteq RemotePools /\ SameOut(r, lvl[r]) \subseteq Pools
    BY PoolTypes DEF SameIn, SameOut, Pools
  <2> QED
    BY <1>2, <2>1 DEF PrepareRemote, DataOK, data
<1>3. CASE SendBegin(r)
  BY <1>3 DEF SendBegin, DataOK, data, mpi
<1>4. CASE SendReturn(r)
  <2>1. PICK p \in Pools : sending[r] = p
    BY <1>4 DEF SendReturn, DataOK
  <2>2. dist[r][p[2]] \in Message /\ net[p] \in Seq(Message)
    BY PoolTypes DEF DataOK, Message
  <2>3. Put(p, dist[r][p[2]]) \in Seq(Message) /\ Put(p, dist[r][p[2]]) # <<>>
    BY <2>2 DEF Put
  <2>4. net' = [net EXCEPT ![p] = Put(p, dist[r][p[2]])]
    BY <1>4, <2>1 DEF SendReturn
  <2>5. net' \in [Pools -> Seq(Message)] /\ \A q \in Pools \ RemotePools : net'[q] # <<>>
    BY <2>3, <2>4 DEF DataOK
  <2> QED
    BY <1>4, <2>5 DEF SendReturn, DataOK, data
<1>5. CASE InterPrepare(r)
  <2>1. InterPools \subseteq Pools
    BY DEF Pools
  <2> QED
    BY <1>5, <2>1 DEF InterPrepare, DataOK, data, InterIn, RemotePools
<1>6. CASE InterSendLocal(r)
  <2>1. RemoteInterOut(r, lvl[r]) \subseteq Pools
    BY DEF RemoteInterOut, InterOut, Pools
  <2>2. \A p \in LocalInterOut(r, lvl[r]) : p \in Pools
    BY DEF LocalInterOut, InterOut, Pools
  <2>3. \A p \in Pools : <<dist[r][p[2]]>> \in Seq(Message) /\ <<dist[r][p[2]]>> # <<>>
    BY PoolTypes DEF DataOK, Message
  <2>4. net' \in [Pools -> Seq(Message)] /\ \A q \in Pools \ RemotePools : net'[q] # <<>>
    BY <1>6, <2>2, <2>3 DEF InterSendLocal, DataOK
  <2> QED
    BY <1>6, <2>1, <2>4 DEF InterSendLocal, DataOK, data
<1> QED
  BY <1>1, <1>2, <1>3, <1>4, <1>5, <1>6

\* What the exchanges receive.
LEMMA DataReceive ==
  ASSUME ControlOK, DataOK, NEW r \in Ranks,
         ReceiveRemote(r) \/ InterReceiveLocal(r) \/ InterReceiveRemote(r)
  PROVE  DataOK'
<1>1. \A p \in Pools : net[p] # <<>> => Head(net[p]) \in Message
  BY DEF DataOK
<1>2. ASSUME NEW ps \in SUBSET RemotePools, Consume(ps)
      PROVE  /\ posted' \subseteq RemotePools
             /\ net' \in [Pools -> Seq(Message)]
             /\ \A p \in Pools \ RemotePools : net'[p] # <<>>
  BY <1>2 DEF Consume, Delivered, DataOK
<1>3. InterPools \subseteq Pools /\ SamePools \subseteq Pools
  BY DEF Pools
<1>4. CASE ReceiveRemote(r)
  <2>1. SameIn(r, lvl[r]) \subseteq RemotePools
    BY PoolTypes DEF SameIn
  <2>2. halo' \in [Ranks -> [Levels -> [Ranks -> Message]]]
    <3> DEFINE new == [s \in Ranks |-> IF /\ <<s, lvl[r], r, lvl[r]>> \in SameIn(r, lvl[r])
                                          /\ Delivered(<<s, lvl[r], r, lvl[r]>>)
                                         THEN Head(net[<<s, lvl[r], r, lvl[r]>>])
                                         ELSE halo[r][lvl[r]][s]]
    <3>1. lvl[r] \in Levels
      BY DEF ControlOK, ControlType
    <3>2. new \in [Ranks -> Message]
      BY <1>1, <1>3, <3>1 DEF Delivered, DataOK, SameIn
    <3>3. halo' = [halo EXCEPT ![r][lvl[r]] = new]
      BY <1>4 DEF ReceiveRemote
    <3> HIDE DEF new
    <3> QED
      BY <3>1, <3>2, <3>3 DEF DataOK
  <2> QED
    BY <1>2, <1>4, <2>1, <2>2 DEF ReceiveRemote, DataOK
<1>5. CASE InterReceiveLocal(r)
  <2>1. LocalInterIn(r, lvl[r]) \subseteq Pools \ RemotePools
    BY <1>3 DEF LocalInterIn, InterIn, ReceivedByRemote, RemotePools
  <2>2. iface' \in [InterPools -> Message]
    BY <1>1, <1>5, <2>1 DEF InterReceiveLocal, DataOK
  <2> QED
    BY <1>5, <2>2 DEF InterReceiveLocal, DataOK, mpi
<1>6. CASE InterReceiveRemote(r)
  <2>1. { p \in RemoteInterIn(r, lvl[r]) : ~IsLocal(p) } \subseteq RemotePools
    BY <1>3 DEF RemoteInterIn, InterIn, RemotePools
  <2>2. \A p \in InterPools : IsLocal(p) \/ Delivered(p) => Head(net[p]) \in Message
    BY <1>1, <1>3 DEF Delivered, DataOK, RemotePools
  <2>3. iface' \in [InterPools -> Message]
    BY <1>6, <2>2 DEF InterReceiveRemote, DataOK
  <2>4. coupled' \in [Ranks -> [Interfaces -> Nat]]
    <3>1. lvl[r] \in Levels /\ dist[r][lvl[r]].step \in Nat
      BY DEF ControlOK, ControlType, DataOK, Version
    <3>2. coupled' = [coupled EXCEPT ![r][lvl[r]] = dist[r][lvl[r]].step]
      BY <1>6 DEF InterReceiveRemote
    <3> QED
      BY <3>1, <3>2 DEF DataOK
  <2> QED
    BY <1>2, <1>6, <2>1, <2>3, <2>4 DEF InterReceiveRemote, DataOK
<1> QED
  BY <1>4, <1>5, <1>6

\* Every variable keeps its type, on any grid, for any number of ranks and
\* whatever messages MPI buffers.
THEOREM Typing == Spec => []TypeOK
<1>1. ControlOK /\ DataOK /\ [Next]_vars => DataOK'
  <2> SUFFICES ASSUME ControlOK, DataOK, [Next]_vars PROVE DataOK'
    OBVIOUS
  <2>1. ControlType
    BY DEF ControlOK
  <2>2. ASSUME NEW r \in Ranks, Step(r) \/ Throw(r) PROVE DataOK'
    BY <2>1, <2>2, DataHandshake, DataBlocks, DataSend, DataReceive DEF Step
  <2>3. CASE UNCHANGED vars
    BY <2>3 DEF vars, data, mpi, DataOK
  <2> QED
    BY <2>2, <2>3 DEF Next
<1>2. ControlOK /\ DataOK => TypeOK
  BY DEF ControlOK, ControlType, DataOK, TypeOK
<1> QED
  BY Control, DataInit, <1>1, <1>2, PTL DEF Spec

-----------------------------------------------------------------------------
(* The exchanges of a level: 3n + 1 after the collision of step n, 3n + 2    *)
(* before the interpolation that follows it, 3n + 3 the update of the ghost  *)
(* layers at the end of a time step; 1 is the handshake.                     *)

\* Step n of level l is followed by an interpolation ...
Interpolates(l, n) == n > 0 /\ (l < MaxLevel \/ (MaxLevel > 0 /\ n % 2 = 0))

\* ... and by an update of the ghost layers: it ends time step m.
Updates(l, n) == \E m \in 1 .. n : n = m * Shl[l] /\ StartTimeStep + m - 1 \in GhostUpdateSteps

Happens(l, k) ==
  \E n \in 0 .. k : \/ k = 3 * n + 1
                    \/ k = 3 * n + 2 /\ Interpolates(l, n)
                    \/ k = 3 * n + 3 /\ Updates(l, n)

\* The message of exchange k.
Carries(m, k) ==
  \A n \in 0 .. k : /\ k \in {3 * n + 1, 3 * n + 2, 3 * n + 3} => m.step = n
                    /\ k \in {3 * n + 2, 3 * n + 3} => m.stage = "swapped"

\* From a to b a level has made no exchange.
Skips(l, a, b) == a =< b /\ \A k \in a + 1 .. b : ~Happens(l, k)

\* From a to b a level has made the exchange k and no other.
Makes(l, a, k, b) == k \in a + 1 .. b /\ \A j \in a + 1 .. b : Happens(l, j) <=> j = k

\* q holds the messages of the exchanges a sender has made up to number hi and
\* the receiver has not made up to number lo, in their order; what was
\* received had been sent.
InTransit(q, l, lo, hi) ==
  /\ \A k \in hi + 1 .. lo : ~Happens(l, k)
  /\ \E ks \in [1 .. Len(q) -> lo + 1 .. hi] :
       /\ \A i \in 1 .. Len(q) : Happens(l, ks[i]) /\ Carries(q[i], ks[i])
       /\ \A i, j \in 1 .. Len(q) : i < j => ks[i] < ks[j]
       /\ \A k \in lo + 1 .. hi : Happens(l, k) => \E i \in 1 .. Len(q) : ks[i] = k

\* Which of the three numbers after step n are exchanges.
LEMMA HappensAfter ==
  ASSUME NEW l, NEW n \in Nat
  PROVE  /\ Happens(l, 3 * n + 1)
         /\ Happens(l, 3 * n + 2) <=> Interpolates(l, n)
         /\ Happens(l, 3 * n + 3) <=> Updates(l, n)
BY DEF Happens

\* A message of step n.
LEMMA CarriesAfter ==
  ASSUME NEW n \in Nat, NEW e \in 1 .. 3, NEW m, m.step = n, e > 1 => m.stage = "swapped"
  PROVE  Carries(m, 3 * n + e)
BY DEF Carries

\* What it is that a message of step n tells.
LEMMA CarriedAfter ==
  ASSUME NEW n \in Nat, NEW e \in 1 .. 3, NEW m, Carries(m, 3 * n + e)
  PROVE  m.step = n /\ (e > 1 => m.stage = "swapped")
<1>1. n \in 0 .. 3 * n + e
  OBVIOUS
<1> QED
  BY <1>1 DEF Carries

\* The numbers ks of the messages show what is in transit.
LEMMA InTransitBy ==
  ASSUME NEW q, NEW l, NEW lo, NEW hi, NEW n, Len(q) = n,
         NEW ks \in [1 .. n -> lo + 1 .. hi],
         \A i \in 1 .. n : Happens(l, ks[i]) /\ Carries(q[i], ks[i]),
         \A i, j \in 1 .. n : i < j => ks[i] < ks[j],
         \A k \in lo + 1 .. hi : Happens(l, k) => \E i \in 1 .. n : ks[i] = k,
         \A k \in hi + 1 .. lo : ~Happens(l, k)
  PROVE  InTransit(q, l, lo, hi)
BY DEF InTransit

\* Skipping on either side leaves what is in transit.
LEMMA InTransitSkip ==
  ASSUME NEW q \in Seq(Message), NEW l, NEW lo \in Int, NEW hi \in Int, NEW lo2 \in Int, NEW hi2 \in Int,
         InTransit(q, l, lo, hi), Skips(l, lo, lo2), Skips(l, hi, hi2)
  PROVE  InTransit(q, l, lo2, hi2)
<1>1. PICK ks \in [1 .. Len(q) -> lo + 1 .. hi] :
       /\ \A i \in 1 .. Len(q) : Happens(l, ks[i]) /\ Carries(q[i], ks[i])
       /\ \A i, j \in 1 .. Len(q) : i < j => ks[i] < ks[j]
       /\ \A k \in lo + 1 .. hi : Happens(l, k) => \E i \in 1 .. Len(q) : ks[i] = k
  BY DEF InTransit
<1>2. \A k \in hi + 1 .. lo : ~Happens(l, k)
  BY DEF InTransit
<1>3. ks \in [1 .. Len(q) -> lo2 + 1 .. hi2]
  BY <1>1 DEF Skips
<1>4. \A k \in hi2 + 1 .. lo2 : ~Happens(l, k)
  BY <1>2 DEF Skips
<1>5. \A k \in lo2 + 1 .. hi2 : Happens(l, k) => \E i \in 1 .. Len(q) : ks[i] = k
  BY <1>1 DEF Skips
<1> QED
  BY <1>1, <1>3, <1>4, <1>5 DEF InTransit

\* The sender makes exchange k.
LEMMA InTransitSend ==
  ASSUME NEW q \in Seq(Message), NEW l, NEW lo \in Int, NEW hi \in Int, NEW hi2 \in Int,
         InTransit(q, l, lo, hi),
         NEW k \in Int, Makes(l, hi, k, hi2), NEW m \in Message, Carries(m, k)
  PROVE  InTransit(Append(q, m), l, lo, hi2)
<1> DEFINE n == Len(q)
<1>1. PICK ks \in [1 .. n -> lo + 1 .. hi] :
       /\ \A i \in 1 .. n : Happens(l, ks[i]) /\ Carries(q[i], ks[i])
       /\ \A i, j \in 1 .. n : i < j => ks[i] < ks[j]
       /\ \A j \in lo + 1 .. hi : Happens(l, j) => \E i \in 1 .. n : ks[i] = j
  BY DEF InTransit
<1>2. \A j \in hi + 1 .. lo : ~Happens(l, j)
  BY DEF InTransit
<1>3. k > hi /\ k =< hi2 /\ Happens(l, k) /\ k > lo
  BY <1>2 DEF Makes
<1>4. n \in Nat /\ Len(Append(q, m)) = n + 1 /\ Append(q, m)[n + 1] = m
      /\ \A i \in 1 .. n : Append(q, m)[i] = q[i]
  OBVIOUS
<1> DEFINE ms == [i \in 1 .. n + 1 |-> IF i = n + 1 THEN k ELSE ks[i]]
<1>5. ms \in [1 .. n + 1 -> lo + 1 .. hi2]
  BY <1>1, <1>3, <1>4
<1> HIDE DEF n
<1>6. ms[n + 1] = k /\ \A i \in 1 .. n : ms[i] = ks[i] /\ ms[i] \in Int /\ ms[i] =< hi
  <2>1. n + 1 \in 1 .. n + 1 /\ \A i \in 1 .. n : i \in 1 .. n + 1 /\ i # n + 1
    BY <1>4
  <2>2. ms[n + 1] = k /\ \A i \in 1 .. n : ms[i] = ks[i]
    BY <2>1
  <2>3. \A i \in 1 .. n : ks[i] \in lo + 1 .. hi
    BY <1>1
  <2> QED
    BY <2>2, <2>3
<1> HIDE DEF ms
<1>7. \A i \in 1 .. n + 1 : i \in 1 .. n \/ i = n + 1
  BY <1>4
<1>8. \A i \in 1 .. n + 1 : Happens(l, ms[i]) /\ Carries(Append(q, m)[i], ms[i])
  BY <1>1, <1>3, <1>4, <1>6, <1>7
<1>9. ASSUME NEW i \in 1 .. n + 1, NEW j \in 1 .. n + 1, i < j PROVE ms[i] < ms[j]
  <2>1. i \in 1 .. n
    BY <1>4, <1>9
  <2>2. CASE j \in 1 .. n
    BY <1>1, <1>6, <1>9, <2>1, <2>2
  <2>3. CASE j = n + 1
    BY <1>3, <1>6, <2>1, <2>3
  <2> QED
    BY <1>7, <2>2, <2>3
<1>10. ASSUME NEW j \in lo + 1 .. hi2, Happens(l, j) PROVE \E i \in 1 .. n + 1 : ms[i] = j
  <2>1. CASE j =< hi
    <3>1. PICK i \in 1 .. n : ks[i] = j
      BY <1>1, <1>10, <2>1
    <3>2. i \in 1 .. n + 1
      BY <1>4
    <3> QED
      BY <1>6, <3>1, <3>2
  <2>2. CASE ~(j =< hi)
    <3>1. j = k
      BY <1>10, <2>2 DEF Makes
    <3> QED
      BY <1>4, <1>6, <3>1
  <2> QED
    BY <2>1, <2>2
<1>11. \A j \in hi2 + 1 .. lo : ~Happens(l, j)
  BY <1>2, <1>3
<1> QED
  BY <1>4, <1>5, <1>8, <1>9, <1>10, <1>11, InTransitBy

\* The receiver makes exchange k: the first message in transit is its message.
LEMMA InTransitReceive ==
  ASSUME NEW q \in Seq(Message), q # <<>>, NEW l, NEW lo \in Int, NEW hi \in Int, NEW lo2 \in Int,
         InTransit(q, l, lo, hi), NEW k \in Int, Makes(l, lo, k, lo2)
  PROVE  Carries(Head(q), k) /\ InTransit(Tail(q), l, lo2, hi)
<1> DEFINE n == Len(q)
<1>1. PICK ks \in [1 .. n -> lo + 1 .. hi] :
       /\ \A i \in 1 .. n : Happens(l, ks[i]) /\ Carries(q[i], ks[i])
       /\ \A i, j \in 1 .. n : i < j => ks[i] < ks[j]
       /\ \A j \in lo + 1 .. hi : Happens(l, j) => \E i \in 1 .. n : ks[i] = j
  BY DEF InTransit
<1>2. \A j \in hi + 1 .. lo : ~Happens(l, j)
  BY DEF InTransit
<1>3. /\ n \in Nat /\ n > 0 /\ Head(q) = q[1] /\ Len(Tail(q)) = n - 1
      /\ \A i \in 1 .. n - 1 : Tail(q)[i] = q[i + 1]
  OBVIOUS
<1>4. k > lo /\ k =< lo2 /\ Happens(l, k) /\ \A j \in lo + 1 .. lo2 : Happens(l, j) <=> j = k
  BY DEF Makes
<1> HIDE DEF n
<1>5. ks[1] \in lo + 1 .. hi /\ Happens(l, ks[1]) /\ Carries(q[1], ks[1])
  BY <1>1, <1>3
<1>6. ks[1] = k
  <2>1. ks[1] >= k
    BY <1>4, <1>5
  <2>2. k \in lo + 1 .. hi
    BY <1>4, <1>5, <2>1
  <2>3. PICK i \in 1 .. n : ks[i] = k
    BY <1>1, <1>4, <2>2
  <2>4. i = 1 \/ ks[1] < ks[i]
    BY <1>1, <1>3
  <2> QED
    BY <2>1, <2>3, <2>4, <1>5
<1> DEFINE ms == [i \in 1 .. n - 1 |-> ks[i + 1]]
<1>7. \A i \in 1 .. n - 1 : i + 1 \in 1 .. n /\ ms[i] = ks[i + 1] /\ ks[i + 1] > k /\ ks[i + 1] \in lo + 1 .. hi
  BY <1>1, <1>3, <1>5, <1>6
<1>8. \A i \in 1 .. n - 1 : ks[i + 1] \in lo2 + 1 .. hi
  BY <1>1, <1>4, <1>7
<1>9. ms \in [1 .. n - 1 -> lo2 + 1 .. hi]
  BY <1>8
<1> HIDE DEF ms
<1>10. \A i \in 1 .. n - 1 : Happens(l, ms[i]) /\ Carries(Tail(q)[i], ms[i])
  BY <1>1, <1>3, <1>7
<1>11. \A i, j \in 1 .. n - 1 : i < j => ms[i] < ms[j]
  BY <1>1, <1>3, <1>7
<1>12. ASSUME NEW j \in lo2 + 1 .. hi, Happens(l, j) PROVE \E i \in 1 .. n - 1 : ms[i] = j
  <2>1. j \in lo + 1 .. hi /\ j # k
    BY <1>4
  <2>2. PICK i \in 1 .. n : ks[i] = j
    BY <1>1, <1>12, <2>1
  <2>3. i # 1 /\ i - 1 \in 1 .. n - 1 /\ (i - 1) + 1 = i
    BY <1>3, <1>6, <2>1, <2>2
  <2> QED
    BY <1>7, <2>2, <2>3
<1>13. \A j \in hi + 1 .. lo2 : ~Happens(l, j)
  BY <1>2, <1>4, <1>5, <1>6
<1> QED
  <2>1. InTransit(Tail(q), l, lo2, hi)
    BY ZenonT(40), <1>3, <1>9, <1>10, <1>11, <1>12, <1>13, InTransitBy
  <2> QED
    BY <1>3, <1>5, <1>6, <2>1

\* Nothing is in transit between two ends that stand at the same number.
LEMMA InTransitNothing ==
  ASSUME NEW q \in Seq(Message), NEW l, NEW k \in Int, InTransit(q, l, k, k)
  PROVE  q = <<>>
<1>1. PICK ks : ks \in [1 .. Len(q) -> k + 1 .. k]
  BY DEF InTransit
<1>2. SUFFICES ASSUME q # <<>> PROVE FALSE
  OBVIOUS
<1>3. 1 \in 1 .. Len(q)
  BY <1>2
<1>4. ks[1] \in k + 1 .. k
  BY <1>1, <1>3
<1> QED
  BY <1>4

-----------------------------------------------------------------------------
(* The loop variables of a rank say which exchanges its levels make *)

\* A power of two after the first is even.
LEMMA ShlEven ==
  ASSUME NEW k \in 0 .. MaxLevel, k > 0
  PROVE  Shl[k] = 2 * Shl[k - 1] /\ Shl[k - 1] \in Nat
<1>1. k - 1 \in 0 .. MaxLevel - 1 /\ k - 1 \in 0 .. MaxLevel /\ (k - 1) + 1 = k
  BY LevelFacts
<1>2. Shl[(k - 1) + 1] = 2 * Shl[k - 1]
  BY <1>1, ShiftAssumption
<1> QED
  BY <1>1, <1>2, ShlPositive

\* How often a level that takes a step has stepped.
LEMMA StepOf ==
  ASSUME MinLevel = 0, ControlOK, NEW r \in Ranks, Chosen(r),
         NEW l \in Levels, l >= straightStartLevel[r]
  PROVE  \E a \in Nat, b \in Nat :
           /\ a = calcStep[r] - StartTimeStep /\ b > 0
           /\ staggeredStep[r] = b * Shl[MaxLevel - l]
           /\ Elapsed(r, l, staggeredStep[r]) = a * Shl[l] + b
<1> DEFINE s == staggeredStep[r]
           d == Shl[MaxLevel - l]
           b == s \div d
<1>1. /\ s \in Nat /\ s > 0 /\ l \in 0 .. MaxLevel /\ MaxLevel \in Nat
      /\ calcStep[r] - StartTimeStep \in Nat
  BY LevelFacts, StepAssumption DEF ControlOK, ControlType, Levels
<1>2. d \in Nat /\ d > 0
  BY <1>1, ShlPositive
<1>3. s % d = 0
  BY Due
<1> HIDE DEF s, d
<1>4. b \in Nat /\ s = b * d
  BY <1>1, <1>2, <1>3, MultipleOfQuotient
<1>5. b > 0
  BY <1>1, <1>2, <1>4
<1> QED
  BY <1>1, <1>4, <1>5 DEF Elapsed, s, d

\* A staggered step ends with an interpolation unless only the finest level
\* moved, which then has made an odd number of steps.
LEMMA InterpolatesIff ==
  ASSUME MinLevel = 0, ControlOK, NEW r \in Ranks, Chosen(r),
         NEW l \in Levels, l >= straightStartLevel[r]
  PROVE  Interpolates(l, Elapsed(r, l, staggeredStep[r])) <=> straightStartLevel[r] < MaxLevel
<1> DEFINE L == straightStartLevel[r]
           s == staggeredStep[r]
<1>1. /\ L \in 0 .. MaxLevel /\ s \in Nat /\ s > 0 /\ l \in 0 .. MaxLevel /\ MaxLevel \in Nat
      /\ MaxInitLevel = MaxLevel
  BY LevelFacts DEF ControlOK, ControlType, Levels, MaxInitLevel
<1>2. PICK a \in Nat, b \in Nat :
        b > 0 /\ s = b * Shl[MaxLevel - l] /\ Elapsed(r, l, s) = a * Shl[l] + b
  BY StepOf
<1>3. Shl[l] \in Nat
  BY <1>1, ShlPositive
<1>4. a * Shl[l] \in Nat
  BY <1>2, <1>3
<1>5. a * Shl[l] + b > 0
  BY <1>2, <1>4
<1>6. CASE l < MaxLevel
  BY <1>1, <1>2, <1>5, <1>6 DEF Interpolates
<1>7. CASE l = MaxLevel
  <2>1. b = s
    <3>1. Shl[MaxLevel - l] = 1
      BY <1>1, <1>7, ShiftAssumption
    <3> QED
      BY <1>2, <3>1
  <2>2. CASE MaxLevel = 0
    BY <1>1, <1>2, <1>7, <2>2 DEF Interpolates
  <2>3. CASE MaxLevel > 0
    <3>1. Shl[l] = 2 * Shl[l - 1] /\ Shl[l - 1] \in Nat
      BY <1>1, <1>7, <2>3, ShlEven
    <3>2. PICK k \in Nat : s = k * Shl[MaxLevel - L] /\ (L > 0 => k % 2 = 1)
      BY <1>1, LevelFacts DEF Chosen
    <3>3. (a * Shl[l] + b) % 2 = s % 2
      <4>1. a * Shl[l] = 2 * (a * Shl[l - 1]) /\ a * Shl[l - 1] \in Nat
        BY <1>2, <3>1
      <4> DEFINE c == a * Shl[l - 1]
      <4> HIDE DEF c
      <4>2. (2 * c + s) % 2 = s % 2
        BY <1>1, <4>1 DEF c
      <4> QED
        BY <2>1, <4>1, <4>2 DEF c
    <3>4. CASE L < MaxLevel
      <4>1. MaxLevel - L \in 0 .. MaxLevel /\ MaxLevel - L > 0
        BY <1>1, <3>4
      <4>2. Shl[MaxLevel - L] = 2 * Shl[MaxLevel - L - 1] /\ Shl[MaxLevel - L - 1] \in Nat
        BY <4>1, ShlEven
      <4> DEFINE c == Shl[MaxLevel - L - 1]
      <4> HIDE DEF c
      <4>3. s = 2 * (k * c) /\ k * c \in Nat
        BY <3>2, <4>2 DEF c
      <4>4. s % 2 = 0
        BY <4>3
      <4> QED
        BY <1>2, <1>5, <2>3, <3>3, <3>4, <4>4, <1>7 DEF Interpolates
    <3>5. CASE L = MaxLevel
      <4>1. Shl[MaxLevel - L] = 1
        BY <1>1, <3>5, ShiftAssumption
      <4>2. s % 2 = 1
        BY <1>1, <2>3, <3>2, <3>5, <4>1
      <4> QED
        BY <1>1, <1>2, <1>7, <3>3, <3>5, <4>2 DEF Interpolates
    <3> QED
      BY <1>1, <3>4, <3>5
  <2> QED
    BY <1>1, <2>2, <2>3
<1> QED
  BY <1>1, <1>6, <1>7

\* In the last staggered step all levels take a step.
LEMMA LastSubstep ==
  ASSUME MinLevel = 0, ControlOK, NEW r \in Ranks, Chosen(r),
         staggeredStep[r] = InternalIterations
  PROVE  straightStartLevel[r] = 0
<1> DEFINE L == straightStartLevel[r]
<1>1. L \in 0 .. MaxLevel /\ MaxLevel \in Nat /\ MaxInitLevel = MaxLevel
  BY LevelFacts DEF ControlOK, ControlType, MaxInitLevel
<1>2. SUFFICES ASSUME L > 0 PROVE FALSE
  BY <1>1
<1>3. PICK k \in Nat : InternalIterations = k * Shl[MaxLevel - L] /\ k % 2 = 1
  BY <1>1, <1>2 DEF Chosen
<1>4. InternalIterations = Shl[L] * Shl[MaxLevel - L]
  <2>1. L \in 0 .. MaxLevel /\ MaxLevel - L \in 0 .. MaxLevel /\ L + (MaxLevel - L) =< MaxLevel
        /\ L + (MaxLevel - L) = MaxLevel - 0 - 0
    BY <1>1
  <2> QED
    BY <2>1, ShlProduct DEF InternalIterations, MaxInitLevel
<1>5. Shl[L] \in Nat /\ Shl[MaxLevel - L] \in Nat /\ Shl[MaxLevel - L] > 0
  BY <1>1, ShlPositive
<1>6. k = Shl[L]
  <2>1. (k * Shl[MaxLevel - L]) \div Shl[MaxLevel - L] = k
    BY <1>3, <1>5, DivideProduct
  <2>2. (Shl[L] * Shl[MaxLevel - L]) \div Shl[MaxLevel - L] = Shl[L]
    BY <1>5, DivideProduct
  <2> QED
    BY <1>3, <1>4, <2>1, <2>2
<1>7. Shl[L] = 2 * Shl[L - 1] /\ Shl[L - 1] \in Nat
  BY <1>1, <1>2, ShlEven
<1> QED
  BY <1>3, <1>6, <1>7

\* The ghost layers are updated after the last staggered step of a time step
\* of the schedule, and at no other time.
LEMMA UpdatesIff ==
  ASSUME MinLevel = 0, ControlOK, NEW r \in Ranks, Chosen(r),
         NEW l \in Levels, l >= straightStartLevel[r]
  PROVE  Updates(l, Elapsed(r, l, staggeredStep[r]))
           <=> staggeredStep[r] = InternalIterations /\ calcStep[r] \in GhostUpdateSteps
<1> DEFINE s == staggeredStep[r]
           f == Shl[l]
           d == Shl[MaxLevel - l]
<1>1. /\ s \in Nat /\ s > 0 /\ s =< InternalIterations /\ l \in 0 .. MaxLevel /\ MaxLevel \in Nat
      /\ MaxInitLevel = MaxLevel /\ calcStep[r] \in Nat /\ StartTimeStep \in Nat
  BY LevelFacts, StepAssumption DEF ControlOK, ControlType, Levels, MaxInitLevel
<1>2. PICK a \in Nat, b \in Nat :
        a = calcStep[r] - StartTimeStep /\ b > 0 /\ s = b * d /\ Elapsed(r, l, s) = a * f + b
  BY StepOf
<1>3. f \in Nat /\ f > 0 /\ d \in Nat /\ d > 0
  BY <1>1, ShlPositive
<1>4. InternalIterations = f * d
  <2>1. l \in 0 .. MaxLevel /\ MaxLevel - l \in 0 .. MaxLevel /\ l + (MaxLevel - l) =< MaxLevel
        /\ l + (MaxLevel - l) = MaxLevel - 0 - 0
    BY <1>1
  <2> QED
    BY <2>1, ShlProduct DEF InternalIterations, MaxInitLevel
<1> HIDE DEF s, f, d
<1>5. b =< f
  BY <1>1, <1>2, <1>3, <1>4
<1>6. b = f <=> s = InternalIterations
  BY <1>2, <1>3, <1>4
<1>7. ASSUME NEW m \in Nat, a * f + b = m * f PROVE b = f /\ m = a + 1
  <2>1. b = (m - a) * f
    BY <1>2, <1>3, <1>7
  <2>2. m - a \in Int /\ m - a > 0
    BY <1>2, <1>3, <2>1
  <2>3. m - a =< 1
    BY <1>2, <1>3, <1>5, <2>1, <2>2
  <2>4. m - a = 1
    BY <2>2, <2>3
  <2> QED
    BY <1>2, <1>3, <1>7, <2>1, <2>4
<1>8. ASSUME Updates(l, a * f + b) PROVE b = f /\ calcStep[r] \in GhostUpdateSteps
  <2>1. PICK m \in 1 .. a * f + b : a * f + b = m * f /\ StartTimeStep + m - 1 \in GhostUpdateSteps
    BY <1>8 DEF Updates, f
  <2>2. m \in Nat
    BY <2>1
  <2>3. b = f /\ m = a + 1
    BY <1>7, <2>1, <2>2
  <2>4. StartTimeStep + m - 1 = calcStep[r]
    BY <1>1, <1>2, <2>3
  <2> QED
    BY <2>1, <2>3, <2>4
<1>9. ASSUME b = f, calcStep[r] \in GhostUpdateSteps PROVE Updates(l, a * f + b)
  <2>1. a * f + b = (a + 1) * f
    BY <1>2, <1>3, <1>9
  <2>2. (a + 1) * f >= a + 1
    BY <1>2, <1>3
  <2>3. a + 1 \in 1 .. a * f + b
    <3> DEFINE n == a * f + b
    <3>1. n \in Int /\ n >= a + 1
      BY <1>2, <1>3, <2>1, <2>2
    <3> HIDE DEF n
    <3>2. a + 1 \in 1 .. n
      BY <1>2, <3>1
    <3> QED
      BY <3>2 DEF n
  <2>4. StartTimeStep + (a + 1) - 1 = calcStep[r]
    BY <1>1, <1>2
  <2> QED
    BY <1>9, <2>1, <2>3, <2>4 DEF Updates, f
<1>10. Updates(l, a * f + b) <=> b = f /\ calcStep[r] \in GhostUpdateSteps
  BY <1>8, <1>9
<1>11. Elapsed(r, l, s) = a * f + b
  BY <1>2
<1> QED
  BY <1>6, <1>10, <1>11 DEF s

-----------------------------------------------------------------------------
(* What the place of a rank says about its variables *)

Handshake == {"sizeSend", "sizeReceive", "interSizeSend", "interSizeReceive"}

\* The levels that took a step have swapped their distributions.
HasSwapped(r) ==
  \/ pc[r] \in {"interPrepare", "endSubstep", "notify"} \cup Coupling
  \/ pc[r] \in Exchange /\ return[r] # "postBC"

PlaceOK(r) ==
  /\ pc[r] \in Handshake => calcStep[r] = StartTimeStep /\ staggeredStep[r] = 1
  /\ pc[r] = "finished" => calcStep[r] = NumberOfTimeSteps + 1 /\ staggeredStep[r] = 1
  /\ pc[r] \in Exchange => straightStartLevel[r] =< lvl[r]
  /\ pc[r] \in Exchange /\ return[r] = "notify" => calcStep[r] \in GhostUpdateSteps
  /\ sending[r] \in unsent[r] \cup {None}
  /\ pc[r] \notin {"sendRemote", "interSendRemote"} => unsent[r] = {}
  /\ pc[r] = "sendRemote" => unsent[r] \subseteq SameOut(r, lvl[r])
  /\ pc[r] = "interSendRemote" => unsent[r] \subseteq RemoteInterOut(r, lvl[r])
  /\ HasSwapped(r) => \A l \in straightStartLevel[r] .. MaxLevel : dist[r][l].stage = "swapped"

\* The typed variables, the control of the loop and the count of the steps.
Ground == ControlOK /\ Counting /\ TypeOK

Placed == \A r \in Ranks : PlaceOK(r)

\* On a grid with blocks of level 0 these hold.
LEMMA GroundInvariant == ASSUME MinLevel = 0 PROVE Spec => []Ground
BY Control, CountingInvariant, Typing, PTL DEF Ground

\* A step of one rank leaves the variables of the others alone.
LEMMA OthersKept ==
  ASSUME TypeOK, NEW r \in Ranks, Step(r) \/ Throw(r), NEW q \in Ranks, q # r
  PROVE  UNCHANGED <<pc[q], calcStep[q], staggeredStep[q], straightStartLevel[q], lvl[q], return[q],
                     unsent[q], sending[q], dist[q], halo[q], coupled[q]>>
<1> USE DEF TypeOK, Goto, EnterLevelLoop, control, data, mpi
<1>1. CASE SizeSend(r) \/ SizeReceive(r) \/ InterSizeSend(r) \/ InterSizeReceive(r)
  BY <1>1 DEF SizeSend, SizeReceive, InterSizeSend, InterSizeReceive
<1>2. CASE Select(r) \/ Threshold(r)
  BY <1>2 DEF Select, Threshold
<1>3. CASE PreCollisionBC(r) \/ PostCollisionBC(r) \/ SwapDistributions(r)
  BY <1>3 DEF PreCollisionBC, PostCollisionBC, SwapDistributions, SetStage
<1>4. CASE Calculate(r)
  BY <1>4 DEF Calculate
<1>5. CASE SendLocal(r) \/ PrepareRemote(r)
  BY <1>5 DEF SendLocal, PrepareRemote
<1>6. CASE SendBegin(r) \/ SendReturn(r) \/ SendsDone(r)
  BY <1>6 DEF SendBegin, SendReturn, SendsDone
<1>7. CASE ReceiveRemote(r)
  BY <1>7 DEF ReceiveRemote
<1>8. CASE InterPrepare(r) \/ InterSendLocal(r) \/ InterSendsDone(r)
  BY <1>8 DEF InterPrepare, InterSendLocal, InterSendsDone
<1>9. CASE InterReceiveLocal(r) \/ InterReceiveRemote(r)
  BY <1>9 DEF InterReceiveLocal, InterReceiveRemote
<1>10. CASE EndSubstep(r) \/ Notify(r) \/ Throw(r)
  BY <1>10 DEF EndSubstep, Notify, Throw
<1> QED
  BY <1>1, <1>2, <1>3, <1>4, <1>5, <1>6, <1>7, <1>8, <1>9, <1>10 DEF Step

\* Nobody sends at the start.
LEMMA PlacedInit == Init => Placed
BY DEF Init, Placed, PlaceOK, Handshake, HasSwapped, Exchange, Coupling

\* Steps outside the exchanges.
LEMMA PlacedOutside ==
  ASSUME MinLevel = 0, Ground, NEW r \in Ranks, PlaceOK(r),
         \/ SizeSend(r) \/ SizeReceive(r) \/ InterSizeSend(r) \/ InterSizeReceive(r)
         \/ Select(r) \/ Threshold(r)
         \/ PreCollisionBC(r) \/ Calculate(r) \/ PostCollisionBC(r) \/ SwapDistributions(r)
         \/ EndSubstep(r) \/ Notify(r) \/ Throw(r)
  PROVE  PlaceOK(r)'
<1> USE DEF TypeOK, Goto, EnterLevelLoop, control, data, mpi, PlaceOK, Handshake, HasSwapped,
        Exchange, Coupling
<1>0. TypeOK /\ ControlAt(r) /\ MaxInitLevel = MaxLevel
  BY LevelFacts DEF Ground, ControlOK, MaxInitLevel
<1>1. CASE SizeSend(r) \/ SizeReceive(r) \/ InterSizeSend(r) \/ InterSizeReceive(r)
  BY <1>0, <1>1 DEF SizeSend, SizeReceive, InterSizeSend, InterSizeReceive
<1>2. CASE Select(r) \/ Threshold(r)
  BY <1>0, <1>2 DEF Select, Threshold
<1>3. CASE PreCollisionBC(r) \/ PostCollisionBC(r)
  BY <1>0, <1>3 DEF PreCollisionBC, PostCollisionBC
<1>4. CASE SwapDistributions(r)
  BY <1>0, <1>4, LevelFacts DEF SwapDistributions, SetStage, ActiveLevels, Levels
<1>5. CASE Calculate(r)
  BY <1>0, <1>5 DEF Calculate
<1>6. CASE EndSubstep(r)
  BY <1>0, <1>6 DEF EndSubstep
<1>7. CASE Notify(r)
  BY <1>0, <1>7, StepAssumption DEF Notify, ControlAt
<1>8. CASE Throw(r)
  BY <1>0, <1>8 DEF Throw
<1> QED
  BY <1>1, <1>2, <1>3, <1>4, <1>5, <1>6, <1>7, <1>8

\* Steps of the exchanges and of the interpolation.
LEMMA PlacedInside ==
  ASSUME MinLevel = 0, Ground, NEW r \in Ranks, PlaceOK(r),
         \/ SendLocal(r) \/ PrepareRemote(r) \/ SendBegin(r) \/ SendReturn(r) \/ SendsDone(r)
         \/ ReceiveRemote(r) \/ InterPrepare(r) \/ InterSendLocal(r) \/ InterSendsDone(r)
         \/ InterReceiveLocal(r) \/ InterReceiveRemote(r)
  PROVE  PlaceOK(r)'
<1> USE DEF TypeOK, Goto, EnterLevelLoop, control, data, mpi, PlaceOK, Handshake, HasSwapped,
        Exchange, Coupling
<1>0. TypeOK /\ MaxInitLevel = MaxLevel
  BY LevelFacts DEF Ground, MaxInitLevel
<1>1. CASE SendLocal(r)
  BY <1>0, <1>1 DEF SendLocal
<1>2. CASE PrepareRemote(r)
  BY <1>0, <1>2 DEF PrepareRemote
<1>3. CASE SendBegin(r)
  BY <1>0, <1>3 DEF SendBegin
<1>4. CASE SendReturn(r)
  BY <1>0, <1>4 DEF SendReturn
<1>5. CASE SendsDone(r)
  BY <1>0, <1>5 DEF SendsDone
<1>6. CASE ReceiveRemote(r)
  BY <1>0, <1>6, LevelFacts DEF ReceiveRemote, MoreToExchange, Levels
<1>7. CASE InterPrepare(r)
  BY <1>0, <1>7 DEF InterPrepare
<1>8. CASE InterSendLocal(r)
  BY <1>0, <1>8 DEF InterSendLocal
<1>9. CASE InterSendsDone(r)
  BY <1>0, <1>9 DEF InterSendsDone
<1>10. CASE InterReceiveLocal(r) \/ InterReceiveRemote(r)
  BY <1>0, <1>10 DEF InterReceiveLocal, InterReceiveRemote
<1> QED
  BY <1>1, <1>2, <1>3, <1>4, <1>5, <1>6, <1>7, <1>8, <1>9, <1>10

\* Every rank is what its place says.
LEMMA PlacedInvariant == ASSUME MinLevel = 0 PROVE Spec => []Placed
<1>1. Ground /\ Placed /\ [Next]_vars => Placed'
  <2> SUFFICES ASSUME Ground, Placed, [Next]_vars PROVE Placed'
    OBVIOUS
  <2>1. ASSUME NEW r \in Ranks, Step(r) \/ Throw(r) PROVE Placed'
    <3>1. PlaceOK(r)'
      BY <2>1, PlacedOutside, PlacedInside DEF Placed, Step
    <3>2. ASSUME NEW q \in Ranks, q # r PROVE PlaceOK(q)'
      <4>1. UNCHANGED <<pc[q], calcStep[q], staggeredStep[q], straightStartLevel[q], lvl[q], return[q],
                        unsent[q], sending[q], dist[q]>>
        BY <2>1, <3>2, OthersKept DEF Ground
      <4> QED
        BY <4>1 DEF Placed, PlaceOK, HasSwapped
    <3> QED
      BY <3>1, <3>2 DEF Placed
  <2>2. CASE UNCHANGED vars
    BY <2>2 DEF vars, control, data, Placed, PlaceOK, HasSwapped
  <2> QED
    BY <2>1, <2>2 DEF Next
<1> QED
  BY PlacedInit, GroundInvariant, <1>1, PTL DEF Spec

-----------------------------------------------------------------------------
(* Outstanding receives *)

\* A same-level pool connects two ranks that have adjacent blocks.
LEMMA SamePool ==
  ASSUME NEW p \in SamePools
  PROVE  /\ p \in Pools /\ p \notin InterPools
         /\ Source(p) \in Ranks /\ Target(p) \in Ranks /\ Source(p) # Target(p)
         /\ p[2] \in Levels /\ p[4] = p[2]
         /\ <<p[2], Target(p), Source(p)>> \in Adjacent
         /\ p = <<Source(p), p[2], Target(p), p[2]>>
<1>1. PICK a \in Adjacent : a[2] # a[3] /\ p = <<a[2], a[1], a[3], a[1]>>
  BY DEF SamePools
<1>2. a[1] \in Levels /\ a[2] \in Ranks /\ a[3] \in Ranks /\ <<a[1], a[3], a[2]>> \in Adjacent
  BY TopologyAssumption DEF Levels
<1>3. a[1] # a[1] + 1
  BY <1>2, LevelFacts DEF Levels
<1>4. \A q \in InterPools : q[2] # q[4]
  <2>1. \A b \in Refined : b[1] \in Int
    BY TopologyAssumption, LevelFacts
  <2> QED
    BY <2>1 DEF InterPools, CFPools, FCPools
<1> QED
  BY <1>1, <1>2, <1>4 DEF Source, Target, Pools

\* An interpolation pool connects the two levels of its interface.
LEMMA InterPool ==
  ASSUME NEW p \in InterPools
  PROVE  /\ p \in Pools /\ p \notin SamePools
         /\ Source(p) \in Ranks /\ Target(p) \in Ranks
         /\ InterfaceOf(p) \in Interfaces /\ InterfaceOf(p) \in Levels
         /\ \/ p \in CFPools /\ p[2] = InterfaceOf(p) /\ p[4] = InterfaceOf(p) + 1
            \/ p \in FCPools /\ p \notin CFPools /\ p[2] = InterfaceOf(p) + 1 /\ p[4] = InterfaceOf(p)
<1>1. PICK a \in Refined :
        \/ p \in CFPools /\ p = <<a[2], a[1], a[3], a[1] + 1>>
        \/ p \in FCPools /\ p = <<a[3], a[1] + 1, a[2], a[1]>>
  BY DEF InterPools, CFPools, FCPools
<1>2. a[1] \in Interfaces /\ a[1] \in Levels /\ a[1] \in Int /\ a[2] \in Ranks /\ a[3] \in Ranks
  BY TopologyAssumption, LevelFacts DEF Interfaces, Levels
<1>3. p \notin SamePools
  BY SamePool
<1>4. ASSUME p[2] > p[4], p[2] \in Int, p[4] \in Int PROVE p \notin CFPools
  <2>1. \A b \in Refined : b[1] \in Int
    BY TopologyAssumption, LevelFacts
  <2> QED
    BY <1>4, <2>1 DEF CFPools
<1> QED
  BY <1>1, <1>2, <1>3, <1>4 DEF Source, Target, InterfaceOf, Pools, InterPools

\* A rank waits for the messages of one level from connectorsPrepareRemote to
\* connectorsReceiveRemote, ...
AwaitsExchange(p) ==
  pc[Target(p)] \in {"sendRemote", "receiveRemote"} /\ lvl[Target(p)] = p[4]

\* ... and for those of all active interfaces from the preparation of the
\* interpolation to the receive of each.
AwaitsCoupling(p) ==
  LET t == Target(p)
      j == InterfaceOf(p)
  IN  \/ pc[t] \in {"interSendLocal", "interSendRemote"} /\ straightStartLevel[t] =< j
      \/ pc[t] \in WhileReceiving /\ lvl[t] =< j

Requests ==
  /\ \A p \in SamePools : p \in posted <=> AwaitsExchange(p)
  /\ \A p \in InterPools : ~IsLocal(p) => (p \in posted <=> AwaitsCoupling(p))

\* No receive is posted at the start.
LEMMA RequestsInit == Init => Requests
BY ZenonT(40), SamePool, InterPool DEF Init, Requests, AwaitsExchange, AwaitsCoupling, WhileReceiving

\* The four steps that post and complete receives.
LEMMA RequestsChange ==
  ASSUME MinLevel = 0, Ground, Requests, NEW r \in Ranks,
         PrepareRemote(r) \/ ReceiveRemote(r) \/ InterPrepare(r) \/ InterReceiveRemote(r)
  PROVE  Requests'
<1>0. TypeOK /\ ControlAt(r) /\ MaxInitLevel = MaxLevel
  BY LevelFacts DEF Ground, ControlOK, MaxInitLevel
<1>1. \A q \in Ranks \ {r} : UNCHANGED <<pc[q], lvl[q], straightStartLevel[q]>>
  BY <1>0, OthersKept DEF Step
<1>2. ASSUME NEW p \in SamePools PROVE (p \in posted <=> AwaitsExchange(p))'
  <2>1. /\ Source(p) \in Ranks /\ Target(p) \in Ranks /\ p \notin InterPools
        /\ p[4] \in Levels /\ p[4] = p[2]
    BY SamePool
  <2>2. p \in posted <=> AwaitsExchange(p)
    BY DEF Requests
  <2>3. CASE PrepareRemote(r)
    BY <1>0, <1>1, <2>1, <2>2, <2>3 DEF PrepareRemote, AwaitsExchange, SameIn, TypeOK, Goto
  <2>4. CASE ReceiveRemote(r)
    <3>1. p \in SameIn(r, lvl[r]) <=> Target(p) = r /\ p[4] = lvl[r]
      BY <2>1 DEF SameIn
    <3>2. posted' = posted \ SameIn(r, lvl[r])
      BY <2>4 DEF ReceiveRemote, Consume
    <3>3. CASE Target(p) = r
      <4>1. pc[r] = "receiveRemote" /\ (pc'[r] = "sendLocal" \/ pc'[r] = return[r])
        BY <1>0, <2>4 DEF ReceiveRemote, Goto, TypeOK
      <4>2. ~AwaitsExchange(p)'
        BY <1>0, <3>3, <4>1 DEF AwaitsExchange, TypeOK
      <4> QED
        BY <2>2, <3>1, <3>2, <3>3, <4>1, <4>2 DEF AwaitsExchange
    <3>4. CASE Target(p) # r
      BY <1>1, <2>1, <2>2, <3>1, <3>2, <3>4 DEF AwaitsExchange
    <3> QED
      BY <3>3, <3>4
  <2>5. CASE InterPrepare(r)
    <3>1. p \in posted' <=> p \in posted
      BY <2>1, <2>5 DEF InterPrepare, InterIn
    <3> QED
      BY <1>0, <1>1, <2>1, <2>2, <2>5, <3>1
         DEF InterPrepare, AwaitsExchange, TypeOK, Goto, EnterLevelLoop
  <2>6. CASE InterReceiveRemote(r)
    <3>1. p \in posted' <=> p \in posted
      BY <2>1, <2>6 DEF InterReceiveRemote, Consume, RemoteInterIn, InterIn
    <3> QED
      BY <1>0, <1>1, <2>1, <2>2, <2>6, <3>1 DEF InterReceiveRemote, AwaitsExchange, TypeOK, Goto
  <2> QED
    BY <2>3, <2>4, <2>5, <2>6
<1>3. ASSUME NEW p \in InterPools, ~IsLocal(p) PROVE (p \in posted <=> AwaitsCoupling(p))'
  <2>1. /\ Source(p) \in Ranks /\ Target(p) \in Ranks /\ p \notin SamePools
        /\ InterfaceOf(p) \in Interfaces
    BY InterPool
  <2>2. p \in posted <=> AwaitsCoupling(p)
    BY <1>3 DEF Requests
  <2>3. CASE PrepareRemote(r)
    BY <1>0, <1>1, <2>1, <2>2, <2>3
       DEF PrepareRemote, AwaitsCoupling, WhileReceiving, SameIn, TypeOK, Goto, control
  <2>4. CASE ReceiveRemote(r)
    BY <1>0, <1>1, <2>1, <2>2, <2>4
       DEF ReceiveRemote, Consume, AwaitsCoupling, WhileReceiving, SameIn, TypeOK, Goto, control
  <2>5. CASE InterPrepare(r)
    <3>1. p \in posted' <=> p \in posted \/ (Target(p) = r /\ straightStartLevel[r] =< InterfaceOf(p))
      <4>1. p \in UNION { InterIn(r, l) : l \in ActiveInterfaces(r) }
              <=> Target(p) = r /\ InterfaceOf(p) \in ActiveInterfaces(r)
        BY DEF InterIn
      <4>2. InterfaceOf(p) \in ActiveInterfaces(r) <=> straightStartLevel[r] =< InterfaceOf(p)
        BY <1>0, <2>1, LevelFacts DEF ActiveInterfaces, Interfaces, TypeOK
      <4> QED
        BY <1>3, <2>5, <4>1, <4>2 DEF InterPrepare
    <3>2. pc[r] = "interPrepare" /\ pc'[r] = "interSendLocal" /\ UNCHANGED straightStartLevel
      BY <1>0, <2>5 DEF InterPrepare, TypeOK, Goto, EnterLevelLoop, control
    <3>3. CASE Target(p) = r
      BY <2>2, <3>1, <3>2, <3>3 DEF AwaitsCoupling, WhileReceiving
    <3>4. CASE Target(p) # r
      BY <1>1, <2>1, <2>2, <3>1, <3>4 DEF AwaitsCoupling
    <3> QED
      BY <3>3, <3>4
  <2>6. CASE InterReceiveRemote(r)
    <3>0. lvl[r] \in Int /\ InterfaceOf(p) \in Int /\ InterfaceOf(p) =< MaxLevel - 1 /\ MaxLevel \in Int
      BY <1>0, <2>1, LevelFacts DEF TypeOK, Levels, Interfaces
    <3>1. p \in posted' <=> p \in posted /\ ~(Target(p) = r /\ InterfaceOf(p) = lvl[r])
      <4>1. p \in RemoteInterIn(r, lvl[r]) <=> Target(p) = r /\ InterfaceOf(p) = lvl[r]
        BY <1>3 DEF RemoteInterIn, InterIn, ReceivedByRemote
      <4> QED
        BY <1>3, <2>6, <4>1 DEF InterReceiveRemote, Consume
    <3>2. CASE Target(p) = r
      <4>1. /\ pc[r] = "interReceiveRemote"
            /\ \/ pc'[r] = "interReceiveLocal" /\ lvl'[r] = lvl[r] + 1
               \/ pc'[r] = "endSubstep" /\ lvl[r] >= MaxLevel - 1
        BY <1>0, <2>6, <3>0 DEF InterReceiveRemote, TypeOK, Goto
      <4>2. AwaitsCoupling(p) <=> lvl[r] =< InterfaceOf(p)
        BY <3>2, <4>1 DEF AwaitsCoupling, WhileReceiving
      <4>3. AwaitsCoupling(p)' <=> lvl[r] + 1 =< InterfaceOf(p)
        BY <3>0, <3>2, <4>1 DEF AwaitsCoupling, WhileReceiving
      <4> QED
        BY <2>2, <3>0, <3>1, <3>2, <4>2, <4>3
    <3>3. CASE Target(p) # r
      BY <1>1, <2>1, <2>2, <3>1, <3>3 DEF AwaitsCoupling
    <3> QED
      BY <3>2, <3>3
  <2> QED
    BY <2>3, <2>4, <2>5, <2>6
<1> QED
  BY <1>2, <1>3 DEF Requests

\* The other steps begin and end no wait.
LEMMA RequestsKept ==
  ASSUME MinLevel = 0, Ground, Requests, NEW r \in Ranks,
         \/ SizeSend(r) \/ SizeReceive(r) \/ InterSizeSend(r) \/ InterSizeReceive(r)
         \/ Select(r) \/ Threshold(r)
         \/ PreCollisionBC(r) \/ Calculate(r) \/ PostCollisionBC(r) \/ SwapDistributions(r)
         \/ SendLocal(r) \/ SendBegin(r) \/ SendReturn(r) \/ SendsDone(r)
         \/ InterSendLocal(r) \/ InterSendsDone(r) \/ InterReceiveLocal(r)
         \/ EndSubstep(r) \/ Notify(r) \/ Throw(r)
  PROVE  Requests'
<1>0. TypeOK /\ ControlAt(r) /\ MaxInitLevel = MaxLevel
  BY LevelFacts DEF Ground, ControlOK, MaxInitLevel
<1>1. UNCHANGED posted
  BY DEF SizeSend, SizeReceive, InterSizeSend, InterSizeReceive, Select, Threshold, PreCollisionBC,
     Calculate, PostCollisionBC, SwapDistributions, SendLocal, SendBegin, SendReturn, SendsDone,
     InterSendLocal, InterSendsDone, InterReceiveLocal, EndSubstep, Notify, Throw, mpi
<1>2. \A q \in Ranks \ {r} : UNCHANGED <<pc[q], lvl[q], straightStartLevel[q]>>
  BY <1>0, OthersKept DEF Step
<1> DEFINE Same == /\ pc[r] \in {"sendRemote", "receiveRemote"} <=> pc'[r] \in {"sendRemote", "receiveRemote"}
                   /\ pc[r] \in {"sendRemote", "receiveRemote"} => UNCHANGED lvl[r]
           Waits(l) == \/ pc[r] \in {"interSendLocal", "interSendRemote"} /\ straightStartLevel[r] =< l
                       \/ pc[r] \in WhileReceiving /\ lvl[r] =< l
<1>3. Same /\ \A l \in Interfaces : Waits(l)' <=> Waits(l)
  <2> USE DEF TypeOK, Goto, EnterLevelLoop, control, WhileReceiving
  <2>1. CASE SizeSend(r) \/ SizeReceive(r) \/ InterSizeSend(r) \/ InterSizeReceive(r)
    BY <1>0, <2>1 DEF SizeSend, SizeReceive, InterSizeSend, InterSizeReceive
  <2>2. CASE Select(r) \/ Threshold(r)
    BY <1>0, <2>2 DEF Select, Threshold
  <2>3. CASE PreCollisionBC(r) \/ Calculate(r) \/ PostCollisionBC(r) \/ SwapDistributions(r)
    BY <1>0, <2>3 DEF PreCollisionBC, Calculate, PostCollisionBC, SwapDistributions
  <2>4. CASE SendLocal(r) \/ SendBegin(r) \/ SendReturn(r) \/ SendsDone(r)
    BY <1>0, <2>4 DEF SendLocal, SendBegin, SendReturn, SendsDone
  <2>5. CASE InterSendLocal(r) \/ InterReceiveLocal(r)
    BY <1>0, <2>5 DEF InterSendLocal, InterReceiveLocal
  <2>6. CASE InterSendsDone(r)
    BY <1>0, <2>6 DEF InterSendsDone
  <2>7. CASE EndSubstep(r) \/ Notify(r) \/ Throw(r)
    BY <1>0, <2>7 DEF EndSubstep, Notify, Throw
  <2> QED
    BY <2>1, <2>2, <2>3, <2>4, <2>5, <2>6, <2>7
<1>4. ASSUME NEW p \in SamePools PROVE (p \in posted <=> AwaitsExchange(p))'
  <2>1. Target(p) \in Ranks /\ (p \in posted <=> AwaitsExchange(p))
    BY SamePool DEF Requests
  <2>2. AwaitsExchange(p)' <=> AwaitsExchange(p)
    <3>1. CASE Target(p) # r
      BY <1>2, <2>1, <3>1 DEF AwaitsExchange
    <3>2. CASE Target(p) = r
      BY <1>3, <3>2 DEF AwaitsExchange
    <3> QED
      BY <3>1, <3>2
  <2> QED
    BY <1>1, <2>1, <2>2
<1>5. ASSUME NEW p \in InterPools, ~IsLocal(p) PROVE (p \in posted <=> AwaitsCoupling(p))'
  <2>1. /\ Target(p) \in Ranks /\ InterfaceOf(p) \in Interfaces
        /\ p \in posted <=> AwaitsCoupling(p)
    BY <1>5, InterPool DEF Requests
  <2>2. AwaitsCoupling(p)' <=> AwaitsCoupling(p)
    <3>1. CASE Target(p) # r
      BY <1>2, <2>1, <3>1 DEF AwaitsCoupling
    <3>2. CASE Target(p) = r
      BY <1>3, <2>1, <3>2 DEF AwaitsCoupling
    <3> QED
      BY <3>1, <3>2
  <2> QED
    BY <1>1, <2>1, <2>2
<1> QED
  BY <1>4, <1>5 DEF Requests

\* A receive is outstanding exactly while its rank waits for it.
LEMMA RequestsInvariant == ASSUME MinLevel = 0 PROVE Spec => []Requests
<1>1. Ground /\ Requests /\ [Next]_vars => Requests'
  <2> SUFFICES ASSUME Ground, Requests, [Next]_vars PROVE Requests'
    OBVIOUS
  <2>1. ASSUME NEW r \in Ranks, Step(r) \/ Throw(r) PROVE Requests'
    BY <2>1, RequestsChange, RequestsKept DEF Step
  <2>2. CASE UNCHANGED vars
    BY <2>2 DEF vars, control, mpi, Requests, AwaitsExchange, AwaitsCoupling
  <2> QED
    BY <2>1, <2>2 DEF Next
<1> QED
  BY RequestsInit, GroundInvariant, <1>1, PTL DEF Spec

-----------------------------------------------------------------------------
(* How far a level of a rank is in its exchanges *)

\* Level l takes the current staggered step and has stepped in it.
Moving(r, l) ==
  /\ straightStartLevel[r] =< l
  /\ \/ pc[r] = "calculate" /\ l < lvl[r]
     \/ pc[r] \in {"postBC", "swap", "interPrepare", "endSubstep"} \cup Exchange \cup Coupling

\* Which of the three exchanges a rank is at.
Round(r) == IF return[r] = "postBC" THEN 1 ELSE IF return[r] = "interPrepare" THEN 2 ELSE 3

\* Which of the three exchanges after its last step level l has behind it; now = 1
\* when it has made the exchange the rank is at, too.
Exchanged(r, l, now) ==
  IF pc[r] \in {"sizeSend", "sizeReceive"}
    THEN IF l < lvl[r] \/ (l = lvl[r] /\ now = 1) THEN 3 ELSE 0
  ELSE IF ~Moving(r, l) THEN 3
  ELSE IF pc[r] = "calculate" THEN 0
  ELSE IF pc[r] \in {"postBC", "swap"} THEN 1
  ELSE IF pc[r] \in Exchange
    THEN IF l < lvl[r] \/ (l = lvl[r] /\ now = 1) THEN Round(r) ELSE Round(r) - 1
  ELSE 2

Position(r, l, now) == 3 * dist[r][l].step + Exchanged(r, l, now)

\* A position is a number.
LEMMA PositionType ==
  ASSUME TypeOK, NEW r \in Ranks, NEW l \in Levels, NEW now \in {0, 1}
  PROVE  /\ dist[r][l].step \in Nat /\ Exchanged(r, l, now) \in 0 .. 3
         /\ Position(r, l, now) \in Nat
<1>1. dist[r][l].step \in Nat
  BY DEF TypeOK, Version
<1>2. Exchanged(r, l, now) \in 0 .. 3
  <2>1. Round(r) \in 1 .. 3
    BY DEF Round
  <2> QED
    BY <2>1 DEF Exchanged
<1> QED
  BY <1>1, <1>2 DEF Position

\* Standing still skips nothing.
LEMMA SkipsNothing == ASSUME NEW l, NEW a \in Int, NEW b, b = a PROVE Skips(l, a, b)
BY DEF Skips

\* Exchanges that do not happen are skipped.
LEMMA SkipsOne ==
  ASSUME NEW l, NEW n \in Nat
  PROVE  /\ ~Interpolates(l, n) => Skips(l, 3 * n + 1, 3 * n + 2)
         /\ ~Updates(l, n) => Skips(l, 3 * n + 2, 3 * n + 3)
<1>1. /\ (3 * n + 1) + 1 .. 3 * n + 2 = {3 * n + 2}
      /\ (3 * n + 2) + 1 .. 3 * n + 3 = {3 * n + 3}
  OBVIOUS
<1>2. 3 * n + 1 =< 3 * n + 2 /\ 3 * n + 2 =< 3 * n + 3
  OBVIOUS
<1> QED
  BY <1>1, <1>2, HappensAfter DEF Skips

\* What the exchanges of a moving level depend on.
LEMMA MovingLevel ==
  ASSUME MinLevel = 0, Ground, NEW r \in Ranks, NEW l \in Levels, Moving(r, l)
  PROVE  /\ Interpolates(l, dist[r][l].step) <=> straightStartLevel[r] < MaxLevel
         /\ Updates(l, dist[r][l].step)
              <=> staggeredStep[r] = InternalIterations /\ calcStep[r] \in GhostUpdateSteps
<1>1. ControlOK /\ Counting /\ ControlType /\ pc[r] \in Substep
  BY DEF Ground, ControlOK, Moving, Substep
<1>2. Chosen(r)
  BY <1>1 DEF ControlOK, ControlAt
<1>3. l \in Int /\ lvl[r] \in Int /\ straightStartLevel[r] \in Int
  BY <1>1, LevelFacts DEF ControlType, Levels
<1>4. l >= straightStartLevel[r]
  BY <1>3 DEF Moving
<1>5. dist[r][l].step = Elapsed(r, l, staggeredStep[r])
  <2>1. pc[r] \notin Waiting /\ (pc[r] = "calculate" => ~(lvl[r] =< l))
    BY <1>3 DEF Moving, Waiting, Exchange, Coupling
  <2> QED
    BY <1>1, <2>1 DEF Counting, Counts
<1> QED
  BY <1>1, <1>2, <1>4, <1>5, InterpolatesIff, UpdatesIff

\* The exchange a rank is at is the next one of its level.
LEMMA ExchangeMade ==
  ASSUME MinLevel = 0, Ground, NEW r \in Ranks, PlaceOK(r), pc[r] \in Exchange
  PROVE  LET l == lvl[r]
             n == dist[r][l].step
         IN  /\ n \in Nat /\ Round(r) \in 1 .. 3
             /\ Position(r, l, 0) = 3 * n + Round(r) - 1
             /\ Position(r, l, 1) = 3 * n + Round(r)
             /\ Makes(l, Position(r, l, 0), 3 * n + Round(r), Position(r, l, 1))
             /\ Round(r) > 1 => HasSwapped(r)
<1> DEFINE l == lvl[r]
           n == dist[r][l].step
           e == Round(r)
<1>1. /\ TypeOK /\ ControlAt(r) /\ MaxInitLevel = MaxLevel
      /\ l \in Levels /\ l \in Int
  <2>1. TypeOK /\ ControlAt(r) /\ MaxInitLevel = MaxLevel
    BY LevelFacts DEF Ground, ControlOK, MaxInitLevel
  <2>2. l \in Levels
    BY <2>1 DEF TypeOK
  <2> QED
    BY <2>1, <2>2, LevelFacts DEF Levels
<1>2. n \in Nat /\ e \in 1 .. 3
  <2>1. n \in Nat
    BY <1>1 DEF TypeOK, Version
  <2> QED
    BY <2>1 DEF Round
<1>3. Moving(r, l)
  BY DEF Moving, PlaceOK
<1>4. Exchanged(r, l, 0) = e - 1 /\ Exchanged(r, l, 1) = e
  BY <1>1, <1>3 DEF Exchanged, Exchange
<1>5. Happens(l, 3 * n + e)
  <2>1. CASE return[r] = "postBC"
    BY <1>2, <2>1, HappensAfter DEF Round
  <2>2. CASE return[r] = "interPrepare"
    <3>1. straightStartLevel[r] < MaxLevel
      BY <1>1, <2>2 DEF ControlAt
    <3> QED
      BY <1>1, <1>2, <1>3, <2>2, <3>1, HappensAfter, MovingLevel DEF Round
  <2>3. CASE return[r] = "notify"
    <3>1. staggeredStep[r] = InternalIterations /\ calcStep[r] \in GhostUpdateSteps
      BY <1>1, <2>3 DEF ControlAt, PlaceOK
    <3> QED
      BY <1>1, <1>2, <1>3, <2>3, <3>1, HappensAfter, MovingLevel DEF Round
  <2> QED
    BY <1>1, <2>1, <2>2, <2>3 DEF TypeOK
<1>6. e > 1 => HasSwapped(r)
  BY DEF Round, HasSwapped
<1> HIDE DEF n, e
<1>7. (3 * n + e - 1) + 1 .. 3 * n + e = {3 * n + e}
  BY <1>2
<1>8. Makes(l, 3 * n + e - 1, 3 * n + e, 3 * n + e)
  <2>1. 3 * n + e \in (3 * n + e - 1) + 1 .. 3 * n + e
    BY <1>7
  <2> QED
    BY <1>5, <1>7, <2>1 DEF Makes
<1>9. Position(r, l, 0) = 3 * n + e - 1 /\ Position(r, l, 1) = 3 * n + e
  BY <1>2, <1>4 DEF Position, n
<1> QED
  BY <1>2, <1>6, <1>8, <1>9 DEF n, e

\* Nothing has moved during the handshake.
LEMMA HandshakeStep ==
  ASSUME MinLevel = 0, Ground, NEW r \in Ranks, PlaceOK(r), pc[r] \in Handshake, NEW l \in Levels
  PROVE  dist[r][l].step = 0
<1>1. dist[r][l].step = Elapsed(r, l, staggeredStep[r] - 1)
  BY DEF Ground, Counting, Counts, Handshake, Waiting
<1>2. staggeredStep[r] - 1 = 0 /\ calcStep[r] = StartTimeStep
  BY DEF PlaceOK
<1>3. Shl[l] \in Nat /\ Shl[MaxLevel - l] \in Nat /\ Shl[MaxLevel - l] > 0
  BY LevelFacts, ShlPositive DEF Levels
<1>4. 0 \div Shl[MaxLevel - l] = 0 /\ (StartTimeStep - StartTimeStep) * Shl[l] = 0
  BY <1>3, StepAssumption
<1> QED
  BY <1>1, <1>2, <1>4 DEF Elapsed

\* The handshake is the exchange before all others.
LEMMA HandshakeMade ==
  ASSUME MinLevel = 0, Ground, NEW r \in Ranks, PlaceOK(r), pc[r] \in {"sizeSend", "sizeReceive"}
  PROVE  /\ Position(r, lvl[r], 0) = 0 /\ Position(r, lvl[r], 1) = 3
         /\ Makes(lvl[r], 0, 1, 3)
<1>1. lvl[r] \in Levels /\ lvl[r] \in Int
  BY LevelFacts DEF Ground, TypeOK, Levels
<1>2. dist[r][lvl[r]].step = 0
  BY <1>1, HandshakeStep DEF Handshake
<1>3. Happens(lvl[r], 3 * 0 + 1) /\ ~Happens(lvl[r], 3 * 0 + 2) /\ ~Happens(lvl[r], 3 * 0 + 3)
  <2>1. ~Interpolates(lvl[r], 0) /\ ~Updates(lvl[r], 0)
    BY DEF Interpolates, Updates
  <2> QED
    BY <2>1, HappensAfter
<1>4. 0 + 1 .. 3 = {1, 2, 3}
  OBVIOUS
<1>5. Makes(lvl[r], 0, 1, 3)
  BY <1>3, <1>4 DEF Makes
<1> QED
  BY <1>1, <1>2, <1>5 DEF Position, Exchanged

-----------------------------------------------------------------------------
(* What a step does to the position of a level *)

\* Collisions: the next step begins where the exchanges of the last one ended.
LEMMA CalculatePosition ==
  ASSUME MinLevel = 0, Ground, NEW r \in Ranks, Calculate(r), NEW l \in Levels, NEW b \in {0, 1}
  PROVE  Position(r, l, 0)' = Position(r, l, b)
<1> DEFINE k == lvl[r]
           n == dist[r][l].step
<1>1. /\ TypeOK /\ k \in straightStartLevel[r] .. MaxLevel /\ k \in Levels
      /\ MaxInitLevel = MaxLevel /\ pc[r] = "calculate"
  <2>1. TypeOK /\ ControlAt(r) /\ MaxInitLevel = MaxLevel
    BY LevelFacts DEF Ground, ControlOK, MaxInitLevel
  <2> QED
    BY <2>1 DEF Calculate, ControlAt, TypeOK
<1>2. /\ l \in Int /\ k \in Int /\ straightStartLevel[r] \in Int /\ MaxLevel \in Int
      /\ l =< MaxLevel /\ straightStartLevel[r] =< k /\ k =< MaxLevel /\ n \in Nat
  BY <1>1, LevelFacts DEF Levels, TypeOK, Version
<1>3. /\ straightStartLevel'[r] = straightStartLevel[r]
      /\ \/ pc'[r] = "calculate" /\ lvl'[r] = k + 1 /\ k < MaxLevel
         \/ pc'[r] = "sendLocal" /\ lvl'[r] = straightStartLevel[r] /\ return'[r] = "postBC" /\ k = MaxLevel
  BY <1>1, <1>2 DEF Calculate, EnterLevelLoop, Goto, TypeOK, control
<1>4. dist'[r][l].step = IF l = k THEN n + 1 ELSE n
  BY <1>1 DEF Calculate, TypeOK, Version
<1>5. Exchanged(r, l, b) = IF straightStartLevel[r] =< l /\ l < k THEN 0 ELSE 3
  BY <1>1 DEF Exchanged, Moving, Exchange, Coupling
<1>6. Exchanged(r, l, 0)' = IF straightStartLevel[r] =< l /\ l < k + 1 THEN 0 ELSE 3
  <2>1. CASE pc'[r] = "calculate" /\ lvl'[r] = k + 1
    BY <1>3, <2>1 DEF Exchanged, Moving, Exchange, Coupling
  <2>2. CASE pc'[r] = "sendLocal" /\ lvl'[r] = straightStartLevel[r] /\ return'[r] = "postBC" /\ k = MaxLevel
    BY <1>2, <1>3, <2>2 DEF Exchanged, Moving, Exchange, Coupling, Round
  <2> QED
    BY <1>3, <2>1, <2>2
<1>7. CASE l = k
  <2>1. Exchanged(r, l, b) = 3 /\ Exchanged(r, l, 0)' = 0
    BY <1>2, <1>5, <1>6, <1>7
  <2>2. 3 * (n + 1) + 0 = 3 * n + 3
    BY <1>2
  <2> QED
    BY <1>4, <1>7, <2>1, <2>2 DEF Position
<1>8. CASE l # k
  <2>1. Exchanged(r, l, b) = Exchanged(r, l, 0)'
    BY <1>2, <1>5, <1>6, <1>8
  <2> QED
    BY <1>4, <1>8, <2>1 DEF Position
<1> QED
  BY <1>7, <1>8

\* Boundary conditions and the swap: without interpolation the exchange before
\* it is skipped.
LEMMA StagePosition ==
  ASSUME MinLevel = 0, Ground, NEW r \in Ranks,
         PreCollisionBC(r) \/ PostCollisionBC(r) \/ SwapDistributions(r),
         NEW l \in Levels, NEW b \in {0, 1}
  PROVE  Skips(l, Position(r, l, b), Position(r, l, 0)')
<1> DEFINE n == dist[r][l].step
<1>1. TypeOK /\ MaxInitLevel = MaxLevel /\ DistType
  BY LevelFacts DEF Ground, Counting, MaxInitLevel
<1>2. dist'[r][l].step = n
  BY <1>1, StageOnly DEF PreCollisionBC, PostCollisionBC, SwapDistributions, Stages
<1>3. l \in Int /\ straightStartLevel[r] \in Int /\ n \in Nat /\ straightStartLevel[r] =< MaxLevel
  BY <1>1, LevelFacts DEF Levels, TypeOK, Version
<1>4. Position(r, l, b) \in Nat
  BY <1>1, PositionType
<1>5. CASE PreCollisionBC(r)
  <2>1. pc[r] = "preBC" /\ pc'[r] = "calculate" /\ lvl'[r] = straightStartLevel[r]
        /\ straightStartLevel'[r] = straightStartLevel[r]
    BY <1>1, <1>5 DEF PreCollisionBC, EnterLevelLoop, Goto, TypeOK, control
  <2>2. Exchanged(r, l, b) = 3 /\ Exchanged(r, l, 0)' = 3
    BY <1>3, <2>1 DEF Exchanged, Moving, Exchange, Coupling
  <2>3. Position(r, l, 0)' = Position(r, l, b)
    BY <1>2, <2>2 DEF Position
  <2> QED
    BY <1>4, <2>3, SkipsNothing
<1>6. CASE PostCollisionBC(r)
  <2>1. pc[r] = "postBC" /\ pc'[r] = "swap" /\ straightStartLevel'[r] = straightStartLevel[r]
    BY <1>1, <1>6 DEF PostCollisionBC, Goto, TypeOK, control
  <2>2. Exchanged(r, l, b) = Exchanged(r, l, 0)'
    BY <2>1 DEF Exchanged, Moving, Exchange, Coupling
  <2>3. Position(r, l, 0)' = Position(r, l, b)
    BY <1>2, <2>2 DEF Position
  <2> QED
    BY <1>4, <2>3, SkipsNothing
<1>7. CASE SwapDistributions(r)
  <2>1. /\ pc[r] = "swap" /\ straightStartLevel'[r] = straightStartLevel[r]
        /\ \/ /\ straightStartLevel[r] < MaxLevel
              /\ pc'[r] = "sendLocal" /\ lvl'[r] = straightStartLevel[r] /\ return'[r] = "interPrepare"
           \/ straightStartLevel[r] = MaxLevel /\ pc'[r] = "endSubstep"
    BY <1>1, <1>3, <1>7, LevelFacts DEF SwapDistributions, EnterLevelLoop, Goto, TypeOK, control, Refinement
  <2>2. CASE ~(straightStartLevel[r] =< l)
    <3>1. Exchanged(r, l, b) = 3 /\ Exchanged(r, l, 0)' = 3
      BY <2>1, <2>2 DEF Exchanged, Moving
    <3>2. Position(r, l, 0)' = Position(r, l, b)
      BY <1>2, <3>1 DEF Position
    <3> QED
      BY <1>4, <3>2, SkipsNothing
  <2>3. CASE straightStartLevel[r] =< l
    <3>1. Moving(r, l) /\ Moving(r, l)'
      BY <2>1, <2>3 DEF Moving, Exchange
    <3>2. Exchanged(r, l, b) = 1
      BY <2>1, <3>1 DEF Exchanged
    <3>3. CASE straightStartLevel[r] < MaxLevel
      <4>1. Exchanged(r, l, 0)' = 1
        BY <1>3, <2>1, <2>3, <3>1, <3>3 DEF Exchanged, Exchange, Round
      <4>2. Position(r, l, 0)' = Position(r, l, b)
        BY <1>2, <3>2, <4>1 DEF Position
      <4> QED
        BY <1>4, <4>2, SkipsNothing
    <3>4. CASE straightStartLevel[r] = MaxLevel
      <4>1. Exchanged(r, l, 0)' = 2
        BY <2>1, <3>1, <3>4, LevelFacts DEF Exchanged, Exchange
      <4>2. ~Interpolates(l, n)
        BY <3>1, <3>4, MovingLevel, LevelFacts
      <4>3. Skips(l, 3 * n + 1, 3 * n + 2)
        BY <1>3, <4>2, SkipsOne
      <4> QED
        BY <1>2, <3>2, <4>1, <4>3 DEF Position
    <3> QED
      BY <2>1, <3>3, <3>4
  <2> QED
    BY <2>2, <2>3
<1> QED
  BY <1>5, <1>6, <1>7

\* The end of a staggered step: without an update of the ghost layers that
\* exchange is skipped.
LEMMA EndPosition ==
  ASSUME MinLevel = 0, Ground, NEW r \in Ranks, EndSubstep(r), NEW l \in Levels, NEW b \in {0, 1}
  PROVE  Skips(l, Position(r, l, b), Position(r, l, 0)')
<1> DEFINE n == dist[r][l].step
<1>1. TypeOK /\ InternalIterations \in Nat
  BY LevelFacts DEF Ground
<1>2. dist'[r][l].step = n /\ straightStartLevel'[r] = straightStartLevel[r] /\ pc[r] = "endSubstep"
  BY DEF EndSubstep, data
<1>3. l \in Int /\ straightStartLevel[r] \in Int /\ n \in Nat
  BY <1>1, LevelFacts DEF Levels, TypeOK, Version
<1>4. Position(r, l, b) \in Nat
  BY <1>1, PositionType
<1>5. \/ /\ pc'[r] = "sendLocal" /\ lvl'[r] = straightStartLevel[r] /\ return'[r] = "notify"
      \/ /\ pc'[r] \in {"select", "notify"}
         /\ ~(staggeredStep[r] = InternalIterations /\ calcStep[r] \in GhostUpdateSteps)
  BY <1>1 DEF EndSubstep, EnterLevelLoop, Goto, TypeOK
<1>6. CASE ~(straightStartLevel[r] =< l)
  <2>1. Exchanged(r, l, b) = 3 /\ Exchanged(r, l, 0)' = 3
    BY <1>2, <1>5, <1>6 DEF Exchanged, Moving
  <2>2. Position(r, l, 0)' = Position(r, l, b)
    BY <1>2, <2>1 DEF Position
  <2> QED
    BY <1>4, <2>2, SkipsNothing
<1>7. CASE straightStartLevel[r] =< l
  <2>1. Moving(r, l) /\ Exchanged(r, l, b) = 2
    BY <1>2, <1>7 DEF Exchanged, Moving, Exchange
  <2>2. CASE pc'[r] = "sendLocal" /\ lvl'[r] = straightStartLevel[r] /\ return'[r] = "notify"
    <3>1. Exchanged(r, l, 0)' = 2
      BY <1>2, <1>3, <1>7, <2>2 DEF Exchanged, Moving, Exchange, Round
    <3>2. Position(r, l, 0)' = Position(r, l, b)
      BY <1>2, <2>1, <3>1 DEF Position
    <3> QED
      BY <1>4, <3>2, SkipsNothing
  <2>3. CASE /\ pc'[r] \in {"select", "notify"}
             /\ ~(staggeredStep[r] = InternalIterations /\ calcStep[r] \in GhostUpdateSteps)
    <3>1. Exchanged(r, l, 0)' = 3
      BY <2>3 DEF Exchanged, Moving, Exchange, Coupling
    <3>2. Skips(l, 3 * n + 2, 3 * n + 3)
      BY <1>3, <2>1, <2>3, MovingLevel, SkipsOne
    <3> QED
      BY <1>2, <2>1, <3>1, <3>2 DEF Position
  <2> QED
    BY <1>5, <2>2, <2>3
<1> QED
  BY <1>6, <1>7

\* The other steps outside the exchanges.
LEMMA OtherPosition ==
  ASSUME MinLevel = 0, Ground, NEW r \in Ranks,
         \/ InterSizeSend(r) \/ InterSizeReceive(r) \/ Select(r) \/ Threshold(r)
         \/ InterPrepare(r) \/ InterSendLocal(r) \/ InterSendsDone(r)
         \/ InterReceiveLocal(r) \/ InterReceiveRemote(r) \/ Notify(r) \/ Throw(r),
         NEW l \in Levels, NEW b \in {0, 1}
  PROVE  Position(r, l, 0)' = Position(r, l, b)
<1>1. TypeOK
  BY DEF Ground
<1>2. UNCHANGED dist
  BY DEF InterSizeSend, InterSizeReceive, Select, Threshold, InterPrepare, InterSendLocal,
     InterSendsDone, InterReceiveLocal, InterReceiveRemote, Notify, Throw, data
<1>3. Exchanged(r, l, 0)' = Exchanged(r, l, b)
  <2> USE DEF TypeOK, Goto, EnterLevelLoop, control, Exchanged, Moving, Exchange, Coupling
  <2>1. CASE InterSizeSend(r) \/ InterSizeReceive(r)
    BY <1>1, <2>1 DEF InterSizeSend, InterSizeReceive
  <2>2. CASE Select(r) \/ Threshold(r)
    BY <1>1, <2>2 DEF Select, Threshold
  <2>3. CASE InterPrepare(r) \/ InterSendLocal(r) \/ InterSendsDone(r)
    BY <1>1, <2>3 DEF InterPrepare, InterSendLocal, InterSendsDone
  <2>4. CASE InterReceiveLocal(r) \/ InterReceiveRemote(r)
    BY <1>1, <2>4 DEF InterReceiveLocal, InterReceiveRemote
  <2>5. CASE Notify(r) \/ Throw(r)
    BY <1>1, <2>5 DEF Notify, Throw
  <2> QED
    BY <2>1, <2>2, <2>3, <2>4, <2>5
<1> QED
  BY <1>2, <1>3 DEF Position

\* Outside the exchanges a level makes none of them.
LEMMA OutsidePosition ==
  ASSUME MinLevel = 0, Ground, NEW r \in Ranks,
         \/ InterSizeSend(r) \/ InterSizeReceive(r) \/ Select(r) \/ Threshold(r)
         \/ PreCollisionBC(r) \/ Calculate(r) \/ PostCollisionBC(r) \/ SwapDistributions(r)
         \/ InterPrepare(r) \/ InterSendLocal(r) \/ InterSendsDone(r)
         \/ InterReceiveLocal(r) \/ InterReceiveRemote(r)
         \/ EndSubstep(r) \/ Notify(r) \/ Throw(r),
         NEW l \in Levels, NEW b \in {0, 1}
  PROVE  Skips(l, Position(r, l, b), Position(r, l, 0)')
<1>1. Position(r, l, b) \in Int
  BY PositionType DEF Ground
<1> QED
  BY <1>1, CalculatePosition, StagePosition, EndPosition, OtherPosition, SkipsNothing

\* Inside an exchange the position changes only with what is sent and received.
LEMMA InsidePosition ==
  ASSUME Ground, NEW r \in Ranks,
         \/ SizeSend(r) \/ SendLocal(r) \/ PrepareRemote(r) \/ SendBegin(r) \/ SendReturn(r)
         \/ SendsDone(r),
         NEW l \in Levels, NEW b \in {0, 1}
  PROVE  Position(r, l, b)' = Position(r, l, b)
<1>1. TypeOK /\ UNCHANGED dist
  BY DEF Ground, SizeSend, SendLocal, PrepareRemote, SendBegin, SendReturn, SendsDone, data
<1>2. Exchanged(r, l, b)' = Exchanged(r, l, b)
  BY <1>1 DEF SizeSend, SendLocal, PrepareRemote, SendBegin, SendReturn, SendsDone, TypeOK, Goto,
     control, Exchanged, Moving, Exchange, Coupling, Round
<1> QED
  BY <1>1, <1>2 DEF Position

\* A receive ends the exchange of a level.
LEMMA ReceivePosition ==
  ASSUME MinLevel = 0, Ground, NEW r \in Ranks, PlaceOK(r), SizeReceive(r) \/ ReceiveRemote(r),
         NEW l \in Levels
  PROVE  /\ Position(r, l, 0)' = Position(r, l, 1)
         /\ l # lvl[r] => Position(r, l, 1) = Position(r, l, 0)
<1>1. TypeOK /\ UNCHANGED dist /\ MaxInitLevel = MaxLevel
  BY LevelFacts DEF Ground, SizeReceive, ReceiveRemote, data, MaxInitLevel
<1>2. /\ l \in Int /\ lvl[r] \in Int /\ straightStartLevel[r] \in Int
      /\ l =< MaxLevel /\ lvl[r] =< MaxLevel /\ MaxLevel \in Int
  BY <1>1, LevelFacts DEF Levels, TypeOK
<1>3. l # lvl[r] => Exchanged(r, l, 1) = Exchanged(r, l, 0)
  BY DEF Exchanged
<1>4. Exchanged(r, l, 0)' = Exchanged(r, l, 1)
  <2>1. CASE SizeReceive(r)
    BY <1>1, <1>2, <2>1
       DEF SizeReceive, TypeOK, Goto, control, Exchanged, Moving, Exchange, Coupling
  <2>2. CASE ReceiveRemote(r)
    <3>1. /\ pc[r] = "receiveRemote" /\ straightStartLevel'[r] = straightStartLevel[r]
          /\ return'[r] = return[r]
          /\ \/ lvl[r] < MaxLevel /\ pc'[r] = "sendLocal" /\ lvl'[r] = lvl[r] + 1
             \/ lvl[r] = MaxLevel /\ pc'[r] = return[r]
      BY <1>1, <1>2, <2>2 DEF ReceiveRemote, MoreToExchange, TypeOK, Goto, control
    <3>2. CASE lvl[r] < MaxLevel
      BY <1>2, <3>1, <3>2 DEF Exchanged, Moving, Exchange, Coupling, Round
    <3>3. CASE lvl[r] = MaxLevel
      <4>1. l < lvl[r] \/ l = lvl[r]
        BY <1>2, <3>3
      <4>2. Exchanged(r, l, 1) = IF straightStartLevel[r] =< l THEN Round(r) ELSE 3
        BY <3>1, <4>1 DEF Exchanged, Moving, Exchange
      <4>3. pc'[r] = return[r] /\ return[r] \in {"postBC", "interPrepare", "notify"}
        BY <1>1, <1>2, <3>1, <3>3 DEF TypeOK
      <4> QED
        BY <3>1, <4>2, <4>3 DEF Exchanged, Moving, Exchange, Coupling, Round
    <3>4. lvl[r] < MaxLevel \/ lvl[r] = MaxLevel
      BY <1>2
    <3> QED
      BY <3>2, <3>3, <3>4
  <2> QED
    BY <2>1, <2>2
<1> QED
  BY <1>1, <1>3, <1>4 DEF Position

-----------------------------------------------------------------------------
(* The messages between blocks of one level *)

\* A rank is through with the exchange it is at once it has sent, ...
SentTo(p) ==
  LET s == Source(p)
  IN  IF \/ pc[s] \in {"sizeReceive", "receiveRemote"}
         \/ pc[s] = "sendRemote" /\ p \notin unsent[s]
        THEN 1 ELSE 0

Sent(p) == Position(Source(p), p[2], SentTo(p))

\* ... and once it has received.
Received(p) == Position(Target(p), p[2], 0)

Channels == \A p \in SamePools : InTransit(net[p], p[2], Received(p), Sent(p))

\* A rank touches only the pools it has an end of.
LEMMA OthersPools ==
  ASSUME TypeOK, NEW r \in Ranks, PlaceOK(r), Step(r) \/ Throw(r),
         NEW p \in Pools, Source(p) # r, Target(p) # r
  PROVE  net'[p] = net[p]
<1>1. sending[r] # None => sending[r] # p
  BY DEF PlaceOK, SameOut, RemoteInterOut, InterOut
<1>2. CASE SizeSend(r) \/ SizeReceive(r) \/ InterSizeSend(r) \/ InterSizeReceive(r)
  BY <1>2 DEF SizeSend, SizeReceive, InterSizeSend, InterSizeReceive, SendOrders, ReceiveOrders, SameOut,
     SameIn
<1>3. CASE \/ Select(r) \/ Threshold(r) \/ PreCollisionBC(r) \/ Calculate(r) \/ PostCollisionBC(r)
           \/ SwapDistributions(r) \/ SendLocal(r) \/ PrepareRemote(r) \/ SendBegin(r) \/ SendsDone(r)
           \/ InterPrepare(r) \/ InterSendsDone(r) \/ InterReceiveLocal(r) \/ EndSubstep(r)
           \/ Notify(r) \/ Throw(r)
  BY <1>3 DEF Select, Threshold, PreCollisionBC, Calculate, PostCollisionBC, SwapDistributions,
     SendLocal, PrepareRemote, SendBegin, SendsDone, InterPrepare, InterSendsDone,
     InterReceiveLocal, EndSubstep, Notify, Throw, mpi
<1>4. CASE SendReturn(r)
  BY <1>1, <1>4 DEF SendReturn, TypeOK
<1>5. CASE ReceiveRemote(r) \/ InterReceiveRemote(r)
  BY <1>5 DEF ReceiveRemote, InterReceiveRemote, Consume, SameIn, RemoteInterIn, InterIn
<1>6. CASE InterSendLocal(r)
  BY <1>6 DEF InterSendLocal, LocalInterOut, InterOut
<1> QED
  BY <1>2, <1>3, <1>4, <1>5, <1>6 DEF Step

\* The exchange a rank is at concerns the level of its loop only.
LEMMA OtherLevel ==
  ASSUME NEW r, NEW l, l # lvl[r]
  PROVE  Position(r, l, 1) = Position(r, l, 0)
BY DEF Position, Exchanged

\* Outside the exchanges the pools between blocks of one level rest.
LEMMA OutsideExchange ==
  ASSUME MinLevel = 0, Ground, NEW r \in Ranks,
         \/ InterSizeSend(r) \/ InterSizeReceive(r) \/ Select(r) \/ Threshold(r)
         \/ PreCollisionBC(r) \/ Calculate(r) \/ PostCollisionBC(r) \/ SwapDistributions(r)
         \/ InterPrepare(r) \/ InterSendLocal(r) \/ InterSendsDone(r)
         \/ InterReceiveLocal(r) \/ InterReceiveRemote(r)
         \/ EndSubstep(r) \/ Notify(r) \/ Throw(r),
         NEW p \in SamePools
  PROVE  /\ net'[p] = net[p]
         /\ Source(p) = r => Skips(p[2], Sent(p), Sent(p)')
         /\ Target(p) = r => Skips(p[2], Received(p), Received(p)')
<1>1. TypeOK /\ p \in Pools /\ p \notin InterPools /\ p[2] \in Levels
  BY SamePool DEF Ground
<1>2. net'[p] = net[p]
  BY <1>1 DEF InterSizeSend, InterSizeReceive, Select, Threshold, PreCollisionBC, Calculate,
     PostCollisionBC, SwapDistributions, InterPrepare, InterSendLocal, InterSendsDone,
     InterReceiveLocal, InterReceiveRemote, EndSubstep, Notify, Throw, mpi,
     SendOrders, ReceiveOrders, Consume, LocalInterOut, InterOut, RemoteInterIn, InterIn
<1>3. ASSUME Source(p) = r PROVE SentTo(p) \in {0, 1} /\ SentTo(p)' = 0
  <2>1. pc'[r] \notin {"sizeReceive", "receiveRemote", "sendRemote"}
    <3> USE <1>1 DEF TypeOK, Goto, EnterLevelLoop
    <3>1. CASE InterSizeSend(r) \/ InterSizeReceive(r) \/ Select(r) \/ Threshold(r)
      BY <3>1 DEF InterSizeSend, InterSizeReceive, Select, Threshold
    <3>2. CASE PreCollisionBC(r) \/ Calculate(r) \/ PostCollisionBC(r) \/ SwapDistributions(r)
      BY <3>2 DEF PreCollisionBC, Calculate, PostCollisionBC, SwapDistributions
    <3>3. CASE InterPrepare(r) \/ InterSendLocal(r) \/ InterSendsDone(r)
      BY <3>3 DEF InterPrepare, InterSendLocal, InterSendsDone
    <3>4. CASE InterReceiveLocal(r) \/ InterReceiveRemote(r)
      BY <3>4 DEF InterReceiveLocal, InterReceiveRemote
    <3>5. CASE EndSubstep(r) \/ Notify(r) \/ Throw(r)
      BY <3>5 DEF EndSubstep, Notify, Throw
    <3> QED
      BY <3>1, <3>2, <3>3, <3>4, <3>5
  <2> QED
    BY <1>3, <2>1 DEF SentTo
<1>4. ASSUME Source(p) = r PROVE Skips(p[2], Sent(p), Sent(p)')
  BY <1>1, <1>3, <1>4, OutsidePosition DEF Sent
<1>5. ASSUME Target(p) = r PROVE Skips(p[2], Received(p), Received(p)')
  BY <1>1, <1>5, OutsidePosition DEF Received
<1> QED
  BY <1>2, <1>4, <1>5

\* What a rank does to a pool it sends into: nothing that shows, or it makes
\* an exchange and appends the message of it.
LEMMA SenderMoves ==
  ASSUME MinLevel = 0, Ground, NEW r \in Ranks, PlaceOK(r), Step(r) \/ Throw(r),
         NEW p \in SamePools, Source(p) = r
  PROVE  \/ net'[p] = net[p] /\ Skips(p[2], Sent(p), Sent(p)')
         \/ \E k \in Int : \E m \in Message :
              Makes(p[2], Sent(p), k, Sent(p)') /\ Carries(m, k) /\ net'[p] = Append(net[p], m)
<1> DEFINE l == p[2]
<1>1. /\ TypeOK /\ p \in Pools /\ p \notin InterPools /\ l \in Levels /\ p[4] = l
      /\ Target(p) \in Ranks /\ Target(p) # r
      /\ \A b \in {0, 1} : Position(r, l, b) \in Int
  <2>1. TypeOK
    BY DEF Ground
  <2>2. /\ p \in Pools /\ p \notin InterPools /\ l \in Levels /\ p[4] = l
        /\ Target(p) \in Ranks /\ Target(p) # r
    BY SamePool
  <2>3. \A b \in {0, 1} : Position(r, l, b) \in Nat
    BY <2>1, <2>2, PositionType
  <2> QED
    BY <2>1, <2>2, <2>3
<1>2. /\ Sent(p) = Position(r, l, SentTo(p))
      /\ \A b \in {0, 1} : SentTo(p)' = b => Sent(p)' = Position(r, l, b)'
      /\ SentTo(p) \in {0, 1} /\ SentTo(p)' \in {0, 1}
  BY DEF Sent, SentTo
<1>3. l # lvl[r] => Position(r, l, 1) = Position(r, l, 0)
  BY OtherLevel
<1> HIDE DEF l
<1>4. CASE SizeSend(r)
  <2>1. SentTo(p) = 0 /\ SentTo(p)' = 1
    BY <1>1, <1>4 DEF SizeSend, SentTo, TypeOK, Goto
  <2>2. Position(r, l, 1)' = Position(r, l, 1)
    BY <1>1, <1>4, InsidePosition
  <2>3. CASE l = lvl[r]
    <3>1. net'[p] = Append(net[p], Order)
      BY <1>1, <1>4, <2>3 DEF SizeSend, SendOrders, SameOut, l
    <3>2. Sent(p) = 0 /\ Sent(p)' = 3 /\ Makes(l, 0, 1, 3)
      BY <1>2, <1>4, <2>1, <2>2, <2>3, HandshakeMade DEF SizeSend
    <3>3. Order \in Message /\ Order.step = 0
      BY DEF Order, Message
    <3>4. Carries(Order, 3 * 0 + 1)
      BY <3>3, CarriesAfter
    <3> QED
      BY <3>1, <3>2, <3>3, <3>4 DEF l
  <2>4. CASE l # lvl[r]
    <3>1. net'[p] = net[p]
      BY <1>1, <1>4, <2>4 DEF SizeSend, SendOrders, SameOut, l
    <3>2. Sent(p)' = Sent(p)
      BY <1>2, <1>3, <2>1, <2>2, <2>4
    <3> QED
      BY <1>1, <1>2, <3>1, <3>2, SkipsNothing DEF l
  <2> QED
    BY <2>3, <2>4
<1>5. CASE SizeReceive(r) \/ ReceiveRemote(r)
  <2>1. SentTo(p) = 1 /\ SentTo(p)' = 0
    <3>1. pc[r] \in {"sizeReceive", "receiveRemote"}
      BY <1>5 DEF SizeReceive, ReceiveRemote
    <3>2. pc'[r] \in {"sizeSend", "interSizeSend", "sendLocal", "postBC", "interPrepare", "notify"}
      <4>1. CASE SizeReceive(r)
        BY <1>1, <4>1 DEF SizeReceive, TypeOK, Goto
      <4>2. CASE ReceiveRemote(r)
        BY <1>1, <4>2 DEF ReceiveRemote, TypeOK, Goto
      <4> QED
        BY <1>5, <4>1, <4>2
    <3> QED
      BY <3>1, <3>2 DEF SentTo
  <2>2. Sent(p)' = Sent(p)
    BY <1>1, <1>2, <1>5, <2>1, ReceivePosition
  <2>3. net'[p] = net[p]
    BY <1>1, <1>5 DEF SizeReceive, ReceiveRemote, ReceiveOrders, Consume, SameIn
  <2> QED
    BY <1>1, <1>2, <2>2, <2>3, SkipsNothing DEF l
<1>6. CASE SendReturn(r) /\ sending[r] = p
  <2>1. pc[r] = "sendRemote" /\ p \in unsent[r] /\ l = lvl[r] /\ sending[r] # None
    <3>1. sending[r] # None /\ pc[r] \in {"sendRemote", "interSendRemote"}
      BY <1>6 DEF SendReturn
    <3>2. p \in unsent[r]
      BY <1>6, <3>1 DEF PlaceOK
    <3> QED
      BY <1>1, <3>1, <3>2 DEF PlaceOK, SameOut, RemoteInterOut, InterOut, l
  <2>2. SentTo(p) = 0 /\ SentTo(p)' = 1
    BY <1>1, <1>6, <2>1 DEF SendReturn, SentTo, TypeOK
  <2>3. Position(r, l, 1)' = Position(r, l, 1)
    BY <1>1, <1>6, InsidePosition
  <2> DEFINE m == dist[r][l]
             n == m.step
             e == Round(r)
  <2>4. net'[p] = Append(net[p], m)
    BY <1>1, <1>6 DEF SendReturn, Put, IsLocal, Source, Target, TypeOK, l
  <2>5. m \in Message
    BY <1>1 DEF TypeOK, Message
  <2>6. /\ n \in Nat /\ e \in 1 .. 3 /\ Makes(l, Sent(p), 3 * n + e, Sent(p)')
        /\ e > 1 => HasSwapped(r)
    BY <1>2, <2>1, <2>2, <2>3, ExchangeMade DEF Exchange
  <2>7. HasSwapped(r) => m.stage = "swapped"
    <3>1. l \in straightStartLevel[r] .. MaxLevel
      BY <1>1, <2>1, LevelFacts DEF PlaceOK, Exchange, TypeOK, Levels
    <3> QED
      BY <3>1 DEF PlaceOK
  <2>8. Carries(m, 3 * n + e)
    BY <2>6, <2>7, CarriesAfter
  <2> QED
    BY SMTT(30), <2>4, <2>5, <2>6, <2>8 DEF l
<1>7. CASE SendReturn(r) /\ sending[r] # p
  <2>1. net'[p] = net[p] /\ SentTo(p)' = SentTo(p)
    BY <1>1, <1>7 DEF SendReturn, SentTo, TypeOK
  <2>2. Sent(p)' = Sent(p)
    BY <1>1, <1>2, <1>7, <2>1, InsidePosition
  <2> QED
    BY <1>1, <1>2, <2>1, <2>2, SkipsNothing DEF l
<1>8. CASE SendLocal(r) \/ PrepareRemote(r) \/ SendBegin(r) \/ SendsDone(r)
  <2>1. net'[p] = net[p]
    BY <1>8 DEF SendLocal, PrepareRemote, SendBegin, SendsDone, mpi
  <2>2. SentTo(p)' = SentTo(p) \/ (l # lvl[r])
    <3>1. CASE SendLocal(r)
      BY <1>1, <3>1 DEF SendLocal, SentTo, TypeOK, Goto
    <3>2. CASE PrepareRemote(r)
      BY <1>1, <3>2 DEF PrepareRemote, SentTo, SameOut, TypeOK, Goto, l
    <3>3. CASE SendBegin(r)
      BY <3>3 DEF SendBegin, SentTo
    <3>4. CASE SendsDone(r)
      BY <1>1, <3>4 DEF SendsDone, SentTo, TypeOK, Goto
    <3> QED
      BY <1>8, <3>1, <3>2, <3>3, <3>4
  <2>3. Sent(p)' = Position(r, l, SentTo(p)')
    BY <1>1, <1>2, <1>8, InsidePosition
  <2>4. Sent(p)' = Sent(p)
    BY <1>2, <1>3, <2>2, <2>3
  <2> QED
    BY <1>1, <1>2, <2>1, <2>4, SkipsNothing DEF l
<1> QED
  BY <1>4, <1>5, <1>6, <1>7, <1>8, OutsideExchange DEF Step

\* What a rank does to a pool it receives from: nothing that shows, or it
\* makes an exchange and takes the first message.
LEMMA ReceiverMoves ==
  ASSUME MinLevel = 0, Ground, Requests, NEW r \in Ranks, PlaceOK(r), Step(r) \/ Throw(r),
         NEW p \in SamePools, Target(p) = r
  PROVE  \/ net'[p] = net[p] /\ Skips(p[2], Received(p), Received(p)')
         \/ /\ net[p] # <<>> /\ net'[p] = Tail(net[p])
            /\ \E k \in Int : Makes(p[2], Received(p), k, Received(p)')
<1> DEFINE l == p[2]
<1>1. /\ TypeOK /\ p \in Pools /\ p \notin InterPools /\ l \in Levels /\ p[4] = l
      /\ Source(p) \in Ranks /\ Source(p) # r
      /\ \A b \in {0, 1} : Position(r, l, b) \in Int
  <2>1. TypeOK
    BY DEF Ground
  <2>2. /\ p \in Pools /\ p \notin InterPools /\ l \in Levels /\ p[4] = l
        /\ Source(p) \in Ranks /\ Source(p) # r
    BY SamePool
  <2>3. \A b \in {0, 1} : Position(r, l, b) \in Nat
    BY <2>1, <2>2, PositionType
  <2> QED
    BY <2>1, <2>2, <2>3
<1>2. Received(p) = Position(r, l, 0) /\ Received(p)' = Position(r, l, 0)'
  BY DEF Received
<1>3. l # lvl[r] => Position(r, l, 1) = Position(r, l, 0)
  BY OtherLevel
<1> HIDE DEF l
<1>4. CASE SizeReceive(r)
  <2>1. Received(p)' = Position(r, l, 1)
    BY <1>1, <1>2, <1>4, ReceivePosition
  <2>2. CASE l = lvl[r]
    <3>1. net[p] # <<>> /\ net'[p] = Tail(net[p])
      BY <1>1, <1>4, <2>2 DEF SizeReceive, ReceiveOrders, SameIn, l
    <3>2. Makes(l, Received(p), 1, Received(p)')
      BY <1>2, <1>4, <2>1, <2>2, HandshakeMade DEF SizeReceive
    <3> QED
      BY <3>1, <3>2 DEF l
  <2>3. CASE l # lvl[r]
    <3>1. net'[p] = net[p]
      BY <1>1, <1>4, <2>3 DEF SizeReceive, ReceiveOrders, SameIn, l
    <3> QED
      BY <1>1, <1>2, <1>3, <2>1, <2>3, <3>1, SkipsNothing DEF l
  <2> QED
    BY <2>2, <2>3
<1>5. CASE ReceiveRemote(r)
  <2>1. Received(p)' = Position(r, l, 1)
    BY <1>1, <1>2, <1>5, ReceivePosition
  <2>2. CASE l = lvl[r]
    <3>1. p \in posted /\ p \in SameIn(r, lvl[r])
      BY <1>1, <1>5, <2>2 DEF Requests, AwaitsExchange, ReceiveRemote, SameIn, l
    <3>2. Delivered(p)
      BY <1>5, <3>1 DEF ReceiveRemote, Arrived
    <3>3. net[p] # <<>> /\ net'[p] = Tail(net[p])
      BY <1>1, <1>5, <3>1, <3>2 DEF ReceiveRemote, Consume, Delivered
    <3>4. /\ dist[r][l].step \in Nat /\ Round(r) \in 1 .. 3
          /\ Makes(l, Received(p), 3 * dist[r][l].step + Round(r), Received(p)')
      BY <1>2, <1>5, <2>1, <2>2, ExchangeMade DEF ReceiveRemote, Exchange
    <3> QED
      BY <3>3, <3>4 DEF l
  <2>3. CASE l # lvl[r]
    <3>1. net'[p] = net[p]
      BY <1>1, <1>5, <2>3 DEF ReceiveRemote, Consume, SameIn, l
    <3> QED
      BY <1>1, <1>2, <1>3, <2>1, <2>3, <3>1, SkipsNothing DEF l
  <2> QED
    BY <2>2, <2>3
<1>6. CASE SizeSend(r) \/ SendLocal(r) \/ PrepareRemote(r) \/ SendBegin(r) \/ SendReturn(r) \/ SendsDone(r)
  <2>1. Received(p)' = Received(p)
    BY <1>1, <1>2, <1>6, InsidePosition
  <2>2. net'[p] = net[p]
    <3>1. CASE SizeSend(r)
      BY <1>1, <3>1 DEF SizeSend, SendOrders, SameOut
    <3>2. CASE SendReturn(r)
      <4>1. sending[r] # p
        BY <1>1, <3>2 DEF SendReturn, PlaceOK, SameOut, RemoteInterOut, InterOut
      <4> QED
        BY <1>1, <3>2, <4>1 DEF SendReturn, TypeOK
    <3> QED
      BY <1>6, <3>1, <3>2 DEF SendLocal, PrepareRemote, SendBegin, SendsDone, mpi
  <2> QED
    BY <1>1, <1>2, <2>1, <2>2, SkipsNothing DEF l
<1> QED
  BY <1>4, <1>5, <1>6, OutsideExchange DEF Step

\* An empty pool whose ends stand at the same number is in order.
LEMMA NothingSent == ASSUME NEW l, NEW k \in Int PROVE InTransit(<<>>, l, k, k)
<1>1. Len(<<>>) = 0 /\ 1 .. 0 = {} /\ k + 1 .. k = {}
  OBVIOUS
<1>2. [i \in 1 .. 0 |-> 0] \in [1 .. 0 -> k + 1 .. k]
  BY <1>1
<1> QED
  BY <1>1, <1>2, InTransitBy

\* Before the handshake the pools are empty.
LEMMA ChannelsInit == ASSUME MinLevel = 0, Init PROVE Channels
<1> SUFFICES ASSUME NEW p \in SamePools PROVE InTransit(net[p], p[2], Received(p), Sent(p))
  BY DEF Channels
<1>1. /\ p \in Pools /\ p[2] \in Levels /\ Source(p) \in Ranks /\ Target(p) \in Ranks
      /\ Source(p) # Target(p)
  BY SamePool
<1>2. net[p] = <<>>
  BY <1>1 DEF Init, IsLocal, Source, Target
<1>3. ASSUME NEW r \in Ranks PROVE Position(r, p[2], 0) = 0
  <2>1. p[2] \in Int /\ p[2] >= 0
    BY <1>1, LevelFacts DEF Levels
  <2>2. pc[r] = "sizeSend" /\ lvl[r] = 0 /\ dist[r][p[2]].step = 0
    BY <1>1 DEF Init, Initial
  <2> QED
    BY <2>1, <2>2 DEF Position, Exchanged
<1>4. SentTo(p) = 0
  BY <1>1 DEF Init, SentTo
<1> QED
  BY <1>1, <1>2, <1>3, <1>4, NothingSent DEF Sent, Received

\* A step of one rank keeps the messages of every pool in order.
LEMMA ChannelsStep ==
  ASSUME MinLevel = 0, Ground, Ground', Placed, Requests, Channels,
         NEW r \in Ranks, Step(r) \/ Throw(r)
  PROVE  Channels'
<1>1. TypeOK /\ TypeOK' /\ PlaceOK(r)
  BY DEF Ground, Placed
<1> SUFFICES ASSUME NEW p \in SamePools
             PROVE  InTransit(net'[p], p[2], Received(p)', Sent(p)')
  BY DEF Channels
<1>2. /\ p \in Pools /\ p[2] \in Levels
      /\ Source(p) \in Ranks /\ Target(p) \in Ranks /\ Source(p) # Target(p)
  BY SamePool
<1>3. net[p] \in Seq(Message) /\ InTransit(net[p], p[2], Received(p), Sent(p))
  BY <1>1, <1>2 DEF TypeOK, Channels
<1>4. Received(p) \in Int /\ Sent(p) \in Int
  <2>1. SentTo(p) \in {0, 1}
    BY DEF SentTo
  <2>2. Received(p) \in Nat /\ Sent(p) \in Nat
    BY <1>1, <1>2, <2>1, PositionType DEF Received, Sent
  <2> QED
    BY <2>2
<1>5. Received(p)' \in Int /\ Sent(p)' \in Int
  <2>1. \A s \in Ranks : dist'[s][p[2]].step \in Nat
    BY ZenonT(40), <1>1, <1>2 DEF TypeOK, Version
  <2> QED
    BY <1>2, <2>1 DEF Received, Sent, Position, Exchanged, Round
<1>6. ASSUME Source(p) # r PROVE Sent(p)' = Sent(p)
  BY <1>1, <1>2, <1>6, OthersKept DEF Sent, SentTo, Position, Exchanged, Moving, Round
<1>7. ASSUME Target(p) # r PROVE Received(p)' = Received(p)
  BY <1>1, <1>2, <1>7, OthersKept DEF Received, Position, Exchanged, Moving, Round
<1>8. CASE Source(p) = r
  <2>1. Target(p) # r
    BY <1>2, <1>8
  <2>2. Received(p)' = Received(p) /\ Skips(p[2], Received(p), Received(p)')
    BY <1>4, <1>7, <2>1, SkipsNothing
  <2>3. CASE net'[p] = net[p] /\ Skips(p[2], Sent(p), Sent(p)')
    BY <1>3, <1>4, <1>5, <2>2, <2>3, InTransitSkip
  <2>4. CASE \E k \in Int : \E m \in Message :
               Makes(p[2], Sent(p), k, Sent(p)') /\ Carries(m, k) /\ net'[p] = Append(net[p], m)
    BY <1>3, <1>4, <1>5, <2>2, <2>4, InTransitSend
  <2> QED
    BY <1>1, <1>8, <2>3, <2>4, SenderMoves
<1>9. CASE Target(p) = r
  <2>1. Source(p) # r
    BY <1>2, <1>9
  <2>2. Sent(p)' = Sent(p) /\ Skips(p[2], Sent(p), Sent(p)')
    BY <1>4, <1>6, <2>1, SkipsNothing
  <2>3. CASE net'[p] = net[p] /\ Skips(p[2], Received(p), Received(p)')
    BY <1>3, <1>4, <1>5, <2>2, <2>3, InTransitSkip
  <2>4. CASE /\ net[p] # <<>> /\ net'[p] = Tail(net[p])
             /\ \E k \in Int : Makes(p[2], Received(p), k, Received(p)')
    BY <1>3, <1>4, <1>5, <2>2, <2>4, InTransitReceive
  <2> QED
    BY <1>1, <1>9, <2>3, <2>4, ReceiverMoves
<1>10. CASE Source(p) # r /\ Target(p) # r
  BY <1>1, <1>2, <1>3, <1>6, <1>7, <1>10, OthersPools
<1> QED
  BY <1>8, <1>9, <1>10

\* Every pool between blocks of one level holds the messages of the exchanges
\* its sender has made and its receiver has not.
LEMMA ChannelsInvariant == ASSUME MinLevel = 0 PROVE Spec => []Channels
<1>1. Ground /\ Ground' /\ Placed /\ Requests /\ Channels /\ [Next]_vars => Channels'
  <2> SUFFICES ASSUME Ground, Ground', Placed, Requests, Channels, [Next]_vars PROVE Channels'
    OBVIOUS
  <2>1. ASSUME NEW r \in Ranks, Step(r) \/ Throw(r) PROVE Channels'
    BY <2>1, ChannelsStep
  <2>2. CASE UNCHANGED vars
    BY <2>2 DEF vars, control, data, mpi, Channels, Received, Sent, SentTo, Position, Exchanged,
       Moving, Round
  <2> QED
    BY <2>1, <2>2 DEF Next
<1>2. Init => Channels
  BY ChannelsInit
<1> QED
  BY GroundInvariant, PlacedInvariant, RequestsInvariant, <1>1, <1>2, PTL DEF Spec

\* No rank runs ahead of a neighbour by more than one step of their level
\* (LockStep): the messages after a step are waited for before the next one,
\* and what was received had been sent.
THEOREM RanksInLockStep == ASSUME MinLevel = 0 PROVE Spec => []LockStep
<1>1. Ground /\ Channels => LockStep
  <2> SUFFICES ASSUME Ground, Channels, NEW a \in Adjacent
               PROVE  dist[a[2]][a[1]].step =< dist[a[3]][a[1]].step + 1
    BY DEF LockStep
  <2> DEFINE l == a[1]
             r == a[2]
             s == a[3]
             n == dist[r][l].step
             m == dist[s][l].step
  <2>1. TypeOK /\ l \in Levels /\ r \in Ranks /\ s \in Ranks /\ <<l, s, r>> \in Adjacent
    BY TopologyAssumption DEF Ground, Levels
  <2>2. n \in Nat /\ m \in Nat
    BY <2>1 DEF TypeOK, Version
  <2>3. CASE r = s
    BY <2>2, <2>3
  <2>4. CASE r # s
    <3> DEFINE p == <<s, l, r, l>>
    <3>1. p \in SamePools /\ Source(p) = s /\ Target(p) = r /\ p[2] = l
      BY <2>1, <2>4 DEF SamePools, Source, Target
    <3>2. \E e \in 0 .. 3 : Received(p) = 3 * n + e
      <4>1. Exchanged(r, l, 0) \in 0 .. 3
        BY <2>1, PositionType
      <4>2. Received(p) = 3 * n + Exchanged(r, l, 0)
        BY <3>1 DEF Received, Position
      <4> QED
        BY <4>1, <4>2
    <3>3. \E e \in 0 .. 3 : Sent(p) = 3 * m + e
      <4>1. SentTo(p) \in {0, 1}
        BY DEF SentTo
      <4>2. Exchanged(s, l, SentTo(p)) \in 0 .. 3
        BY <2>1, <4>1, PositionType
      <4>3. Sent(p) = 3 * m + Exchanged(s, l, SentTo(p))
        BY <3>1 DEF Sent, Position
      <4> QED
        BY <4>2, <4>3
    <3>4. \A k \in Sent(p) + 1 .. Received(p) : ~Happens(l, k)
      BY <3>1 DEF Channels, InTransit
    <3> HIDE DEF p, n, m, l
    <3>5. Happens(l, 3 * (m + 1) + 1)
      <4>1. m + 1 \in Nat
        BY <2>2
      <4> QED
        BY <4>1, HappensAfter
    <3> SUFFICES ASSUME n > m + 1 PROVE FALSE
      BY <2>2 DEF n, m, l
    <3>6. 3 * (m + 1) + 1 \in Sent(p) + 1 .. Received(p)
      BY <2>2, <3>2, <3>3
    <3> QED
      BY <3>4, <3>5, <3>6
  <2> QED
    BY <2>3, <2>4
<1> QED
  BY GroundInvariant, ChannelsInvariant, <1>1, PTL
-----------------------------------------------------------------------------
(* The ghost layers *)

\* v is what a ghost layer holds after the exchanges up to number k.
Holds(v, l, k) ==
  /\ k = 0 => v.step = 0
  /\ \A n \in 0 .. k :
       /\ k \in {3 * n + 1, 3 * n + 2, 3 * n + 3} => v.step = n
       /\ k \in {3 * n + 2, 3 * n + 3} /\ Interpolates(l, n) => v.stage = "swapped"

\* Before the first exchange, and after the handshake, ghost layers hold what
\* they were initialised with; below a number other than 0 lies a step.
LEMMA HoldsAt ==
  ASSUME NEW v, NEW l, NEW n \in Nat, NEW e \in 1 .. 3
  PROVE  Holds(v, l, 3 * n + e)
           <=> v.step = n /\ (e > 1 /\ Interpolates(l, n) => v.stage = "swapped")
<1>1. n \in 0 .. 3 * n + e /\ 3 * n + e # 0
  OBVIOUS
<1>2. \A m \in 0 .. 3 * n + e :
        /\ 3 * n + e \in {3 * m + 1, 3 * m + 2, 3 * m + 3} <=> m = n
        /\ 3 * n + e \in {3 * m + 2, 3 * m + 3} <=> m = n /\ e > 1
  OBVIOUS
<1> QED
  BY <1>1, <1>2 DEF Holds

\* Every number but 0 lies in the exchanges of one step.
LEMMA StepOfNumber ==
  ASSUME NEW k \in Nat, k > 0
  PROVE  \E n \in Nat : \E e \in 1 .. 3 : k = 3 * n + e
<1> DEFINE S == { m \in Nat : m = 0 \/ \E n \in Nat : \E e \in 1 .. 3 : m = 3 * n + e }
<1>1. 0 \in S
  OBVIOUS
<1>2. ASSUME NEW m \in Nat, m \in S PROVE m + 1 \in S
  <2>1. CASE m = 0
    <3>1. m + 1 = 3 * 0 + 1
      BY <2>1
    <3> QED
      BY <3>1
  <2>2. CASE \E n \in Nat : \E e \in 1 .. 3 : m = 3 * n + e
    <3>1. PICK n \in Nat, e \in 1 .. 3 : m = 3 * n + e
      BY <2>2
    <3>2. CASE e < 3
      <4>1. m + 1 = 3 * n + (e + 1) /\ e + 1 \in 1 .. 3
        BY <3>1, <3>2
      <4> QED
        BY <4>1
    <3>3. CASE e = 3
      <4> DEFINE i == n + 1
      <4>1. m + 1 = 3 * i + 1 /\ i \in Nat
        BY <3>1, <3>3
      <4> HIDE DEF i
      <4> QED
        BY <4>1
    <3> QED
      BY <3>2, <3>3
  <2> QED
    BY <1>2, <2>1, <2>2
<1>3. k \in S
  <2> HIDE DEF S
  <2>1. \A m \in 0 .. k - 1 : m \in S => m + 1 \in S
    BY <1>2
  <2>2. 0 .. k \subseteq S
    BY <1>1, <2>1, SegmentInduction
  <2> QED
    BY <2>2
<1> QED
  BY <1>3

\* Exchanges that are skipped change nothing in a ghost layer: what would
\* have been copied by them is not read before the next one.
LEMMA HoldsSkip ==
  ASSUME NEW v, NEW l, NEW a \in Nat, NEW b \in Nat, Holds(v, l, a), Skips(l, a, b)
  PROVE  Holds(v, l, b)
<1>1. a =< b /\ \A k \in a + 1 .. b : ~Happens(l, k)
  BY DEF Skips
<1>2. CASE a = 0
  <2>1. Happens(l, 3 * 0 + 1)
    BY HappensAfter
  <2>2. b = 0
    BY <1>1, <1>2, <2>1
  <2> QED
    BY <1>2, <2>2
<1>3. CASE a > 0
  <2>1. PICK n \in Nat, e \in 1 .. 3 : a = 3 * n + e
    BY <1>3, StepOfNumber
  <2>2. Happens(l, 3 * (n + 1) + 1) /\ (Happens(l, 3 * n + 2) <=> Interpolates(l, n))
    <3>1. n + 1 \in Nat
      OBVIOUS
    <3> QED
      BY <3>1, HappensAfter
  <2>3. b < 3 * (n + 1) + 1
    BY <1>1, <2>1, <2>2
  <2>4. PICK f \in 1 .. 3 : b = 3 * n + f /\ e =< f
    BY <1>1, <2>1, <2>3
  <2>5. v.step = n /\ (e > 1 /\ Interpolates(l, n) => v.stage = "swapped")
    BY <2>1, HoldsAt
  <2>6. f > 1 /\ Interpolates(l, n) => e > 1
    BY <1>1, <2>1, <2>2, <2>4
  <2> QED
    BY <2>4, <2>5, <2>6, HoldsAt
<1> QED
  BY <1>2, <1>3

\* What arrives with an exchange is what a ghost layer then holds.
LEMMA HoldsMade ==
  ASSUME NEW v, NEW l, NEW a \in Nat, NEW b \in Nat, NEW n \in Nat, NEW e \in 1 .. 3,
         Makes(l, a, 3 * n + e, b), Carries(v, 3 * n + e)
  PROVE  Holds(v, l, b)
<1>1. /\ a < 3 * n + e /\ 3 * n + e =< b
      /\ \A k \in a + 1 .. b : Happens(l, k) <=> k = 3 * n + e
  BY DEF Makes
<1>2. Happens(l, 3 * (n + 1) + 1) /\ (Happens(l, 3 * n + 2) <=> Interpolates(l, n))
  <2>1. n + 1 \in Nat
    OBVIOUS
  <2> QED
    BY <2>1, HappensAfter
<1>3. b < 3 * (n + 1) + 1
  BY <1>1, <1>2
<1>4. PICK f \in 1 .. 3 : b = 3 * n + f /\ e =< f
  BY <1>1, <1>3
<1>5. v.step = n /\ (e > 1 => v.stage = "swapped")
  BY CarriedAfter
<1>6. f > 1 /\ Interpolates(l, n) => e > 1
  BY <1>1, <1>2, <1>4
<1> QED
  BY <1>4, <1>5, <1>6, HoldsAt

\* The handshake leaves the ghost layers alone.
LEMMA HoldsHandshake == ASSUME NEW v, NEW l, Holds(v, l, 0) PROVE Holds(v, l, 3)
<1>1. v.step = 0 /\ ~Interpolates(l, 0)
  BY DEF Holds, Interpolates
<1>2. Holds(v, l, 3 * 0 + 3)
  BY <1>1, HoldsAt
<1> QED
  BY <1>2

\* Ghost layers next to a block of the same rank are filled at once, the
\* others with the receive.
FilledBy(r, s) ==
  IF s = r /\ pc[r] \in {"prepareRemote", "sendRemote", "receiveRemote"} THEN 1 ELSE 0

Filled(r, l, s) == Position(r, l, FilledBy(r, s))

Halos == \A a \in Adjacent : Holds(halo[a[2]][a[1]][a[3]], a[1], Filled(a[2], a[1], a[3]))

\* Ghost layers are initialised with the blocks.
LEMMA HalosInit == ASSUME MinLevel = 0, Init PROVE Halos
<1> SUFFICES ASSUME NEW a \in Adjacent
             PROVE  Holds(halo[a[2]][a[1]][a[3]], a[1], Filled(a[2], a[1], a[3]))
  BY DEF Halos
<1>1. a[1] \in Levels /\ a[2] \in Ranks /\ a[3] \in Ranks /\ a[1] \in Int /\ a[1] >= 0
  BY TopologyAssumption, LevelFacts DEF Levels
<1>2. FilledBy(a[2], a[3]) = 0
  BY <1>1 DEF Init, FilledBy
<1>3. Position(a[2], a[1], 0) = 0
  <2>1. pc[a[2]] = "sizeSend" /\ lvl[a[2]] = 0 /\ dist[a[2]][a[1]].step = 0
    BY <1>1 DEF Init, Initial
  <2> QED
    BY <1>1, <2>1 DEF Position, Exchanged
<1>4. halo[a[2]][a[1]][a[3]].step = 0
  BY <1>1 DEF Init, Initial
<1>5. Holds(halo[a[2]][a[1]][a[3]], a[1], 0)
  <2>1. \A n \in 0 .. 0 : 0 \notin {3 * n + 1, 3 * n + 2, 3 * n + 3}
    OBVIOUS
  <2> QED
    BY <1>4, <2>1 DEF Holds
<1> QED
  BY <1>2, <1>3, <1>5 DEF Filled

\* What a rank does to its ghost layers next to blocks of s: nothing that
\* shows, the handshake, or an exchange.
LEMMA GhostMoves ==
  ASSUME MinLevel = 0, Ground, Ground', Requests, Channels, NEW r \in Ranks, PlaceOK(r),
         Step(r) \/ Throw(r), NEW l \in Levels, NEW s \in Ranks, <<l, r, s>> \in Adjacent
  PROVE  \/ halo'[r][l][s] = halo[r][l][s] /\ Skips(l, Filled(r, l, s), Filled(r, l, s)')
         \/ halo'[r][l][s] = halo[r][l][s] /\ Filled(r, l, s) = 0 /\ Filled(r, l, s)' = 3
         \/ \E n \in Nat : \E e \in 1 .. 3 :
              /\ Makes(l, Filled(r, l, s), 3 * n + e, Filled(r, l, s)')
              /\ Carries(halo'[r][l][s], 3 * n + e)
<1>1. /\ TypeOK
      /\ \A b \in {0, 1} : Position(r, l, b) \in Nat
      /\ l # lvl[r] => Position(r, l, 1) = Position(r, l, 0)
  BY PositionType, OtherLevel DEF Ground
<1>2. /\ Filled(r, l, s) = Position(r, l, FilledBy(r, s))
      /\ \A b \in {0, 1} : FilledBy(r, s)' = b => Filled(r, l, s)' = Position(r, l, b)'
      /\ FilledBy(r, s) \in {0, 1} /\ FilledBy(r, s)' \in {0, 1}
      /\ Filled(r, l, s) \in Int
  <2>1. FilledBy(r, s) \in {0, 1} /\ FilledBy(r, s)' \in {0, 1}
    BY DEF FilledBy
  <2> QED
    BY <1>1, <2>1 DEF Filled
<1>3. CASE SizeReceive(r)
  <2>1. FilledBy(r, s) = 0 /\ FilledBy(r, s)' = 0
    BY <1>1, <1>3 DEF SizeReceive, FilledBy, TypeOK, Goto
  <2>2. halo'[r][l][s] = halo[r][l][s]
    BY <1>3 DEF SizeReceive, data
  <2>3. Filled(r, l, s) = Position(r, l, 0) /\ Filled(r, l, s)' = Position(r, l, 1)
    BY <1>2, <1>3, <2>1, ReceivePosition
  <2>4. CASE l = lvl[r]
    <3>1. Position(r, l, 0) = 0 /\ Position(r, l, 1) = 3
      BY <1>3, <2>4, HandshakeMade DEF SizeReceive
    <3> QED
      BY <2>2, <2>3, <3>1
  <2>5. CASE l # lvl[r]
    BY <1>1, <1>2, <2>2, <2>3, <2>5, SkipsNothing
  <2> QED
    BY <2>4, <2>5
<1>4. CASE ReceiveRemote(r)
  <2>1. FilledBy(r, s)' = 0
    <3>1. pc'[r] \in {"sendLocal", "postBC", "interPrepare", "notify"}
      BY <1>1, <1>4 DEF ReceiveRemote, TypeOK, Goto
    <3> QED
      BY <3>1 DEF FilledBy
  <2>2. Filled(r, l, s)' = Position(r, l, 1)
    BY <1>2, <1>4, <2>1, ReceivePosition
  <2> DEFINE p == <<s, l, r, l>>
  <2>3. CASE s = r \/ l # lvl[r]
    <3>1. p \notin SameIn(r, lvl[r])
      BY <2>3, SamePool DEF SameIn, Source, Target
    <3>2. halo'[r][l][s] = halo[r][l][s]
      BY <1>1, <1>4, <2>3, <3>1 DEF ReceiveRemote, TypeOK
    <3>3. Filled(r, l, s) = Position(r, l, 1)
      BY <1>1, <1>2, <1>4, <2>3 DEF FilledBy, ReceiveRemote
    <3> QED
      BY <1>2, <2>2, <3>2, <3>3, SkipsNothing
  <2>4. CASE s # r /\ l = lvl[r]
    <3>1. p \in SamePools /\ Source(p) = s /\ Target(p) = r /\ p[2] = l /\ p[4] = l
      <4>1. <<l, s, r>> \in Adjacent
        BY TopologyAssumption
      <4> QED
        BY <2>4, <4>1 DEF SamePools, Source, Target
    <3>2. p \in posted /\ p \in SameIn(r, l) /\ p \in Pools
      BY <1>4, <2>4, <3>1 DEF Requests, AwaitsExchange, ReceiveRemote, SameIn, Pools
    <3>3. Delivered(p)
      BY <1>4, <2>4, <3>2 DEF ReceiveRemote, Arrived
    <3>4. halo'[r][l][s] = Head(net[p]) /\ net[p] # <<>>
      BY <1>1, <1>4, <2>4, <3>2, <3>3 DEF ReceiveRemote, Delivered, TypeOK
    <3>5. Filled(r, l, s) = Position(r, l, 0) /\ Received(p) = Position(r, l, 0)
      BY <1>2, <2>4, <3>1 DEF FilledBy, Received
    <3> DEFINE n == dist[r][l].step
               e == Round(r)
    <3>6. n \in Nat /\ e \in 1 .. 3 /\ Makes(l, Position(r, l, 0), 3 * n + e, Position(r, l, 1))
      BY <1>4, <2>4, ExchangeMade DEF ReceiveRemote, Exchange
    <3>7. /\ net[p] \in Seq(Message) /\ Sent(p) \in Int /\ 3 * n + e \in Int
          /\ InTransit(net[p], l, Position(r, l, 0), Sent(p))
      <4>1. SentTo(p) \in {0, 1}
        BY DEF SentTo
      <4>2. Sent(p) \in Nat
        BY <1>1, <3>1, <4>1, PositionType DEF Sent
      <4> QED
        BY SMTT(30), <1>1, <3>1, <3>2, <3>5, <3>6, <4>2 DEF TypeOK, Channels
    <3> HIDE DEF n, e, p
    <3>8. Carries(Head(net[p]), 3 * n + e)
      <4>1. Position(r, l, 0) \in Int /\ Position(r, l, 1) \in Int
        BY <1>1
      <4> QED
        BY <3>4, <3>6, <3>7, <4>1, InTransitReceive
    <3>9. halo'[r][l][s] = Head(net[p])
      BY <3>4
    <3> QED
      BY <2>2, <3>5, <3>6, <3>8, <3>9
  <2> QED
    BY <2>3, <2>4
<1>5. CASE SendLocal(r) /\ s = r /\ l = lvl[r]
  <2>1. FilledBy(r, s) = 0 /\ FilledBy(r, s)' = 1
    BY <1>1, <1>5 DEF SendLocal, FilledBy, TypeOK, Goto
  <2>2. halo'[r][l][s] = dist[r][l]
    BY <1>1, <1>5 DEF SendLocal, TypeOK
  <2>3. Filled(r, l, s) = Position(r, l, 0) /\ Filled(r, l, s)' = Position(r, l, 1)
    BY <1>2, <1>5, <2>1, InsidePosition
  <2> DEFINE m == dist[r][l]
             n == m.step
             e == Round(r)
  <2>4. /\ n \in Nat /\ e \in 1 .. 3 /\ Makes(l, Position(r, l, 0), 3 * n + e, Position(r, l, 1))
        /\ e > 1 => HasSwapped(r)
    BY <1>5, ExchangeMade DEF SendLocal, Exchange
  <2>5. HasSwapped(r) => m.stage = "swapped"
    <3>1. l \in straightStartLevel[r] .. MaxLevel
      BY <1>1, <1>5, LevelFacts DEF SendLocal, PlaceOK, Exchange, TypeOK, Levels
    <3> QED
      BY <3>1 DEF PlaceOK
  <2>6. Carries(m, 3 * n + e)
    BY <2>4, <2>5, CarriesAfter
  <2> QED
    BY <2>2, <2>3, <2>4, <2>6
<1>6. CASE \/ SizeSend(r) \/ PrepareRemote(r) \/ SendBegin(r) \/ SendReturn(r) \/ SendsDone(r)
           \/ (SendLocal(r) /\ ~(s = r /\ l = lvl[r]))
  <2>1. halo'[r][l][s] = halo[r][l][s]
    <3>1. CASE SizeSend(r) \/ PrepareRemote(r) \/ SendBegin(r) \/ SendReturn(r) \/ SendsDone(r)
      BY <3>1 DEF SizeSend, PrepareRemote, SendBegin, SendReturn, SendsDone, data
    <3>2. CASE SendLocal(r) /\ ~(s = r /\ l = lvl[r])
      BY <1>1, <3>2 DEF SendLocal, TypeOK
    <3> QED
      BY <1>6, <3>1, <3>2
  <2>2. FilledBy(r, s)' = FilledBy(r, s) \/ l # lvl[r]
    <3>1. CASE SizeSend(r) \/ PrepareRemote(r) \/ SendsDone(r)
      BY <1>1, <3>1 DEF SizeSend, PrepareRemote, SendsDone, FilledBy, TypeOK, Goto
    <3>2. CASE SendBegin(r) \/ SendReturn(r)
      BY <3>2 DEF SendBegin, SendReturn, FilledBy
    <3>3. CASE SendLocal(r) /\ ~(s = r /\ l = lvl[r])
      BY <3>3 DEF FilledBy
    <3> QED
      BY <1>6, <3>1, <3>2, <3>3
  <2>3. \A b \in {0, 1} : Position(r, l, b)' = Position(r, l, b)
    BY <1>6, InsidePosition
  <2>4. Filled(r, l, s)' = Filled(r, l, s)
    BY <1>1, <1>2, <2>2, <2>3
  <2> QED
    BY <1>2, <2>1, <2>4, SkipsNothing
<1>7. CASE \/ InterSizeSend(r) \/ InterSizeReceive(r) \/ Select(r) \/ Threshold(r)
           \/ PreCollisionBC(r) \/ Calculate(r) \/ PostCollisionBC(r) \/ SwapDistributions(r)
           \/ InterPrepare(r) \/ InterSendLocal(r) \/ InterSendsDone(r)
           \/ InterReceiveLocal(r) \/ InterReceiveRemote(r)
           \/ EndSubstep(r) \/ Notify(r) \/ Throw(r)
  <2>1. halo'[r][l][s] = halo[r][l][s]
    BY <1>7 DEF InterSizeSend, InterSizeReceive, Select, Threshold, PreCollisionBC, Calculate,
       PostCollisionBC, SwapDistributions, InterPrepare, InterSendLocal, InterSendsDone,
       InterReceiveLocal, InterReceiveRemote, EndSubstep, Notify, Throw, data
  <2>2. FilledBy(r, s)' = 0
    <3> USE <1>1 DEF TypeOK, Goto, EnterLevelLoop, FilledBy
    <3>1. CASE InterSizeSend(r) \/ InterSizeReceive(r) \/ Select(r) \/ Threshold(r)
      BY <3>1 DEF InterSizeSend, InterSizeReceive, Select, Threshold
    <3>2. CASE PreCollisionBC(r) \/ Calculate(r) \/ PostCollisionBC(r) \/ SwapDistributions(r)
      BY <3>2 DEF PreCollisionBC, Calculate, PostCollisionBC, SwapDistributions
    <3>3. CASE InterPrepare(r) \/ InterSendLocal(r) \/ InterSendsDone(r)
      BY <3>3 DEF InterPrepare, InterSendLocal, InterSendsDone
    <3>4. CASE InterReceiveLocal(r) \/ InterReceiveRemote(r)
      BY <3>4 DEF InterReceiveLocal, InterReceiveRemote
    <3>5. CASE EndSubstep(r) \/ Notify(r) \/ Throw(r)
      BY <3>5 DEF EndSubstep, Notify, Throw
    <3> QED
      BY <1>7, <3>1, <3>2, <3>3, <3>4, <3>5
  <2>3. Filled(r, l, s)' = Position(r, l, 0)'
    BY <1>2, <2>2
  <2>4. Skips(l, Position(r, l, FilledBy(r, s)), Position(r, l, 0)')
    BY <1>2, <1>7, OutsidePosition
  <2> QED
    BY <1>2, <2>1, <2>3, <2>4
<1> QED
  BY <1>3, <1>4, <1>5, <1>6, <1>7 DEF Step

\* A step of one rank keeps what the ghost layers hold.
LEMMA HalosStep ==
  ASSUME MinLevel = 0, Ground, Ground', Placed, Requests, Channels, Halos,
         NEW r \in Ranks, Step(r) \/ Throw(r)
  PROVE  Halos'
<1> SUFFICES ASSUME NEW a \in Adjacent
             PROVE  Holds(halo'[a[2]][a[1]][a[3]], a[1], Filled(a[2], a[1], a[3])')
  BY DEF Halos
<1> DEFINE l == a[1]
           q == a[2]
           s == a[3]
<1>1. TypeOK /\ TypeOK' /\ PlaceOK(r) /\ l \in Levels /\ q \in Ranks /\ s \in Ranks /\ <<l, q, s>> \in Adjacent
  BY TopologyAssumption DEF Ground, Placed, Levels
<1>2. Holds(halo[q][l][s], l, Filled(q, l, s))
  BY DEF Halos
<1> HIDE DEF l, q, s
<1> SUFFICES Holds(halo'[q][l][s], l, Filled(q, l, s)')
  BY DEF l, q, s
<1>3. Filled(q, l, s) \in Nat /\ Filled(q, l, s)' \in Nat
  <2>1. FilledBy(q, s) \in {0, 1}
    BY DEF FilledBy
  <2>2. dist'[q][l].step \in Nat
    BY <1>1 DEF TypeOK, Version
  <2> QED
    BY <1>1, <2>1, <2>2, PositionType DEF Filled, Position, Exchanged, Round
<1>4. CASE q = r
  <2>1. CASE halo'[q][l][s] = halo[q][l][s] /\ Skips(l, Filled(q, l, s), Filled(q, l, s)')
    BY <1>2, <1>3, <2>1, HoldsSkip
  <2>2. CASE halo'[q][l][s] = halo[q][l][s] /\ Filled(q, l, s) = 0 /\ Filled(q, l, s)' = 3
    BY <1>2, <2>2, HoldsHandshake
  <2>3. CASE \E n \in Nat : \E e \in 1 .. 3 :
               /\ Makes(l, Filled(q, l, s), 3 * n + e, Filled(q, l, s)')
               /\ Carries(halo'[q][l][s], 3 * n + e)
    BY <1>3, <2>3, HoldsMade
  <2> QED
    BY <1>1, <1>4, <2>1, <2>2, <2>3, GhostMoves
<1>5. CASE q # r
  <2>1. halo'[q][l][s] = halo[q][l][s] /\ Filled(q, l, s)' = Filled(q, l, s)
    BY <1>1, <1>5, OthersKept DEF Filled, FilledBy, Position, Exchanged, Moving, Round
  <2> QED
    BY <1>2, <2>1
<1> QED
  BY <1>4, <1>5

\* Every ghost layer holds what the exchanges of its level have brought.
LEMMA HalosInvariant == ASSUME MinLevel = 0 PROVE Spec => []Halos
<1>1. Ground /\ Ground' /\ Placed /\ Requests /\ Channels /\ Halos /\ [Next]_vars => Halos'
  <2> SUFFICES ASSUME Ground, Ground', Placed, Requests, Channels, Halos, [Next]_vars PROVE Halos'
    OBVIOUS
  <2>1. ASSUME NEW r \in Ranks, Step(r) \/ Throw(r) PROVE Halos'
    BY <2>1, HalosStep
  <2>2. CASE UNCHANGED vars
    BY <2>2 DEF vars, control, data, Halos, Filled, FilledBy, Position, Exchanged, Moving, Round
  <2> QED
    BY <2>1, <2>2 DEF Next
<1>2. Init => Halos
  BY HalosInit
<1> QED
  BY GroundInvariant, PlacedInvariant, RequestsInvariant, ChannelsInvariant, <1>1, <1>2, PTL DEF Spec

\* A block collides and streams only when each ghost layer next to another
\* block of its level holds what that block had after the same time step
\* (FreshAtCollision), whatever the ranks and MPI have been doing meanwhile.
THEOREM CollidesWithFreshGhosts == ASSUME MinLevel = 0 PROVE Spec => []FreshAtCollision
<1>1. Ground /\ Halos => FreshAtCollision
  <2> SUFFICES ASSUME Ground, Halos, NEW r \in Ranks, NEW s \in Ranks,
                      pc[r] = "calculate", <<lvl[r], r, s>> \in Adjacent
               PROVE  halo[r][lvl[r]][s].step = dist[r][lvl[r]].step
    BY DEF FreshAtCollision
  <2> DEFINE l == lvl[r]
             n == dist[r][l].step
             v == halo[r][l][s]
  <2>1. n \in Nat /\ l \in Int
    <3>1. TypeOK
      BY DEF Ground
    <3>2. l \in Levels
      BY <3>1 DEF TypeOK
    <3>3. l \in Int
      BY <3>2, LevelFacts DEF Levels
    <3>4. n \in Nat
      BY <3>1, <3>2 DEF TypeOK, Version
    <3> QED
      BY <3>3, <3>4
  <2>2. Exchanged(r, l, FilledBy(r, s)) = 3
    BY <2>1 DEF Exchanged, Moving, Exchange, Coupling
  <2>3. Holds(v, l, 3 * n + 3)
    BY <2>2 DEF Halos, Filled, Position
  <2> HIDE DEF n, v
  <2>4. \E e \in 1 .. 3 : e = 3 /\ Holds(v, l, 3 * n + e)
    BY <2>3
  <2>5. v.step = n
    BY <2>1, <2>4, HoldsAt
  <2> QED
    BY <2>5 DEF n, v
<1> QED
  BY GroundInvariant, HalosInvariant, <1>1, PTL

\* What interpolation reads is of one version, on the block itself and in its
\* ghost layers (GhostsActualAtInterpolation): the comment "now ghost nodes
\* have actual values" of Simulation::run holds.
THEOREM InterpolatesActualGhosts == ASSUME MinLevel = 0 PROVE Spec => []GhostsActualAtInterpolation
<1>1. Ground /\ Placed /\ Halos => GhostsActualAtInterpolation
  <2> SUFFICES ASSUME Ground, Placed, Halos, NEW r \in Ranks, NEW s \in Ranks, NEW l \in Levels,
                      pc[r] = "interSendLocal", l \in ActiveLevels(r), <<l, r, s>> \in Adjacent
               PROVE  halo[r][l][s] = dist[r][l]
    BY DEF GhostsActualAtInterpolation
  <2> DEFINE n == dist[r][l].step
             v == halo[r][l][s]
  <2>1. TypeOK /\ ControlAt(r) /\ PlaceOK(r) /\ MaxInitLevel = MaxLevel
    BY LevelFacts DEF Ground, ControlOK, Placed, MaxInitLevel
  <2>2. n \in Nat /\ dist[r][l] \in Version /\ v \in Message
    BY <2>1 DEF TypeOK, Version
  <2>3. straightStartLevel[r] =< l /\ l \in straightStartLevel[r] .. MaxLevel
    BY <2>1, LevelFacts DEF ActiveLevels, TypeOK
  <2>4. Moving(r, l)
    BY <2>3 DEF Moving, Coupling
  <2>5. Interpolates(l, n)
    <3>1. straightStartLevel[r] < MaxLevel
      BY <2>1, LevelFacts DEF ControlAt, Coupling, TypeOK
    <3> QED
      BY <2>4, <3>1, MovingLevel
  <2>6. Exchanged(r, l, FilledBy(r, s)) = 2
    BY <2>4 DEF Exchanged, Exchange
  <2>7. Holds(v, l, 3 * n + 2)
    BY <2>6 DEF Halos, Filled, Position
  <2>8. dist[r][l].stage = "swapped"
    BY <2>1, <2>3 DEF PlaceOK, HasSwapped, Coupling
  <2>9. v.step = n /\ v.stage = "swapped"
    <3> HIDE DEF n, v
    <3>1. \E e \in 1 .. 3 : e > 1 /\ Holds(v, l, 3 * n + e)
      BY <2>7
    <3> QED
      BY <2>2, <2>5, <3>1, HoldsAt
  <2>10. v \in Version
    BY <2>2, <2>9 DEF Message, Order
  <2> QED
    BY <2>2, <2>8, <2>9, <2>10 DEF Version
<1> QED
  BY GroundInvariant, PlacedInvariant, HalosInvariant, <1>1, PTL
-----------------------------------------------------------------------------
(* The interface values *)

\* Coupling c of an interface is at step c of its coarser level; its values
\* come from a finished step.
Number(p, c) == IF p[2] < p[4] THEN c ELSE 2 * c

CouplingAt(p, c) == [step |-> Number(p, c), stage |-> "swapped"]

\* The source has sent the values of the coupling it is at, ...
HasGiven(p) ==
  LET s == Source(p)
      j == InterfaceOf(p)
  IN  \/ /\ pc[s] \in {"interSendLocal", "interSendRemote"}
         /\ straightStartLevel[s] =< j
         /\ j < lvl[s] \/ (j = lvl[s] /\ pc[s] = "interSendRemote" /\ p \notin unsent[s])
      \/ pc[s] \in WhileReceiving /\ lvl[s] =< j

\* ... and the target has distributed the values of a shared buffer.
HasTaken(p) ==
  LET t == Target(p)
  IN  ~ReceivedByRemote(p) /\ pc[t] = "interReceiveRemote" /\ lvl[t] = InterfaceOf(p)

\* The couplings whose values were sent into a pool and taken out of it.
Given(p) == coupled[Source(p)][InterfaceOf(p)] + (IF HasGiven(p) THEN 1 ELSE 0)
Taken(p) == coupled[Target(p)][InterfaceOf(p)] + (IF HasTaken(p) THEN 1 ELSE 0)

\* The handshake counts as the coupling 0.
Told(p)  == IF pc[Source(p)] \in {"sizeSend", "sizeReceive", "interSizeSend"} THEN 0 ELSE 1
Heard(p) == IF pc[Target(p)] \in Handshake THEN 0 ELSE 1

Offered(p)  == Told(p) + Given(p)
Accepted(p) == Heard(p) + Taken(p)

IsCoupling(m, p, c) == m.step = Number(p, c) /\ (c > 0 => m.stage = "swapped")

\* q holds the values of the couplings a to b - 1 in their order.
Numbered(q, p, a, b) ==
  Len(q) = b - a /\ \A i \in 1 .. Len(q) : IsCoupling(q[i], p, a + i - 1)

InterChannels ==
  \A p \in InterPools :
    /\ ~IsLocal(p) => Numbered(net[p], p, Accepted(p), Offered(p))
    /\ IsLocal(p) => net[p] = <<CouplingAt(p, Given(p))>>
    /\ iface[p] = CouplingAt(p, Taken(p))

\* The source sends the next coupling.
LEMMA NumberedSend ==
  ASSUME NEW q \in Seq(Message), NEW p, NEW a \in Nat, NEW b \in Nat, Numbered(q, p, a, b),
         NEW m \in Message, IsCoupling(m, p, b)
  PROVE  Numbered(Append(q, m), p, a, b + 1)
<1>1. /\ Len(Append(q, m)) = Len(q) + 1 /\ Append(q, m)[Len(q) + 1] = m /\ Len(q) \in Nat
      /\ \A i \in 1 .. Len(q) : Append(q, m)[i] = q[i]
  OBVIOUS
<1>2. Len(q) = b - a /\ \A i \in 1 .. Len(q) : IsCoupling(q[i], p, a + i - 1)
  BY DEF Numbered
<1>3. a + (Len(q) + 1) - 1 = b
  BY <1>2
<1>4. \A i \in 1 .. Len(q) + 1 : i \in 1 .. Len(q) \/ i = Len(q) + 1
  BY <1>1
<1> QED
  BY <1>1, <1>2, <1>3, <1>4 DEF Numbered

\* The target takes the first coupling.
LEMMA NumberedReceive ==
  ASSUME NEW q \in Seq(Message), q # <<>>, NEW p, NEW a \in Nat, NEW b \in Nat, Numbered(q, p, a, b)
  PROVE  IsCoupling(Head(q), p, a) /\ Numbered(Tail(q), p, a + 1, b)
<1>1. /\ Len(q) \in Nat /\ Len(q) > 0 /\ Head(q) = q[1] /\ Len(Tail(q)) = Len(q) - 1
      /\ \A i \in 1 .. Len(q) - 1 : Tail(q)[i] = q[i + 1]
  OBVIOUS
<1>2. Len(q) = b - a /\ \A i \in 1 .. Len(q) : IsCoupling(q[i], p, a + i - 1)
  BY DEF Numbered
<1>3. IsCoupling(q[1], p, a)
  <2>1. 1 \in 1 .. Len(q) /\ a + 1 - 1 = a
    BY <1>1
  <2> QED
    BY <1>2, <2>1
<1>4. \A i \in 1 .. Len(q) - 1 : i + 1 \in 1 .. Len(q) /\ a + (i + 1) - 1 = (a + 1) + i - 1
  BY <1>1
<1> QED
  BY <1>1, <1>2, <1>3, <1>4 DEF Numbered

\* What a rank sends into an interpolation pool are the values of the coupling
\* it is at.
LEMMA CoupledValue ==
  ASSUME MinLevel = 0, Ground, Coupled, NEW r \in Ranks, PlaceOK(r),
         pc[r] \in {"interSendLocal", "interSendRemote"},
         NEW p \in InterPools, Source(p) = r, InterfaceOf(p) = lvl[r]
  PROVE  dist[r][p[2]] = CouplingAt(p, coupled[r][lvl[r]] + 1)
<1> DEFINE j == lvl[r]
<1>1. TypeOK /\ ControlAt(r) /\ ControlOK /\ Counting /\ MaxInitLevel = MaxLevel
  BY LevelFacts DEF Ground, ControlOK, MaxInitLevel
<1>2. /\ j \in Interfaces /\ j \in Levels /\ j + 1 \in Levels /\ j \in Int
      /\ \/ p[2] = j /\ p[4] = j + 1
         \/ p[2] = j + 1 /\ p[4] = j
  BY InterPool, InterfacesAreLevels, LevelFacts DEF Levels
<1>3. straightStartLevel[r] =< j /\ straightStartLevel[r] \in Int
  BY <1>1, <1>2, LevelFacts DEF ControlAt, Coupling, TypeOK
<1>4. dist[r][j].step = coupled[r][j] + 1 /\ coupled[r][j] \in Nat
  <2>1. Pending(r, j)
    BY <1>3 DEF Pending, BeforeReceive
  <2> QED
    BY <1>2, <2>1 DEF Coupled, Couples, CoupledType
<1>5. dist[r][j + 1].step = 2 * dist[r][j].step
  BY <1>1, <1>2, <1>3, FineTwice DEF Coupling
<1>6. p[2] \in Levels /\ dist[r][p[2]].stage = "swapped"
  <2>1. p[2] \in Levels /\ p[2] \in straightStartLevel[r] .. MaxLevel
    BY <1>2, <1>3, LevelFacts DEF Levels
  <2> QED
    BY <2>1 DEF PlaceOK, HasSwapped, Coupling
<1>7. dist[r][p[2]].step = Number(p, coupled[r][j] + 1)
  BY <1>2, <1>4, <1>5 DEF Number
<1>8. dist[r][p[2]] \in Version
  BY <1>1, <1>6 DEF TypeOK
<1> QED
  BY <1>6, <1>7, <1>8 DEF Version, CouplingAt

\* A rank that neither sends nor receives interface values keeps the counts of
\* its pools.
LEMMA GivenKept ==
  ASSUME MinLevel = 0, Ground, Coupled, NEW r \in Ranks, PlaceOK(r),
         \/ SizeSend(r) \/ SizeReceive(r) \/ InterSizeSend(r) \/ InterSizeReceive(r)
         \/ Select(r) \/ Threshold(r)
         \/ PreCollisionBC(r) \/ Calculate(r) \/ PostCollisionBC(r) \/ SwapDistributions(r)
         \/ SendLocal(r) \/ PrepareRemote(r) \/ SendBegin(r) \/ SendsDone(r) \/ ReceiveRemote(r)
         \/ InterPrepare(r) \/ InterSendsDone(r) \/ InterReceiveLocal(r) \/ InterReceiveRemote(r)
         \/ EndSubstep(r) \/ Notify(r) \/ Throw(r),
         NEW p \in InterPools, Source(p) = r
  PROVE  Given(p)' = Given(p)
<1> DEFINE j == InterfaceOf(p)
<1>1. TypeOK /\ ControlAt(r) /\ MaxInitLevel = MaxLevel
  BY LevelFacts DEF Ground, ControlOK, MaxInitLevel
<1>2. /\ j \in Interfaces /\ j \in Int /\ j =< MaxLevel - 1 /\ MaxLevel \in Int
      /\ lvl[r] \in Int /\ straightStartLevel[r] \in Int
  BY <1>1, InterPool, LevelFacts DEF Interfaces, TypeOK, Levels
<1> HIDE DEF j
<1>3. CASE InterReceiveRemote(r)
  <2>1. /\ pc[r] = "interReceiveRemote"
        /\ \/ pc'[r] = "interReceiveLocal" /\ lvl'[r] = lvl[r] + 1
           \/ pc'[r] = "endSubstep" /\ lvl[r] >= MaxLevel - 1
    BY <1>1, <1>2, <1>3 DEF InterReceiveRemote, TypeOK, Goto
  <2>2. HasGiven(p) <=> lvl[r] =< j
    BY <2>1 DEF HasGiven, WhileReceiving, j
  <2>3. HasGiven(p)' <=> lvl[r] + 1 =< j
    BY <1>2, <2>1 DEF HasGiven, WhileReceiving, j
  <2>4. /\ coupled[r][j] \in Nat
        /\ coupled'[r][j] = IF j = lvl[r] THEN dist[r][j].step ELSE coupled[r][j]
    BY <1>1, <1>2, <1>3 DEF InterReceiveRemote, TypeOK
  <2>5. lvl[r] =< j => dist[r][j].step = coupled[r][j] + 1
    BY <1>2, <2>1 DEF Coupled, Couples, Pending, WhileReceiving
  <2> QED
    BY <1>2, <2>2, <2>3, <2>4, <2>5 DEF Given, j
<1>4. CASE ~InterReceiveRemote(r)
  <2>1. UNCHANGED coupled
    BY <1>4 DEF SizeSend, SizeReceive, InterSizeSend, InterSizeReceive, Select, Threshold,
       PreCollisionBC, Calculate, PostCollisionBC, SwapDistributions, SendLocal, PrepareRemote,
       SendBegin, SendsDone, ReceiveRemote, InterPrepare, InterSendsDone, InterReceiveLocal,
       EndSubstep, Notify, Throw, data
  <2>2. HasGiven(p)' <=> HasGiven(p)
    <3> USE <1>1, <1>2 DEF TypeOK, Goto, EnterLevelLoop, control, HasGiven, WhileReceiving
    <3>1. CASE SizeSend(r) \/ SizeReceive(r) \/ InterSizeSend(r) \/ InterSizeReceive(r)
      BY <3>1 DEF SizeSend, SizeReceive, InterSizeSend, InterSizeReceive
    <3>2. CASE Select(r) \/ Threshold(r)
      BY <3>2 DEF Select, Threshold
    <3>3. CASE PreCollisionBC(r) \/ Calculate(r) \/ PostCollisionBC(r) \/ SwapDistributions(r)
      BY <3>3 DEF PreCollisionBC, Calculate, PostCollisionBC, SwapDistributions
    <3>4. CASE SendLocal(r) \/ PrepareRemote(r) \/ SendsDone(r)
      BY <3>4 DEF SendLocal, PrepareRemote, SendsDone
    <3>5. CASE SendBegin(r)
      BY <3>5 DEF SendBegin
    <3>6. CASE ReceiveRemote(r)
      BY <3>6 DEF ReceiveRemote
    <3>7. CASE InterPrepare(r)
      BY <3>7 DEF InterPrepare, j
    <3>8. CASE InterSendsDone(r)
      <4>1. unsent[r] = {} /\ pc[r] = "interSendRemote"
            /\ UNCHANGED <<unsent, straightStartLevel>>
            /\ \/ lvl[r] < MaxLevel - 1 /\ lvl'[r] = lvl[r] + 1 /\ pc'[r] = "interSendLocal"
               \/ lvl[r] >= MaxLevel - 1 /\ lvl'[r] = straightStartLevel[r] /\ pc'[r] = "interReceiveLocal"
        BY <3>8 DEF InterSendsDone
      <4>2. HasGiven(p) <=> straightStartLevel[r] =< j /\ j =< lvl[r]
        BY <4>1 DEF j
      <4>3. HasGiven(p)' <=> straightStartLevel[r] =< j /\ (lvl[r] < MaxLevel - 1 => j =< lvl[r])
        BY <4>1 DEF j
      <4> QED
        BY <4>2, <4>3
    <3>9. CASE InterReceiveLocal(r)
      BY <3>9 DEF InterReceiveLocal, j
    <3>10. CASE EndSubstep(r) \/ Notify(r) \/ Throw(r)
      BY <3>10 DEF EndSubstep, Notify, Throw
    <3> QED
      BY <1>4, <3>1, <3>2, <3>3, <3>4, <3>5, <3>6, <3>7, <3>8, <3>9, <3>10
  <2> QED
    BY <2>1, <2>2 DEF Given
<1> QED
  BY <1>3, <1>4

\* What is counted are numbers.
LEMMA CountsType ==
  ASSUME TypeOK, NEW p \in InterPools
  PROVE  /\ coupled[Source(p)][InterfaceOf(p)] \in Nat /\ coupled[Target(p)][InterfaceOf(p)] \in Nat
         /\ Given(p) \in Nat /\ Taken(p) \in Nat /\ Told(p) \in Nat /\ Heard(p) \in Nat
         /\ Offered(p) \in Nat /\ Accepted(p) \in Nat
         /\ net[p] \in Seq(Message) /\ iface[p] \in Message
<1>1. /\ Source(p) \in Ranks /\ Target(p) \in Ranks /\ InterfaceOf(p) \in Interfaces /\ p \in Pools
  BY InterPool
<1>2. coupled[Source(p)][InterfaceOf(p)] \in Nat /\ coupled[Target(p)][InterfaceOf(p)] \in Nat
      /\ net[p] \in Seq(Message) /\ iface[p] \in Message
  BY <1>1 DEF TypeOK
<1>3. Told(p) \in Nat /\ Heard(p) \in Nat /\ Given(p) \in Nat /\ Taken(p) \in Nat
  BY <1>2 DEF Told, Heard, Given, Taken
<1> QED
  BY <1>2, <1>3 DEF Offered, Accepted

\* A rank sends nothing into a pool of its interfaces, or the values of the
\* coupling it is at.
LEMMA GivenSend ==
  ASSUME MinLevel = 0, Ground, NEW r \in Ranks, PlaceOK(r), InterSendLocal(r) \/ SendReturn(r),
         NEW p \in InterPools, Source(p) = r
  PROVE  \/ net'[p] = net[p] /\ Given(p)' = Given(p)
         \/ /\ InterfaceOf(p) = lvl[r] /\ pc[r] \in {"interSendLocal", "interSendRemote"}
            /\ Given(p) = coupled[r][lvl[r]] /\ Given(p)' = Given(p) + 1
            /\ net'[p] = Put(p, dist[r][p[2]])
<1> DEFINE j == InterfaceOf(p)
<1>1. TypeOK /\ ControlAt(r) /\ MaxInitLevel = MaxLevel
  BY LevelFacts DEF Ground, ControlOK, MaxInitLevel
<1>2. /\ j \in Interfaces /\ j \in Int /\ p \in Pools /\ p \notin SamePools
      /\ lvl[r] \in Int /\ straightStartLevel[r] \in Int /\ coupled[r][j] \in Nat
  BY SMTT(30), <1>1, InterPool, LevelFacts DEF Interfaces, TypeOK, Levels
<1>3. UNCHANGED <<coupled, lvl, straightStartLevel>>
  BY DEF InterSendLocal, SendReturn, data, control
<1> HIDE DEF j
<1>4. CASE InterSendLocal(r)
  <2>1. /\ pc[r] = "interSendLocal" /\ pc'[r] = "interSendRemote" /\ straightStartLevel[r] =< lvl[r]
        /\ unsent'[r] = RemoteInterOut(r, lvl[r])
    BY <1>1, <1>2, <1>4, LevelFacts DEF InterSendLocal, TypeOK, Goto, ControlAt, Coupling
  <2>2. HasGiven(p) <=> straightStartLevel[r] =< j /\ j < lvl[r]
    BY <2>1 DEF HasGiven, WhileReceiving, j
  <2>3. HasGiven(p)' <=> /\ straightStartLevel[r] =< j
                         /\ j < lvl[r] \/ (j = lvl[r] /\ p \notin RemoteInterOut(r, lvl[r]))
    BY <1>3, <2>1 DEF HasGiven, WhileReceiving, j
  <2>4. CASE j = lvl[r] /\ ~SentByRemote(p)
    <3>1. p \in LocalInterOut(r, lvl[r]) /\ p \notin RemoteInterOut(r, lvl[r]) /\ IsLocal(p)
      BY <2>4 DEF LocalInterOut, RemoteInterOut, InterOut, SentByRemote, j
    <3>2. net'[p] = Put(p, dist[r][p[2]])
      BY <1>2, <1>4, <3>1 DEF InterSendLocal, Put
    <3>3. ~HasGiven(p) /\ HasGiven(p)'
      BY <1>2, <2>1, <2>2, <2>3, <2>4, <3>1
    <3> QED
      BY <1>2, <1>3, <2>1, <2>4, <3>2, <3>3 DEF Given, j
  <2>5. CASE ~(j = lvl[r] /\ ~SentByRemote(p))
    <3>1. p \notin LocalInterOut(r, lvl[r]) /\ (j = lvl[r] => p \in RemoteInterOut(r, lvl[r]))
      BY <2>5 DEF LocalInterOut, RemoteInterOut, InterOut, j
    <3>2. net'[p] = net[p]
      BY <1>2, <1>4, <3>1 DEF InterSendLocal
    <3>3. HasGiven(p)' <=> HasGiven(p)
      BY <2>2, <2>3, <3>1
    <3> QED
      BY <1>3, <3>2, <3>3 DEF Given
  <2> QED
    BY <2>4, <2>5
<1>5. CASE SendReturn(r) /\ sending[r] = p
  <2>1. pc[r] = "interSendRemote" /\ p \in RemoteInterOut(r, lvl[r]) /\ p \in unsent[r]
    <3>1. sending[r] # None /\ pc[r] \in {"sendRemote", "interSendRemote"}
      BY <1>5 DEF SendReturn
    <3>2. p \in unsent[r]
      BY <1>5, <3>1 DEF PlaceOK
    <3> QED
      BY <1>2, <3>1, <3>2 DEF PlaceOK, SameOut
  <2>2. j = lvl[r] /\ straightStartLevel[r] =< lvl[r]
    BY <1>1, <1>2, <2>1, LevelFacts DEF RemoteInterOut, InterOut, ControlAt, Coupling, j
  <2>3. pc'[r] = "interSendRemote" /\ p \notin unsent'[r] /\ net'[p] = Put(p, dist[r][p[2]])
    BY <1>1, <1>2, <1>5, <2>1 DEF SendReturn, TypeOK
  <2>4. ~HasGiven(p)
    BY <1>2, <2>1, <2>2 DEF HasGiven, WhileReceiving, j
  <2>5. HasGiven(p)'
    BY <1>3, <2>2, <2>3 DEF HasGiven, j
  <2> QED
    BY <1>2, <1>3, <2>1, <2>2, <2>3, <2>4, <2>5 DEF Given, j
<1>6. CASE SendReturn(r) /\ sending[r] # p
  <2>1. net'[p] = net[p] /\ UNCHANGED pc /\ (p \in unsent'[r] <=> p \in unsent[r])
    BY <1>1, <1>2, <1>6 DEF SendReturn, TypeOK
  <2>2. HasGiven(p)' <=> HasGiven(p)
    BY <1>3, <2>1 DEF HasGiven
  <2> QED
    BY <1>3, <2>1, <2>2 DEF Given
<1> QED
  BY <1>4, <1>5, <1>6

\* Only the steps of the interpolation, the handshake and MPI_Send touch an
\* interpolation pool.
LEMMA InterPoolsRest ==
  ASSUME NEW r \in Ranks,
         \/ SizeSend(r) \/ SizeReceive(r) \/ Select(r) \/ Threshold(r)
         \/ PreCollisionBC(r) \/ Calculate(r) \/ PostCollisionBC(r) \/ SwapDistributions(r)
         \/ SendLocal(r) \/ PrepareRemote(r) \/ SendBegin(r) \/ SendsDone(r) \/ ReceiveRemote(r)
         \/ InterPrepare(r) \/ InterSendsDone(r) \/ InterReceiveLocal(r)
         \/ EndSubstep(r) \/ Notify(r) \/ Throw(r),
         NEW p \in InterPools
  PROVE  net'[p] = net[p]
<1>1. p \in Pools /\ p \notin SamePools
  BY InterPool
<1> QED
  BY <1>1 DEF SizeSend, SizeReceive, Select, Threshold, PreCollisionBC, Calculate, PostCollisionBC,
     SwapDistributions, SendLocal, PrepareRemote, SendBegin, SendsDone, ReceiveRemote, InterPrepare,
     InterSendsDone, InterReceiveLocal, EndSubstep, Notify, Throw, mpi, SendOrders, ReceiveOrders,
     Consume, SameOut, SameIn

\* The handshake of the interpolation pools is made once.
LEMMA ToldAndHeard ==
  ASSUME Ground, NEW r \in Ranks, PlaceOK(r), Step(r) \/ Throw(r), NEW p \in InterPools
  PROVE  /\ Source(p) = r => IF InterSizeSend(r) THEN Told(p) = 0 /\ Told(p)' = 1
                                                 ELSE Told(p)' = Told(p)
         /\ Target(p) = r => IF InterSizeReceive(r) THEN Heard(p) = 0 /\ Heard(p)' = 1
                                                    ELSE Heard(p)' = Heard(p)
<1> DEFINE Early(a) == a \in {"sizeSend", "sizeReceive", "interSizeSend"}
<1>1. TypeOK
  BY DEF Ground
<1>2. IF InterSizeSend(r) THEN Early(pc[r]) /\ ~Early(pc'[r]) ELSE Early(pc'[r]) <=> Early(pc[r])
  <2> USE <1>1 DEF TypeOK, Goto, EnterLevelLoop, control
  <2>1. CASE InterSizeSend(r)
    BY <2>1 DEF InterSizeSend
  <2>2. CASE SizeSend(r) \/ SizeReceive(r) \/ InterSizeReceive(r)
    BY <2>2 DEF SizeSend, SizeReceive, InterSizeReceive, InterSizeSend
  <2>3. CASE Select(r) \/ Threshold(r)
    BY <2>3 DEF Select, Threshold, InterSizeSend
  <2>4. CASE PreCollisionBC(r) \/ Calculate(r) \/ PostCollisionBC(r) \/ SwapDistributions(r)
    BY <2>4 DEF PreCollisionBC, Calculate, PostCollisionBC, SwapDistributions, InterSizeSend
  <2>5. CASE SendLocal(r) \/ PrepareRemote(r) \/ SendBegin(r) \/ SendReturn(r) \/ SendsDone(r)
    BY <2>5 DEF SendLocal, PrepareRemote, SendBegin, SendReturn, SendsDone, InterSizeSend
  <2>6. CASE ReceiveRemote(r)
    BY <2>6 DEF ReceiveRemote, InterSizeSend
  <2>7. CASE InterPrepare(r) \/ InterSendLocal(r) \/ InterSendsDone(r)
    BY <2>7 DEF InterPrepare, InterSendLocal, InterSendsDone, InterSizeSend
  <2>8. CASE InterReceiveLocal(r) \/ InterReceiveRemote(r)
    BY <2>8 DEF InterReceiveLocal, InterReceiveRemote, InterSizeSend
  <2>9. CASE EndSubstep(r) \/ Notify(r) \/ Throw(r)
    BY <2>9 DEF EndSubstep, Notify, Throw, InterSizeSend
  <2> QED
    BY <2>1, <2>2, <2>3, <2>4, <2>5, <2>6, <2>7, <2>8, <2>9 DEF Step
<1>3. IF InterSizeReceive(r) THEN pc[r] \in Handshake /\ pc'[r] \notin Handshake
                             ELSE pc'[r] \in Handshake <=> pc[r] \in Handshake
  <2> USE <1>1 DEF TypeOK, Goto, EnterLevelLoop, control, Handshake
  <2>1. CASE InterSizeReceive(r)
    BY <2>1 DEF InterSizeReceive
  <2>2. CASE SizeSend(r) \/ SizeReceive(r) \/ InterSizeSend(r)
    BY <2>2 DEF SizeSend, SizeReceive, InterSizeReceive, InterSizeSend
  <2>3. CASE Select(r) \/ Threshold(r)
    BY <2>3 DEF Select, Threshold, InterSizeReceive
  <2>4. CASE PreCollisionBC(r) \/ Calculate(r) \/ PostCollisionBC(r) \/ SwapDistributions(r)
    BY <2>4 DEF PreCollisionBC, Calculate, PostCollisionBC, SwapDistributions, InterSizeReceive
  <2>5. CASE SendLocal(r) \/ PrepareRemote(r) \/ SendBegin(r) \/ SendReturn(r) \/ SendsDone(r)
    BY <2>5 DEF SendLocal, PrepareRemote, SendBegin, SendReturn, SendsDone, InterSizeReceive
  <2>6. CASE ReceiveRemote(r)
    BY <2>6 DEF ReceiveRemote, InterSizeReceive
  <2>7. CASE InterPrepare(r) \/ InterSendLocal(r) \/ InterSendsDone(r)
    BY <2>7 DEF InterPrepare, InterSendLocal, InterSendsDone, InterSizeReceive
  <2>8. CASE InterReceiveLocal(r) \/ InterReceiveRemote(r)
    BY <2>8 DEF InterReceiveLocal, InterReceiveRemote, InterSizeReceive
  <2>9. CASE EndSubstep(r) \/ Notify(r) \/ Throw(r)
    BY <2>9 DEF EndSubstep, Notify, Throw, InterSizeReceive
  <2> QED
    BY <2>1, <2>2, <2>3, <2>4, <2>5, <2>6, <2>7, <2>8, <2>9 DEF Step
<1> QED
  BY <1>2, <1>3 DEF Told, Heard

\* What a rank does to an interpolation pool it sends to another rank:
\* nothing, or it appends the next coupling.
LEMMA CouplingSent ==
  ASSUME MinLevel = 0, Ground, Coupled, NEW r \in Ranks, PlaceOK(r), Step(r) \/ Throw(r),
         NEW p \in InterPools, ~IsLocal(p), Source(p) = r
  PROVE  \/ net'[p] = net[p] /\ Offered(p)' = Offered(p)
         \/ \E m \in Message : /\ IsCoupling(m, p, Offered(p)) /\ Offered(p)' = Offered(p) + 1
                               /\ net'[p] = Append(net[p], m)
<1>1. /\ TypeOK /\ p \in Pools /\ p \notin SamePools /\ Target(p) \in Ranks /\ Target(p) # r
      /\ InterfaceOf(p) \in Interfaces /\ InterfaceOf(p) \in Levels
  BY InterPool DEF Ground, IsLocal, Source, Target
<1>2. Given(p) \in Nat /\ Told(p) \in Nat
  BY <1>1, CountsType
<1>3. IF InterSizeSend(r) THEN Told(p) = 0 /\ Told(p)' = 1 ELSE Told(p)' = Told(p)
  BY ToldAndHeard
<1>4. CASE InterSizeSend(r)
  <2>1. net'[p] = Append(net[p], Order)
    BY <1>1, <1>4 DEF InterSizeSend, SendOrders
  <2>2. Given(p)' = Given(p)
    BY <1>4, GivenKept
  <2>3. Given(p) = 0
    <3>1. pc[r] = "interSizeSend" /\ pc[r] \in Handshake
      BY <1>4 DEF InterSizeSend, Handshake
    <3>2. dist[r][InterfaceOf(p)].step = 0
      BY <1>1, <3>1, HandshakeStep
    <3>3. ~Pending(r, InterfaceOf(p))
      BY <3>1 DEF Pending, BeforeReceive, WhileReceiving, Exchange
    <3>4. coupled[r][InterfaceOf(p)] = 0
      BY <1>1, <3>2, <3>3 DEF Coupled, Couples, CoupledType
    <3>5. ~HasGiven(p)
      BY <3>1 DEF HasGiven, WhileReceiving
    <3> QED
      BY <3>4, <3>5 DEF Given
  <2>4. Offered(p) = 0 /\ Offered(p)' = 1
    BY <1>3, <1>4, <2>2, <2>3 DEF Offered
  <2>5. Order \in Message /\ IsCoupling(Order, p, 0)
    BY DEF Order, Message, IsCoupling, Number
  <2> QED
    BY <2>1, <2>4, <2>5
<1>5. CASE InterSendLocal(r) \/ SendReturn(r)
  <2>1. Told(p)' = Told(p)
    <3>1. ~InterSizeSend(r)
      BY <1>5 DEF InterSendLocal, SendReturn, InterSizeSend
    <3> QED
      BY <1>3, <3>1
  <2>2. CASE net'[p] = net[p] /\ Given(p)' = Given(p)
    BY <2>1, <2>2 DEF Offered
  <2>3. CASE /\ InterfaceOf(p) = lvl[r] /\ pc[r] \in {"interSendLocal", "interSendRemote"}
             /\ Given(p) = coupled[r][lvl[r]] /\ Given(p)' = Given(p) + 1
             /\ net'[p] = Put(p, dist[r][p[2]])
    <3>1. Told(p) = 1
      BY <2>3 DEF Told
    <3>2. Offered(p) = Given(p) + 1 /\ Offered(p)' = Offered(p) + 1
      BY <1>2, <2>1, <2>3, <3>1 DEF Offered
    <3>3. dist[r][p[2]] = CouplingAt(p, Given(p) + 1)
      BY <2>3, CoupledValue
    <3>4. IsCoupling(dist[r][p[2]], p, Offered(p))
      BY <3>2, <3>3 DEF IsCoupling, CouplingAt
    <3>5. dist[r][p[2]] \in Message
      <4>1. p[2] \in Levels
        BY InterPool, InterfacesAreLevels
      <4> QED
        BY <1>1, <4>1 DEF TypeOK, Message
    <3>6. net'[p] = Append(net[p], dist[r][p[2]])
      BY <2>3 DEF Put
    <3> QED
      BY <3>2, <3>4, <3>5, <3>6
  <2> QED
    BY <1>5, <2>2, <2>3, GivenSend
<1>6. CASE InterSizeReceive(r) \/ InterReceiveRemote(r)
  <2>1. net'[p] = net[p]
    BY <1>1, <1>6 DEF InterSizeReceive, InterReceiveRemote, ReceiveOrders, Consume, RemoteInterIn, InterIn
  <2>2. Given(p)' = Given(p)
    BY <1>6, GivenKept
  <2>3. ~InterSizeSend(r)
    BY <1>6 DEF InterSizeReceive, InterReceiveRemote, InterSizeSend
  <2> QED
    BY <1>3, <2>1, <2>2, <2>3 DEF Offered
<1>7. CASE ~(InterSizeSend(r) \/ InterSendLocal(r) \/ SendReturn(r) \/ InterSizeReceive(r) \/ InterReceiveRemote(r))
  <2>1. net'[p] = net[p]
    BY <1>7, InterPoolsRest DEF Step
  <2>2. Given(p)' = Given(p)
    BY <1>7, GivenKept DEF Step
  <2> QED
    BY <1>3, <1>7, <2>1, <2>2 DEF Offered
<1> QED
  BY <1>4, <1>5, <1>6, <1>7

\* A rank that distributes no interface values keeps those of its pools.
LEMMA TakenKept ==
  ASSUME Ground, NEW r \in Ranks, Step(r) \/ Throw(r), ~InterReceiveLocal(r), ~InterReceiveRemote(r),
         NEW p \in InterPools, Target(p) = r
  PROVE  Taken(p)' = Taken(p) /\ iface'[p] = iface[p]
<1>1. TypeOK
  BY DEF Ground
<1>2. UNCHANGED <<coupled, iface>>
  BY DEF Step, SizeSend, SizeReceive, InterSizeSend, InterSizeReceive, Select, Threshold,
     PreCollisionBC, Calculate, PostCollisionBC, SwapDistributions, SendLocal, PrepareRemote,
     SendBegin, SendReturn, SendsDone, ReceiveRemote, InterPrepare, InterSendLocal, InterSendsDone,
     EndSubstep, Notify, Throw, data
<1>3. pc[r] # "interReceiveRemote" /\ pc'[r] # "interReceiveRemote"
  <2> USE <1>1 DEF TypeOK, Goto, EnterLevelLoop, control
  <2>1. CASE SizeSend(r) \/ SizeReceive(r) \/ InterSizeSend(r) \/ InterSizeReceive(r)
    BY <2>1 DEF SizeSend, SizeReceive, InterSizeSend, InterSizeReceive
  <2>2. CASE Select(r) \/ Threshold(r)
    BY <2>2 DEF Select, Threshold
  <2>3. CASE PreCollisionBC(r) \/ Calculate(r) \/ PostCollisionBC(r) \/ SwapDistributions(r)
    BY <2>3 DEF PreCollisionBC, Calculate, PostCollisionBC, SwapDistributions
  <2>4. CASE SendLocal(r) \/ PrepareRemote(r) \/ SendBegin(r) \/ SendReturn(r) \/ SendsDone(r)
    BY <2>4 DEF SendLocal, PrepareRemote, SendBegin, SendReturn, SendsDone
  <2>5. CASE ReceiveRemote(r)
    BY <2>5 DEF ReceiveRemote
  <2>6. CASE InterPrepare(r) \/ InterSendLocal(r) \/ InterSendsDone(r)
    BY <2>6 DEF InterPrepare, InterSendLocal, InterSendsDone
  <2>7. CASE EndSubstep(r) \/ Notify(r) \/ Throw(r)
    BY <2>7 DEF EndSubstep, Notify, Throw
  <2> QED
    BY <2>1, <2>2, <2>3, <2>4, <2>5, <2>6, <2>7 DEF Step
<1> QED
  BY <1>2, <1>3 DEF Taken, HasTaken

\* connectorsReceiveLocal of an interface.
LEMMA TakenLocal ==
  ASSUME Ground, NEW r \in Ranks, InterReceiveLocal(r), NEW p \in InterPools, Target(p) = r
  PROVE  IF p \in LocalInterIn(r, lvl[r])
           THEN /\ Taken(p) = coupled[r][lvl[r]] /\ Taken(p)' = Taken(p) + 1
                /\ iface'[p] = Head(net[p])
           ELSE Taken(p)' = Taken(p) /\ iface'[p] = iface[p]
<1>1. TypeOK /\ InterfaceOf(p) \in Interfaces
  BY InterPool DEF Ground
<1>2. /\ pc[r] = "interReceiveLocal" /\ pc'[r] = "interReceiveRemote"
      /\ UNCHANGED <<lvl, coupled>>
      /\ iface'[p] = IF p \in LocalInterIn(r, lvl[r]) THEN Head(net[p]) ELSE iface[p]
  BY <1>1 DEF InterReceiveLocal, TypeOK, Goto
<1>3. p \in LocalInterIn(r, lvl[r]) <=> ~ReceivedByRemote(p) /\ InterfaceOf(p) = lvl[r]
  BY DEF LocalInterIn, InterIn
<1>4. ~HasTaken(p) /\ (HasTaken(p)' <=> p \in LocalInterIn(r, lvl[r]))
  BY <1>2, <1>3 DEF HasTaken
<1>5. coupled[r][InterfaceOf(p)] \in Nat
  BY <1>1 DEF TypeOK
<1> QED
  BY <1>2, <1>3, <1>4, <1>5 DEF Taken

\* connectorsReceiveRemote of an interface, after which it is coupled.
LEMMA TakenRemote ==
  ASSUME MinLevel = 0, Ground, Coupled, NEW r \in Ranks, InterReceiveRemote(r),
         NEW p \in InterPools, Target(p) = r
  PROVE  IF p \in RemoteInterIn(r, lvl[r])
           THEN Taken(p) = coupled[r][lvl[r]] /\ Taken(p)' = Taken(p) + 1
           ELSE Taken(p)' = Taken(p)
<1> DEFINE j == InterfaceOf(p)
<1>1. TypeOK /\ j \in Interfaces /\ j \in Int /\ lvl[r] \in Int
  <2>1. TypeOK /\ j \in Interfaces
    BY InterPool DEF Ground
  <2>2. lvl[r] \in Levels
    BY <2>1 DEF TypeOK
  <2> QED
    BY <2>1, <2>2, LevelFacts DEF Interfaces, Levels
<1>2. /\ pc[r] = "interReceiveRemote" /\ pc'[r] # "interReceiveRemote"
      /\ coupled'[r][j] = IF j = lvl[r] THEN dist[r][j].step ELSE coupled[r][j]
      /\ coupled[r][j] \in Nat
  BY <1>1 DEF InterReceiveRemote, TypeOK, Goto
<1>3. j = lvl[r] => dist[r][j].step = coupled[r][j] + 1
  BY <1>1, <1>2 DEF Coupled, Couples, Pending, WhileReceiving
<1>4. p \in RemoteInterIn(r, lvl[r]) <=> ReceivedByRemote(p) /\ j = lvl[r]
  BY DEF RemoteInterIn, InterIn
<1>5. ~HasTaken(p)' /\ (HasTaken(p) <=> ~ReceivedByRemote(p) /\ j = lvl[r])
  BY <1>2 DEF HasTaken
<1> HIDE DEF j
<1>6. /\ Taken(p) = coupled[r][j] + (IF HasTaken(p) THEN 1 ELSE 0)
      /\ Taken(p)' = coupled'[r][j] + (IF HasTaken(p)' THEN 1 ELSE 0)
  BY DEF Taken, j
<1> QED
  BY <1>2, <1>3, <1>4, <1>5, <1>6

\* What a rank does to an interpolation pool it receives from another rank:
\* it takes the couplings one by one.
LEMMA CouplingReceived ==
  ASSUME MinLevel = 0, Ground, Coupled, Requests, NEW r \in Ranks, PlaceOK(r), Step(r) \/ Throw(r),
         NEW p \in InterPools, ~IsLocal(p), Target(p) = r,
         NEW b \in Nat, Numbered(net[p], p, Accepted(p), b), iface[p] = CouplingAt(p, Taken(p))
  PROVE  Numbered(net'[p], p, Accepted(p)', b) /\ iface'[p] = CouplingAt(p, Taken(p)')
<1>1. /\ TypeOK /\ p \in Pools /\ p \notin SamePools /\ Source(p) \in Ranks /\ Source(p) # r
      /\ InterfaceOf(p) \in Interfaces
  BY InterPool DEF Ground, IsLocal, Source, Target
<1>2. /\ Taken(p) \in Nat /\ Heard(p) \in Nat /\ Accepted(p) \in Nat
      /\ net[p] \in Seq(Message) /\ Accepted(p) = Heard(p) + Taken(p)
  BY <1>1, CountsType DEF Accepted
<1>3. IF InterSizeReceive(r) THEN Heard(p) = 0 /\ Heard(p)' = 1 ELSE Heard(p)' = Heard(p)
  BY ToldAndHeard
<1>4. CASE InterSizeReceive(r)
  <2>1. net[p] # <<>> /\ net'[p] = Tail(net[p])
    BY <1>1, <1>4 DEF InterSizeReceive, ReceiveOrders
  <2>2. Taken(p)' = Taken(p) /\ iface'[p] = iface[p]
    <3>1. ~InterReceiveLocal(r) /\ ~InterReceiveRemote(r)
      BY <1>4 DEF InterSizeReceive, InterReceiveLocal, InterReceiveRemote
    <3> QED
      BY <3>1, TakenKept
  <2>3. Accepted(p)' = Accepted(p) + 1
    BY <1>2, <1>3, <1>4, <2>2 DEF Accepted
  <2> QED
    BY <1>2, <2>1, <2>2, <2>3, NumberedReceive
<1>5. CASE InterReceiveRemote(r)
  <2>1. Heard(p)' = Heard(p) /\ Heard(p) = 1
    <3>1. ~InterSizeReceive(r) /\ pc[r] \notin Handshake
      BY <1>5 DEF InterReceiveRemote, InterSizeReceive, Handshake
    <3> QED
      BY <1>3, <3>1 DEF Heard
  <2>2. p \in RemoteInterIn(r, lvl[r]) <=> InterfaceOf(p) = lvl[r]
    BY DEF RemoteInterIn, InterIn, ReceivedByRemote
  <2>3. CASE InterfaceOf(p) # lvl[r]
    <3>1. net'[p] = net[p] /\ iface'[p] = iface[p]
      BY <1>1, <1>5, <2>2, <2>3 DEF InterReceiveRemote, Consume
    <3>2. Taken(p)' = Taken(p)
      BY <1>5, <2>2, <2>3, TakenRemote
    <3> QED
      BY <2>1, <3>1, <3>2 DEF Accepted
  <2>4. CASE InterfaceOf(p) = lvl[r]
    <3>1. p \in posted
      <4>1. pc[r] = "interReceiveRemote" /\ lvl[r] \in Int
        BY <1>1, <1>5, LevelFacts DEF InterReceiveRemote, TypeOK, Levels
      <4> QED
        BY <2>4, <4>1 DEF Requests, AwaitsCoupling, WhileReceiving
    <3>2. Delivered(p)
      BY <1>5, <2>2, <2>4, <3>1 DEF InterReceiveRemote, Arrived
    <3>3. net[p] # <<>> /\ net'[p] = Tail(net[p]) /\ iface'[p] = Head(net[p])
      BY <1>1, <1>5, <2>2, <2>4, <3>2 DEF InterReceiveRemote, Consume, Delivered
    <3>4. Taken(p)' = Taken(p) + 1
      BY <1>5, <2>2, <2>4, TakenRemote
    <3>5. Accepted(p) = Taken(p)' /\ Accepted(p)' = Accepted(p) + 1
      BY <1>2, <2>1, <3>4 DEF Accepted
    <3>6. IsCoupling(Head(net[p]), p, Accepted(p)) /\ Numbered(Tail(net[p]), p, Accepted(p) + 1, b)
      BY <1>2, <3>3, NumberedReceive
    <3>7. Head(net[p]) = CouplingAt(p, Accepted(p))
      <4>1. Head(net[p]) \in Message
        BY <1>2, <3>3
      <4>2. /\ Head(net[p]).step = Number(p, Accepted(p))
            /\ Head(net[p]).stage = "swapped"
        BY <1>2, <3>4, <3>5, <3>6 DEF IsCoupling
      <4>3. Head(net[p]) \in Version
        BY <4>1, <4>2 DEF Message, Order
      <4> QED
        BY <4>2, <4>3 DEF Version, CouplingAt
    <3> QED
      BY <3>3, <3>5, <3>6, <3>7
  <2> QED
    BY <2>3, <2>4
<1>6. CASE InterReceiveLocal(r)
  <2>1. net'[p] = net[p]
    BY <1>6, InterPoolsRest
  <2>2. p \notin LocalInterIn(r, lvl[r]) /\ ~InterSizeReceive(r)
    BY <1>6 DEF LocalInterIn, ReceivedByRemote, InterReceiveLocal, InterSizeReceive
  <2>3. Taken(p)' = Taken(p) /\ iface'[p] = iface[p]
    BY <1>6, <2>2, TakenLocal
  <2> QED
    BY <1>3, <2>1, <2>2, <2>3 DEF Accepted
<1>7. CASE ~(InterSizeReceive(r) \/ InterReceiveRemote(r) \/ InterReceiveLocal(r))
  <2>1. net'[p] = net[p]
    <3>1. CASE InterSizeSend(r)
      BY <1>1, <3>1 DEF InterSizeSend, SendOrders
    <3>2. CASE InterSendLocal(r)
      BY <1>1, <3>2 DEF InterSendLocal, LocalInterOut, InterOut
    <3>3. CASE SendReturn(r)
      <4>1. sending[r] # p
        BY <1>1, <3>3 DEF SendReturn, PlaceOK, SameOut, RemoteInterOut, InterOut
      <4> QED
        BY <1>1, <3>3, <4>1 DEF SendReturn, TypeOK
    <3> QED
      BY <1>7, <3>1, <3>2, <3>3, InterPoolsRest DEF Step
  <2>2. Taken(p)' = Taken(p) /\ iface'[p] = iface[p]
    BY <1>7, TakenKept
  <2> QED
    BY <1>3, <1>7, <2>1, <2>2 DEF Accepted
<1> QED
  BY <1>4, <1>5, <1>6, <1>7

\* What a rank does to a buffer it shares with itself: it fills it before it
\* reads it, so a coupling distributes the values of that coupling.
LEMMA CouplingShared ==
  ASSUME MinLevel = 0, Ground, Coupled, NEW r \in Ranks, PlaceOK(r), Step(r) \/ Throw(r),
         NEW p \in InterPools, Source(p) = r, Target(p) = r,
         net[p] = <<CouplingAt(p, Given(p))>>, iface[p] = CouplingAt(p, Taken(p))
  PROVE  net'[p] = <<CouplingAt(p, Given(p)')>> /\ iface'[p] = CouplingAt(p, Taken(p)')
<1>1. TypeOK /\ ControlAt(r) /\ IsLocal(p) /\ p \in Pools /\ InterfaceOf(p) \in Interfaces
  BY InterPool DEF Ground, ControlOK, IsLocal, Source, Target
<1>2. coupled[r][InterfaceOf(p)] \in Nat /\ Head(net[p]) = CouplingAt(p, Given(p))
  BY <1>1 DEF TypeOK
<1>3. CASE InterSendLocal(r) \/ SendReturn(r)
  <2>1. Taken(p)' = Taken(p) /\ iface'[p] = iface[p]
    <3>1. ~InterReceiveLocal(r) /\ ~InterReceiveRemote(r)
      BY <1>3 DEF InterSendLocal, SendReturn, InterReceiveLocal, InterReceiveRemote
    <3> QED
      BY <3>1, TakenKept
  <2>2. CASE net'[p] = net[p] /\ Given(p)' = Given(p)
    BY <2>1, <2>2
  <2>3. CASE /\ InterfaceOf(p) = lvl[r] /\ pc[r] \in {"interSendLocal", "interSendRemote"}
             /\ Given(p) = coupled[r][lvl[r]] /\ Given(p)' = Given(p) + 1
             /\ net'[p] = Put(p, dist[r][p[2]])
    <3>1. dist[r][p[2]] = CouplingAt(p, Given(p) + 1)
      BY <2>3, CoupledValue
    <3> QED
      BY <1>1, <2>1, <2>3, <3>1 DEF Put
  <2> QED
    BY <1>3, <2>2, <2>3, GivenSend
<1>4. CASE InterReceiveLocal(r)
  <2>1. net'[p] = net[p] /\ Given(p)' = Given(p)
    BY <1>4, InterPoolsRest, GivenKept
  <2>2. CASE p \in LocalInterIn(r, lvl[r])
    <3>1. InterfaceOf(p) = lvl[r] /\ lvl[r] \in Int /\ pc[r] = "interReceiveLocal"
      BY <1>1, <1>4, <2>2, LevelFacts DEF LocalInterIn, InterIn, InterReceiveLocal, TypeOK, Levels
    <3>2. Given(p) = coupled[r][lvl[r]] + 1
      BY <3>1 DEF Given, HasGiven, WhileReceiving
    <3>3. Taken(p)' = Given(p) /\ iface'[p] = Head(net[p])
      BY <1>4, <2>2, <3>2, TakenLocal
    <3> QED
      BY <1>2, <2>1, <3>3
  <2>3. CASE p \notin LocalInterIn(r, lvl[r])
    BY <1>4, <2>1, <2>3, TakenLocal
  <2> QED
    BY <2>2, <2>3
<1>5. CASE InterReceiveRemote(r)
  <2>1. net'[p] = net[p]
    BY <1>1, <1>5 DEF InterReceiveRemote, Consume
  <2>2. Given(p)' = Given(p)
    BY <1>5, GivenKept
  <2>3. CASE p \in RemoteInterIn(r, lvl[r])
    <3>1. InterfaceOf(p) = lvl[r] /\ lvl[r] \in Int /\ pc[r] = "interReceiveRemote"
      BY <1>1, <1>5, <2>3, LevelFacts DEF RemoteInterIn, InterIn, InterReceiveRemote, TypeOK, Levels
    <3>2. Given(p) = coupled[r][lvl[r]] + 1
      BY <3>1 DEF Given, HasGiven, WhileReceiving
    <3>3. Taken(p)' = Given(p)
      BY <1>5, <2>3, <3>2, TakenRemote
    <3>4. iface'[p] = Head(net[p])
      BY <1>1, <1>5, <2>3 DEF InterReceiveRemote
    <3> QED
      BY <1>2, <2>1, <2>2, <3>3, <3>4
  <2>4. CASE p \notin RemoteInterIn(r, lvl[r])
    <3>1. iface'[p] = iface[p]
      BY <1>5, <2>4 DEF InterReceiveRemote
    <3> QED
      BY <1>5, <2>1, <2>2, <2>4, <3>1, TakenRemote
  <2> QED
    BY <2>3, <2>4
<1>6. CASE InterSizeSend(r) \/ InterSizeReceive(r)
  <2>1. net'[p] = net[p]
    BY <1>1, <1>6 DEF InterSizeSend, InterSizeReceive, SendOrders, ReceiveOrders
  <2>2. ~InterReceiveLocal(r) /\ ~InterReceiveRemote(r)
    BY <1>6 DEF InterSizeSend, InterSizeReceive, InterReceiveLocal, InterReceiveRemote
  <2> QED
    BY <1>6, <2>1, <2>2, GivenKept, TakenKept
<1>7. CASE ~(InterSendLocal(r) \/ SendReturn(r) \/ InterReceiveLocal(r) \/ InterReceiveRemote(r)
               \/ InterSizeSend(r) \/ InterSizeReceive(r))
  <2>1. net'[p] = net[p] /\ Given(p)' = Given(p)
    BY <1>7, InterPoolsRest, GivenKept DEF Step
  <2>2. Taken(p)' = Taken(p) /\ iface'[p] = iface[p]
    BY <1>7, TakenKept
  <2> QED
    BY <2>1, <2>2
<1> QED
  BY <1>3, <1>4, <1>5, <1>6, <1>7

\* The interfaces start with the coupling 0 on both sides.
LEMMA InterChannelsInit == ASSUME MinLevel = 0, Init PROVE InterChannels
<1> SUFFICES ASSUME NEW p \in InterPools
             PROVE  /\ ~IsLocal(p) => Numbered(net[p], p, Accepted(p), Offered(p))
                    /\ IsLocal(p) => net[p] = <<CouplingAt(p, Given(p))>>
                    /\ iface[p] = CouplingAt(p, Taken(p))
  BY DEF InterChannels
<1>1. /\ p \in Pools /\ Source(p) \in Ranks /\ Target(p) \in Ranks /\ InterfaceOf(p) \in Interfaces
  BY InterPool
<1>2. Given(p) = 0 /\ Taken(p) = 0 /\ Told(p) = 0 /\ Heard(p) = 0
  BY <1>1 DEF Init, Given, Taken, Told, Heard, HasGiven, HasTaken, WhileReceiving, Handshake
<1>3. CouplingAt(p, 0) = Initial
  BY DEF CouplingAt, Number, Initial
<1>4. net[p] = IF IsLocal(p) THEN <<Initial>> ELSE <<>>
  BY <1>1 DEF Init
<1>5. iface[p] = Initial
  BY DEF Init
<1>6. Numbered(<<>>, p, 0, 0)
  BY DEF Numbered
<1> QED
  BY <1>2, <1>3, <1>4, <1>5, <1>6 DEF Offered, Accepted

\* A step of one rank keeps the couplings of every interface in order.
LEMMA InterChannelsStep ==
  ASSUME MinLevel = 0, Ground, Coupled, Placed, Requests, InterChannels,
         NEW r \in Ranks, Step(r) \/ Throw(r)
  PROVE  InterChannels'
<1>1. TypeOK /\ PlaceOK(r)
  BY DEF Ground, Placed
<1> SUFFICES ASSUME NEW p \in InterPools
             PROVE  /\ ~IsLocal(p) => Numbered(net'[p], p, Accepted(p)', Offered(p)')
                    /\ IsLocal(p) => net'[p] = <<CouplingAt(p, Given(p)')>>
                    /\ iface'[p] = CouplingAt(p, Taken(p)')
  BY DEF InterChannels, Numbered, IsCoupling, Number, CouplingAt
<1>2. /\ p \in Pools /\ Source(p) \in Ranks /\ Target(p) \in Ranks /\ InterfaceOf(p) \in Interfaces
      /\ IsLocal(p) <=> Source(p) = Target(p)
  BY InterPool DEF IsLocal, Source, Target
<1>3. /\ ~IsLocal(p) => Numbered(net[p], p, Accepted(p), Offered(p))
      /\ IsLocal(p) => net[p] = <<CouplingAt(p, Given(p))>>
      /\ iface[p] = CouplingAt(p, Taken(p))
  BY DEF InterChannels
<1>4. Accepted(p) \in Nat /\ Offered(p) \in Nat /\ net[p] \in Seq(Message)
  BY <1>1, CountsType
<1>5. ASSUME Source(p) # r PROVE Given(p)' = Given(p) /\ Offered(p)' = Offered(p)
  BY <1>1, <1>2, <1>5, OthersKept DEF Offered, Told, Given, HasGiven
<1>6. ASSUME Target(p) # r
      PROVE  Taken(p)' = Taken(p) /\ Accepted(p)' = Accepted(p) /\ iface'[p] = iface[p]
  <2>1. iface'[p] = iface[p]
    <3>1. p \notin LocalInterIn(r, lvl[r]) /\ p \notin RemoteInterIn(r, lvl[r])
      BY <1>6 DEF LocalInterIn, RemoteInterIn, InterIn
    <3> QED
      BY <3>1 DEF Step, SizeSend, SizeReceive, InterSizeSend, InterSizeReceive, Select, Threshold,
         PreCollisionBC, Calculate, PostCollisionBC, SwapDistributions, SendLocal, PrepareRemote,
         SendBegin, SendReturn, SendsDone, ReceiveRemote, InterPrepare, InterSendLocal,
         InterSendsDone, InterReceiveLocal, InterReceiveRemote, EndSubstep, Notify, Throw, data
  <2> QED
    BY <1>1, <1>2, <1>6, <2>1, OthersKept DEF Accepted, Heard, Taken, HasTaken
<1>7. CASE IsLocal(p) /\ Source(p) = r
  BY <1>1, <1>2, <1>3, <1>7, CouplingShared
<1>8. CASE ~IsLocal(p) /\ Source(p) = r
  <2>1. Taken(p)' = Taken(p) /\ Accepted(p)' = Accepted(p) /\ iface'[p] = iface[p]
    BY <1>2, <1>6, <1>8
  <2>2. CASE net'[p] = net[p] /\ Offered(p)' = Offered(p)
    BY <1>3, <1>8, <2>1, <2>2
  <2>3. CASE \E m \in Message : /\ IsCoupling(m, p, Offered(p)) /\ Offered(p)' = Offered(p) + 1
                                /\ net'[p] = Append(net[p], m)
    BY <1>3, <1>4, <1>8, <2>1, <2>3, NumberedSend
  <2> QED
    BY <1>1, <1>8, <2>2, <2>3, CouplingSent
<1>9. CASE ~IsLocal(p) /\ Target(p) = r
  <2>1. Offered(p)' = Offered(p)
    BY <1>2, <1>5, <1>9
  <2>2. Numbered(net'[p], p, Accepted(p)', Offered(p)) /\ iface'[p] = CouplingAt(p, Taken(p)')
    BY <1>1, <1>3, <1>4, <1>9, CouplingReceived
  <2> QED
    BY <1>9, <2>1, <2>2
<1>10. CASE Source(p) # r /\ Target(p) # r
  <2>1. net'[p] = net[p]
    BY <1>1, <1>2, <1>10, OthersPools
  <2> QED
    BY <1>3, <1>5, <1>6, <1>10, <2>1
<1> QED
  BY <1>2, <1>7, <1>8, <1>9, <1>10

\* Every interpolation pool holds the couplings its source has sent and its
\* target has not taken.
LEMMA InterChannelsInvariant == ASSUME MinLevel = 0 PROVE Spec => []InterChannels
<1>1. Ground /\ Coupled /\ Placed /\ Requests /\ InterChannels /\ [Next]_vars => InterChannels'
  <2> SUFFICES ASSUME Ground, Coupled, Placed, Requests, InterChannels, [Next]_vars
               PROVE  InterChannels'
    OBVIOUS
  <2>1. ASSUME NEW r \in Ranks, Step(r) \/ Throw(r) PROVE InterChannels'
    BY <2>1, InterChannelsStep
  <2>2. CASE UNCHANGED vars
    BY <2>2 DEF vars, control, data, mpi, InterChannels, Numbered, IsCoupling, Number, CouplingAt,
       Accepted, Offered, Heard, Told, Given, Taken, HasGiven, HasTaken
  <2> QED
    BY <2>1, <2>2 DEF Next
<1>2. Init => InterChannels
  BY InterChannelsInit
<1> QED
  BY GroundInvariant, CoupledInvariant, PlacedInvariant, RequestsInvariant, <1>1, <1>2, PTL DEF Spec

\* At a collision the interface values a level took from its coarser or finer
\* neighbour belong to the last time both had in common, and they are values of
\* a finished step (InterfaceFresh), also where a connector is a remote one for
\* some of its fine blocks only.
THEOREM CollidesWithFreshInterfaces == ASSUME MinLevel = 0 PROVE Spec => []InterfaceFresh
<1>1. Ground /\ Coupled /\ InterChannels => InterfaceFresh
  <2> SUFFICES ASSUME Ground, Coupled, InterChannels, NEW r \in Ranks, NEW p \in InterPools,
                      pc[r] = "calculate", Target(p) = r, p[4] = lvl[r]
               PROVE  /\ iface[p].stage = "swapped"
                      /\ iface[p].step = IF p \in CFPools THEN dist[r][lvl[r]].step \div 2
                                                          ELSE 2 * dist[r][lvl[r]].step
    BY DEF InterfaceFresh
  <2> DEFINE j == InterfaceOf(p)
  <2>1. /\ j \in Interfaces /\ j \in Int
        /\ \/ p \in CFPools /\ p[2] = j /\ p[4] = j + 1
           \/ p \notin CFPools /\ p[2] = j + 1 /\ p[4] = j
    BY InterPool, LevelFacts DEF Interfaces
  <2>2. iface[p] = [step |-> Number(p, coupled[r][j]), stage |-> "swapped"]
    <3>1. ~HasTaken(p) /\ coupled[r][j] \in Nat
      BY <2>1 DEF HasTaken, Coupled, CoupledType
    <3>2. Taken(p) = coupled[r][j]
      BY <3>1 DEF Taken
    <3> QED
      BY <3>2 DEF InterChannels, CouplingAt
  <2> HIDE DEF j
  <2>3. CASE p \in CFPools
    <3>1. lvl[r] - 1 = j /\ p[2] < p[4]
      BY <2>1, <2>3
    <3>2. dist[r][lvl[r]].step \div 2 = coupled[r][j]
      BY <2>1, <3>1, CoupledHalf DEF Ground
    <3> QED
      BY <2>2, <2>3, <3>1, <3>2 DEF Number
  <2>4. CASE p \notin CFPools
    <3>1. lvl[r] = j /\ ~(p[2] < p[4])
      BY <2>1, <2>4
    <3>2. dist[r][lvl[r]].step = coupled[r][j]
      BY <2>1, <3>1, CoupledSame DEF Ground
    <3> QED
      BY <2>2, <2>4, <3>1, <3>2 DEF Number
  <2> QED
    BY <2>3, <2>4
<1> QED
  BY GroundInvariant, CoupledInvariant, InterChannelsInvariant, <1>1, PTL

\* Ranks that are through all time steps have moved their levels equally far.
LEMMA FinishedSteps ==
  ASSUME MinLevel = 0, Ground, Placed, \A r \in Ranks : pc[r] = "finished",
         NEW r \in Ranks, NEW s \in Ranks, NEW l \in Levels
  PROVE  dist[r][l].step = dist[s][l].step
<1>1. \A q \in Ranks : calcStep[q] = NumberOfTimeSteps + 1 /\ staggeredStep[q] = 1
  BY DEF Placed, PlaceOK
<1>2. \A q \in Ranks : dist[q][l].step = Elapsed(q, l, staggeredStep[q] - 1)
  BY DEF Ground, Counting, Counts, Waiting
<1> QED
  BY <1>1, <1>2 DEF Elapsed

\* When all ranks are through, every message has been received and no receive
\* is left open (NothingInFlight): what one rank sends the other expects, although
\* each decides from loop variables of its own which exchanges it makes.
THEOREM AllReceived == ASSUME MinLevel = 0 PROVE Spec => []NothingInFlight
<1>1. Ground /\ Coupled /\ Placed /\ Requests /\ Channels /\ InterChannels => NothingInFlight
  <2> SUFFICES ASSUME Ground, Coupled, Placed, Requests, Channels, InterChannels,
                      \A r \in Ranks : pc[r] = "finished"
               PROVE  posted = {} /\ \A p \in RemotePools : net[p] = <<>>
    BY DEF NothingInFlight
  <2>1. TypeOK
    BY DEF Ground
  <2>2. posted = {}
    <3>1. \A p \in SamePools : ~AwaitsExchange(p)
      BY SamePool DEF AwaitsExchange
    <3>2. \A p \in InterPools : ~AwaitsCoupling(p)
      BY InterPool DEF AwaitsCoupling, WhileReceiving
    <3> QED
      BY <2>1, <3>1, <3>2 DEF TypeOK, RemotePools, Pools, Requests
  <2>3. ASSUME NEW p \in SamePools PROVE net[p] = <<>>
    <3> DEFINE s == Source(p)
               t == Target(p)
               l == p[2]
    <3>1. s \in Ranks /\ t \in Ranks /\ l \in Levels /\ p \in Pools
      BY SamePool
    <3>2. dist[s][l].step = dist[t][l].step /\ dist[t][l].step \in Nat
      BY <2>1, <3>1, FinishedSteps DEF TypeOK, Version
    <3>3. \A q \in Ranks, b \in {0, 1} : Exchanged(q, l, b) = 3
      BY DEF Exchanged, Moving, Exchange, Coupling
    <3>4. SentTo(p) \in {0, 1}
      BY DEF SentTo
    <3>5. Sent(p) = 3 * dist[t][l].step + 3 /\ Received(p) = 3 * dist[t][l].step + 3
      BY <3>1, <3>2, <3>3, <3>4 DEF Sent, Received, Position
    <3>6. InTransit(net[p], l, Received(p), Sent(p)) /\ net[p] \in Seq(Message)
      BY <2>1, <3>1 DEF Channels, TypeOK
    <3>7. Received(p) \in Int /\ Sent(p) = Received(p)
      BY <3>2, <3>5
    <3> QED
      BY <3>6, <3>7, InTransitNothing
  <2>4. ASSUME NEW p \in InterPools, ~IsLocal(p) PROVE net[p] = <<>>
    <3> DEFINE s == Source(p)
               t == Target(p)
               j == InterfaceOf(p)
    <3>1. s \in Ranks /\ t \in Ranks /\ j \in Interfaces /\ j \in Levels
      BY InterPool
    <3>2. \A q \in Ranks : dist[q][j].step = coupled[q][j] /\ coupled[q][j] \in Nat
      <4>1. \A q \in Ranks : ~Pending(q, j)
        BY DEF Pending, BeforeReceive, WhileReceiving, Exchange
      <4> QED
        BY <3>1, <4>1 DEF Coupled, Couples, CoupledType
    <3>3. coupled[s][j] = coupled[t][j]
      BY <3>1, <3>2, FinishedSteps
    <3>4. ~HasGiven(p) /\ ~HasTaken(p) /\ Told(p) = 1 /\ Heard(p) = 1
      BY <3>1 DEF HasGiven, HasTaken, Told, Heard, WhileReceiving, Handshake
    <3>5. Offered(p) = Accepted(p) /\ Offered(p) \in Nat
      BY <3>1, <3>2, <3>3, <3>4 DEF Offered, Accepted, Given, Taken
    <3>6. Len(net[p]) = 0 /\ net[p] \in Seq(Message)
      BY <2>1, <2>4, <3>5, CountsType DEF InterChannels, Numbered
    <3> QED
      BY <3>6
  <2> QED
    BY <2>2, <2>3, <2>4 DEF RemotePools, Pools
<1> QED
  BY GroundInvariant, CoupledInvariant, PlacedInvariant, RequestsInvariant, ChannelsInvariant,
     InterChannelsInvariant, <1>1, PTL
=============================================================================
