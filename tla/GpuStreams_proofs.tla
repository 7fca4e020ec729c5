-------------------------- MODULE GpuStreams_proofs --------------------------
(***************************************************************************)
(* Proofs about one process of the GPU solver, for any number of levels,   *)
(* any axes with neighbours and any levels with boundary nodes.            *)
(*                                                                         *)
(* The program of the host is a recursion over the levels.  To say in      *)
(* which situation the host is, without a formula for the position of      *)
(* every statement, the program is taken as a walk through the points of   *)
(* an update (Edge): by induction over the levels it leads from Between to *)
(* Between (GridLeads), so each step of the host goes along an edge        *)
(* (HostMoves).  The invariant Inv says at which points what can be        *)
(* pending; a second walk, of an odometer, counts for each level how often *)
(* the next finer one was advanced, and gives the refinement of            *)
(* NestedTimeStepping.                                                     *)
(***************************************************************************)
EXTENDS GpuStreams, NaturalLemmas, SequenceTheorems, FiniteSetTheorems

-----------------------------------------------------------------------------
(* The program as a walk *)

Point(phase, place, level, axis) == [phase |-> phase, place |-> place, level |-> level, axis |-> axis]

Phases         == {"collision", "refinement"}
Between        == Point("none", "between", 0, "")
Open(ph, l, a) == Point(ph, "open", l, a)
After(a)       == IF a = "X" THEN "Y" ELSE IF a = "Y" THEN "Z" ELSE "done"
Updated(l)     == IF l = Fine THEN Between ELSE Point("none", "coupling", l, "")
Swapping(s, l) == IF l \in s.postCollisionBC THEN Point("none", "swapping", l, "") ELSE Open("collision", l, "done")
Swapped(s, l)  == IF l \in s.preCollisionBC THEN Point("none", "swapped", l, "") ELSE Updated(l)

\* Where the statements of an exchange, of any phase, lead.
ExchangeEdge(s, n, x, m, ph, l, a) ==
  \/ x = Statement("download", "border", l, a) /\ a \in s.axes
     /\ n = Open(ph, l, a) /\ m = Point(ph, "downloaded", l, a)
  \/ x = Statement("post", "host", l, a) /\ a \in s.axes
     /\ n = Point(ph, "downloaded", l, a) /\ m = Point(ph, "posted", l, a)
  \/ x = Statement("synchronize", "border", l, a) /\ a \in s.axes
     /\ n = Point(ph, "posted", l, a) /\ m = Point(ph, "synchronized", l, a)
  \/ x = Statement("synchronize", "border", l, a) /\ a \notin s.axes
     /\ n = Open(ph, l, a) /\ m = Open(ph, l, After(a))
  \/ x = Statement("send", "host", l, a) /\ a \in s.axes
     /\ n = Point(ph, "synchronized", l, a) /\ m = Point(ph, "sent", l, a)
  \/ x = Statement("await", "host", l, a) /\ a \in s.axes
     /\ n = Point(ph, "sent", l, a) /\ m = Point(ph, "received", l, a)
  \/ x = Statement("upload", "border", l, a) /\ a \in s.axes
     /\ n = Point(ph, "received", l, a) /\ m = Open(ph, l, After(a))

KernelEdge(s, n, x, m, ph, l, a) ==
  \/ x = Statement("collideBorder", "border", l, "")
     /\ n = Between /\ m = Open("collision", l, "X")
  \/ x = Statement("fineToCoarseBorder", "border", l, "") /\ l # Fine
     /\ n = Point("none", "coupling", l, "") /\ m = Open("refinement", l, "X")
  \/ x = Statement("collect", "border", l, a) /\ a \in s.axes
     /\ n = Open(ph, l, "X") /\ m = n
  \/ x = Statement("record", "border", l, "")
     /\ n = Open(ph, l, "X") /\ m = Point(ph, "recorded", l, "X")
  \/ x = Statement("wait", "bulk", l, "")
     /\ n = Point(ph, "recorded", l, "X") /\ m = Point(ph, "waited", l, "X")
  \/ x = Statement("collideBulk", "bulk", l, "")
     /\ n = Point("collision", "waited", l, "X") /\ m = Open("collision", l, "X")
  \/ x = Statement("fineToCoarseBulk", "border", l, "") /\ l # Fine
     /\ n = Point("refinement", "waited", l, "X") /\ m = Open("refinement", l, "X")
  \/ x = Statement("coarseToFineBulk", "border", l, "") /\ l # Fine
     /\ n = Open("refinement", l, "X") /\ m = n
  \/ x = Statement("scatter", "border", l, a) /\ a \in s.axes
     /\ n = Open(ph, l, "done") /\ m = n

ClosingEdge(s, n, x, m, l) ==
  \/ x = Statement("postCollisionBC", "legacy", l, "") /\ l \in s.postCollisionBC
     /\ n = Open("collision", l, "done") /\ m = Point("none", "swapping", l, "")
  \/ x = Statement("swap", "host", l, "")
     /\ n = Swapping(s, l) /\ m = Swapped(s, l)
  \/ x = Statement("preCollisionBC", "legacy", l, "") /\ l \in s.preCollisionBC
     /\ n = Point("none", "swapped", l, "") /\ m = Updated(l)
  \/ x = Statement("coarseToFineBorder", "border", l, "") /\ l # Fine
     /\ n = Open("refinement", l, "done") /\ m = Point("refinement", "coupled", l, "")
  \/ x = Statement("deviceSynchronize", "host", l, "")
     /\ n = Point("refinement", "coupled", l, "") /\ m = Between

\* The statement x leads from point n to point m.
Edge(s, n, x, m) ==
  \E l \in Levels :
    \/ \E ph \in Phases, a \in Axes : ExchangeEdge(s, n, x, m, ph, l, a) \/ KernelEdge(s, n, x, m, ph, l, a)
    \/ ClosingEdge(s, n, x, m, l)

HostCalls  == {"post", "synchronize", "send", "await", "swap", "deviceSynchronize"}
Statements == [do : Kernels \cup HostCalls, stream : {"border", "bulk", "legacy", "host"},
               level : Levels, axis : Axes \cup {""}]

\* The points of one update, and where the statements lead.
Places == {"between", "open", "recorded", "waited", "downloaded", "posted", "synchronized", "sent", "received", "swapping", "swapped",
           "coupling", "coupled"}
Points == [phase : Phases \cup {"none"}, place : Places, level : Levels, axis : Axes \cup {"", "done"}]
Roads(s) == { r \in Points \X Statements \X Points : Edge(s, r[1], r[2], r[3]) }

\* The points passed by a sequence of statements: p[k] is where the k-th begins.
\* R says of each statement from where to where it leads.
Walk(R, q, p, n, m) ==
  /\ p[1] = n /\ p[Len(q) + 1] = m
  /\ \A k \in 1 .. Len(q) : <<p[k], q[k], p[k + 1]>> \in R
Leads(R, q, n, m) == q \in Seq(Statements) /\ \E p : Walk(R, q, p, n, m)

\* A sequence without statements leads nowhere.
LEMMA EmptyLeads ==
  ASSUME NEW R, NEW n
  PROVE  Leads(R, << >>, n, n)
<1>1. << >> \in Seq(Statements) /\ Len(<< >>) = 0
  OBVIOUS
<1>2. Walk(R, << >>, [k \in {1} |-> n], n, n)
  BY <1>1 DEF Walk
<1> QED
  BY <1>1, <1>2 DEF Leads

\* One statement leads along its edge.
LEMMA OneLeads ==
  ASSUME NEW R, NEW n, NEW x \in Statements, NEW m, <<n, x, m>> \in R
  PROVE  Leads(R, <<x>>, n, m)
<1>1. <<x>> \in Seq(Statements) /\ Len(<<x>>) = 1 /\ <<x>>[1] = x
  OBVIOUS
<1> DEFINE p == [k \in {1, 2} |-> IF k = 1 THEN n ELSE m]
<1>2. p[1] = n /\ p[2] = m
  OBVIOUS
<1> HIDE DEF p
<1>3. Walk(R, <<x>>, p, n, m)
  BY <1>1, <1>2 DEF Walk
<1> QED
  BY <1>1, <1>3 DEF Leads

\* One walk after the other is a walk.
LEMMA ConcatLeads ==
  ASSUME NEW R, NEW n, NEW i, NEW m, NEW q, NEW r, Leads(R, q, n, i), Leads(R, r, i, m)
  PROVE  Leads(R, q \o r, n, m)
<1>1. q \in Seq(Statements) /\ r \in Seq(Statements)
  BY DEF Leads
<1>2. PICK p : Walk(R, q, p, n, i)
  BY DEF Leads
<1>3. PICK o : Walk(R, r, o, i, m)
  BY DEF Leads
<1>4. Len(q) \in Nat /\ Len(r) \in Nat
  BY <1>1, LenProperties
<1>5. /\ q \o r \in Seq(Statements) /\ Len(q \o r) = Len(q) + Len(r)
      /\ \A k \in 1 .. Len(q) + Len(r) : (q \o r)[k] = IF k <= Len(q) THEN q[k] ELSE r[k - Len(q)]
  BY <1>1, ConcatProperties, Zenon
<1> DEFINE w == [k \in 1 .. Len(q) + Len(r) + 1 |-> IF k <= Len(q) THEN p[k] ELSE o[k - Len(q)]]
<1>6. \A k \in 1 .. Len(q) + Len(r) + 1 : w[k] = IF k <= Len(q) THEN p[k] ELSE o[k - Len(q)]
  OBVIOUS
<1> HIDE DEF w
<1>7. w[1] = n
  <2>1. CASE Len(q) = 0
    <3>1. w[1] = o[1] /\ n = i
      BY <1>2, <1>4, <1>6, <2>1 DEF Walk
    <3> QED
      BY <1>3, <3>1 DEF Walk
  <2>2. CASE Len(q) # 0
    BY <1>2, <1>4, <1>6, <2>2 DEF Walk
  <2> QED
    BY <2>1, <2>2
<1>8. w[Len(q) + Len(r) + 1] = m
  BY <1>3, <1>4, <1>6 DEF Walk
<1>9. ASSUME NEW k \in 1 .. Len(q) + Len(r)
      PROVE  <<w[k], (q \o r)[k], w[k + 1]>> \in R
  <2>1. CASE k < Len(q)
    <3>1. w[k] = p[k] /\ w[k + 1] = p[k + 1] /\ (q \o r)[k] = q[k] /\ k \in 1 .. Len(q)
      BY <1>4, <1>5, <1>6, <2>1
    <3> QED
      BY <1>2, <3>1 DEF Walk
  <2>2. CASE k = Len(q)
    <3>1. w[k] = p[k] /\ w[k + 1] = o[1] /\ (q \o r)[k] = q[k] /\ k \in 1 .. Len(q)
      BY <1>4, <1>5, <1>6, <2>2
    <3>2. o[1] = p[k + 1]
      BY <1>2, <1>3, <2>2 DEF Walk
    <3> QED
      BY <1>2, <3>1, <3>2 DEF Walk
  <2>3. CASE k > Len(q)
    <3>1. w[k] = o[k - Len(q)] /\ w[k + 1] = o[(k - Len(q)) + 1] /\ (q \o r)[k] = r[k - Len(q)] /\ k - Len(q) \in 1 .. Len(r)
      <4>1. k \in Nat /\ k - Len(q) \in 1 .. Len(r) /\ ~(k <= Len(q)) /\ ~(k + 1 <= Len(q))
        BY <1>4, <2>3
      <4>2. w[k] = o[k - Len(q)] /\ w[k + 1] = o[(k + 1) - Len(q)]
        <5>1. k \in 1 .. Len(q) + Len(r) + 1 /\ k + 1 \in 1 .. Len(q) + Len(r) + 1
          BY <1>4
        <5> QED
          BY <1>6, <4>1, <5>1
      <4>4. (q \o r)[k] = r[k - Len(q)]
        BY <1>5, <4>1
      <4>3. (k + 1) - Len(q) = (k - Len(q)) + 1
        BY <1>4, <4>1
      <4> QED
        BY <4>1, <4>2, <4>3, <4>4
    <3> QED
      BY <1>3, <3>1 DEF Walk
  <2> QED
    BY SMTT(30), <1>4, <2>1, <2>2, <2>3
<1>10. Walk(R, q \o r, w, n, m)
  BY <1>4, <1>5, <1>7, <1>8, <1>9 DEF Walk
<1> QED
  BY <1>5, <1>10 DEF Leads

\* An edge leads from a point to a point.
LEMMA EdgeIsRoad ==
  ASSUME NEW s, NEW n, NEW x \in Statements, NEW m, Edge(s, n, x, m)
  PROVE  <<n, x, m>> \in Roads(s)
<1>1. PICK l \in Levels :
        \/ \E ph \in Phases, a \in Axes : ExchangeEdge(s, n, x, m, ph, l, a) \/ KernelEdge(s, n, x, m, ph, l, a)
        \/ ClosingEdge(s, n, x, m, l)
  BY DEF Edge
<1>2. \A ph \in Phases \cup {"none"}, place \in Places, a \in Axes \cup {"", "done"} : Point(ph, place, l, a) \in Points
  BY DEF Point, Points
<1>3. \A ph \in Phases, a \in Axes \cup {"done"} : Open(ph, l, a) \in Points
  BY <1>2 DEF Open, Places
<1>4. Between \in Points /\ Updated(l) \in Points /\ Swapping(s, l) \in Points /\ Swapped(s, l) \in Points
  <2>1. Between \in Points
    BY FineAssumption DEF Between, Point, Points, Places, Levels
  <2>2. Open("collision", l, "done") \in Points
    BY <1>3 DEF Phases
  <2>3. Updated(l) \in Points
    BY <1>2, <2>1 DEF Updated, Places
  <2> QED
    BY <1>2, <2>1, <2>2, <2>3 DEF Swapping, Swapped, Places
<1>5. n \in Points /\ m \in Points
  <2>1. ASSUME NEW ph \in Phases, NEW a \in Axes, ExchangeEdge(s, n, x, m, ph, l, a)
        PROVE  n \in Points /\ m \in Points
    <3>1. After(a) \in Axes \cup {"done"}
      BY DEF After, Axes
    <3> QED
      BY <1>2, <1>3, <2>1, <3>1 DEF ExchangeEdge, Places
  <2>2. ASSUME NEW ph \in Phases, NEW a \in Axes, KernelEdge(s, n, x, m, ph, l, a)
        PROVE  n \in Points /\ m \in Points
    BY <1>2, <1>3, <1>4, <2>2 DEF KernelEdge, Places, Phases, Axes
  <2>3. ASSUME ClosingEdge(s, n, x, m, l)
        PROVE  n \in Points /\ m \in Points
    BY <1>2, <1>3, <1>4, <2>3 DEF ClosingEdge, Places, Phases
  <2> QED
    BY <1>1, <2>1, <2>2, <2>3
<1> QED
  BY <1>5 DEF Roads

\* A statement leads along its edge.
LEMMA EdgeLeads ==
  ASSUME NEW s, NEW n, NEW x \in Statements, NEW m, Edge(s, n, x, m)
  PROVE  Leads(Roads(s), <<x>>, n, m)
BY EdgeIsRoad, OneLeads


\* Every statement of the program is one.
LEMMA StatementTyped ==
  ASSUME NEW do \in Kernels \cup HostCalls, NEW stream \in {"border", "bulk", "legacy", "host"},
         NEW l \in Levels, NEW a \in Axes \cup {""}
  PROVE  Statement(do, stream, l, a) \in Statements
BY DEF Statement, Statements

\* The exchange on one axis leads to the next.
LEMMA AxisLeads ==
  ASSUME NEW s \in Setups, NEW ph \in Phases, NEW l \in Levels, NEW a \in Axes
  PROVE  Leads(Roads(s), ExchangeCollData(s, l, a), Open(ph, l, a), Open(ph, l, After(a)))
<1>2. CASE a \notin s.axes
  <2> DEFINE x == Statement("synchronize", "border", l, a)
  <2>1. x \in Statements
    BY StatementTyped DEF Kernels, HostCalls
  <2>2. Edge(s, Open(ph, l, a), x, Open(ph, l, After(a)))
    BY <1>2 DEF Edge, ExchangeEdge
  <2>3. ExchangeCollData(s, l, a) = <<x>>
    BY <1>2 DEF ExchangeCollData
  <2> HIDE DEF x
  <2> QED
    BY <2>1, <2>2, <2>3, EdgeLeads
<1>3. CASE a \in s.axes
  <2> DEFINE x1 == Statement("download", "border", l, a)
             x2 == Statement("post", "host", l, a)
             x3 == Statement("synchronize", "border", l, a)
             x4 == Statement("send", "host", l, a)
             x5 == Statement("await", "host", l, a)
             x6 == Statement("upload", "border", l, a)
             n1 == Open(ph, l, a)
             n2 == Point(ph, "downloaded", l, a)
             n3 == Point(ph, "posted", l, a)
             n4 == Point(ph, "synchronized", l, a)
             n5 == Point(ph, "sent", l, a)
             n6 == Point(ph, "received", l, a)
             n7 == Open(ph, l, After(a))
             p  == <<n1, n2, n3, n4, n5, n6, n7>>
             q  == <<x1, x2, x3, x4, x5, x6>>
  <2>1. ExchangeCollData(s, l, a) = q
    BY <1>3 DEF ExchangeCollData
  <2>2. x1 \in Statements /\ x2 \in Statements /\ x3 \in Statements /\ x4 \in Statements /\ x5 \in Statements /\ x6 \in Statements
    BY StatementTyped DEF Kernels, HostCalls
  <2>3. /\ Edge(s, n1, x1, n2) /\ Edge(s, n2, x2, n3) /\ Edge(s, n3, x3, n4)
        /\ Edge(s, n4, x4, n5) /\ Edge(s, n5, x5, n6) /\ Edge(s, n6, x6, n7)
    BY <1>3 DEF Edge, ExchangeEdge
  <2> HIDE DEF x1, x2, x3, x4, x5, x6, n1, n2, n3, n4, n5, n6, n7
  <2>4. q \in Seq(Statements) /\ Len(q) = 6
    BY <2>2
  <2>5. \A k \in 1 .. 6 : <<p[k], q[k], p[k + 1]>> \in Roads(s)
    <3>1. \A k \in 1 .. 6 : q[k] \in Statements /\ Edge(s, p[k], q[k], p[k + 1])
      BY <2>2, <2>3
    <3> QED
      BY <3>1, EdgeIsRoad
  <2>6. Walk(Roads(s), q, p, n1, n7)
    BY <2>4, <2>5 DEF Walk
  <2>7. Leads(Roads(s), q, n1, n7)
    BY <2>4, <2>6 DEF Leads
  <2> QED
    BY <2>1, <2>7 DEF n1, n7
<1> QED
  BY <1>2, <1>3

\* A statement that leads from a point back to it, done for every axis or none.
LEMMA ForAxesLeads ==
  ASSUME NEW s \in Setups, NEW n, NEW do \in Kernels, NEW l \in Levels,
         \A a \in s.axes : Edge(s, n, Statement(do, "border", l, a), n)
  PROVE  Leads(Roads(s), ForAxes(s, do, l), n, n)
<1>1. ASSUME NEW a \in Axes
      PROVE  Leads(Roads(s), OnAxis(s, do, l, a), n, n)
  <2>1. Statement(do, "border", l, a) \in Statements
    BY StatementTyped
  <2>2. CASE a \in s.axes
    BY <2>1, <2>2, EdgeLeads DEF OnAxis
  <2>3. CASE a \notin s.axes
    BY <2>3, EmptyLeads DEF OnAxis
  <2> QED
    BY <2>2, <2>3
<1>2. /\ Leads(Roads(s), OnAxis(s, do, l, "X"), n, n) /\ Leads(Roads(s), OnAxis(s, do, l, "Y"), n, n)
      /\ Leads(Roads(s), OnAxis(s, do, l, "Z"), n, n)
  BY <1>1 DEF Axes
<1>3. Leads(Roads(s), OnAxis(s, do, l, "X") \o OnAxis(s, do, l, "Y"), n, n)
  BY <1>2, ConcatLeads
<1> QED
  BY <1>2, <1>3, ConcatLeads DEF ForAxes

\* The whole exchange, in the one phase or the other.
LEMMA ExchangeLeads ==
  ASSUME NEW s \in Setups, NEW ph \in Phases, NEW l \in Levels
  PROVE  Leads(Roads(s), ExchangeMultiGPU(s, l), Open(ph, l, "X"), Open(ph, l, "done"))
<1>1. /\ Leads(Roads(s), ExchangeCollData(s, l, "X"), Open(ph, l, "X"), Open(ph, l, "Y"))
      /\ Leads(Roads(s), ExchangeCollData(s, l, "Y"), Open(ph, l, "Y"), Open(ph, l, "Z"))
      /\ Leads(Roads(s), ExchangeCollData(s, l, "Z"), Open(ph, l, "Z"), Open(ph, l, "done"))
  BY AxisLeads DEF Axes, After
<1>2. \A a \in s.axes : Edge(s, Open(ph, l, "done"), Statement("scatter", "border", l, a), Open(ph, l, "done"))
  BY SetupsAssumption DEF Edge, KernelEdge
<1>3. Leads(Roads(s), ForAxes(s, "scatter", l), Open(ph, l, "done"), Open(ph, l, "done"))
  BY <1>2, ForAxesLeads DEF Kernels
<1>4. Leads(Roads(s), ExchangeCollData(s, l, "X") \o ExchangeCollData(s, l, "Y"), Open(ph, l, "X"), Open(ph, l, "Z"))
  BY <1>1, ConcatLeads
<1>5. Leads(Roads(s), ExchangeCollData(s, l, "X") \o ExchangeCollData(s, l, "Y") \o ExchangeCollData(s, l, "Z"),
            Open(ph, l, "X"), Open(ph, l, "done"))
  BY <1>1, <1>4, ConcatLeads
<1> QED
  BY <1>3, <1>5, ConcatLeads DEF ExchangeMultiGPU

\* Collecting, which all axes share.
LEMMA CollectLeads ==
  ASSUME NEW s \in Setups, NEW ph \in Phases, NEW l \in Levels
  PROVE  Leads(Roads(s), ForAxes(s, "collect", l), Open(ph, l, "X"), Open(ph, l, "X"))
<1>1. \A a \in s.axes : Edge(s, Open(ph, l, "X"), Statement("collect", "border", l, a), Open(ph, l, "X"))
  BY SetupsAssumption DEF Edge, KernelEdge
<1> QED
  BY <1>1, ForAxesLeads DEF Kernels

\* The collision of a level and its exchange.
LEMMA CollisionLeads ==
  ASSUME NEW s \in Setups, NEW l \in Levels
  PROVE  Leads(Roads(s), CollisionAndExchange(s, l), Between, Open("collision", l, "done"))
<1> DEFINE n  == Open("collision", l, "X")
           r  == Point("collision", "recorded", l, "X")
           w  == Point("collision", "waited", l, "X")
           x1 == Statement("collideBorder", "border", l, "")
           x2 == Statement("record", "border", l, "")
           x3 == Statement("wait", "bulk", l, "")
           x4 == Statement("collideBulk", "bulk", l, "")
<1>1. x1 \in Statements /\ x2 \in Statements /\ x3 \in Statements /\ x4 \in Statements
  BY StatementTyped DEF Kernels, HostCalls
<1>2. Edge(s, Between, x1, n) /\ Edge(s, n, x2, r) /\ Edge(s, r, x3, w) /\ Edge(s, w, x4, n)
  <2>1. "collision" \in Phases /\ "X" \in Axes
    BY DEF Phases, Axes
  <2>2. /\ KernelEdge(s, Between, x1, n, "collision", l, "X") /\ KernelEdge(s, n, x2, r, "collision", l, "X")
        /\ KernelEdge(s, r, x3, w, "collision", l, "X") /\ KernelEdge(s, w, x4, n, "collision", l, "X")
    BY DEF KernelEdge
  <2> QED
    BY <2>1, <2>2 DEF Edge
<1>3. Leads(Roads(s), ForAxes(s, "collect", l), n, n) /\ Leads(Roads(s), ExchangeMultiGPU(s, l), n, Open("collision", l, "done"))
  BY CollectLeads, ExchangeLeads DEF Phases
<1> HIDE DEF n, r, w, x1, x2, x3, x4
<1>4. Leads(Roads(s), <<x1>>, Between, n)
  BY <1>1, <1>2, EdgeLeads
<1>5. Leads(Roads(s), <<x2, x3, x4>>, n, n)
  <2>1. <<x2, x3, x4>> \in Seq(Statements) /\ Len(<<x2, x3, x4>>) = 3
    BY <1>1
  <2>2. \A k \in 1 .. 3 : <<<<n, r, w, n>>[k], <<x2, x3, x4>>[k], <<n, r, w, n>>[k + 1]>> \in Roads(s)
    <3>1. \A k \in 1 .. 3 :
               /\ <<x2, x3, x4>>[k] \in Statements
               /\ Edge(s, <<n, r, w, n>>[k], <<x2, x3, x4>>[k], <<n, r, w, n>>[k + 1])
      BY <1>1, <1>2
    <3> QED
      BY <3>1, EdgeIsRoad
  <2>3. Walk(Roads(s), <<x2, x3, x4>>, <<n, r, w, n>>, n, n)
    BY <2>1, <2>2 DEF Walk
  <2> QED
    BY <2>1, <2>3 DEF Leads
<1>6. Leads(Roads(s), <<x1>> \o ForAxes(s, "collect", l), Between, n)
  BY <1>3, <1>4, ConcatLeads
<1>7. Leads(Roads(s), <<x1>> \o ForAxes(s, "collect", l) \o <<x2, x3, x4>>, Between, n)
  BY <1>5, <1>6, ConcatLeads
<1>8. Leads(Roads(s), <<x1>> \o ForAxes(s, "collect", l) \o <<x2, x3, x4>> \o ExchangeMultiGPU(s, l),
            Between, Open("collision", l, "done"))
  BY <1>3, <1>7, ConcatLeads
<1> QED
  BY <1>8 DEF CollisionAndExchange, x1, x2, x3, x4

\* The interpolation with a finer level and its exchange.
LEMMA RefinementLeads ==
  ASSUME NEW s \in Setups, NEW l \in Levels, l # Fine
  PROVE  Leads(Roads(s), RefinementAndExchange(s, l), Updated(l), Between)
<1> DEFINE n  == Open("refinement", l, "X")
           r  == Point("refinement", "recorded", l, "X")
           w  == Point("refinement", "waited", l, "X")
           o  == Open("refinement", l, "done")
           c  == Point("refinement", "coupled", l, "")
           x1 == Statement("fineToCoarseBorder", "border", l, "")
           x2 == Statement("record", "border", l, "")
           x3 == Statement("wait", "bulk", l, "")
           x4 == Statement("fineToCoarseBulk", "border", l, "")
           x5 == Statement("coarseToFineBulk", "border", l, "")
           x6 == Statement("coarseToFineBorder", "border", l, "")
           x7 == Statement("deviceSynchronize", "host", l, "")
<1>1. /\ x1 \in Statements /\ x2 \in Statements /\ x3 \in Statements /\ x4 \in Statements
      /\ x5 \in Statements /\ x6 \in Statements /\ x7 \in Statements
  BY StatementTyped DEF Kernels, HostCalls
<1>2. /\ Edge(s, Updated(l), x1, n) /\ Edge(s, n, x2, r) /\ Edge(s, r, x3, w) /\ Edge(s, w, x4, n)
      /\ Edge(s, n, x5, n) /\ Edge(s, o, x6, c) /\ Edge(s, c, x7, Between)
  <2>1. "refinement" \in Phases /\ "X" \in Axes
    BY DEF Phases, Axes
  <2>2. /\ KernelEdge(s, Updated(l), x1, n, "refinement", l, "X") /\ KernelEdge(s, n, x2, r, "refinement", l, "X")
        /\ KernelEdge(s, r, x3, w, "refinement", l, "X") /\ KernelEdge(s, w, x4, n, "refinement", l, "X")
        /\ KernelEdge(s, n, x5, n, "refinement", l, "X")
    BY DEF KernelEdge, Updated
  <2>3. ClosingEdge(s, o, x6, c, l) /\ ClosingEdge(s, c, x7, Between, l)
    BY DEF ClosingEdge
  <2> QED
    BY <2>1, <2>2, <2>3 DEF Edge
<1>3. Leads(Roads(s), ForAxes(s, "collect", l), n, n) /\ Leads(Roads(s), ExchangeMultiGPU(s, l), n, o)
  BY CollectLeads, ExchangeLeads DEF Phases
<1> HIDE DEF n, r, w, o, c, x1, x2, x3, x4, x5, x6, x7
<1>4. Leads(Roads(s), <<x1>>, Updated(l), n)
  BY <1>1, <1>2, EdgeLeads
<1>5. Leads(Roads(s), <<x2, x3, x4, x5>>, n, n)
  <2>1. <<x2, x3, x4, x5>> \in Seq(Statements) /\ Len(<<x2, x3, x4, x5>>) = 4
    BY <1>1
  <2>2. \A k \in 1 .. 4 : <<<<n, r, w, n, n>>[k], <<x2, x3, x4, x5>>[k], <<n, r, w, n, n>>[k + 1]>> \in Roads(s)
    <3>1. \A k \in 1 .. 4 :
               /\ <<x2, x3, x4, x5>>[k] \in Statements
               /\ Edge(s, <<n, r, w, n, n>>[k], <<x2, x3, x4, x5>>[k], <<n, r, w, n, n>>[k + 1])
      BY <1>1, <1>2
    <3> QED
      BY <3>1, EdgeIsRoad
  <2>3. Walk(Roads(s), <<x2, x3, x4, x5>>, <<n, r, w, n, n>>, n, n)
    BY <2>1, <2>2 DEF Walk
  <2> QED
    BY <2>1, <2>3 DEF Leads
<1>6. Leads(Roads(s), <<x6, x7>>, o, Between)
  <2>1. <<x6, x7>> \in Seq(Statements) /\ Len(<<x6, x7>>) = 2
    BY <1>1
  <2>2. \A k \in 1 .. 2 : <<<<o, c, Between>>[k], <<x6, x7>>[k], <<o, c, Between>>[k + 1]>> \in Roads(s)
    <3>1. \A k \in 1 .. 2 :
               /\ <<x6, x7>>[k] \in Statements
               /\ Edge(s, <<o, c, Between>>[k], <<x6, x7>>[k], <<o, c, Between>>[k + 1])
      BY <1>1, <1>2
    <3> QED
      BY <3>1, EdgeIsRoad
  <2>3. Walk(Roads(s), <<x6, x7>>, <<o, c, Between>>, o, Between)
    BY <2>1, <2>2 DEF Walk
  <2> QED
    BY <2>1, <2>3 DEF Leads
<1>7. Leads(Roads(s), <<x1>> \o ForAxes(s, "collect", l), Updated(l), n)
  BY <1>3, <1>4, ConcatLeads
<1>8. Leads(Roads(s), <<x1>> \o ForAxes(s, "collect", l) \o <<x2, x3, x4, x5>>, Updated(l), n)
  BY <1>5, <1>7, ConcatLeads
<1>9. Leads(Roads(s), <<x1>> \o ForAxes(s, "collect", l) \o <<x2, x3, x4, x5>> \o ExchangeMultiGPU(s, l), Updated(l), o)
  BY <1>3, <1>8, ConcatLeads
<1>10. Leads(Roads(s), <<x1>> \o ForAxes(s, "collect", l) \o <<x2, x3, x4, x5>> \o ExchangeMultiGPU(s, l) \o <<x6, x7>>,
             Updated(l), Between)
  BY <1>6, <1>9, ConcatLeads
<1> QED
  BY <1>10 DEF RefinementAndExchange, x1, x2, x3, x4, x5, x6, x7

\* All a level does leads back to where it began.
LEMMA LevelLeads ==
  ASSUME NEW s \in Setups, NEW l \in Levels
  PROVE  Leads(Roads(s), UpdateLevel(s, l), Between, Between)
<1> DEFINE x1 == Statement("postCollisionBC", "legacy", l, "")
           x2 == Statement("swap", "host", l, "")
           x3 == Statement("preCollisionBC", "legacy", l, "")
           o  == Open("collision", l, "done")
<1>1. x1 \in Statements /\ x2 \in Statements /\ x3 \in Statements
  BY StatementTyped DEF Kernels, HostCalls
<1>2. Leads(Roads(s), BoundaryCondition(s, l, "postCollisionBC"), o, Swapping(s, l))
  <2>1. CASE l \in s.postCollisionBC
    <3>1. ClosingEdge(s, o, x1, Swapping(s, l), l)
      BY <2>1 DEF ClosingEdge, Swapping
    <3>2. BoundaryCondition(s, l, "postCollisionBC") = <<x1>>
      BY <2>1 DEF BoundaryCondition
    <3>3. Edge(s, o, x1, Swapping(s, l))
      BY <3>1 DEF Edge
    <3> QED
      BY <1>1, <3>2, <3>3, EdgeLeads
  <2>2. CASE l \notin s.postCollisionBC
    BY <2>2, EmptyLeads DEF BoundaryCondition, Swapping
  <2> QED
    BY <2>1, <2>2
<1>3. Leads(Roads(s), <<x2>>, Swapping(s, l), Swapped(s, l))
  <2>1. ClosingEdge(s, Swapping(s, l), x2, Swapped(s, l), l)
    BY DEF ClosingEdge
  <2>2. Edge(s, Swapping(s, l), x2, Swapped(s, l))
    BY <2>1 DEF Edge
  <2> QED
    BY <1>1, <2>2, EdgeLeads
<1>4. Leads(Roads(s), BoundaryCondition(s, l, "preCollisionBC"), Swapped(s, l), Updated(l))
  <2>1. CASE l \in s.preCollisionBC
    <3>1. ClosingEdge(s, Swapped(s, l), x3, Updated(l), l)
      BY <2>1 DEF ClosingEdge, Swapped
    <3>2. BoundaryCondition(s, l, "preCollisionBC") = <<x3>>
      BY <2>1 DEF BoundaryCondition
    <3>3. Edge(s, Swapped(s, l), x3, Updated(l))
      BY <3>1 DEF Edge
    <3> QED
      BY <1>1, <3>2, <3>3, EdgeLeads
  <2>2. CASE l \notin s.preCollisionBC
    BY <2>2, EmptyLeads DEF BoundaryCondition, Swapped
  <2> QED
    BY <2>1, <2>2
<1>5. Leads(Roads(s), IF l = Fine THEN << >> ELSE RefinementAndExchange(s, l), Updated(l), Between)
  <2>1. CASE l = Fine
    BY <2>1, EmptyLeads DEF Updated
  <2>2. CASE l # Fine
    BY <2>2, RefinementLeads
  <2> QED
    BY <2>1, <2>2
<1>6. Leads(Roads(s), CollisionAndExchange(s, l), Between, o)
  BY CollisionLeads
<1> HIDE DEF o, x1, x2, x3
<1>7. Leads(Roads(s), CollisionAndExchange(s, l) \o BoundaryCondition(s, l, "postCollisionBC"), Between, Swapping(s, l))
  BY <1>2, <1>6, ConcatLeads
<1>8. Leads(Roads(s), CollisionAndExchange(s, l) \o BoundaryCondition(s, l, "postCollisionBC") \o <<x2>>, Between, Swapped(s, l))
  BY <1>3, <1>7, ConcatLeads
<1>9. Leads(Roads(s), CollisionAndExchange(s, l) \o BoundaryCondition(s, l, "postCollisionBC") \o <<x2>>
               \o BoundaryCondition(s, l, "preCollisionBC"), Between, Updated(l))
  BY <1>4, <1>8, ConcatLeads
<1>10. Leads(Roads(s), CollisionAndExchange(s, l) \o BoundaryCondition(s, l, "postCollisionBC") \o <<x2>>
                \o BoundaryCondition(s, l, "preCollisionBC")
                \o (IF l = Fine THEN << >> ELSE RefinementAndExchange(s, l)), Between, Between)
  BY <1>5, <1>9, ConcatLeads
<1> QED
  BY <1>10 DEF UpdateLevel, x2

-----------------------------------------------------------------------------
(* The recursion *)

\* What updateGrid does from level l on, if f says it for the finer levels.
Recursion(s, f, l) == IF l = Fine THEN UpdateLevel(s, l) ELSE f[l + 1] \o f[l + 1] \o UpdateLevel(s, l)
Solution(s, f)     == f = [l \in Levels |-> Recursion(s, f, l)]

\* The recursion ends: it defines what is done on every level.
LEMMA RecursionEnds ==
  ASSUME NEW s
  PROVE  \E f : Solution(s, f)
<1> DEFINE Solves(f, k) == \A l \in Fine - k .. Fine : f[l] = Recursion(s, f, l)
           S == { k \in Nat : \E f : Solves(f, k) }
<1>1. Fine \in Nat
  BY FineAssumption
<1>2. 0 \in S
  <2> DEFINE f == [l \in {Fine} |-> UpdateLevel(s, l)]
  <2>1. \A l \in Fine - 0 .. Fine : l = Fine
    BY <1>1
  <2>2. Solves(f, 0)
    BY <2>1 DEF Recursion
  <2> QED
    BY <2>2
<1>3. ASSUME NEW k \in 0 .. Fine - 1, k \in S PROVE k + 1 \in S
  <2>1. PICK f : Solves(f, k)
    BY <1>3
  <2> DEFINE j == Fine - (k + 1)
             g == [l \in j .. Fine |-> IF l = j THEN Recursion(s, f, l) ELSE f[l]]
  <2>2. j \in Nat /\ j # Fine /\ j + 1 = Fine - k /\ j \in j .. Fine /\ j + 1 \in j .. Fine /\ j + 1 # j
    BY <1>1
  <2>3. g[j] = Recursion(s, f, j)
    BY <2>2
  <2>4. \A l \in j + 1 .. Fine : g[l] = f[l]
    BY <2>2
  <2> HIDE DEF g, j
  <2>5. \A l \in j + 1 .. Fine : Recursion(s, g, l) = Recursion(s, f, l)
    <3> TAKE l \in j + 1 .. Fine
    <3>1. l # Fine => l + 1 \in j + 1 .. Fine
      BY <1>1, <2>2
    <3> QED
      BY <2>4, <3>1 DEF Recursion
  <2>6. Recursion(s, g, j) = Recursion(s, f, j)
    <3>1. j + 1 \in j + 1 .. Fine
      BY <1>1, <2>2
    <3> QED
      BY <2>2, <2>4, <3>1 DEF Recursion
  <2>7. \A l \in j .. Fine : g[l] = Recursion(s, g, l)
    <3> TAKE l \in j .. Fine
    <3>1. CASE l = j
      BY <2>3, <2>6, <3>1
    <3>2. CASE l # j
      <4>1. l \in j + 1 .. Fine
        BY <1>1, <2>2, <3>2
      <4>2. f[l] = Recursion(s, f, l)
        BY <2>1, <2>2, <4>1
      <4> QED
        BY <2>4, <2>5, <4>1, <4>2
    <3> QED
      BY <3>1, <3>2
  <2>8. Solves(g, k + 1)
    BY <2>7 DEF j
  <2> QED
    BY <2>8
<1>4. Fine \in S
  <2> HIDE DEF S
  <2>1. 0 .. Fine \subseteq S
    BY <1>1, <1>2, <1>3, SegmentInduction
  <2> QED
    BY <1>1, <2>1
<1>5. PICK f : Solves(f, Fine)
  BY <1>4
<1> DEFINE h == [l \in Levels |-> f[l]]
<1>6. \A l \in Levels : h[l] = f[l] /\ l \in Fine - Fine .. Fine
  BY <1>1 DEF Levels
<1>7. \A l \in Levels : Recursion(s, h, l) = Recursion(s, f, l)
  <2> HIDE DEF h
  <2> TAKE l \in Levels
  <2>1. l # Fine => l + 1 \in Levels
    BY <1>1 DEF Levels
  <2> QED
    BY <1>6, <2>1 DEF Recursion
<1>8. h = [l \in Levels |-> Recursion(s, h, l)]
  BY <1>5, <1>6, <1>7
<1> QED
  BY <1>8 DEF Solution

\* What updateGrid does is what the recursion says of the coarsest level.
LEMMA GridIsRecursion ==
  ASSUME NEW s
  PROVE  \E f : UpdateGrid(s) = f[0] /\ \A l \in Levels : f[l] = Recursion(s, f, l)
<1> DEFINE f == CHOOSE f : Solution(s, f)
<1>1. Solution(s, f)
  BY RecursionEnds
<1>2. UpdateGrid(s) = f[0]
  BY DEF UpdateGrid, Solution, Recursion
<1> HIDE DEF f
<1>3. \A l \in Levels : f[l] = Recursion(s, f, l)
  BY <1>1 DEF Solution
<1> QED
  BY <1>2, <1>3

\* The host goes round.
LEMMA GridLeads ==
  ASSUME NEW s \in Setups
  PROVE  Leads(Roads(s), UpdateGrid(s), Between, Between)
<1>1. PICK f : UpdateGrid(s) = f[0] /\ \A l \in Levels : f[l] = Recursion(s, f, l)
  BY GridIsRecursion
<1> DEFINE S == { k \in Nat : Leads(Roads(s), f[Fine - k], Between, Between) }
<1>2. Fine \in Nat
  BY FineAssumption
<1>3. 0 \in S
  <2>1. Fine - 0 = Fine /\ Fine \in Levels
    BY <1>2 DEF Levels
  <2>2. f[Fine] = UpdateLevel(s, Fine)
    BY <1>1, <2>1 DEF Recursion
  <2> QED
    BY <2>1, <2>2, LevelLeads
<1>4. ASSUME NEW k \in 0 .. Fine - 1, k \in S PROVE k + 1 \in S
  <2> DEFINE l == Fine - (k + 1)
  <2>1. l \in Levels /\ l # Fine /\ l + 1 = Fine - k
    BY <1>2 DEF Levels
  <2> HIDE DEF l
  <2>2. f[l] = f[l + 1] \o f[l + 1] \o UpdateLevel(s, l)
    BY <1>1, <2>1 DEF Recursion
  <2>3. Leads(Roads(s), f[l + 1], Between, Between)
    BY <1>4, <2>1
  <2>4. Leads(Roads(s), f[l + 1] \o f[l + 1], Between, Between)
    BY <2>3, ConcatLeads
  <2>5. Leads(Roads(s), f[l], Between, Between)
    BY <2>1, <2>2, <2>4, LevelLeads, ConcatLeads
  <2> QED
    BY <2>5 DEF l
<1>5. Fine \in S
  <2> HIDE DEF S
  <2>1. 0 .. Fine \subseteq S
    BY <1>2, <1>3, <1>4, SegmentInduction
  <2> QED
    BY <1>2, <2>1
<1>6. Leads(Roads(s), f[Fine - Fine], Between, Between) /\ Fine - Fine = 0
  BY <1>2, <1>5
<1> QED
  BY <1>1, <1>6

-----------------------------------------------------------------------------
(* The invariant *)

Passed(s) == CHOOSE p : Walk(Roads(s), UpdateGrid(s), p, Between, Between)

\* The point at which the host stands.
Place == Passed(setup)[at]

Regions    == [of : {"nodes", "sendDevice", "sendHost", "recvHost", "recvDevice"},
               level : Levels, part : Axes \cup Everywhere, swap : Nat]
Operations == [do : Kernels, stream : {"border", "bulk", "legacy"}, level : Levels,
               reads : SUBSET Regions, writes : SUBSET Regions]

Types ==
  /\ setup \in Setups /\ step \in 1 .. MaxStep /\ at \in 1 .. Len(Program[setup]) + 1
  /\ swaps \in [Levels -> Nat]
  /\ pending \in Seq(Operations)

\* An upload that has not ended is one of the axis before, and nothing on the
\* border stream outlasts the wait of the host.
Previous(a) == IF a = "Y" THEN "X" ELSE IF a = "Z" THEN "Y" ELSE "Z"
HostCopies(n, o) ==
  /\ o.do \in {"download", "record"} => o.stream = "border"
  /\ \A x \in o.writes : x.of = "sendHost" => o.do = "download"
  /\ \A x \in o.reads : x.of = "recvHost" => o.stream = "border" /\ x.part = Previous(n.axis)
Receiving(n) == IF n.place \in {"posted", "synchronized", "sent"} THEN {<<n.level, n.axis>>} ELSE {}
Buffers ==
  /\ posted = Receiving(Place) /\ posted \subseteq Levels \X setup.axes
  /\ Place.place \in {"synchronized", "sent", "received"} => \A i \in DOMAIN pending : pending[i].stream # "border"
  /\ \A i \in DOMAIN pending : HostCopies(Place, pending[i])

\* Nothing from i to j on the legacy stream; nothing behind i.
Quiet(i, j) == \A k \in i .. j : pending[k].stream # "legacy"
Recent(i)   == Quiet(i, Len(pending))

\* Only the bulk kernels and the waiting for their event are on the bulk stream.
OnItsStream(o) ==
  /\ o.do = "wait" => o.stream = "bulk"
  /\ o.stream = "bulk" => o.do \in {"wait", "collideBulk"} /\ o.reads = {} /\ (o.do = "wait" => o.writes = {})
Streams == \A i \in DOMAIN pending : OnItsStream(pending[i])

\* The bulk kernel of a level is either from before the swap or nothing but the
\* exchange came after it.  On a level with boundary nodes it is held off from
\* the next time step.
BulkNodes(l, v) == { [of |-> "nodes", level |-> l, part |-> p, swap |-> v] : p \in NotSent }
WithBoundary    == setup.postCollisionBC \cup setup.preCollisionBC
BulkSince(i, l) ==
  \E v \in 0 .. swaps[l] :
    /\ pending[i].writes = BulkNodes(l, v)
    /\ v = swaps[l] => /\ Place.level = l
                       /\ \/ Place.phase = "collision" /\ Recent(i)
                          \/ Place.place = "swapping"
    /\ l \in WithBoundary /\ Recent(i) => \/ Place.phase = "collision" /\ v = swaps[l]
                                          \/ Place.place = "swapped"
Bulks ==
  \A i \in DOMAIN pending : pending[i].do = "collideBulk" =>
    /\ pending[i].stream = "bulk" /\ pending[i].level \in Levels
    /\ BulkSince(i, pending[i].level)

\* What the border stream works on beside a bulk kernel: on the nodes of this time
\* step, and on ghost nodes only to scatter.
Beside(n, o) ==
  \A x \in o.reads \cup o.writes : x.of = "nodes" =>
    /\ x.level = n.level /\ x.swap = swaps[n.level]
    /\ x.part = "border" \/ (x.part = "ghost" /\ o.do = "scatter")
Overtakes ==
  \A i, j \in DOMAIN pending :
    i < j /\ Quiet(i, j) /\ pending[i].do = "collideBulk" /\ pending[i].level \in WithBoundary
    /\ pending[j].stream = "border" /\ Conflict(pending[i], pending[j]) => OnGhosts(pending[i], pending[j])

\* Behind all that was issued on the border stream before i there is still an
\* operation do, so that i cannot start before them if it waits for that one.
HeldBy(do, i) ==
  \A j \in 1 .. i - 1 : pending[j].stream = "border" => \E k \in j .. i - 1 : pending[k].do = do
Events ==
  /\ \A i \in DOMAIN pending : pending[i].do = "wait" => HeldBy("record", i)
  /\ \A i \in DOMAIN pending : pending[i].do = "collideBulk" => HeldBy("wait", i)
  /\ Place.place = "recorded" => HeldBy("record", Len(pending) + 1)
  /\ Place.place = "waited" => HeldBy("wait", Len(pending) + 1)

Inv == Types /\ Buffers /\ Streams /\ Bulks /\ Overtakes /\ Events

-----------------------------------------------------------------------------
(* The steps of the host and the device *)

\* At the beginning and at the end of its program the host stands between two updates.
LEMMA Round ==
  ASSUME NEW s \in Setups
  PROVE  /\ Program[s] = UpdateGrid(s) /\ Program[s] \in Seq(Statements) /\ Len(Program[s]) \in Nat
         /\ Walk(Roads(s), Program[s], Passed(s), Between, Between)
<1>1. Program[s] = UpdateGrid(s)
  BY DEF Program
<1>2. Leads(Roads(s), UpdateGrid(s), Between, Between)
  BY GridLeads
<1>3. UpdateGrid(s) \in Seq(Statements) /\ \E p : Walk(Roads(s), UpdateGrid(s), p, Between, Between)
  BY <1>2 DEF Leads
<1>4. Walk(Roads(s), UpdateGrid(s), Passed(s), Between, Between)
  BY <1>3 DEF Passed
<1> QED
  BY <1>1, <1>3, <1>4, LenProperties

\* A step of the host goes along an edge.
LEMMA HostMoves ==
  ASSUME Types, NEW do, Doing(do), Advance, setup' = setup
  PROVE  /\ Current \in Statements /\ Current.do = do
         /\ Edge(setup, Place, Current, Place')
         /\ step' \in 1 .. MaxStep /\ at' \in 1 .. Len(Program[setup]) + 1
<1> DEFINE n == Len(Program[setup])
           p == Passed(setup)
<1>1. n \in Nat /\ Program[setup] \in Seq(Statements) /\ Walk(Roads(setup), Program[setup], p, Between, Between)
  BY Round DEF Types
<1>2. at \in 1 .. n /\ step \in 1 .. MaxStep /\ MaxStep \in Nat /\ Current.do = do
  BY <1>1, MaxStepAssumption DEF Types, Doing
<1>3. Current = Program[setup][at]
  BY DEF Current
<1>4. Edge(setup, p[at], Current, p[at + 1])
  BY <1>1, <1>2, <1>3 DEF Walk, Roads
<1>5. p[1] = p[n + 1]
  BY <1>1 DEF Walk
<1>6. at' = at + 1 \/ (at = n /\ at' = 1)
  BY <1>1, <1>2 DEF Advance
<1>7. p[at'] = p[at + 1]
  BY <1>5, <1>6
<1>8. Place = p[at] /\ Place' = p[at']
  BY DEF Place
<1>9. Current \in Statements
  BY <1>1, <1>2, <1>3, ElementOfSeq
<1>10. step' \in 1 .. MaxStep /\ at' \in 1 .. n + 1
  BY <1>1, <1>2 DEF Advance
<1> QED
  BY <1>2, <1>4, <1>7, <1>8, <1>9, <1>10

\* Where an operation was before the e-th ended.
Kept(e, k) == IF k < e THEN k ELSE k + 1

\* The operations that stay when the e-th ends.
LEMMA Ended ==
  ASSUME Types, NEW e \in DOMAIN pending, Execute(e)
  PROVE  /\ Len(pending) \in Nat /\ DOMAIN pending = 1 .. Len(pending)
         /\ pending' \in Seq(Operations) /\ Len(pending') = Len(pending) - 1
         /\ DOMAIN pending' = 1 .. Len(pending) - 1
         /\ \A k \in 1 .. Len(pending) - 1 : Kept(e, k) \in DOMAIN pending /\ pending'[k] = pending[Kept(e, k)]
<1> DEFINE n == Len(pending)
           a == SubSeq(pending, 1, e - 1)
           b == SubSeq(pending, e + 1, n)
<1>1. pending \in Seq(Operations) /\ n \in Nat /\ DOMAIN pending = 1 .. n
  BY LenProperties DEF Types
<1>2. e \in 1 .. n
  BY <1>1
<1>3. a \in Seq(Operations) /\ Len(a) = e - 1 /\ \A k \in 1 .. e - 1 : a[k] = pending[k]
  <2>1. \A k \in 1 .. e - 1 : pending[k] \in Operations
    BY <1>1, <1>2, ElementOfSeq
  <2> QED
    BY <1>1, <1>2, <2>1
<1>4. b \in Seq(Operations) /\ Len(b) = n - e /\ \A k \in 1 .. n - e : b[k] = pending[e + k]
  <2>1. \A k \in e + 1 .. n : pending[k] \in Operations
    BY <1>1, <1>2, ElementOfSeq
  <2>2. b \in Seq(Operations) /\ Len(b) = n - e
    BY <1>1, <1>2, <2>1
  <2>3. ASSUME NEW k \in 1 .. n - e PROVE b[k] = pending[e + k]
    <3>1. b[k] = pending[(e + 1) + k - 1] /\ (e + 1) + k - 1 = e + k
      BY <1>1, <1>2
    <3> QED
      BY <3>1
  <2> QED
    BY <2>2, <2>3
<1>5. pending' = a \o b
  BY DEF Execute
<1> HIDE DEF a, b, n
<1>6. /\ a \o b \in Seq(Operations) /\ Len(a \o b) = Len(a) + Len(b)
      /\ \A k \in 1 .. Len(a) + Len(b) : (a \o b)[k] = IF k <= Len(a) THEN a[k] ELSE b[k - Len(a)]
  BY <1>3, <1>4, ConcatProperties, Zenon
<1>7. Len(a) + Len(b) = n - 1
  BY <1>1, <1>2, <1>3, <1>4
<1>8. ASSUME NEW k \in 1 .. n - 1
      PROVE  Kept(e, k) \in 1 .. n /\ (a \o b)[k] = pending[Kept(e, k)]
  <2>1. CASE k < e
    BY <1>1, <1>2, <1>3, <1>6, <1>7, <2>1 DEF Kept
  <2>2. CASE ~(k < e)
    <3>1. k - (e - 1) \in 1 .. n - e /\ e + (k - (e - 1)) = k + 1 /\ ~(k <= e - 1)
      BY <1>1, <1>2, <2>2
    <3>2. (a \o b)[k] = b[k - (e - 1)]
      BY <1>3, <1>6, <1>7, <3>1
    <3>3. b[k - (e - 1)] = pending[k + 1]
      BY <1>4, <3>1
    <3> QED
      BY <1>1, <2>2, <3>2, <3>3 DEF Kept
  <2> QED
    BY <2>1, <2>2
<1>9. DOMAIN (a \o b) = 1 .. n - 1
  BY <1>6, <1>7, LenProperties
<1> QED
  BY <1>1, <1>5, <1>6, <1>7, <1>8, <1>9 DEF n

\* An operation that is launched comes last.
LEMMA Appended ==
  ASSUME Types, NEW o \in Operations, pending' = Append(pending, o)
  PROVE  /\ Len(pending) \in Nat /\ DOMAIN pending = 1 .. Len(pending)
         /\ pending' \in Seq(Operations) /\ Len(pending') = Len(pending) + 1
         /\ DOMAIN pending' = 1 .. Len(pending) + 1
         /\ \A k \in 1 .. Len(pending) : pending'[k] = pending[k]
         /\ pending'[Len(pending) + 1] = o
<1>1. pending \in Seq(Operations)
  BY DEF Types
<1>2. Len(pending) \in Nat /\ DOMAIN pending = 1 .. Len(pending)
  BY <1>1, LenProperties
<1>3. /\ Append(pending, o) \in Seq(Operations) /\ Len(Append(pending, o)) = Len(pending) + 1
      /\ \A k \in 1 .. Len(pending) : Append(pending, o)[k] = pending[k]
      /\ Append(pending, o)[Len(pending) + 1] = o
  BY <1>1, <1>2, AppendProperties
<1>4. DOMAIN Append(pending, o) = 1 .. Len(pending) + 1
  BY <1>3, LenProperties
<1> QED
  BY <1>2, <1>3, <1>4

\* What stays quiet behind an operation has been quiet: an operation on the
\* legacy stream ends only when it is the first.
LEMMA QuietBefore ==
  ASSUME Types, NEW e \in DOMAIN pending, Execute(e), NEW i \in DOMAIN pending'
  PROVE  /\ Recent(i)' <=> Recent(Kept(e, i))
         /\ \A j \in DOMAIN pending' : i =< j /\ Quiet(i, j)' => Quiet(Kept(e, i), Kept(e, j))
<1> DEFINE n == Len(pending)
<1>1. /\ n \in Nat /\ DOMAIN pending = 1 .. n /\ e \in 1 .. n /\ i \in 1 .. n - 1 /\ Len(pending') = n - 1
      /\ DOMAIN pending' = 1 .. n - 1 /\ \A k \in 1 .. n - 1 : pending'[k] = pending[Kept(e, k)]
  BY Ended
<1>2. ASSUME NEW m \in Kept(e, i) .. n, m = e PROVE pending[m].stream # "legacy"
  <2>1. i < e /\ i \in 1 .. e - 1
    BY <1>1, <1>2 DEF Kept
  <2>2. ~Orders(pending[i], pending[e])
    BY <2>1 DEF Execute, Ready
  <2> QED
    BY <1>2, <2>2 DEF Orders
<1>3. ASSUME NEW m \in Kept(e, i) .. n, m # e
      PROVE  \E k \in i .. n - 1 : m = Kept(e, k)
  <2>1. CASE m < e
    <3>1. m \in i .. n - 1 /\ Kept(e, m) = m
      BY <1>1, <2>1 DEF Kept
    <3> QED
      BY <3>1
  <2>2. CASE m > e
    <3>1. m - 1 \in i .. n - 1 /\ Kept(e, m - 1) = m
      BY <1>1, <2>2 DEF Kept
    <3> QED
      BY <3>1
  <2> QED
    BY <1>1, <1>3, <2>1, <2>2
<1>4. ASSUME Recent(i)' PROVE Recent(Kept(e, i))
  <2>1. \A k \in i .. n - 1 : pending[Kept(e, k)].stream # "legacy"
    <3>1. \A k \in i .. n - 1 : pending'[k].stream # "legacy" /\ k \in 1 .. n - 1
      BY <1>1, <1>4 DEF Recent, Quiet
    <3> QED
      BY <1>1, <3>1
  <2> QED
    BY <1>2, <1>3, <2>1 DEF Recent, Quiet
<1>6. ASSUME Recent(Kept(e, i)) PROVE Recent(i)'
  <2>1. \A k \in i .. n - 1 : Kept(e, k) \in Kept(e, i) .. n /\ k \in 1 .. n - 1
    BY <1>1 DEF Kept
  <2>2. \A k \in i .. n - 1 : pending'[k].stream # "legacy"
    BY <1>1, <1>6, <2>1 DEF Recent, Quiet
  <2> QED
    BY <1>1, <2>2 DEF Recent, Quiet
<1>5. ASSUME NEW j \in 1 .. n - 1, i =< j, Quiet(i, j)' PROVE Quiet(Kept(e, i), Kept(e, j))
  <2>1. \A k \in i .. j : pending[Kept(e, k)].stream # "legacy"
    <3>1. \A k \in i .. j : pending'[k].stream # "legacy" /\ k \in 1 .. n - 1
      BY <1>1, <1>5 DEF Quiet
    <3> QED
      BY <1>1, <3>1
  <2>2. ASSUME NEW m \in Kept(e, i) .. Kept(e, j), m # e PROVE pending[m].stream # "legacy"
    <3>1. m \in Kept(e, i) .. n
      BY <1>1 DEF Kept
    <3>2. PICK k \in i .. n - 1 : m = Kept(e, k)
      BY <1>3, <2>2, <3>1
    <3>3. k =< j
      BY <1>1, <3>2 DEF Kept
    <3> QED
      BY <1>1, <2>1, <3>2, <3>3
  <2>3. ASSUME NEW m \in Kept(e, i) .. Kept(e, j) PROVE m \in Kept(e, i) .. n
    BY <1>1 DEF Kept
  <2> QED
    BY <1>2, <2>2, <2>3 DEF Quiet
<1> QED
  BY <1>1, <1>4, <1>5, <1>6

\* The next statement leads on from where the host stands.
LEMMA Stands ==
  ASSUME Types, NEW do, Doing(do)
  PROVE  Current.do = do /\ Edge(setup, Place, Current, Passed(setup)[at + 1])
<1>1. Len(Program[setup]) \in Nat /\ Walk(Roads(setup), Program[setup], Passed(setup), Between, Between)
  BY Round DEF Types
<1>2. at \in 1 .. Len(Program[setup]) /\ Current.do = do
  BY <1>1 DEF Types, Doing
<1> QED
  BY <1>1, <1>2 DEF Walk, Roads, Current, Place

-----------------------------------------------------------------------------
(* What is launched *)

Launched == [do |-> Current.do, stream |-> Current.stream, level |-> Current.level,
             reads |-> Reads(Current), writes |-> Writes(Current)]

\* What a kernel reads and writes, one by one.
LEMMA Touches ==
  ASSUME NEW x
  PROVE  /\ x.do = "collideBorder" => Reads(x) = {} /\ Writes(x) = NodesOf(x.level, {"border"})
         /\ x.do = "collideBulk" => Reads(x) = {} /\ Writes(x) = NodesOf(x.level, NotSent)
         /\ x.do = "collect" =>
              /\ Reads(x) = NodesOf(x.level, {"border"})
              /\ Writes(x) = {Buffer("sendDevice", x.level, x.axis)}
         /\ x.do = "download" =>
              /\ Reads(x) = {Buffer("sendDevice", x.level, x.axis)}
              /\ Writes(x) = {Buffer("sendHost", x.level, x.axis)}
         /\ x.do = "upload" =>
              /\ Reads(x) = {Buffer("recvHost", x.level, x.axis)}
              /\ Writes(x) = {Buffer("recvDevice", x.level, x.axis)}
         /\ x.do = "scatter" =>
              /\ Reads(x) = {Buffer("recvDevice", x.level, x.axis)}
              /\ Writes(x) = NodesOf(x.level, Received)
         /\ x.do \in {"record", "wait"} => Reads(x) = {} /\ Writes(x) = {}
         /\ x.do \in {"postCollisionBC", "preCollisionBC"} => Reads(x) = {} /\ Writes(x) = NodesOf(x.level, Everywhere)
         /\ x.do = "fineToCoarseBorder" =>
              /\ Reads(x) = NodesOf(x.level + 1, Everywhere)
              /\ Writes(x) = NodesOf(x.level, {"border"})
         /\ x.do = "fineToCoarseBulk" =>
              /\ Reads(x) = NodesOf(x.level + 1, Everywhere)
              /\ Writes(x) = NodesOf(x.level, NotSent)
         /\ x.do = "coarseToFineBorder" =>
              /\ Reads(x) = NodesOf(x.level, Everywhere)
              /\ Writes(x) = NodesOf(x.level + 1, Everywhere)
         /\ x.do = "coarseToFineBulk" =>
              /\ Reads(x) = NodesOf(x.level, NotSent)
              /\ Writes(x) = NodesOf(x.level + 1, Everywhere)
BY DEF Reads, Writes

\* The nodes of a level, and buffers, are regions.
LEMMA RegionsTyped ==
  ASSUME Types, NEW l \in Levels
  PROVE  /\ \A parts \in SUBSET Everywhere : NodesOf(l, parts) \subseteq Regions
         /\ \A parts : \A y \in NodesOf(l, parts) : y.of = "nodes" /\ y.level = l /\ y.part \in parts /\ y.swap = swaps[l]
         /\ \A name \in {"sendDevice", "sendHost", "recvHost", "recvDevice"}, a \in Axes :
              /\ Buffer(name, l, a) \in Regions
              /\ Buffer(name, l, a).of = name /\ Buffer(name, l, a).part = a
BY DEF Types, NodesOf, Regions, Buffer

\* What holds of an operation o that is launched between the points n and m.
Touching(n, o, m) ==
  /\ o \in Operations
  /\ HostCopies(m, o) /\ OnItsStream(o)
  /\ o.do = "collideBulk" =>
       /\ o.stream = "bulk" /\ o.level \in Levels /\ o.writes = BulkNodes(o.level, swaps[o.level])
       /\ n.level = o.level /\ m.level = o.level /\ m.phase = "collision"
  /\ n.phase = "collision" /\ o.stream = "border" => Beside(n, o)
Passing(n, o, m) ==
  /\ n.place \notin {"posted", "synchronized", "sent", "swapping"}
  /\ m.place \notin {"posted", "synchronized", "sent", "received"}
  /\ n.place = "received" \/ Previous(m.axis) = Previous(n.axis)
  /\ n.phase = "collision" => m.level = n.level /\ ((m.phase = "collision" /\ o.stream # "legacy") \/ m.place = "swapping")
  /\ n.place = "swapped" \/ m.place = "swapping" => o.stream = "legacy"
  /\ o.do = "wait" => n.place = "recorded"
  /\ o.do = "collideBulk" => n.place = "waited"
  /\ m.place = "recorded" => o.do = "record"
  /\ m.place = "waited" => o.do = "wait"

\* Kernels of the collision.
LEMMA KernelTouches ==
  ASSUME Types, NEW l \in Levels, NEW ph \in Phases, NEW a \in Axes, NEW n, NEW m,
         KernelEdge(setup, n, Current, m, ph, l, a)
  PROVE  Touching(n, Launched, m) /\ Passing(n, Launched, m)
<1> DEFINE x == Current
           o == Launched
           finer == NodesOf(l + 1, Everywhere)
<1>1. /\ o.do = x.do /\ o.stream = x.stream /\ o.level = x.level /\ o.reads = Reads(x) /\ o.writes = Writes(x)
      /\ o = [do |-> o.do, stream |-> o.stream, level |-> o.level, reads |-> o.reads, writes |-> o.writes]
  BY DEF Launched
<1>2. /\ \A parts \in SUBSET Everywhere : NodesOf(l, parts) \subseteq Regions
      /\ \A parts : \A y \in NodesOf(l, parts) : y.of = "nodes" /\ y.level = l /\ y.part \in parts /\ y.swap = swaps[l]
      /\ \A name \in {"sendDevice", "sendHost", "recvHost", "recvDevice"} :
           /\ Buffer(name, l, a) \in Regions
           /\ Buffer(name, l, a).of = name /\ Buffer(name, l, a).part = a
  BY RegionsTyped
<1>3. \A do, stream, b : LET st == Statement(do, stream, l, b)
                         IN st.do = do /\ st.stream = stream /\ st.level = l /\ st.axis = b
  BY DEF Statement
<1>4. NodesOf(l, NotSent) = BulkNodes(l, swaps[l])
  BY DEF NodesOf, BulkNodes
<1>5. {"border"} \subseteq Everywhere /\ NotSent \subseteq Everywhere /\ Received \subseteq Everywhere
  BY DEF Everywhere, NotSent, Received
<1>6. \A phase, place, b : LET p == Point(phase, place, l, b)
                           IN p.phase = phase /\ p.place = place /\ p.level = l /\ p.axis = b
  BY DEF Point
<1>7. l # Fine => finer \subseteq Regions /\ \A y \in finer : y.of = "nodes"
  <2>1. l # Fine => l + 1 \in Levels
    BY FineAssumption DEF Levels
  <2> QED
    BY <2>1, RegionsTyped
<1> HIDE DEF o, x, finer
<1>8. CASE x = Statement("collideBorder", "border", l, "") /\ n = Between /\ m = Open("collision", l, "X")
  <2>1. o.do = "collideBorder" /\ o.stream = "border" /\ o.level = l /\ o.reads = {} /\ o.writes = NodesOf(l, {"border"})
    BY <1>1, <1>8, Touches DEF x, Statement
  <2>2. o \in Operations
    BY <1>1, <1>2, <1>5, <2>1 DEF Operations, Kernels
  <2>3. /\ m.phase = "collision" /\ m.place = "open" /\ m.level = l /\ m.axis = "X"
        /\ n.phase = "none" /\ n.place = "between"
    BY <1>8 DEF Open, Point, Between
  <2>4. Touching(n, o, m)
    BY <1>2, <2>1, <2>2, <2>3 DEF Touching, HostCopies, OnItsStream
  <2>5. Passing(n, o, m)
    BY <1>8, <2>1, <2>3 DEF Passing, Between, Point, Previous
  <2> QED
    BY <2>4, <2>5 DEF o
<1>15. /\ NodesOf(l, {"border"}) \subseteq Regions /\ NodesOf(l, NotSent) \subseteq Regions
       /\ \A parts : \A y \in NodesOf(l, parts) : y.of = "nodes"
  BY <1>2, <1>5
<1>9. CASE x = Statement("fineToCoarseBorder", "border", l, "") /\ l # Fine
           /\ n = Point("none", "coupling", l, "") /\ m = Open("refinement", l, "X")
  <2>1. /\ o.do = "fineToCoarseBorder" /\ o.stream = "border" /\ o.level = l
        /\ o.reads = finer /\ o.writes = NodesOf(l, {"border"})
    BY <1>1, <1>9, Touches DEF x, Statement, finer
  <2>2. o \in Operations
    BY <1>1, <1>7, <1>9, <1>15, <2>1 DEF Operations, Kernels
  <2>3. /\ m.phase = "refinement" /\ m.place = "open" /\ m.level = l /\ m.axis = "X"
        /\ n.phase = "none" /\ n.place = "coupling"
    BY <1>9 DEF Open, Point
  <2>6. \A y \in o.reads \cup o.writes : y.of = "nodes"
    BY <1>7, <1>9, <1>15, <2>1
  <2>4. Touching(n, o, m)
    BY <2>1, <2>2, <2>3, <2>6 DEF Touching, HostCopies, OnItsStream
  <2>5. Passing(n, o, m)
    BY <1>9, <2>1, <2>3 DEF Passing, Previous, Point
  <2> QED
    BY <2>4, <2>5 DEF o
<1>10. CASE x = Statement("collect", "border", l, a) /\ n = Open(ph, l, "X") /\ m = n
  <2>1. /\ o.do = "collect" /\ o.stream = "border" /\ o.level = l
        /\ o.reads = NodesOf(l, {"border"}) /\ o.writes = {Buffer("sendDevice", l, a)}
    BY <1>1, <1>10, Touches DEF x, Statement
  <2>2. o \in Operations
    BY <1>1, <1>2, <1>5, <2>1 DEF Operations, Kernels
  <2>3. m.phase = ph /\ m.place = "open" /\ m.level = l /\ m.axis = "X" /\ m = n
    BY <1>10 DEF Open, Point
  <2>4. Touching(n, o, m)
    BY <1>2, <2>1, <2>2, <2>3 DEF Touching, HostCopies, OnItsStream, Beside
  <2>5. Passing(n, o, m)
    BY <2>1, <2>3 DEF Passing
  <2> QED
    BY <2>4, <2>5 DEF o
<1>11. CASE x = Statement("record", "border", l, "") /\ n = Open(ph, l, "X") /\ m = Point(ph, "recorded", l, "X")
  <2>1. o.do = "record" /\ o.stream = "border" /\ o.level = l /\ o.reads = {} /\ o.writes = {}
    BY <1>1, <1>11, Touches DEF x, Statement
  <2>2. o \in Operations
    BY <1>1, <2>1 DEF Operations, Kernels
  <2>3. /\ m.phase = ph /\ m.place = "recorded" /\ m.level = l /\ m.axis = "X"
        /\ n.phase = ph /\ n.place = "open" /\ n.level = l /\ n.axis = "X"
    BY <1>11 DEF Open, Point
  <2>4. Touching(n, o, m)
    BY <2>1, <2>2, <2>3 DEF Touching, HostCopies, OnItsStream, Beside
  <2>5. Passing(n, o, m)
    BY <2>1, <2>3 DEF Passing
  <2> QED
    BY <2>4, <2>5 DEF o
<1>16. CASE x = Statement("wait", "bulk", l, "") /\ n = Point(ph, "recorded", l, "X") /\ m = Point(ph, "waited", l, "X")
  <2>1. o.do = "wait" /\ o.stream = "bulk" /\ o.level = l /\ o.reads = {} /\ o.writes = {}
    BY <1>1, <1>16, Touches DEF x, Statement
  <2>2. o \in Operations
    BY <1>1, <2>1 DEF Operations, Kernels
  <2>3. /\ m.phase = ph /\ m.place = "waited" /\ m.level = l /\ m.axis = "X"
        /\ n.phase = ph /\ n.place = "recorded" /\ n.level = l /\ n.axis = "X"
    BY <1>16 DEF Point
  <2>4. Touching(n, o, m)
    BY <2>1, <2>2, <2>3 DEF Touching, HostCopies, OnItsStream
  <2>5. Passing(n, o, m)
    BY <2>1, <2>3 DEF Passing
  <2> QED
    BY <2>4, <2>5 DEF o
<1>12. CASE x = Statement("collideBulk", "bulk", l, "")
            /\ n = Point("collision", "waited", l, "X") /\ m = Open("collision", l, "X")
  <2>1. o.do = "collideBulk" /\ o.stream = "bulk" /\ o.level = l /\ o.reads = {} /\ o.writes = NodesOf(l, NotSent)
    BY <1>1, <1>12, Touches DEF x, Statement
  <2>2. o \in Operations
    BY <1>1, <1>15, <2>1 DEF Operations, Kernels
  <2>3. /\ m.phase = "collision" /\ m.place = "open" /\ m.level = l /\ m.axis = "X"
        /\ n.phase = "collision" /\ n.place = "waited" /\ n.level = l /\ n.axis = "X"
    BY <1>12 DEF Open, Point
  <2>4. Touching(n, o, m)
    BY <1>4, <1>15, <2>1, <2>2, <2>3 DEF Touching, HostCopies, OnItsStream
  <2>5. Passing(n, o, m)
    BY <2>1, <2>3 DEF Passing
  <2> QED
    BY <2>4, <2>5 DEF o
<1>13. CASE x = Statement("fineToCoarseBulk", "border", l, "") /\ l # Fine
            /\ n = Point("refinement", "waited", l, "X") /\ m = Open("refinement", l, "X")
  <2>1. /\ o.do = "fineToCoarseBulk" /\ o.stream = "border" /\ o.level = l
        /\ o.reads = finer /\ o.writes = NodesOf(l, NotSent)
    BY <1>1, <1>13, Touches DEF x, Statement, finer
  <2>2. o \in Operations
    BY <1>1, <1>7, <1>13, <1>15, <2>1 DEF Operations, Kernels
  <2>3. /\ m.phase = "refinement" /\ m.place = "open" /\ m.level = l /\ m.axis = "X"
        /\ n.phase = "refinement" /\ n.place = "waited" /\ n.level = l /\ n.axis = "X"
    BY <1>13 DEF Open, Point
  <2>4. \A y \in o.reads \cup o.writes : y.of = "nodes"
    BY <1>7, <1>13, <1>15, <2>1
  <2>5. Touching(n, o, m)
    BY <2>1, <2>2, <2>3, <2>4 DEF Touching, HostCopies, OnItsStream
  <2>6. Passing(n, o, m)
    BY <2>1, <2>3 DEF Passing
  <2> QED
    BY <2>5, <2>6 DEF o
<1>17. CASE x = Statement("coarseToFineBulk", "border", l, "") /\ l # Fine /\ n = Open("refinement", l, "X") /\ m = n
  <2>1. /\ o.do = "coarseToFineBulk" /\ o.stream = "border" /\ o.level = l
        /\ o.reads = NodesOf(l, NotSent) /\ o.writes = finer
    BY <1>1, <1>17, Touches DEF x, Statement, finer
  <2>2. o \in Operations
    BY <1>1, <1>7, <1>17, <1>15, <2>1 DEF Operations, Kernels
  <2>3. m.phase = "refinement" /\ m.place = "open" /\ m.level = l /\ m.axis = "X" /\ m = n
    BY <1>17 DEF Open, Point
  <2>4. \A y \in o.reads \cup o.writes : y.of = "nodes"
    BY <1>7, <1>17, <1>15, <2>1
  <2>5. Touching(n, o, m)
    BY <2>1, <2>2, <2>3, <2>4 DEF Touching, HostCopies, OnItsStream
  <2>6. Passing(n, o, m)
    BY <2>1, <2>3 DEF Passing
  <2> QED
    BY <2>5, <2>6 DEF o
<1>14. CASE x = Statement("scatter", "border", l, a) /\ n = Open(ph, l, "done") /\ m = n
  <2>1. /\ o.do = "scatter" /\ o.stream = "border" /\ o.level = l
        /\ o.reads = {Buffer("recvDevice", l, a)} /\ o.writes = NodesOf(l, Received)
    BY <1>1, <1>14, Touches DEF x, Statement, finer
  <2>2. o \in Operations
    BY <1>1, <1>2, <1>5, <2>1 DEF Operations, Kernels
  <2>3. m.phase = ph /\ m.place = "open" /\ m.level = l /\ m.axis = "done" /\ m = n
    BY <1>14 DEF Open, Point
  <2>4. Touching(n, o, m)
    BY <1>2, <2>1, <2>2, <2>3 DEF Touching, HostCopies, OnItsStream, Beside, Received
  <2>5. Passing(n, o, m)
    BY <2>1, <2>3 DEF Passing
  <2> QED
    BY <2>4, <2>5 DEF o
<1> QED
  BY <1>8, <1>9, <1>10, <1>11, <1>16, <1>12, <1>13, <1>17, <1>14 DEF KernelEdge, x

\* Copies between the device and the host.
LEMMA CopyTouches ==
  ASSUME Types, NEW l \in Levels, NEW ph \in Phases, NEW a \in Axes, NEW n, NEW m,
         ExchangeEdge(setup, n, Current, m, ph, l, a), Current.do \in Kernels
  PROVE  Touching(n, Launched, m) /\ Passing(n, Launched, m)
<1> DEFINE x == Current
           o == Launched
<1>1. /\ o.do = x.do /\ o.stream = x.stream /\ o.level = x.level /\ o.reads = Reads(x) /\ o.writes = Writes(x)
      /\ o = [do |-> o.do, stream |-> o.stream, level |-> o.level, reads |-> o.reads, writes |-> o.writes]
  BY DEF Launched
<1>2. \A name \in {"sendDevice", "sendHost", "recvHost", "recvDevice"} :
        /\ Buffer(name, l, a) \in Regions
        /\ Buffer(name, l, a).of = name /\ Buffer(name, l, a).part = a
  BY RegionsTyped
<1>3. \A do, stream, b : LET st == Statement(do, stream, l, b)
                         IN st.do = do /\ st.stream = stream /\ st.level = l /\ st.axis = b
  BY DEF Statement
<1>4. \A place, b : LET p == Point(ph, place, l, b)
                    IN p.phase = ph /\ p.place = place /\ p.level = l /\ p.axis = b
  BY DEF Point
<1> HIDE DEF o, x
<1>5. CASE x = Statement("download", "border", l, a) /\ n = Open(ph, l, a) /\ m = Point(ph, "downloaded", l, a)
  <2>1. /\ o.do = "download" /\ o.stream = "border" /\ o.level = l
        /\ o.reads = {Buffer("sendDevice", l, a)} /\ o.writes = {Buffer("sendHost", l, a)}
    BY <1>1, <1>3, <1>5, Touches DEF x
  <2>2. o \in Operations
    BY <1>1, <1>2, <2>1 DEF Operations, Kernels
  <2>3. /\ m.phase = ph /\ m.place = "downloaded" /\ m.level = l /\ m.axis = a
        /\ n.phase = ph /\ n.place = "open" /\ n.level = l /\ n.axis = a
    BY <1>4, <1>5 DEF Open
  <2>4. Touching(n, o, m)
    BY <1>2, <2>1, <2>2, <2>3 DEF Touching, HostCopies, OnItsStream, Beside
  <2>5. Passing(n, o, m)
    BY <2>1, <2>3 DEF Passing
  <2> QED
    BY <2>4, <2>5 DEF o
<1>6. CASE x = Statement("upload", "border", l, a) /\ n = Point(ph, "received", l, a) /\ m = Open(ph, l, After(a))
  <2>1. /\ o.do = "upload" /\ o.stream = "border" /\ o.level = l
        /\ o.reads = {Buffer("recvHost", l, a)} /\ o.writes = {Buffer("recvDevice", l, a)}
    BY <1>1, <1>3, <1>6, Touches DEF x
  <2>2. o \in Operations
    BY <1>1, <1>2, <2>1 DEF Operations, Kernels
  <2>3. /\ m.phase = ph /\ m.place = "open" /\ m.level = l /\ m.axis = After(a)
        /\ n.phase = ph /\ n.place = "received" /\ n.level = l
    BY <1>4, <1>6 DEF Open
  <2>4. Previous(After(a)) = a
    BY DEF Previous, After, Axes
  <2>5. Touching(n, o, m)
    BY <1>2, <2>1, <2>2, <2>3, <2>4 DEF Touching, HostCopies, OnItsStream, Beside
  <2>6. Passing(n, o, m)
    BY <2>1, <2>3 DEF Passing
  <2> QED
    BY <2>5, <2>6 DEF o
<1>7. x.do \in {"download", "upload"}
  BY <1>3 DEF ExchangeEdge, Kernels, x
<1> QED
  BY <1>3, <1>5, <1>6, <1>7 DEF ExchangeEdge, x

\* Boundary conditions and the last kernel of the interpolation.
LEMMA ClosingTouches ==
  ASSUME Types, NEW l \in Levels, NEW n, NEW m,
         ClosingEdge(setup, n, Current, m, l), Current.do \in Kernels
  PROVE  Touching(n, Launched, m) /\ Passing(n, Launched, m)
<1> DEFINE x == Current
           o == Launched
           finer == NodesOf(l + 1, Everywhere)
<1>1. /\ o.do = x.do /\ o.stream = x.stream /\ o.level = x.level /\ o.reads = Reads(x) /\ o.writes = Writes(x)
      /\ o = [do |-> o.do, stream |-> o.stream, level |-> o.level, reads |-> o.reads, writes |-> o.writes]
  BY DEF Launched
<1>2. /\ \A parts \in SUBSET Everywhere : NodesOf(l, parts) \subseteq Regions
      /\ \A parts : \A y \in NodesOf(l, parts) : y.of = "nodes"
  BY RegionsTyped
<1>3. \A do, stream, b : LET st == Statement(do, stream, l, b)
                         IN st.do = do /\ st.stream = stream /\ st.level = l /\ st.axis = b
  BY DEF Statement
<1>4. \A phase, place, b : LET p == Point(phase, place, l, b)
                           IN p.phase = phase /\ p.place = place /\ p.level = l /\ p.axis = b
  BY DEF Point
<1>5. l # Fine => finer \subseteq Regions /\ \A y \in finer : y.of = "nodes"
  <2>1. l # Fine => l + 1 \in Levels
    BY FineAssumption DEF Levels
  <2> QED
    BY <2>1, RegionsTyped
<1> HIDE DEF o, x, finer
<1>6. CASE x = Statement("postCollisionBC", "legacy", l, "")
           /\ n = Open("collision", l, "done") /\ m = Point("none", "swapping", l, "")
  <2>1. o.do = "postCollisionBC" /\ o.stream = "legacy" /\ o.level = l /\ o.reads = {} /\ o.writes = NodesOf(l, Everywhere)
    BY <1>1, <1>6, Touches DEF x, Statement
  <2>2. o \in Operations
    BY <1>1, <1>2, <2>1 DEF Operations, Kernels
  <2>3. /\ m.phase = "none" /\ m.place = "swapping" /\ m.level = l /\ m.axis = ""
        /\ n.phase = "collision" /\ n.place = "open" /\ n.level = l /\ n.axis = "done"
    BY <1>6 DEF Open, Point
  <2>4. Touching(n, o, m)
    BY <1>2, <2>1, <2>2 DEF Touching, HostCopies, OnItsStream
  <2>5. Passing(n, o, m)
    BY <2>1, <2>3 DEF Passing, Previous
  <2> QED
    BY <2>4, <2>5 DEF o
<1>7. CASE x = Statement("preCollisionBC", "legacy", l, "")
           /\ n = Point("none", "swapped", l, "") /\ m = Updated(l)
  <2>1. o.do = "preCollisionBC" /\ o.stream = "legacy" /\ o.level = l /\ o.reads = {} /\ o.writes = NodesOf(l, Everywhere)
    BY <1>1, <1>7, Touches DEF x, Statement
  <2>2. o \in Operations
    BY <1>1, <1>2, <2>1 DEF Operations, Kernels
  <2>3. /\ m.phase = "none" /\ m.place \in {"between", "coupling"} /\ m.axis = ""
        /\ n.phase = "none" /\ n.place = "swapped" /\ n.axis = ""
    BY <1>7 DEF Updated, Between, Point
  <2>4. Touching(n, o, m)
    BY <1>2, <2>1, <2>2 DEF Touching, HostCopies, OnItsStream
  <2>5. Passing(n, o, m)
    BY <2>1, <2>3 DEF Passing
  <2> QED
    BY <2>4, <2>5 DEF o
<1>8. CASE x = Statement("coarseToFineBorder", "border", l, "") /\ l # Fine
           /\ n = Open("refinement", l, "done") /\ m = Point("refinement", "coupled", l, "")
  <2>1. /\ o.do = "coarseToFineBorder" /\ o.stream = "border" /\ o.level = l
        /\ o.reads = NodesOf(l, Everywhere) /\ o.writes = finer
    BY <1>1, <1>8, Touches DEF x, Statement, finer
  <2>2. o \in Operations
    BY <1>1, <1>2, <1>5, <1>8, <2>1 DEF Operations, Kernels
  <2>3. /\ m.phase = "refinement" /\ m.place = "coupled" /\ m.level = l /\ m.axis = ""
        /\ n.phase = "refinement" /\ n.place = "open" /\ n.level = l /\ n.axis = "done"
    BY <1>8 DEF Open, Point
  <2>6. \A y \in o.reads \cup o.writes : y.of = "nodes"
    BY <1>2, <1>5, <1>8, <2>1
  <2>4. Touching(n, o, m)
    BY <2>1, <2>2, <2>3, <2>6 DEF Touching, HostCopies, OnItsStream
  <2>5. Passing(n, o, m)
    BY <2>1, <2>3 DEF Passing, Previous
  <2> QED
    BY <2>4, <2>5 DEF o
<1>9. x.do \notin {"swap", "deviceSynchronize"}
  BY DEF Kernels, x
<1>10. Statement("swap", "host", l, "").do = "swap" /\ Statement("deviceSynchronize", "host", l, "").do = "deviceSynchronize"
  BY DEF Statement
<1>11. x # Statement("swap", "host", l, "") /\ x # Statement("deviceSynchronize", "host", l, "")
  BY <1>9, <1>10
<1> QED
  BY <1>6, <1>7, <1>8, <1>11 DEF ClosingEdge, x

\* Whatever is launched.
LEMMA LaunchTouches ==
  ASSUME Types, NEW do \in Kernels, Doing(do), Advance, setup' = setup
  PROVE  Touching(Place, Launched, Place') /\ Passing(Place, Launched, Place')
<1>1. Edge(setup, Place, Current, Place') /\ Current.do \in Kernels
  BY HostMoves
<1>2. PICK l \in Levels :
        \/ \E ph \in Phases, a \in Axes : \/ ExchangeEdge(setup, Place, Current, Place', ph, l, a)
                                          \/ KernelEdge(setup, Place, Current, Place', ph, l, a)
        \/ ClosingEdge(setup, Place, Current, Place', l)
  BY <1>1 DEF Edge
<1> QED
  BY <1>1, <1>2, KernelTouches, CopyTouches, ClosingTouches

-----------------------------------------------------------------------------
(* What the host does itself *)

\* Where a statement leads that launches nothing.
Call(s, n, x, m) ==
  /\ x.do \in {"post", "synchronize", "send", "await"} =>
       /\ n.phase \in Phases /\ m.phase = n.phase /\ n.level \in Levels /\ m.level = n.level
       /\ x.level = n.level /\ x.axis = n.axis
  /\ x.do = "post" => n.place = "downloaded" /\ m.place = "posted" /\ m.axis = n.axis /\ n.axis \in s.axes
  /\ x.do = "synchronize" => /\ x.stream = "border"
                             /\ \/ n.place = "posted" /\ m.place = "synchronized" /\ m.axis = n.axis
                                \/ n.place = "open" /\ m.place = "open"
  /\ x.do = "send" => n.place = "synchronized" /\ m.place = "sent" /\ m.axis = n.axis
  /\ x.do = "await" => n.place = "sent" /\ m.place = "received" /\ m.axis = n.axis
  /\ x.do = "swap" => x.level \in Levels /\ n = Swapping(s, x.level) /\ m = Swapped(s, x.level)
  /\ x.do = "deviceSynchronize" => n.place = "coupled" /\ m = Between

\* The calls of an exchange.
LEMMA ExchangeCall ==
  ASSUME NEW s, NEW n, NEW x, NEW m, NEW ph \in Phases, NEW l \in Levels, NEW a \in Axes,
         ExchangeEdge(s, n, x, m, ph, l, a)
  PROVE  Call(s, n, x, m)
<1>1. CASE x = Statement("download", "border", l, a)
  BY <1>1 DEF Statement, Call
<1>2. CASE x = Statement("upload", "border", l, a)
  BY <1>2 DEF Statement, Call
<1>3. CASE x = Statement("post", "host", l, a) /\ a \in s.axes
           /\ n = Point(ph, "downloaded", l, a) /\ m = Point(ph, "posted", l, a)
  BY <1>3 DEF Statement, Call, Point
<1>4. CASE x = Statement("synchronize", "border", l, a)
           /\ n = Point(ph, "posted", l, a) /\ m = Point(ph, "synchronized", l, a)
  BY <1>4 DEF Statement, Call, Point
<1>5. CASE x = Statement("synchronize", "border", l, a) /\ n = Open(ph, l, a) /\ m = Open(ph, l, After(a))
  BY <1>5 DEF Statement, Call, Point, Open
<1>6. CASE x = Statement("send", "host", l, a) /\ n = Point(ph, "synchronized", l, a) /\ m = Point(ph, "sent", l, a)
  BY <1>6 DEF Statement, Call, Point
<1>7. CASE x = Statement("await", "host", l, a) /\ n = Point(ph, "sent", l, a) /\ m = Point(ph, "received", l, a)
  BY <1>7 DEF Statement, Call, Point
<1> QED
  BY <1>1, <1>2, <1>3, <1>4, <1>5, <1>6, <1>7 DEF ExchangeEdge

\* A kernel is no call.
LEMMA KernelCall ==
  ASSUME NEW s, NEW n, NEW x, NEW m, x.do \in Kernels
  PROVE  Call(s, n, x, m)
BY DEF Call, Kernels

\* The calls outside of an exchange.
LEMMA ClosingCall ==
  ASSUME NEW s, NEW n, NEW x, NEW m, NEW l \in Levels, ClosingEdge(s, n, x, m, l)
  PROVE  Call(s, n, x, m)
<1>1. CASE x = Statement("swap", "host", l, "") /\ n = Swapping(s, l) /\ m = Swapped(s, l)
  <2>1. x.do = "swap" /\ x.level = l
    BY <1>1 DEF Statement
  <2> QED
    BY <1>1, <2>1 DEF Call
<1>2. CASE x = Statement("deviceSynchronize", "host", l, "")
           /\ n = Point("refinement", "coupled", l, "") /\ m = Between
  <2>1. x.do = "deviceSynchronize" /\ n.place = "coupled"
    BY <1>2 DEF Statement, Point
  <2> QED
    BY <1>2, <2>1 DEF Call
<1>3. CASE x \in {Statement("postCollisionBC", "legacy", l, ""), Statement("preCollisionBC", "legacy", l, ""),
                  Statement("coarseToFineBorder", "border", l, "")}
  <2>1. x.do \in Kernels
    <3>1. PICK do \in Kernels, stream \in {"legacy", "border"} : x = Statement(do, stream, l, "")
      BY <1>3 DEF Kernels
    <3> QED
      BY <3>1 DEF Statement
  <2> QED
    BY <2>1, KernelCall
<1> QED
  BY <1>1, <1>2, <1>3 DEF ClosingEdge

\* A call of the host.
LEMMA CallMoves ==
  ASSUME NEW s, NEW n, NEW x, NEW m, Edge(s, n, x, m)
  PROVE  Call(s, n, x, m)
<1>1. PICK l \in Levels :
        \/ \E ph \in Phases, a \in Axes : ExchangeEdge(s, n, x, m, ph, l, a) \/ KernelEdge(s, n, x, m, ph, l, a)
        \/ ClosingEdge(s, n, x, m, l)
  BY DEF Edge
<1>2. ASSUME NEW ph \in Phases, NEW a \in Axes, KernelEdge(s, n, x, m, ph, l, a)
      PROVE  x.do \in Kernels
  <2>1. PICK do \in Kernels, stream \in {"border", "bulk"}, b \in {"", a} : x = Statement(do, stream, l, b)
    BY <1>2 DEF KernelEdge, Kernels
  <2> QED
    BY <2>1 DEF Statement
<1> QED
  BY <1>1, <1>2, ExchangeCall, KernelCall, ClosingCall

-----------------------------------------------------------------------------
(* What runs beside a bulk kernel *)

\* Of the nodes of a bulk kernel the exchange beside it touches at most the ghost
\* nodes, to scatter what was received.
LEMMA BesideOnGhosts ==
  ASSUME NEW n, NEW x, NEW y \in Operations,
         x.reads = {}, x.writes = BulkNodes(n.level, swaps[n.level]), Beside(n, y), Conflict(x, y)
  PROVE  OnGhosts(x, y)
<1>1. \A v \in x.writes : \E p \in NotSent : v = [of |-> "nodes", level |-> n.level, part |-> p, swap |-> swaps[n.level]]
  BY DEF BulkNodes
<1>2. y.reads \cup y.writes \subseteq Regions
  BY DEF Operations
<1>3. ASSUME NEW v \in x.writes, NEW w \in y.reads \cup y.writes, Overlap(v, w)
      PROVE  v = w /\ v.part = "ghost" /\ y.do = "scatter"
  <2>1. PICK p \in NotSent : v = [of |-> "nodes", level |-> n.level, part |-> p, swap |-> swaps[n.level]]
    BY <1>1
  <2>2. v.of = "nodes" /\ v.level = n.level /\ v.part = p /\ v.swap = swaps[n.level]
    BY <2>1
  <2>3. w.of = "nodes"
    BY <1>3, <2>2 DEF Overlap
  <2>4. w.level = n.level /\ w.swap = swaps[n.level] /\ (w.part = "border" \/ (w.part = "ghost" /\ y.do = "scatter"))
    BY <2>3 DEF Beside
  <2>5. w.part = p
    BY <1>3, <2>2, <2>4 DEF Overlap
  <2>6. p # "border"
    BY DEF NotSent
  <2>7. w = [of |-> w.of, level |-> w.level, part |-> w.part, swap |-> w.swap]
    BY <1>2 DEF Regions
  <2>8. w = v
    BY <2>1, <2>3, <2>4, <2>5, <2>7
  <2> QED
    BY <2>2, <2>4, <2>5, <2>6, <2>8
<1> QED
  BY <1>3 DEF Conflict, OnGhosts

-----------------------------------------------------------------------------
(* The invariant is kept *)

\* At the beginning.
LEMMA InitInv == Init => Inv
<1> SUFFICES ASSUME Init PROVE Inv
  OBVIOUS
<1>1. setup \in Setups /\ at = 1 /\ step = 1 /\ pending = << >> /\ posted = {} /\ swaps = [l \in Levels |-> 0]
  BY DEF Init
<1>2. Walk(Roads(setup), Program[setup], Passed(setup), Between, Between) /\ Len(Program[setup]) \in Nat
  BY <1>1, Round
<1>3. Place = Between /\ Place.place = "between"
  <2>1. Passed(setup)[1] = Between
    BY <1>2 DEF Walk
  <2>2. Place = Between
    BY <1>1, <2>1 DEF Place
  <2> QED
    BY <2>2 DEF Between, Point
<1>4. Types
  BY <1>1, <1>2, MaxStepAssumption DEF Types
<1>5. DOMAIN pending = {}
  BY <1>1
<1> QED
  BY <1>1, <1>3, <1>4, <1>5 DEF Inv, Buffers, Receiving, Streams, Bulks, Overtakes, Events

\* Launching an operation.
LEMMA LaunchInv == Inv /\ Launch => Inv'
<1> SUFFICES ASSUME Inv, Launch PROVE Inv'
  OBVIOUS
<1> DEFINE n == Place
           m == Place'
           o == Launched
           e == Len(pending)
<1>1. Types /\ Buffers /\ Streams /\ Bulks /\ Overtakes /\ Events
  BY DEF Inv
<1>2. PICK do \in Kernels : Doing(do)
  BY DEF Launch
<1>3. pending' = Append(pending, o) /\ Advance /\ setup' = setup /\ swaps' = swaps /\ posted' = posted
  BY DEF Launch, Launched
<1>4. Touching(n, o, m) /\ Passing(n, o, m)
  BY <1>1, <1>2, <1>3, LaunchTouches
<1>5. o \in Operations
  BY <1>4 DEF Touching
<1>6. step' \in 1 .. MaxStep /\ at' \in 1 .. Len(Program[setup]) + 1
  BY <1>1, <1>2, <1>3, HostMoves
<1>7. /\ e \in Nat /\ DOMAIN pending = 1 .. e /\ pending' \in Seq(Operations) /\ Len(pending') = e + 1
      /\ DOMAIN pending' = 1 .. e + 1 /\ \A k \in 1 .. e : pending'[k] = pending[k]
      /\ pending'[e + 1] = o
  BY <1>1, <1>3, <1>5, Appended
<1> HIDE DEF n, m, o, e
<1>8. Types'
  BY <1>1, <1>3, <1>6, <1>7 DEF Types
<1>9. ASSUME NEW i \in 1 .. e, Recent(i)' PROVE Recent(i) /\ o.stream # "legacy"
  <2>1. \A k \in i .. e + 1 : pending'[k].stream # "legacy"
    BY <1>7, <1>9 DEF Recent, Quiet
  <2>2. \A k \in i .. e : pending[k].stream # "legacy"
    BY <1>7, <2>1
  <2>3. o.stream # "legacy"
    BY <1>7, <2>1
  <2> QED
    BY <2>2, <2>3 DEF Recent, Quiet, e
<1>10. Buffers'
  <2>1. posted' = Receiving(m) /\ posted' \subseteq Levels \X setup'.axes
    BY <1>1, <1>3, <1>4 DEF Buffers, Receiving, Passing, n
  <2>2. m.place \notin {"synchronized", "sent", "received"}
    BY <1>4 DEF Passing
  <2>3. ASSUME NEW i \in DOMAIN pending' PROVE HostCopies(m, pending'[i])
    <3>1. CASE i = e + 1
      BY <1>4, <1>7, <3>1 DEF Touching
    <3>2. CASE i # e + 1
      <4>1. i \in 1 .. e /\ pending'[i] = pending[i]
        BY <1>7, <3>2
      <4>2. HostCopies(n, pending[i])
        BY <1>1, <1>7, <4>1 DEF Buffers, n
      <4>3. CASE n.place = "received"
        <5>1. pending[i].stream # "border"
          BY <1>1, <1>7, <4>1, <4>3 DEF Buffers, n
        <5> QED
          BY <4>1, <4>2, <5>1 DEF HostCopies
      <4>4. CASE Previous(m.axis) = Previous(n.axis)
        BY <4>1, <4>2, <4>4 DEF HostCopies
      <4> QED
        BY <1>4, <4>3, <4>4 DEF Passing
    <3> QED
      BY <3>1, <3>2
  <2> QED
    BY <2>1, <2>2, <2>3 DEF Buffers, m
<1>11. Streams'
  <2>1. ASSUME NEW i \in DOMAIN pending' PROVE OnItsStream(pending'[i])
    <3>1. CASE i = e + 1
      BY <1>4, <1>7, <3>1 DEF Touching
    <3>2. CASE i # e + 1
      <4>1. i \in DOMAIN pending /\ pending'[i] = pending[i]
        BY <1>7, <3>2
      <4> QED
        BY <1>1, <4>1 DEF Streams
    <3> QED
      BY <3>1, <3>2
  <2> QED
    BY <2>1 DEF Streams
<1>12. Bulks'
  <2>1. ASSUME NEW i \in DOMAIN pending', pending'[i].do = "collideBulk"
        PROVE  /\ pending'[i].stream = "bulk" /\ pending'[i].level \in Levels
               /\ \E v \in 0 .. swaps[pending'[i].level] :
                    /\ pending'[i].writes = BulkNodes(pending'[i].level, v)
                    /\ v = swaps[pending'[i].level] =>
                         /\ m.level = pending'[i].level
                         /\ (m.phase = "collision" /\ Recent(i)') \/ m.place = "swapping"
                    /\ pending'[i].level \in WithBoundary /\ Recent(i)' =>
                         \/ m.phase = "collision" /\ v = swaps[pending'[i].level]
                         \/ m.place = "swapped"
    <3>1. CASE i = e + 1
      <4>1. /\ o.stream = "bulk" /\ o.level \in Levels /\ o.writes = BulkNodes(o.level, swaps[o.level])
            /\ m.level = o.level /\ m.phase = "collision"
        BY <1>4, <1>7, <2>1, <3>1 DEF Touching
      <4>2. Recent(i)'
        BY <1>7, <3>1, <4>1 DEF Recent, Quiet
      <4>3. swaps[o.level] \in 0 .. swaps[o.level]
        BY <1>1, <4>1 DEF Types
      <4> QED
        BY <1>7, <3>1, <4>1, <4>2, <4>3
    <3>2. CASE i # e + 1
      <4> DEFINE l == pending[i].level
      <4>1. i \in 1 .. e /\ pending'[i] = pending[i]
        BY <1>7, <3>2
      <4>2. pending[i].do = "collideBulk" /\ pending[i].stream = "bulk" /\ l \in Levels /\ BulkSince(i, l)
        BY <1>1, <1>7, <2>1, <4>1 DEF Bulks
      <4> HIDE DEF l
      <4>3. PICK v \in 0 .. swaps[l] :
              /\ pending[i].writes = BulkNodes(l, v)
              /\ v = swaps[l] => n.level = l /\ ((n.phase = "collision" /\ Recent(i)) \/ n.place = "swapping")
              /\ l \in WithBoundary /\ Recent(i) => \/ n.phase = "collision" /\ v = swaps[l]
                                                    \/ n.place = "swapped"
        BY <4>2 DEF BulkSince, n
      <4>4. ASSUME v = swaps[l]
            PROVE  m.level = l /\ ((m.phase = "collision" /\ Recent(i)') \/ m.place = "swapping")
        <5>1. n.level = l /\ n.phase = "collision" /\ Recent(i)
          BY <1>4, <4>3, <4>4 DEF Passing
        <5>2. m.level = n.level /\ ((m.phase = "collision" /\ o.stream # "legacy") \/ m.place = "swapping")
          BY <1>4, <5>1 DEF Passing
        <5>3. ASSUME o.stream # "legacy" PROVE Recent(i)'
          <6>1. \A k \in i .. e : pending[k].stream # "legacy"
            BY <5>1 DEF Recent, Quiet, e
          <6>2. \A k \in i .. e + 1 : pending'[k].stream # "legacy"
            BY <1>7, <4>1, <5>3, <6>1
          <6> QED
            BY <1>7, <6>2 DEF Recent, Quiet
        <5> QED
          BY <5>1, <5>2, <5>3
      <4>5. ASSUME l \in WithBoundary, Recent(i)' PROVE m.phase = "collision" /\ v = swaps[l]
        <5>1. Recent(i) /\ o.stream # "legacy"
          BY <1>9, <4>1, <4>5
        <5>2. n.place # "swapped" /\ m.place # "swapping"
          BY <1>4, <5>1 DEF Passing
        <5>3. n.phase = "collision" /\ v = swaps[l]
          BY <4>3, <4>5, <5>1, <5>2
        <5> QED
          BY <1>4, <5>2, <5>3 DEF Passing
      <4> QED
        BY <4>1, <4>2, <4>3, <4>4, <4>5 DEF l
    <3> QED
      BY <3>1, <3>2
  <2>2. WithBoundary' = WithBoundary
    BY <1>3 DEF WithBoundary
  <2> QED
    BY <1>3, <2>1, <2>2 DEF Bulks, BulkSince, m
<1>13. Overtakes'
  <2>1. ASSUME NEW i \in DOMAIN pending', NEW j \in DOMAIN pending', i < j, Quiet(i, j)',
               pending'[i].do = "collideBulk", pending'[i].level \in WithBoundary,
               pending'[j].stream = "border", Conflict(pending'[i], pending'[j])
        PROVE  OnGhosts(pending'[i], pending'[j])
    <3>1. i \in 1 .. e /\ pending'[i] = pending[i]
      BY <1>7, <2>1
    <3>2. CASE j = e + 1
      <4> DEFINE l == pending[i].level
      <4>1. Recent(i)'
        BY <1>7, <2>1, <3>2 DEF Recent
      <4>2. Recent(i) /\ o.stream = "border" /\ pending'[j] = o
        BY <1>7, <1>9, <2>1, <3>1, <3>2, <4>1
      <4>3. pending[i].stream = "bulk" /\ BulkSince(i, l) /\ pending[i].reads = {}
        BY <1>1, <1>7, <2>1, <3>1 DEF Bulks, Streams, OnItsStream
      <4>4. l \in WithBoundary /\ n.place # "swapped"
        BY <1>4, <2>1, <3>1, <4>2 DEF Passing
      <4> HIDE DEF l
      <4>5. PICK v \in 0 .. swaps[l] :
              /\ pending[i].writes = BulkNodes(l, v)
              /\ v = swaps[l] => n.level = l
              /\ l \in WithBoundary /\ Recent(i) => (n.phase = "collision" /\ v = swaps[l]) \/ n.place = "swapped"
        BY <4>3 DEF BulkSince, n
      <4>6. n.phase = "collision" /\ n.level = l /\ pending[i].writes = BulkNodes(n.level, swaps[n.level])
        BY <4>2, <4>4, <4>5
      <4>7. Beside(n, o)
        BY <1>4, <4>2, <4>6 DEF Touching
      <4>8. Conflict(pending[i], o)
        BY <2>1, <3>1, <4>2
      <4>9. OnGhosts(pending[i], o)
        BY <1>5, <4>3, <4>6, <4>7, <4>8, BesideOnGhosts
      <4> QED
        BY <3>1, <4>2, <4>9
    <3>3. CASE j # e + 1
      <4>1. j \in 1 .. e /\ pending'[j] = pending[j]
        BY <1>7, <3>3
      <4>2. Quiet(i, j)
        BY <1>7, <2>1, <3>1, <4>1 DEF Quiet
      <4> QED
        BY <1>1, <1>7, <2>1, <3>1, <4>1, <4>2 DEF Overtakes
    <3> QED
      BY <3>2, <3>3
  <2>2. WithBoundary' = WithBoundary
    BY <1>3 DEF WithBoundary
  <2> QED
    BY <2>1, <2>2 DEF Overtakes, Conflict, OnGhosts
<1>14. Events'
  <2>1. ASSUME NEW kind, NEW i \in 1 .. e + 1, HeldBy(kind, i) PROVE HeldBy(kind, i)'
    <3>1. ASSUME NEW j \in 1 .. i - 1, pending'[j].stream = "border"
          PROVE  \E k \in j .. i - 1 : pending'[k].do = kind
      <4>1. j \in 1 .. e /\ pending[j].stream = "border"
        BY <1>7, <3>1
      <4>2. PICK k \in j .. i - 1 : pending[k].do = kind
        BY <2>1, <4>1 DEF HeldBy
      <4>3. k \in 1 .. e
        BY <1>7, <4>1
      <4> QED
        BY <1>7, <4>2, <4>3
    <3> QED
      BY <3>1 DEF HeldBy
  <2>2. ASSUME NEW kind, o.do = kind PROVE HeldBy(kind, Len(pending) + 1)'
    <3>1. (Len(pending) + 1)' = e + 2
      BY <1>7
    <3>2. ASSUME NEW j \in 1 .. e + 1 PROVE \E k \in j .. e + 1 : pending'[k].do = kind
      <4>1. e + 1 \in j .. e + 1
        BY <1>7
      <4> QED
        BY <1>7, <2>2, <4>1
    <3> QED
      BY <1>7, <3>1, <3>2 DEF HeldBy
  <2>3. ASSUME NEW i \in DOMAIN pending', pending'[i].do = "wait" PROVE HeldBy("record", i)
    <3>1. CASE i = e + 1
      <4>1. n.place = "recorded"
        BY <1>4, <1>7, <2>3, <3>1 DEF Passing
      <4> QED
        BY <1>1, <3>1, <4>1 DEF Events, n, e
    <3>2. CASE i # e + 1
      <4>1. i \in DOMAIN pending /\ pending'[i] = pending[i]
        BY <1>7, <3>2
      <4> QED
        BY <1>1, <2>3, <4>1 DEF Events
    <3> QED
      BY <3>1, <3>2
  <2>4. ASSUME NEW i \in DOMAIN pending', pending'[i].do = "collideBulk" PROVE HeldBy("wait", i)
    <3>1. CASE i = e + 1
      <4>1. n.place = "waited"
        BY <1>4, <1>7, <2>4, <3>1 DEF Passing
      <4> QED
        BY <1>1, <3>1, <4>1 DEF Events, n, e
    <3>2. CASE i # e + 1
      <4>1. i \in DOMAIN pending /\ pending'[i] = pending[i]
        BY <1>7, <3>2
      <4> QED
        BY <1>1, <2>4, <4>1 DEF Events
    <3> QED
      BY <3>1, <3>2
  <2>5. /\ \A i \in DOMAIN pending' : pending'[i].do = "wait" => HeldBy("record", i)'
        /\ \A i \in DOMAIN pending' : pending'[i].do = "collideBulk" => HeldBy("wait", i)'
    BY <1>7, <2>1, <2>3, <2>4
  <2>6. /\ m.place = "recorded" => HeldBy("record", Len(pending) + 1)'
        /\ m.place = "waited" => HeldBy("wait", Len(pending) + 1)'
    BY <1>4, <2>2 DEF Passing
  <2> QED
    BY <2>5, <2>6 DEF Events, m
<1> QED
  BY <1>8, <1>10, <1>11, <1>12, <1>13, <1>14 DEF Inv

\* A call of the host that waits for nothing on the device, or for the border.
LEMMA CallInv == Inv /\ (Synchronize \/ PostReceive \/ Send \/ WaitAll) => Inv'
<1> SUFFICES ASSUME Inv, Synchronize \/ PostReceive \/ Send \/ WaitAll PROVE Inv'
  OBVIOUS
<1> DEFINE n == Place
           m == Place'
           Elsewhere == n.place \notin {"swapping", "swapped"} /\ m.place \notin {"recorded", "waited"}
<1>1. Types /\ Buffers /\ Streams /\ Bulks /\ Overtakes /\ Events
  BY DEF Inv
<1>2. PICK do \in {"synchronize", "post", "send", "await"} : Doing(do) /\ Advance
  BY DEF Synchronize, PostReceive, Send, WaitAll
<1>3. setup' = setup /\ swaps' = swaps /\ pending' = pending
  BY DEF Synchronize, PostReceive, Send, WaitAll
<1>4. Edge(setup, n, Current, m) /\ Current.do = do /\ step' \in 1 .. MaxStep /\ at' \in 1 .. Len(Program[setup]) + 1
  BY <1>1, <1>2, <1>3, HostMoves
<1>5. Call(setup, n, Current, m)
  BY <1>4, CallMoves
<1>6. m.phase = n.phase /\ m.level = n.level /\ n.phase \in Phases /\ n.level \in Levels
      /\ Current.level = n.level /\ Current.axis = n.axis
  BY <1>2, <1>4, <1>5 DEF Call
<1> HIDE DEF n, m
<1>7. Types'
  BY <1>1, <1>3, <1>4 DEF Types
<1>8. \A i \in DOMAIN pending : Recent(i)' = Recent(i)
  BY <1>3 DEF Recent, Quiet
<1>9. ASSUME do = "synchronize"
      PROVE  Buffers' /\ Elsewhere
  <2>1. Synchronize
    BY <1>2, <1>9 DEF Synchronize, PostReceive, Send, WaitAll, Doing
  <2>2. posted' = posted /\ \A i \in DOMAIN pending : pending[i].stream # "border"
    BY <1>4, <1>5, <1>9, <2>1 DEF Synchronize, Call
  <2>3. \/ n.place = "posted" /\ m.place = "synchronized" /\ m.axis = n.axis
        \/ n.place = "open" /\ m.place = "open"
    BY <1>4, <1>5, <1>9 DEF Call
  <2>4. posted = Receiving(n) /\ Receiving(m) = Receiving(n)
    BY <1>1, <1>6, <2>3 DEF Buffers, Receiving, n
  <2>5. \A i \in DOMAIN pending : HostCopies(m, pending[i])
    BY <1>1, <2>2 DEF Buffers, HostCopies
  <2>6. Buffers'
    BY <1>1, <1>3, <2>2, <2>4, <2>5 DEF Buffers, m
  <2> QED
    BY <2>3, <2>6
<1>10. ASSUME do = "post"
       PROVE  Buffers' /\ Elsewhere
  <2>1. PostReceive
    BY <1>2, <1>10 DEF Synchronize, PostReceive, Send, WaitAll, Doing
  <2>2. n.place = "downloaded" /\ m.place = "posted" /\ m.axis = n.axis /\ n.axis \in setup.axes
    BY <1>4, <1>5, <1>10 DEF Call
  <2>3. posted = {}
    BY <1>1, <2>2 DEF Buffers, Receiving, n
  <2>4. posted' = {<<n.level, n.axis>>}
    BY <1>6, <2>1, <2>3 DEF PostReceive
  <2>5. posted' = Receiving(m) /\ posted' \subseteq Levels \X setup'.axes
    BY <1>3, <1>6, <2>2, <2>4 DEF Receiving
  <2>6. \A i \in DOMAIN pending : HostCopies(m, pending[i])
    BY <1>1, <2>2 DEF Buffers, HostCopies, n
  <2>7. Buffers'
    BY <1>3, <2>2, <2>5, <2>6 DEF Buffers, m
  <2> QED
    BY <2>2, <2>7
<1>11. ASSUME do = "send"
       PROVE  Buffers' /\ Elsewhere
  <2>1. Send
    BY <1>2, <1>11 DEF Synchronize, PostReceive, Send, WaitAll, Doing
  <2>2. n.place = "synchronized" /\ m.place = "sent" /\ m.axis = n.axis
    BY <1>4, <1>5, <1>11 DEF Call
  <2>3. posted' = posted /\ posted = Receiving(n) /\ Receiving(m) = Receiving(n)
    BY <1>1, <1>6, <2>1, <2>2 DEF Buffers, Receiving, Send, n
  <2>4. \A i \in DOMAIN pending : HostCopies(m, pending[i]) /\ pending[i].stream # "border"
    BY <1>1, <2>2 DEF Buffers, HostCopies, n
  <2>5. Buffers'
    BY <1>1, <1>3, <2>3, <2>4 DEF Buffers, m
  <2> QED
    BY <2>2, <2>5
<1>12. ASSUME do = "await"
       PROVE  Buffers' /\ Elsewhere
  <2>1. WaitAll
    BY <1>2, <1>12 DEF Synchronize, PostReceive, Send, WaitAll, Doing
  <2>2. n.place = "sent" /\ m.place = "received" /\ m.axis = n.axis
    BY <1>4, <1>5, <1>12 DEF Call
  <2>3. posted' = {} /\ Receiving(m) = {}
    BY <2>1, <2>2 DEF Receiving, WaitAll
  <2>4. \A i \in DOMAIN pending : HostCopies(m, pending[i]) /\ pending[i].stream # "border"
    BY <1>1, <2>2 DEF Buffers, HostCopies, n
  <2>5. Buffers'
    BY <1>3, <2>3, <2>4 DEF Buffers, m
  <2> QED
    BY <2>2, <2>5
<1>13. Buffers' /\ Elsewhere
  BY <1>9, <1>10, <1>11, <1>12
<1>14. Streams' /\ WithBoundary' = WithBoundary
  BY <1>1, <1>3 DEF Streams, WithBoundary
<1>15. Bulks'
  <2>1. ASSUME NEW i \in DOMAIN pending, pending[i].do = "collideBulk"
        PROVE  BulkSince(i, pending[i].level)'
    BY <1>1, <1>3, <1>6, <1>8, <1>13, <1>14, <2>1 DEF Bulks, BulkSince, n, m
  <2> QED
    BY <1>1, <1>3, <2>1 DEF Bulks
<1>16. Overtakes'
  BY <1>1, <1>3, <1>14 DEF Overtakes, Quiet, Conflict, OnGhosts
<1>17. Events'
  BY <1>1, <1>3, <1>13 DEF Events, HeldBy, m
<1> QED
  BY <1>7, <1>13, <1>14, <1>15, <1>16, <1>17 DEF Inv

\* Waiting for the device.
LEMMA DeviceSynchronizeInv == Inv /\ DeviceSynchronize => Inv'
<1> SUFFICES ASSUME Inv, DeviceSynchronize PROVE Inv'
  OBVIOUS
<1>1. Types /\ Buffers /\ Doing("deviceSynchronize") /\ Advance
  BY DEF Inv, DeviceSynchronize
<1>2. setup' = setup /\ swaps' = swaps /\ pending' = pending /\ posted' = posted /\ pending = << >>
  BY DEF DeviceSynchronize
<1>3. Edge(setup, Place, Current, Place') /\ Current.do = "deviceSynchronize"
      /\ step' \in 1 .. MaxStep /\ at' \in 1 .. Len(Program[setup]) + 1
  BY <1>1, <1>2, HostMoves
<1>4. Place.place = "coupled" /\ Place' = Between
  BY <1>3, CallMoves DEF Call
<1>5. posted = {} /\ DOMAIN pending' = {} /\ Between.place = "between"
  <2>1. posted = {}
    BY <1>1, <1>4 DEF Buffers, Receiving
  <2>2. DOMAIN pending' = {}
    BY <1>2
  <2>3. Between.place = "between"
    BY DEF Between, Point
  <2> QED
    BY <2>1, <2>2, <2>3
<1>6. Types'
  BY <1>1, <1>2, <1>3 DEF Types
<1> QED
  BY <1>2, <1>4, <1>5, <1>6 DEF Inv, Buffers, Receiving, Streams, Bulks, Overtakes, Events

\* Changing the parity of a level.
LEMMA SwapInv == Inv /\ SwapBetweenEvenAndOddTimestep => Inv'
<1> SUFFICES ASSUME Inv, SwapBetweenEvenAndOddTimestep PROVE Inv'
  OBVIOUS
<1> DEFINE n == Place
           m == Place'
           l == Current.level
<1>1. Types /\ Buffers /\ Streams /\ Bulks /\ Overtakes /\ Events
  BY DEF Inv
<1>2. Doing("swap") /\ Advance /\ setup' = setup /\ pending' = pending /\ posted' = posted
      /\ swaps' = [swaps EXCEPT ![l] = @ + 1]
  BY DEF SwapBetweenEvenAndOddTimestep
<1>3. Edge(setup, n, Current, m) /\ Current.do = "swap"
      /\ step' \in 1 .. MaxStep /\ at' \in 1 .. Len(Program[setup]) + 1
  BY <1>1, <1>2, HostMoves
<1>4. l \in Levels /\ n = Swapping(setup, l) /\ m = Swapped(setup, l)
  BY <1>3, CallMoves DEF Call
<1> HIDE DEF n, m, l
<1>5. /\ n.level = l /\ n.place \in {"swapping", "open"} /\ Previous(n.axis) = "Z"
      /\ l \in setup.postCollisionBC => n.phase = "none"
  BY <1>4 DEF Swapping, Open, Point, Previous
<1>13. l \in setup.preCollisionBC => m.place = "swapped"
  BY <1>4 DEF Swapped, Point
<1>6. m.place \in {"swapped", "between", "coupling"} /\ Previous(m.axis) = "Z"
  BY <1>4 DEF Swapped, Updated, Between, Point, Previous
<1>7. swaps \in [Levels -> Nat] /\ swaps' \in [Levels -> Nat] /\ swaps'[l] = swaps[l] + 1
      /\ \A k \in Levels : k # l => swaps'[k] = swaps[k]
  BY <1>1, <1>2, <1>4 DEF Types
<1>8. Types'
  BY <1>1, <1>2, <1>3, <1>7 DEF Types
<1>9. Buffers'
  <2>1. posted = Receiving(n) /\ Receiving(n) = {} /\ Receiving(m) = {}
    BY <1>1, <1>5, <1>6 DEF Buffers, Receiving, n
  <2>2. \A i \in DOMAIN pending : HostCopies(m, pending[i])
    BY <1>1, <1>5, <1>6 DEF Buffers, HostCopies, n
  <2> QED
    BY <1>1, <1>2, <1>6, <2>1, <2>2 DEF Buffers, m
<1>10. WithBoundary' = WithBoundary /\ \A i \in DOMAIN pending : Recent(i)' = Recent(i)
  BY <1>2 DEF WithBoundary, Recent, Quiet
<1>11. Bulks'
  <2>1. ASSUME NEW i \in DOMAIN pending, pending[i].do = "collideBulk"
        PROVE  BulkSince(i, pending[i].level)'
    <3> DEFINE k == pending[i].level
    <3>1. k \in Levels /\ BulkSince(i, k)
      BY <1>1, <2>1 DEF Bulks
    <3>2. k = pending[i].level /\ k' = k
      BY <1>2
    <3> HIDE DEF k
    <3>3. PICK v \in 0 .. swaps[k] :
            /\ pending[i].writes = BulkNodes(k, v)
            /\ v = swaps[k] => n.level = k
            /\ k \in WithBoundary /\ Recent(i) => (n.phase = "collision" /\ v = swaps[k]) \/ n.place = "swapped"
      BY <3>1 DEF BulkSince, n
    <3>4. v \in 0 .. swaps'[k] /\ v # swaps'[k]
      BY <1>5, <1>7, <3>1, <3>3
    <3>5. ASSUME k \in WithBoundary, Recent(i) PROVE m.place = "swapped"
      <4>1. n.phase = "collision" /\ n.level = k
        BY <1>5, <3>3, <3>5
      <4>2. k = l /\ l \notin setup.postCollisionBC
        BY <1>5, <4>1
      <4> QED
        BY <1>13, <3>5, <4>2 DEF WithBoundary
    <3>6. /\ pending'[i].writes = BulkNodes(k, v)
          /\ k \in WithBoundary' /\ Recent(i)' => m.place = "swapped"
      BY <1>2, <1>10, <3>3, <3>5
    <3>7. \E w \in 0 .. swaps'[k] :
             /\ pending'[i].writes = BulkNodes(k, w)
             /\ w = swaps'[k] => m.level = k /\ ((m.phase = "collision" /\ Recent(i)') \/ m.place = "swapping")
             /\ k \in WithBoundary' /\ Recent(i)' => (m.phase = "collision" /\ w = swaps'[k]) \/ m.place = "swapped"
      BY <3>4, <3>6
    <3>8. BulkSince(i, k)'
      BY <3>2, <3>7 DEF BulkSince, m
    <3> QED
      BY <3>8 DEF k
  <2> QED
    BY <1>1, <1>2, <2>1 DEF Bulks
<1>12. Streams' /\ Overtakes'
  BY <1>1, <1>2, <1>10 DEF Streams, Overtakes, Quiet, Conflict, OnGhosts
<1>14. Events'
  BY <1>1, <1>2, <1>6 DEF Events, HeldBy, m
<1> QED
  BY <1>8, <1>9, <1>11, <1>12, <1>14 DEF Inv

\* The end of an operation.
LEMMA ExecuteInv == Inv /\ (\E e \in DOMAIN pending : Execute(e)) => Inv'
<1> SUFFICES ASSUME Inv, NEW e \in DOMAIN pending, Execute(e) PROVE Inv'
  OBVIOUS
<1>1. Types /\ Buffers /\ Streams /\ Bulks /\ Overtakes /\ Events
  BY DEF Inv
<1>2. setup' = setup /\ step' = step /\ at' = at /\ swaps' = swaps /\ posted' = posted
  BY DEF Execute
<1>3. Place' = Place
  BY <1>2 DEF Place
<1>4. /\ Len(pending) \in Nat /\ DOMAIN pending = 1 .. Len(pending) /\ pending' \in Seq(Operations)
      /\ Len(pending') = Len(pending) - 1 /\ DOMAIN pending' = 1 .. Len(pending) - 1
      /\ \A k \in DOMAIN pending' : Kept(e, k) \in DOMAIN pending /\ pending'[k] = pending[Kept(e, k)]
  BY <1>1, Ended
<1>5. Types'
  BY <1>1, <1>2, <1>4 DEF Types
<1>6. Buffers'
  BY <1>1, <1>2, <1>3, <1>4 DEF Buffers
<1>7. \A i \in DOMAIN pending' : Recent(i)' <=> Recent(Kept(e, i))
  BY <1>1, QuietBefore
<1>8. Streams' /\ WithBoundary' = WithBoundary
  BY <1>1, <1>2, <1>4 DEF Streams, WithBoundary
<1>9. Bulks'
  <2>1. ASSUME NEW i \in DOMAIN pending', pending'[i].do = "collideBulk"
        PROVE  /\ pending'[i].stream = "bulk" /\ pending'[i].level \in Levels
               /\ BulkSince(i, pending[i].level)'
    <3>1. /\ Kept(e, i) \in DOMAIN pending /\ pending'[i] = pending[Kept(e, i)]
          /\ Recent(i)' <=> Recent(Kept(e, i))
      BY <1>4, <1>7
    <3>2. /\ pending'[i].stream = "bulk" /\ pending'[i].level \in Levels
          /\ BulkSince(Kept(e, i), pending'[i].level)
      BY <1>1, <2>1, <3>1 DEF Bulks
    <3> QED
      BY <1>2, <1>3, <1>8, <3>1, <3>2 DEF BulkSince
  <2> QED
    BY <2>1 DEF Bulks
<1>10. Overtakes'
  <2>1. ASSUME NEW i \in DOMAIN pending', NEW j \in DOMAIN pending', i < j, Quiet(i, j)',
               pending'[i].do = "collideBulk", pending'[i].level \in WithBoundary,
               pending'[j].stream = "border", Conflict(pending'[i], pending'[j])
        PROVE  OnGhosts(pending'[i], pending'[j])
    <3>1. i =< j
      BY <1>4, <2>1
    <3>2. Quiet(Kept(e, i), Kept(e, j))
      BY <1>1, <2>1, <3>1, QuietBefore
    <3>3. Kept(e, i) < Kept(e, j)
      BY <1>4, <2>1 DEF Kept
    <3> QED
      BY <1>1, <1>4, <2>1, <3>2, <3>3 DEF Overtakes
  <2> QED
    BY <1>8, <2>1 DEF Overtakes, Conflict, OnGhosts
<1>11. ASSUME NEW do \in {"record", "wait"}, NEW i \in 1 .. Len(pending), HeldBy(do, Kept(e, i))
       PROVE  HeldBy(do, i)'
  <2>1. ASSUME NEW j \in 1 .. i - 1, pending'[j].stream = "border"
        PROVE  \E k \in j .. i - 1 : pending'[k].do = do
    <3>1. /\ j \in DOMAIN pending' /\ pending[Kept(e, j)].stream = "border"
          /\ Kept(e, j) \in 1 .. Kept(e, i) - 1 /\ Kept(e, j) \in DOMAIN pending /\ Kept(e, j) # e
      BY <1>4, <2>1 DEF Kept
    <3>2. PICK k \in Kept(e, j) .. Kept(e, i) - 1 : pending[k].do = do
      BY <1>11, <3>1 DEF HeldBy
    <3>3. k # e
      <4> SUFFICES ASSUME k = e PROVE FALSE
        OBVIOUS
      <4>1. Kept(e, j) \in 1 .. e - 1
        BY <1>4, <3>1, <3>2
      <4>2. ~Orders(pending[Kept(e, j)], pending[e])
        BY <4>1 DEF Execute, Ready
      <4>3. CASE do = "record"
        <5>1. pending[e].stream = "border"
          BY <1>1, <3>2, <4>3 DEF Buffers, HostCopies
        <5> QED
          BY <3>1, <4>2, <5>1 DEF Orders
      <4>4. CASE do = "wait"
        <5>1. HeldBy("record", e)
          BY <1>1, <3>2, <4>4 DEF Events
        <5>2. PICK q \in Kept(e, j) .. e - 1 : pending[q].do = "record"
          BY <3>1, <4>1, <5>1 DEF HeldBy
        <5>3. q \in 1 .. e - 1
          BY <1>4, <4>1
        <5>4. ~Orders(pending[q], pending[e])
          BY <5>3 DEF Execute, Ready
        <5> QED
          BY <3>2, <4>4, <5>2, <5>4 DEF Orders
      <4> QED
        BY <4>3, <4>4
    <3>4. CASE k < e
      <4>1. k \in j .. i - 1 /\ k \in DOMAIN pending' /\ Kept(e, k) = k
        BY <1>4, <3>1, <3>2, <3>4 DEF Kept
      <4> QED
        BY <1>4, <3>2, <4>1
    <3>5. CASE k > e
      <4>1. k - 1 \in j .. i - 1 /\ k - 1 \in DOMAIN pending' /\ Kept(e, k - 1) = k
        BY <1>4, <3>1, <3>2, <3>5 DEF Kept
      <4> QED
        BY <1>4, <3>2, <4>1
    <3>6. k < e \/ k > e
      BY <1>4, <3>1, <3>2, <3>3
    <3> QED
      BY <3>4, <3>5, <3>6
  <2> QED
    BY <2>1 DEF HeldBy
<1>12. Events'
  <2>1. ASSUME NEW i \in DOMAIN pending', pending'[i].do = "wait" PROVE HeldBy("record", i)'
    <3>1. i \in 1 .. Len(pending) /\ HeldBy("record", Kept(e, i))
      BY <1>1, <1>4, <2>1 DEF Events
    <3> QED
      BY <1>11, <3>1
  <2>2. ASSUME NEW i \in DOMAIN pending', pending'[i].do = "collideBulk" PROVE HeldBy("wait", i)'
    <3>1. i \in 1 .. Len(pending) /\ HeldBy("wait", Kept(e, i))
      BY <1>1, <1>4, <2>2 DEF Events
    <3> QED
      BY <1>11, <3>1
  <2>3. ASSUME NEW do \in {"record", "wait"}, HeldBy(do, Len(pending) + 1) PROVE HeldBy(do, Len(pending) + 1)'
    <3> DEFINE f == Len(pending)
    <3>1. f \in 1 .. Len(pending) /\ Kept(e, f) = Len(pending) + 1 /\ (Len(pending) + 1)' = f
      BY <1>4 DEF Kept
    <3> HIDE DEF f
    <3>2. \A i \in 1 .. Len(pending) : HeldBy(do, Kept(e, i)) => HeldBy(do, i)'
      BY <1>11
    <3> QED
      BY <2>3, <3>1, <3>2
  <2> QED
    BY <1>1, <1>3, <2>1, <2>2, <2>3 DEF Events
<1> QED
  BY <1>5, <1>6, <1>8, <1>9, <1>10, <1>12 DEF Inv

\* Nothing happens.
LEMMA StutterInv == Inv /\ UNCHANGED vars => Inv'
BY DEF Inv, vars, Types, Buffers, Streams, Bulks, BulkSince, WithBoundary, Overtakes, Conflict, OnGhosts, Events, HeldBy,
       Place, Recent, Quiet

\* The invariant holds in every state.
LEMMA InvariantHolds == Spec => []Inv
<1>1. Inv /\ [Next]_vars => Inv'
  BY LaunchInv, CallInv, DeviceSynchronizeInv, SwapInv, ExecuteInv, StutterInv DEF Next, Host
<1> QED
  BY <1>1, InitInv, PTL DEF Spec

-----------------------------------------------------------------------------
(* What the invariant says *)

\* The host never leaves its program.
THEOREM TypeCorrect == Spec => []TypeOK
<1>1. Inv => TypeOK
  <2> SUFFICES ASSUME Inv PROVE TypeOK
    OBVIOUS
  <2>1. Types /\ posted \subseteq Levels \X setup.axes
    BY DEF Inv, Buffers
  <2>2. \A i \in DOMAIN pending : pending[i] \in Operations
    BY <2>1, ElementOfSeq, LenProperties DEF Types
  <2>3. \A i \in DOMAIN pending : pending[i].do \in Kernels /\ pending[i].stream \in {"border", "bulk", "legacy"}
    BY <2>2 DEF Operations
  <2> QED
    BY <2>1, <2>3 DEF TypeOK, Types
<1> QED
  BY <1>1, InvariantHolds, PTL

\* Neither MPI nor the host touches a buffer that the device still copies.
THEOREM HostBuffersAreIdle == Spec => []HostBuffersIdle
<1>1. Inv => HostBuffersIdle
  <2> SUFFICES ASSUME Inv PROVE HostBuffersIdle
    OBVIOUS
  <2>1. Types /\ Buffers
    BY DEF Inv
  <2>2. ASSUME NEW q \in posted, NEW i \in DOMAIN pending
        PROVE  Buffer("recvHost", q[1], q[2]) \notin pending[i].reads
    <3>1. q = <<Place.level, Place.axis>>
      BY <2>1 DEF Buffers, Receiving
    <3>2. q[2] = Place.axis /\ q[2] \in Axes
      BY <2>1, <3>1, SetupsAssumption DEF Types, Buffers
    <3>3. Previous(Place.axis) # Place.axis
      BY <3>2 DEF Previous, Axes
    <3>4. HostCopies(Place, pending[i])
      BY <2>1 DEF Buffers
    <3>5. Buffer("recvHost", q[1], q[2]).of = "recvHost" /\ Buffer("recvHost", q[1], q[2]).part = q[2]
      BY DEF Buffer
    <3> QED
      BY <3>2, <3>3, <3>4, <3>5 DEF HostCopies
  <2>3. ASSUME Doing("send"), NEW i \in DOMAIN pending
        PROVE  Buffer("sendHost", Current.level, Current.axis) \notin pending[i].writes
    <3>1. Edge(setup, Place, Current, Passed(setup)[at + 1]) /\ Current.do = "send"
      BY <2>1, <2>3, Stands
    <3>2. Place.place = "synchronized"
      BY <3>1, CallMoves DEF Call
    <3>3. pending[i].stream # "border" /\ HostCopies(Place, pending[i])
      BY <2>1, <3>2 DEF Buffers
    <3>4. Buffer("sendHost", Current.level, Current.axis).of = "sendHost"
      BY DEF Buffer
    <3> QED
      BY <3>3, <3>4 DEF HostCopies
  <2> QED
    BY <2>2, <2>3 DEF HostBuffersIdle
<1> QED
  BY <1>1, InvariantHolds, PTL

\* Of two operations on the same data the later one starts before the earlier one
\* has ended only if the earlier one is a bulk collision; and then, on a level with
\* boundary nodes, only to scatter what was received into ghost nodes.
THEOREM OperationsInOrder == Spec => []OnlyBulkOvertaken
<1>1. Inv => OnlyBulkOvertaken
  <2> SUFFICES ASSUME Inv, NEW i \in DOMAIN pending, Ready(i), NEW j \in 1 .. i - 1, Conflict(pending[j], pending[i])
               PROVE  /\ pending[j].do = "collideBulk"
                      /\ pending[j].level \in WithBoundary => OnGhosts(pending[j], pending[i])
    BY DEF OnlyBulkOvertaken, WithBoundary
  <2>1. Types /\ Streams /\ Overtakes /\ Events
    BY DEF Inv
  <2>2. Len(pending) \in Nat /\ DOMAIN pending = 1 .. Len(pending) /\ \A k \in DOMAIN pending : pending[k] \in Operations
    BY <2>1, LenProperties, ElementOfSeq DEF Types
  <2>3. \A k \in 1 .. i - 1 : /\ pending[k].stream # pending[i].stream
                              /\ pending[k].stream # "legacy" /\ pending[i].stream # "legacy"
    BY DEF Ready, Orders
  <2>4. Quiet(j, i) /\ j \in DOMAIN pending
    BY <2>2, <2>3 DEF Quiet
  <2>5. pending[i].stream \in {"border", "bulk"} /\ pending[j].stream \in {"border", "bulk"}
    BY <2>2, <2>3, <2>4 DEF Operations
  <2>6. \A k \in DOMAIN pending : pending[k].do = "wait" =>
          pending[k].stream = "bulk" /\ pending[k].reads = {} /\ pending[k].writes = {}
    BY <2>1 DEF Streams, OnItsStream
  <2>7. pending[i].do # "wait" /\ pending[j].do # "wait"
    BY <2>4, <2>6 DEF Conflict
  <2>8. pending[i].stream # "bulk"
    <3> SUFFICES ASSUME pending[i].stream = "bulk" PROVE FALSE
      OBVIOUS
    <3>1. pending[i].do = "collideBulk" /\ pending[j].stream = "border"
      BY <2>1, <2>3, <2>5, <2>7 DEF Streams, OnItsStream
    <3>2. PICK k \in j .. i - 1 : pending[k].do = "wait"
      BY <2>1, <3>1 DEF Events, HeldBy
    <3>3. k \in 1 .. i - 1 /\ k \in DOMAIN pending
      BY <2>2
    <3> QED
      BY <2>3, <2>6, <3>2, <3>3
  <2>9. pending[i].stream = "border" /\ pending[j].stream = "bulk"
    BY <2>3, <2>5, <2>8
  <2>10. pending[j].do = "collideBulk"
    BY <2>1, <2>4, <2>7, <2>9 DEF Streams, OnItsStream
  <2>11. j < i
    BY <2>2
  <2> QED
    BY <2>1, <2>4, <2>9, <2>10, <2>11 DEF Overtakes
<1> QED
  BY <1>1, InvariantHolds, PTL

-----------------------------------------------------------------------------
(* The exchange does not wait for the bulk *)

\* What the i-th operation waits for, if f says it for those before.
Awaited(f, i) == UNION { {j} \cup f[j] : j \in { k \in 1 .. i - 1 : Orders(pending[k], pending[i]) } }

\* Two functions that agree on what was issued before say the same.
LEMMA AwaitedAgrees ==
  ASSUME NEW f, NEW g, NEW i \in Nat, \A j \in 1 .. i - 1 : f[j] = g[j]
  PROVE  Awaited(f, i) = Awaited(g, i)
BY DEF Awaited

\* The recursion of Before ends.
LEMMA BeforeEnds ==
  ASSUME Types
  PROVE  \E f : f = [i \in DOMAIN pending |-> Awaited(f, i)]
<1> DEFINE n == Len(pending)
           Solves(f, k) == \A i \in 1 .. k : f[i] = Awaited(f, i)
           S == { k \in Nat : \E f : Solves(f, k) }
<1>1. n \in Nat /\ DOMAIN pending = 1 .. n
  BY LenProperties DEF Types
<1>2. 0 \in S
  OBVIOUS
<1>3. ASSUME NEW k \in 0 .. n - 1, k \in S PROVE k + 1 \in S
  <2>1. PICK f : Solves(f, k)
    BY <1>3
  <2> DEFINE g == [i \in 1 .. k + 1 |-> IF i = k + 1 THEN Awaited(f, i) ELSE f[i]]
  <2>2. k \in Nat /\ g[k + 1] = Awaited(f, k + 1) /\ \A i \in 1 .. k : g[i] = f[i]
    BY <1>1
  <2> HIDE DEF g
  <2>3. ASSUME NEW i \in 1 .. k + 1 PROVE Awaited(g, i) = Awaited(f, i)
    <3>1. i \in Nat /\ \A j \in 1 .. i - 1 : g[j] = f[j]
      BY <2>2
    <3> QED
      BY <3>1, AwaitedAgrees
  <2>4. ASSUME NEW i \in 1 .. k + 1 PROVE g[i] = Awaited(g, i)
    <3>1. CASE i = k + 1
      BY <2>2, <2>3, <3>1
    <3>2. CASE i # k + 1
      <4>1. i \in 1 .. k
        BY <2>2, <3>2
      <4> QED
        BY <2>1, <2>2, <2>3, <4>1
    <3> QED
      BY <3>1, <3>2
  <2>5. Solves(g, k + 1)
    BY <2>4
  <2> QED
    BY <2>2, <2>5
<1>4. n \in S
  <2> HIDE DEF S
  <2>1. 0 .. n \subseteq S
    BY <1>1, <1>2, <1>3, SegmentInduction
  <2> QED
    BY <1>1, <2>1
<1>5. PICK f : Solves(f, n)
  BY <1>4
<1> DEFINE h == [i \in DOMAIN pending |-> f[i]]
<1>6. \A i \in 1 .. n : h[i] = f[i]
  BY <1>1
<1>7. \A i \in 1 .. n : Awaited(h, i) = Awaited(f, i)
  <2> HIDE DEF h
  <2> TAKE i \in 1 .. n
  <2>1. i \in Nat /\ \A j \in 1 .. i - 1 : h[j] = f[j]
    BY <1>1, <1>6
  <2> QED
    BY <2>1, AwaitedAgrees
<1>8. h = [i \in DOMAIN pending |-> Awaited(h, i)]
  BY <1>1, <1>5, <1>6, <1>7
<1> QED
  BY <1>8

\* Before is what its definition says.
LEMMA BeforeAwaited ==
  ASSUME Types
  PROVE  \A i \in DOMAIN pending : Before[i] = Awaited(Before, i)
<1> DEFINE f == CHOOSE f : f = [i \in DOMAIN pending |-> Awaited(f, i)]
<1>1. f = [i \in DOMAIN pending |-> Awaited(f, i)]
  BY BeforeEnds
<1>2. Before = f
  BY DEF Before, Awaited
<1> HIDE DEF f
<1>3. \A i \in DOMAIN pending : f[i] = Awaited(f, i)
  BY <1>1
<1> QED
  BY <1>2, <1>3

\* With nothing on the legacy stream behind it, only the bulk stream waits for
\* an operation on the bulk stream.
LEMMA BulkWaitsAlone ==
  ASSUME Types, Buffers, NEW i \in DOMAIN pending, NEW j \in Before[i], j \in DOMAIN pending => Recent(j),
         j \in DOMAIN pending => pending[j].stream = "bulk"
  PROVE  j \in DOMAIN pending /\ j < i /\ pending[i].stream = "bulk"
<1> DEFINE n == Len(pending)
           Good(k) == j \in Before[k] => j \in 1 .. k - 1 /\ pending[k].stream = "bulk"
           S == { k \in Nat : \A m \in 1 .. k : Good(m) }
<1>1. n \in Nat /\ DOMAIN pending = 1 .. n
  BY LenProperties DEF Types
<1>2. 0 \in S
  OBVIOUS
<1>3. ASSUME NEW k \in 0 .. n - 1, k \in S PROVE k + 1 \in S
  <2>1. k + 1 \in 1 .. n /\ k + 1 \in Nat
    BY <1>1
  <2>2. ASSUME j \in Before[k + 1] PROVE j \in 1 .. k /\ pending[k + 1].stream = "bulk"
    <3>1. j \in Awaited(Before, k + 1)
      BY <1>1, <2>1, <2>2, BeforeAwaited
    <3>2. PICK m \in 1 .. (k + 1) - 1 : Orders(pending[m], pending[k + 1]) /\ (j = m \/ j \in Before[m])
      BY <3>1 DEF Awaited
    <3>3. m \in 1 .. k /\ m \in 1 .. n
      BY <1>1, <3>2
    <3>4. j \in 1 .. m /\ j \in 1 .. k /\ pending[m].stream = "bulk"
      <4>1. CASE j = m
        BY <1>1, <3>3, <4>1
      <4>2. CASE j \in Before[m]
        BY <1>3, <3>3, <4>2
      <4> QED
        BY <3>2, <4>1, <4>2
    <3>5. Recent(j) /\ \A q \in j .. n : pending[q].stream # "legacy"
      BY <1>1, <3>3, <3>4 DEF Recent, Quiet
    <3>6. pending[m].stream # "legacy" /\ pending[k + 1].stream # "legacy"
      BY <1>1, <2>1, <3>3, <3>4, <3>5
    <3>7. pending[m].do # "record"
      BY <1>1, <3>3, <3>4 DEF Buffers, HostCopies
    <3>8. pending[k + 1].stream = "bulk"
      BY <3>2, <3>4, <3>6, <3>7 DEF Orders
    <3> QED
      BY <3>4, <3>8
  <2>3. ASSUME NEW m \in 1 .. k + 1 PROVE Good(m)
    <3>1. CASE m = k + 1
      BY <2>2, <3>1
    <3>2. CASE m # k + 1
      BY <1>3, <2>1, <3>2
    <3> QED
      BY <3>1, <3>2
  <2> QED
    BY <2>1, <2>3
<1>4. n \in S
  <2> HIDE DEF S
  <2>1. 0 .. n \subseteq S
    BY <1>1, <1>2, <1>3, SegmentInduction
  <2> QED
    BY <1>1, <2>1
<1> QED
  BY <1>1, <1>4

\* Every operation waits only for earlier ones.
LEMMA BeforeIsEarlier ==
  ASSUME Types
  PROVE  \A i \in DOMAIN pending : Before[i] \subseteq DOMAIN pending
<1> DEFINE n == Len(pending)
           S == { k \in Nat : \A m \in 1 .. k : Before[m] \subseteq 1 .. n }
<1>1. n \in Nat /\ DOMAIN pending = 1 .. n
  BY LenProperties DEF Types
<1>2. 0 \in S
  OBVIOUS
<1>3. ASSUME NEW k \in 0 .. n - 1, k \in S PROVE k + 1 \in S
  <2>1. k + 1 \in 1 .. n /\ k + 1 \in Nat
    BY <1>1
  <2>2. Before[k + 1] = Awaited(Before, k + 1)
    BY <1>1, <2>1, BeforeAwaited
  <2>3. ASSUME NEW j \in Awaited(Before, k + 1) PROVE j \in 1 .. n
    <3>1. PICK m \in 1 .. (k + 1) - 1 : j = m \/ j \in Before[m]
      BY DEF Awaited
    <3>2. m \in 1 .. k /\ m \in 1 .. n
      BY <1>1, <3>1
    <3> QED
      BY <1>3, <3>1, <3>2
  <2> QED
    BY <1>3, <2>1, <2>2, <2>3
<1>4. n \in S
  <2> HIDE DEF S
  <2>1. 0 .. n \subseteq S
    BY <1>1, <1>2, <1>3, SegmentInduction
  <2> QED
    BY <1>1, <2>1
<1> QED
  BY <1>1, <1>4

\* While the host waits for the border, the border does not wait for the bulk of
\* this collision.
THEOREM CommunicationIsHidden == Spec => []CommunicationHidden
<1>1. Inv => CommunicationHidden
  <2> SUFFICES ASSUME Inv, Doing("synchronize"),
                      NEW i \in DOMAIN pending, pending[i].stream = Current.stream,
                      NEW j \in Before[i], pending[j].do = "collideBulk",
                      NodesOf(Current.level, NotSent) = pending[j].writes
               PROVE  FALSE
    BY DEF CommunicationHidden
  <2>1. Types /\ Buffers /\ Bulks
    BY DEF Inv
  <2>2. Edge(setup, Place, Current, Passed(setup)[at + 1]) /\ Current.do = "synchronize"
    BY <2>1, Stands
  <2>3. Current.stream = "border" /\ Place.place # "swapping"
    BY <2>2, CallMoves DEF Call
  <2>4. j \in DOMAIN pending
    BY <2>1, BeforeIsEarlier
  <2> DEFINE l == pending[j].level
  <2>5. pending[j].stream = "bulk" /\ BulkSince(j, l)
    BY <2>1, <2>4 DEF Bulks
  <2> HIDE DEF l
  <2>7. PICK v \in 0 .. swaps[l] : pending[j].writes = BulkNodes(l, v) /\ (v = swaps[l] => Recent(j))
    BY <2>3, <2>5 DEF BulkSince
  <2>8. NodesOf(Current.level, NotSent) = BulkNodes(Current.level, swaps[Current.level])
    BY DEF NodesOf, BulkNodes
  <2>9. Current.level = l /\ swaps[Current.level] = v
    <3> DEFINE x == [of |-> "nodes", level |-> l, part |-> "ghost", swap |-> v]
    <3>1. "ghost" \in NotSent
      BY DEF NotSent, Everywhere
    <3>2. x \in BulkNodes(Current.level, swaps[Current.level])
      BY <2>7, <2>8, <3>1 DEF BulkNodes
    <3>3. \A y \in BulkNodes(Current.level, swaps[Current.level]) :
            y.level = Current.level /\ y.swap = swaps[Current.level]
      BY DEF BulkNodes
    <3>4. x.level = Current.level /\ x.swap = swaps[Current.level]
      BY <3>2, <3>3
    <3> QED
      BY <3>4
  <2>10. Recent(j)
    BY <2>7, <2>9
  <2>11. pending[i].stream = "bulk"
    BY <2>1, <2>5, <2>10, BulkWaitsAlone
  <2> QED
    BY <2>3, <2>11
<1> QED
  BY <1>1, InvariantHolds, PTL

-----------------------------------------------------------------------------
(* The recursion as a nested time stepping *)

\* An odometer says of every level but the finest how often the next finer one
\* was advanced since the two were coupled.
Interfaces == Levels \ {Fine}
Odometers  == [Interfaces -> 0 .. 2]
Nowhere    == [l \in Interfaces |-> 0]

\* Advancing a level, and coupling it to the finer one.
Advanced(e, l) == IF l = 0 THEN e ELSE [e EXCEPT ![l - 1] = @ + 1]
Coupled(e, l)  == IF l = Fine THEN e ELSE [e EXCEPT ![l] = 0]

Turn(e, x, f) ==
  \/ x.do \notin {"swap", "coarseToFineBorder"} /\ f = e
  \/ x.do = "swap" /\ (x.level # 0 => e[x.level - 1] < 2) /\ f = Advanced(e, x.level)
  \/ x.do = "coarseToFineBorder" /\ x.level # Fine /\ e[x.level] = 2 /\ f = Coupled(e, x.level)
Turns == { r \in Odometers \X Statements \X Odometers : Turn(r[1], r[2], r[3]) }

\* Statements that turn nothing.
Idle == { x \in Statements : x.do \notin {"swap", "coarseToFineBorder"} }

\* They leave the odometer as it is.
LEMMA IdleLeads ==
  ASSUME NEW q \in Seq(Idle), NEW e \in Odometers
  PROVE  Leads(Turns, q, e, e)
<1> DEFINE p == [k \in 1 .. Len(q) + 1 |-> e]
<1>1. Len(q) \in Nat /\ q \in Seq(Statements)
  <2>1. Idle \subseteq Statements
    BY DEF Idle
  <2>2. Len(q) \in Nat /\ \A k \in 1 .. Len(q) : q[k] \in Statements
    BY <2>1, ElementOfSeq, LenProperties
  <2> QED
    BY <2>1, <2>2, SeqDef, LenProperties
<1>2. \A k \in 1 .. Len(q) : q[k] \in Idle
  BY ElementOfSeq
<1>3. \A k \in 1 .. Len(q) : <<e, q[k], e>> \in Turns
  BY <1>2 DEF Idle, Turns, Turn
<1>4. \A k \in 1 .. Len(q) + 1 : p[k] = e
  OBVIOUS
<1> HIDE DEF p
<1>5. Walk(Turns, q, p, e, e)
  BY <1>1, <1>3, <1>4 DEF Walk
<1> QED
  BY <1>1, <1>5 DEF Leads

\* One statement is idle, or none.
LEMMA IdleStatement ==
  ASSUME NEW do \in (Kernels \cup HostCalls) \ {"swap", "coarseToFineBorder"},
         NEW stream \in {"border", "bulk", "legacy", "host"}, NEW l \in Levels, NEW a \in Axes \cup {""}
  PROVE  Statement(do, stream, l, a) \in Idle
<1>1. Statement(do, stream, l, a) \in Statements
  BY StatementTyped
<1>2. Statement(do, stream, l, a).do = do
  BY DEF Statement
<1> QED
  BY <1>1, <1>2 DEF Idle

\* Exchanges turn nothing.
LEMMA IdleExchange ==
  ASSUME NEW s \in Setups, NEW l \in Levels
  PROVE  /\ ForAxes(s, "collect", l) \in Seq(Idle)
         /\ ExchangeMultiGPU(s, l) \in Seq(Idle)
<1>1. ASSUME NEW do \in {"collect", "scatter"} PROVE ForAxes(s, do, l) \in Seq(Idle)
  <2>1. ASSUME NEW a \in Axes PROVE OnAxis(s, do, l, a) \in Seq(Idle)
    <3>1. Statement(do, "border", l, a) \in Idle
      BY IdleStatement DEF Kernels
    <3> QED
      BY <3>1 DEF OnAxis
  <2>2. OnAxis(s, do, l, "X") \in Seq(Idle) /\ OnAxis(s, do, l, "Y") \in Seq(Idle) /\ OnAxis(s, do, l, "Z") \in Seq(Idle)
    BY <2>1 DEF Axes
  <2>3. OnAxis(s, do, l, "X") \o OnAxis(s, do, l, "Y") \in Seq(Idle)
    BY <2>2, ConcatProperties
  <2> QED
    BY <2>2, <2>3, ConcatProperties DEF ForAxes
<1>2. ASSUME NEW a \in Axes PROVE ExchangeCollData(s, l, a) \in Seq(Idle)
  <2> DEFINE x1 == Statement("download", "border", l, a)
             x2 == Statement("post", "host", l, a)
             x3 == Statement("synchronize", "border", l, a)
             x4 == Statement("send", "host", l, a)
             x5 == Statement("await", "host", l, a)
             x6 == Statement("upload", "border", l, a)
  <2>1. x1 \in Idle /\ x2 \in Idle /\ x3 \in Idle /\ x4 \in Idle /\ x5 \in Idle /\ x6 \in Idle
    BY IdleStatement DEF Kernels, HostCalls
  <2>2. ExchangeCollData(s, l, a) = <<x3>> \/ ExchangeCollData(s, l, a) = <<x1, x2, x3, x4, x5, x6>>
    BY DEF ExchangeCollData
  <2> HIDE DEF x1, x2, x3, x4, x5, x6
  <2>3. <<x3>> \in Seq(Idle) /\ <<x1, x2, x3, x4, x5, x6>> \in Seq(Idle)
    BY <2>1
  <2> QED
    BY <2>2, <2>3
<1>3. /\ ExchangeCollData(s, l, "X") \in Seq(Idle) /\ ExchangeCollData(s, l, "Y") \in Seq(Idle)
      /\ ExchangeCollData(s, l, "Z") \in Seq(Idle) /\ ForAxes(s, "scatter", l) \in Seq(Idle)
  BY <1>1, <1>2 DEF Axes
<1>4. ExchangeCollData(s, l, "X") \o ExchangeCollData(s, l, "Y") \in Seq(Idle)
  BY <1>3, ConcatProperties
<1>5. ExchangeCollData(s, l, "X") \o ExchangeCollData(s, l, "Y") \o ExchangeCollData(s, l, "Z") \in Seq(Idle)
  BY <1>3, <1>4, ConcatProperties
<1>6. ExchangeMultiGPU(s, l) \in Seq(Idle)
  BY <1>3, <1>5, ConcatProperties DEF ExchangeMultiGPU
<1> QED
  BY <1>1, <1>6

\* So do the kernels of a collision, and the boundary conditions.
LEMMA IdleCollision ==
  ASSUME NEW s \in Setups, NEW l \in Levels
  PROVE  /\ CollisionAndExchange(s, l) \in Seq(Idle)
         /\ BoundaryCondition(s, l, "postCollisionBC") \in Seq(Idle)
         /\ BoundaryCondition(s, l, "preCollisionBC") \in Seq(Idle)
<1> DEFINE x1 == Statement("collideBorder", "border", l, "")
           x2 == Statement("record", "border", l, "")
           x3 == Statement("wait", "bulk", l, "")
           x4 == Statement("collideBulk", "bulk", l, "")
<1>1. x1 \in Idle /\ x2 \in Idle /\ x3 \in Idle /\ x4 \in Idle
  BY IdleStatement DEF Kernels
<1>2. /\ Statement("postCollisionBC", "legacy", l, "") \in Idle
      /\ Statement("preCollisionBC", "legacy", l, "") \in Idle
  BY IdleStatement DEF Kernels
<1>3. ForAxes(s, "collect", l) \in Seq(Idle) /\ ExchangeMultiGPU(s, l) \in Seq(Idle)
  BY IdleExchange
<1> HIDE DEF x1, x2, x3, x4
<1>4. <<x1>> \in Seq(Idle) /\ <<x2, x3, x4>> \in Seq(Idle)
  BY <1>1
<1>5. <<x1>> \o ForAxes(s, "collect", l) \in Seq(Idle)
  BY <1>3, <1>4, ConcatProperties
<1>6. <<x1>> \o ForAxes(s, "collect", l) \o <<x2, x3, x4>> \in Seq(Idle)
  BY <1>4, <1>5, ConcatProperties
<1>7. <<x1>> \o ForAxes(s, "collect", l) \o <<x2, x3, x4>> \o ExchangeMultiGPU(s, l) \in Seq(Idle)
  BY <1>3, <1>6, ConcatProperties
<1>8. CollisionAndExchange(s, l) \in Seq(Idle)
  BY <1>7 DEF CollisionAndExchange, x1, x2, x3, x4
<1>9. ASSUME NEW do \in {"postCollisionBC", "preCollisionBC"} PROVE BoundaryCondition(s, l, do) \in Seq(Idle)
  <2> DEFINE x == Statement(do, "legacy", l, "")
  <2>1. x \in Idle
    BY <1>2
  <2>2. BoundaryCondition(s, l, do) \in {<<x>>, << >>}
    BY DEF BoundaryCondition
  <2> HIDE DEF x
  <2>3. <<x>> \in Seq(Idle) /\ << >> \in Seq(Idle)
    BY <2>1
  <2> QED
    BY <2>2, <2>3
<1> QED
  BY <1>8, <1>9

\* What is done on a level advances it once and couples it to the finer level,
\* which has to have been advanced twice.
LEMMA LevelTurns ==
  ASSUME NEW s \in Setups, NEW l \in Levels, NEW e \in Odometers,
         l # 0 => e[l - 1] < 2, l # Fine => e[l] = 2
  PROVE  Leads(Turns, UpdateLevel(s, l), e, Coupled(Advanced(e, l), l))
<1> DEFINE f  == Advanced(e, l)
           g  == Coupled(f, l)
           x1 == Statement("swap", "host", l, "")
           x2 == Statement("coarseToFineBorder", "border", l, "")
<1>1. /\ l # 0 => l - 1 \in Interfaces /\ l - 1 # l
      /\ l # Fine => l \in Interfaces
  BY FineAssumption DEF Interfaces, Levels
<1>2. f \in Odometers /\ (l # Fine => f[l] = 2)
  <2>1. CASE l = 0
    BY <2>1 DEF Advanced
  <2>2. CASE l # 0
    <3>1. e[l - 1] \in 0 .. 2 /\ e[l - 1] + 1 \in 0 .. 2
      BY <1>1, <2>2 DEF Odometers
    <3>2. f = [e EXCEPT ![l - 1] = e[l - 1] + 1]
      BY <2>2 DEF Advanced
    <3> QED
      BY <1>1, <2>2, <3>1, <3>2 DEF Odometers
  <2> QED
    BY <2>1, <2>2
<1>3. g \in Odometers
  BY <1>1, <1>2 DEF Coupled, Odometers
<1>4. x1 \in Statements /\ x1.do = "swap" /\ x1.level = l /\ x2 \in Statements /\ x2.do = "coarseToFineBorder" /\ x2.level = l
  <2>1. x1 \in Statements /\ x2 \in Statements
    BY StatementTyped DEF Kernels, HostCalls
  <2> QED
    BY <2>1 DEF Statement
<1> HIDE DEF x1, x2, g, f
<1>5. Leads(Turns, <<x1>>, e, f)
  <2>1. Turn(e, x1, f)
    BY <1>4 DEF Turn, f
  <2> QED
    BY <1>2, <1>4, <2>1, OneLeads DEF Turns
<1>6. Leads(Turns, CollisionAndExchange(s, l) \o BoundaryCondition(s, l, "postCollisionBC"), e, e)
  BY IdleCollision, IdleLeads, ConcatLeads
<1>7. Leads(Turns, CollisionAndExchange(s, l) \o BoundaryCondition(s, l, "postCollisionBC") \o <<x1>>, e, f)
  BY <1>5, <1>6, ConcatLeads
<1>8. Leads(Turns, CollisionAndExchange(s, l) \o BoundaryCondition(s, l, "postCollisionBC") \o <<x1>>
                     \o BoundaryCondition(s, l, "preCollisionBC"), e, f)
  BY <1>2, <1>7, IdleCollision, IdleLeads, ConcatLeads
<1>9. Leads(Turns, IF l = Fine THEN << >> ELSE RefinementAndExchange(s, l), f, g)
  <2>1. CASE l = Fine
    BY <2>1, EmptyLeads DEF g, Coupled
  <2>2. CASE l # Fine
    <3> DEFINE y1 == Statement("fineToCoarseBorder", "border", l, "")
               y2 == Statement("record", "border", l, "")
               y3 == Statement("wait", "bulk", l, "")
               y4 == Statement("fineToCoarseBulk", "border", l, "")
               y5 == Statement("coarseToFineBulk", "border", l, "")
               y6 == Statement("deviceSynchronize", "host", l, "")
               q  == <<y1>> \o ForAxes(s, "collect", l) \o <<y2, y3, y4, y5>> \o ExchangeMultiGPU(s, l)
    <3>1. y1 \in Idle /\ y2 \in Idle /\ y3 \in Idle /\ y4 \in Idle /\ y5 \in Idle /\ y6 \in Idle
      BY IdleStatement DEF Kernels, HostCalls
    <3>2. RefinementAndExchange(s, l) = q \o <<x2, y6>>
      BY DEF RefinementAndExchange, x2
    <3>3. ForAxes(s, "collect", l) \in Seq(Idle) /\ ExchangeMultiGPU(s, l) \in Seq(Idle)
      BY IdleExchange
    <3> HIDE DEF y1, y2, y3, y4, y5, y6
    <3>4. <<y1>> \in Seq(Idle) /\ <<y2, y3, y4, y5>> \in Seq(Idle)
      BY <3>1
    <3>5. <<y1>> \o ForAxes(s, "collect", l) \in Seq(Idle)
      BY <3>3, <3>4, ConcatProperties
    <3>6. <<y1>> \o ForAxes(s, "collect", l) \o <<y2, y3, y4, y5>> \in Seq(Idle)
      BY <3>4, <3>5, ConcatProperties
    <3>7. q \in Seq(Idle)
      BY <3>3, <3>6, ConcatProperties
    <3>8. Leads(Turns, q, f, f)
      BY <1>2, <3>7, IdleLeads
    <3>9. Leads(Turns, <<x2, y6>>, f, g)
      <4>1. Turn(f, x2, g)
        BY <1>2, <1>4, <2>2 DEF Turn, g
      <4>2. Turn(g, y6, g) /\ y6 \in Statements
        BY <3>1 DEF Turn, Idle
      <4>3. <<f, x2, g>> \in Turns /\ <<g, y6, g>> \in Turns
        BY <1>2, <1>3, <1>4, <4>1, <4>2 DEF Turns
      <4>4. <<x2, y6>> \in Seq(Statements) /\ Len(<<x2, y6>>) = 2
        BY <1>4, <4>2
      <4>5. \A k \in 1 .. 2 : <<<<f, g, g>>[k], <<x2, y6>>[k], <<f, g, g>>[k + 1]>> \in Turns
        BY <4>3
      <4>6. Walk(Turns, <<x2, y6>>, <<f, g, g>>, f, g)
        BY <4>4, <4>5 DEF Walk
      <4> QED
        BY <4>4, <4>6 DEF Leads
    <3> HIDE DEF q
    <3>10. Leads(Turns, q \o <<x2, y6>>, f, g)
      BY <3>8, <3>9, ConcatLeads
    <3> QED
      BY <2>2, <3>2, <3>10
  <2> QED
    BY <2>1, <2>2
<1>10. Leads(Turns, CollisionAndExchange(s, l) \o BoundaryCondition(s, l, "postCollisionBC") \o <<x1>>
                      \o BoundaryCondition(s, l, "preCollisionBC")
                      \o (IF l = Fine THEN << >> ELSE RefinementAndExchange(s, l)), e, g)
  BY <1>8, <1>9, ConcatLeads
<1> QED
  BY <1>10 DEF UpdateLevel, x1, f, g

\* From level l on: the level is advanced once, whatever is finer ends where it
\* began.
Rests(e, l) == (\A k \in Interfaces : k >= l => e[k] = 0) /\ (l # 0 => e[l - 1] < 2)

\* The whole recursion ends where it began.
LEMMA GridTurns ==
  ASSUME NEW s \in Setups
  PROVE  Leads(Turns, UpdateGrid(s), Nowhere, Nowhere)
<1>1. PICK f : UpdateGrid(s) = f[0] /\ \A l \in Levels : f[l] = Recursion(s, f, l)
  BY GridIsRecursion
<1> DEFINE Good(l) == \A e \in Odometers : Rests(e, l) => Leads(Turns, f[l], e, Advanced(e, l))
           S == { k \in Nat : Good(Fine - k) }
<1>2. Fine \in Nat /\ Interfaces = 0 .. Fine - 1
  BY FineAssumption DEF Interfaces, Levels
<1>3. 0 \in S
  <2>1. Fine - 0 = Fine /\ Fine \in Levels
    BY <1>2 DEF Levels
  <2>2. f[Fine] = UpdateLevel(s, Fine)
    BY <1>1, <2>1 DEF Recursion
  <2>3. ASSUME NEW e \in Odometers, Rests(e, Fine) PROVE Leads(Turns, f[Fine], e, Advanced(e, Fine))
    <3>1. Coupled(Advanced(e, Fine), Fine) = Advanced(e, Fine)
      BY DEF Coupled
    <3>2. Leads(Turns, UpdateLevel(s, Fine), e, Coupled(Advanced(e, Fine), Fine))
      BY <2>1, <2>3, LevelTurns DEF Rests
    <3> QED
      BY <2>2, <3>1, <3>2
  <2> QED
    BY <2>1, <2>3
<1>4. ASSUME NEW k \in 0 .. Fine - 1, k \in S PROVE k + 1 \in S
  <2> DEFINE l == Fine - (k + 1)
  <2>1. l \in Levels /\ l # Fine /\ l + 1 = Fine - k /\ l + 1 \in Levels /\ l \in Interfaces /\ l + 1 # 0 /\ (l + 1) - 1 = l
        /\ l \in Nat
    BY <1>2 DEF Levels
  <2> HIDE DEF l
  <2>2. f[l] = f[l + 1] \o f[l + 1] \o UpdateLevel(s, l)
    BY <1>1, <2>1 DEF Recursion
  <2>3. Good(l + 1)
    BY <1>4, <2>1
  <2>4. ASSUME NEW e \in Odometers, Rests(e, l) PROVE Leads(Turns, f[l], e, Advanced(e, l))
    <3> DEFINE e1 == Advanced(e, l + 1)
               e2 == Advanced(e1, l + 1)
    <3>1. e[l] = 0 /\ \A i \in Interfaces : i >= l => e[i] = 0
      BY <2>1, <2>4 DEF Rests
    <3>2. e1 = [e EXCEPT ![l] = @ + 1] /\ e2 = [e1 EXCEPT ![l] = @ + 1]
      BY <2>1 DEF Advanced
    <3>3. e \in [Interfaces -> 0 .. 2]
      BY DEF Odometers
    <3> HIDE DEF e1, e2
    <3>4. e1 \in Odometers /\ e1[l] = 1 /\ \A i \in Interfaces : i # l => e1[i] = e[i]
      BY <2>1, <3>1, <3>2, <3>3 DEF Odometers
    <3>5. e2 \in Odometers /\ e2[l] = 2 /\ \A i \in Interfaces : i # l => e2[i] = e[i]
      BY <2>1, <3>2, <3>4 DEF Odometers
    <3>6. Rests(e, l + 1) /\ Rests(e1, l + 1)
      BY <1>2, <2>1, <3>1, <3>4 DEF Rests
    <3>7. Leads(Turns, f[l + 1] \o f[l + 1], e, e2)
      <4>1. Leads(Turns, f[l + 1], e, e1) /\ Leads(Turns, f[l + 1], e1, e2)
        BY <2>3, <3>4, <3>6 DEF e1, e2
      <4> QED
        BY <4>1, ConcatLeads
    <3>8. Leads(Turns, UpdateLevel(s, l), e2, Coupled(Advanced(e2, l), l))
      <4>1. l # 0 => e2[l - 1] < 2
        BY <1>2, <2>1, <2>4, <3>5 DEF Rests
      <4> QED
        BY <2>1, <3>5, <4>1, LevelTurns
    <3>9. Coupled(Advanced(e2, l), l) = Advanced(e, l)
      <4> DEFINE g == Coupled(Advanced(e2, l), l)
                 h == Advanced(e, l)
      <4>1. CASE l = 0
        <5>1. g = [e2 EXCEPT ![l] = 0] /\ h = e
          BY <2>1, <4>1 DEF Advanced, Coupled
        <5> QED
          BY <2>1, <3>1, <3>3, <3>5, <5>1 DEF Odometers
      <4>2. CASE l # 0
        <5>1. g = [[e2 EXCEPT ![l - 1] = @ + 1] EXCEPT ![l] = 0] /\ h = [e EXCEPT ![l - 1] = @ + 1]
          BY <2>1, <4>2 DEF Advanced, Coupled
        <5>2. l - 1 \in Interfaces /\ l - 1 # l
          BY <1>2, <2>1, <4>2
        <5>3. \A i \in Interfaces : g[i] = h[i]
          <6> HIDE DEF g, h
          <6> TAKE i \in Interfaces
          <6>1. CASE i = l
            BY <2>1, <3>1, <3>3, <3>5, <5>1, <5>2, <6>1 DEF Odometers
          <6>2. CASE i = l - 1
            BY <2>1, <3>3, <3>5, <5>1, <5>2, <6>2 DEF Odometers
          <6>3. CASE i # l /\ i # l - 1
            BY <2>1, <3>3, <3>5, <5>1, <5>2, <6>3 DEF Odometers
          <6> QED
            BY <6>1, <6>2, <6>3
        <5>4. g = [i \in Interfaces |-> g[i]] /\ h = [i \in Interfaces |-> h[i]]
          <6> HIDE DEF g, h
          <6> QED
            BY <3>3, <3>5, <5>1 DEF Odometers
        <5> QED
          BY <5>3, <5>4
      <4> QED
        BY <4>1, <4>2
    <3> QED
      BY <2>2, <3>7, <3>8, <3>9, ConcatLeads
  <2> QED
    BY <2>1, <2>4 DEF l
<1>5. Fine \in S
  <2> HIDE DEF S
  <2>1. 0 .. Fine \subseteq S
    BY <1>2, <1>3, <1>4, SegmentInduction
  <2> QED
    BY <1>2, <2>1
<1>6. Good(0)
  <2>1. Fine - Fine = 0
    BY <1>2
  <2> QED
    BY <1>5, <2>1
<1>7. Nowhere \in Odometers /\ Rests(Nowhere, 0) /\ Advanced(Nowhere, 0) = Nowhere
  BY DEF Nowhere, Odometers, Rests, Advanced
<1> QED
  BY <1>1, <1>6, <1>7

\* What the odometer reads at each statement of the program.
Readings(s) == CHOOSE p : Walk(Turns, UpdateGrid(s), p, Nowhere, Nowhere)
Odometer    == Readings(setup)[at]

\* A step of the host turns the odometer.
LEMMA HostTurns ==
  ASSUME Types, NEW do, Doing(do), Advance, setup' = setup
  PROVE  Odometer \in Odometers /\ Odometer' \in Odometers /\ Turn(Odometer, Current, Odometer')
<1> DEFINE n == Len(Program[setup])
           p == Readings(setup)
<1>1. n \in Nat /\ Program[setup] = UpdateGrid(setup)
  BY Round DEF Types
<1>2. Walk(Turns, Program[setup], p, Nowhere, Nowhere)
  <2>1. Leads(Turns, UpdateGrid(setup), Nowhere, Nowhere)
    BY GridTurns DEF Types
  <2>2. \E w : Walk(Turns, UpdateGrid(setup), w, Nowhere, Nowhere)
    BY <2>1 DEF Leads
  <2> QED
    BY <1>1, <2>2 DEF Readings
<1>3. at \in 1 .. n
  BY <1>1 DEF Types, Doing
<1>4. <<p[at], Program[setup][at], p[at + 1]>> \in Turns
  BY <1>2, <1>3 DEF Walk
<1>5. p[1] = p[n + 1] /\ (at' = at + 1 \/ (at = n /\ at' = 1))
  BY <1>1, <1>2, <1>3 DEF Advance, Walk
<1>6. Odometer = p[at] /\ Odometer' = p[at'] /\ p[at'] = p[at + 1]
  BY <1>5 DEF Odometer
<1> HIDE DEF p, n
<1> QED
  BY <1>4, <1>6 DEF Turns, Current

\* The host has advanced level l and not yet coupled it to the finer one.
Ahead(n, l) == n.level = l /\ (n.place \in {"swapped", "coupling"} \/ (n.phase = "refinement" /\ n.place # "coupled"))

\* When a statement goes ahead, and when it catches up.
LEMMA EdgeAhead ==
  ASSUME NEW s, NEW n, NEW x, NEW m, Edge(s, n, x, m), NEW k \in Interfaces
  PROVE  /\ x.do = "swap" => /\ x.level \in Levels /\ ~Ahead(n, k)
                             /\ Ahead(m, k) <=> k = x.level
         /\ x.do = "coarseToFineBorder" => /\ x.level \in Interfaces /\ ~Ahead(m, k)
                                           /\ Ahead(n, k) <=> k = x.level
         /\ x.do \notin {"swap", "coarseToFineBorder"} => (Ahead(n, k) <=> Ahead(m, k))
<1>1. PICK l \in Levels :
        \/ \E ph \in Phases, a \in Axes : ExchangeEdge(s, n, x, m, ph, l, a) \/ KernelEdge(s, n, x, m, ph, l, a)
        \/ ClosingEdge(s, n, x, m, l)
  BY DEF Edge
<1>2. ASSUME NEW ph \in Phases, NEW a \in Axes, ExchangeEdge(s, n, x, m, ph, l, a)
      PROVE  x.do \notin {"swap", "coarseToFineBorder"} /\ (Ahead(n, k) <=> Ahead(m, k))
  <2>1. x.do \notin {"swap", "coarseToFineBorder"}
    <3>1. PICK do \in {"download", "post", "synchronize", "send", "await", "upload"}, stream \in {"border", "host"} :
            x = Statement(do, stream, l, a)
      BY <1>2 DEF ExchangeEdge
    <3> QED
      BY <3>1 DEF Statement
  <2>2. PICK place1 \in {"open", "downloaded", "posted", "synchronized", "sent", "received"},
             place2 \in {"open", "downloaded", "posted", "synchronized", "sent", "received"},
             b \in {a, After(a)} :
          n = Point(ph, place1, l, a) /\ m = Point(ph, place2, l, b)
    BY <1>2 DEF ExchangeEdge, Open
  <2>3. Ahead(n, k) <=> Ahead(m, k)
    BY <2>2 DEF Ahead, Point
  <2> QED
    BY <2>1, <2>3
<1>3. ASSUME NEW ph \in Phases, NEW a \in Axes, KernelEdge(s, n, x, m, ph, l, a)
      PROVE  x.do \notin {"swap", "coarseToFineBorder"} /\ (Ahead(n, k) <=> Ahead(m, k))
  <2>1. x.do \notin {"swap", "coarseToFineBorder"}
    <3>1. PICK do \in Kernels \ {"coarseToFineBorder"}, stream \in {"border", "bulk"}, b \in {"", a} :
            x = Statement(do, stream, l, b)
      BY <1>3 DEF KernelEdge, Kernels
    <3> QED
      BY <3>1 DEF Statement, Kernels
  <2>2. CASE n = Between /\ m = Open("collision", l, "X")
    BY <2>1, <2>2 DEF Ahead, Open, Point, Between
  <2>3. CASE n = Point("none", "coupling", l, "") /\ m = Open("refinement", l, "X")
    BY <2>1, <2>3 DEF Ahead, Open, Point
  <2>4. CASE \E phase \in Phases, place1, place2 \in {"open", "recorded", "waited"}, b \in {"X", "done"} :
               n = Point(phase, place1, l, b) /\ m = Point(phase, place2, l, b)
    BY <2>1, <2>4 DEF Ahead, Point
  <2> QED
    BY <1>3, <2>1, <2>2, <2>3, <2>4 DEF KernelEdge, Open, Phases
<1>4. k # Fine /\ ~Ahead(Between, k) /\ (Ahead(Updated(l), k) <=> k = l)
  <2>1. k # Fine
    BY DEF Interfaces
  <2>2. ~Ahead(Between, k)
    BY DEF Ahead, Between, Point
  <2>3. Ahead(Point("none", "coupling", l, ""), k) <=> k = l
    BY DEF Ahead, Point
  <2> QED
    BY <2>1, <2>2, <2>3 DEF Updated
<1>5. CASE x = Statement("postCollisionBC", "legacy", l, "")
           /\ n = Open("collision", l, "done") /\ m = Point("none", "swapping", l, "")
  <2>1. x.do = "postCollisionBC"
    BY <1>5 DEF Statement
  <2>2. ~Ahead(n, k) /\ ~Ahead(m, k)
    BY <1>5 DEF Ahead, Open, Point
  <2> QED
    BY <2>1, <2>2
<1>6. CASE x = Statement("swap", "host", l, "") /\ n = Swapping(s, l) /\ m = Swapped(s, l)
  <2>1. x.do = "swap" /\ x.level = l
    BY <1>6 DEF Statement
  <2>2. ~Ahead(n, k)
    BY <1>6 DEF Ahead, Swapping, Open, Point
  <2>3. Ahead(Point("none", "swapped", l, ""), k) <=> k = l
    BY DEF Ahead, Point
  <2>4. Ahead(m, k) <=> k = l
    BY <1>4, <1>6, <2>3 DEF Swapped
  <2> QED
    BY <2>1, <2>2, <2>4
<1>7. CASE x = Statement("preCollisionBC", "legacy", l, "") /\ n = Point("none", "swapped", l, "") /\ m = Updated(l)
  <2>1. x.do = "preCollisionBC"
    BY <1>7 DEF Statement
  <2>2. Ahead(n, k) <=> k = l
    BY <1>7 DEF Ahead, Point
  <2> QED
    BY <1>4, <1>7, <2>1, <2>2
<1>8. CASE x = Statement("coarseToFineBorder", "border", l, "") /\ l # Fine
           /\ n = Open("refinement", l, "done") /\ m = Point("refinement", "coupled", l, "")
  <2>1. x.do = "coarseToFineBorder" /\ x.level = l
    BY <1>8 DEF Statement
  <2>2. ~Ahead(m, k) /\ (Ahead(n, k) <=> k = l)
    BY <1>8 DEF Ahead, Open, Point
  <2> QED
    BY <1>8, <2>1, <2>2 DEF Interfaces
<1>9. CASE x = Statement("deviceSynchronize", "host", l, "")
           /\ n = Point("refinement", "coupled", l, "") /\ m = Between
  <2>1. x.do = "deviceSynchronize"
    BY <1>9 DEF Statement
  <2>2. ~Ahead(n, k)
    BY <1>9 DEF Ahead, Point
  <2> QED
    BY <1>4, <1>9, <2>1, <2>2
<1>10. ClosingEdge(s, n, x, m, l) =>
         /\ x.do = "swap" => x.level \in Levels /\ ~Ahead(n, k) /\ (Ahead(m, k) <=> k = x.level)
         /\ x.do = "coarseToFineBorder" => x.level \in Interfaces /\ ~Ahead(m, k) /\ (Ahead(n, k) <=> k = x.level)
         /\ x.do \notin {"swap", "coarseToFineBorder"} => (Ahead(n, k) <=> Ahead(m, k))
  BY <1>5, <1>6, <1>7, <1>8, <1>9 DEF ClosingEdge
<1> QED
  BY <1>1, <1>2, <1>3, <1>10

\* Counting the statements of a kind up to the next one.
Made(k, do, l) == { i \in 1 .. k - 1 : Program[setup][i].do = do /\ Program[setup][i].level = l }
\* The next statement is one more or none.
LEMMA CountMade ==
  ASSUME NEW k \in Nat \ {0}, NEW do, NEW l
  PROVE  /\ Cardinality(Made(k, do, l)) \in Nat
         /\ Cardinality(Made(k + 1, do, l)) =
              Cardinality(Made(k, do, l)) + IF Program[setup][k].do = do /\ Program[setup][k].level = l THEN 1 ELSE 0
<1>1. IsFiniteSet(Made(k, do, l))
  <2>1. Made(k, do, l) \subseteq 1 .. k - 1
    BY DEF Made
  <2>2. IsFiniteSet(1 .. k - 1)
    BY FS_Interval
  <2> QED
    BY <2>1, <2>2, FS_Subset
<1>2. Cardinality(Made(k, do, l)) \in Nat
  BY <1>1, FS_CardinalityType
<1>3. CASE Program[setup][k].do = do /\ Program[setup][k].level = l
  <2>1. Made(k + 1, do, l) = Made(k, do, l) \cup {k} /\ k \notin Made(k, do, l)
    BY <1>3 DEF Made
  <2>2. Cardinality(Made(k, do, l) \cup {k}) = Cardinality(Made(k, do, l)) + 1
    BY <1>1, <2>1, FS_AddElement
  <2> QED
    BY <1>2, <1>3, <2>1, <2>2
<1>4. CASE ~(Program[setup][k].do = do /\ Program[setup][k].level = l)
  <2>1. Made(k + 1, do, l) = Made(k, do, l)
    <3>1. \A i \in 1 .. (k + 1) - 1 : i \in 1 .. k - 1 \/ i = k
      OBVIOUS
    <3>2. 1 .. k - 1 \subseteq 1 .. (k + 1) - 1
      OBVIOUS
    <3> QED
      BY <1>4, <3>1, <3>2, Zenon DEF Made
  <2> QED
    BY <1>2, <1>4, <2>1
<1> QED
  BY <1>2, <1>3, <1>4

\* The levels that are ahead are those advanced more often than coupled.
AsCounted == \A l \in Interfaces :
               Issued("swap", l) - Issued("coarseToFineBorder", l) = IF Ahead(Place, l) THEN 1 ELSE 0
AsRead    == \A l \in Interfaces : swaps[l + 1] = 2 * LastCoupled[l] + Odometer[l]
Nesting   == Types /\ AsCounted /\ AsRead

\* When a level was coupled to the finer one.
LEMMA CoupledAt ==
  ASSUME AsCounted
  PROVE  /\ LastCoupled = [l \in Interfaces |-> LastCoupled[l]]
         /\ \A l \in Interfaces : LastCoupled[l] = swaps[l] - IF Ahead(Place, l) THEN 1 ELSE 0
BY DEF AsCounted, LastCoupled, Interfaces

\* A step of the host keeps the count.
LEMMA HostCounts ==
  ASSUME Types, AsCounted, NEW do, Doing(do), Advance, setup' = setup
  PROVE  AsCounted'
<1> DEFINE n == Len(Program[setup])
<1>1. Edge(setup, Place, Current, Place') /\ Current.do = do
  BY HostMoves
<1>2. n \in Nat /\ Walk(Roads(setup), Program[setup], Passed(setup), Between, Between)
  BY Round DEF Types
<1>3. at \in 1 .. n /\ (at' = at + 1 \/ (at = n /\ at' = 1))
  BY <1>2 DEF Types, Doing, Advance
<1>4. ASSUME NEW l \in Interfaces
      PROVE  Issued("swap", l)' - Issued("coarseToFineBorder", l)' = IF Ahead(Place', l) THEN 1 ELSE 0
  <2>1. CASE at' = at + 1
    <3>1. /\ Issued("swap", l) = Cardinality(Made(at, "swap", l))
          /\ Issued("coarseToFineBorder", l) = Cardinality(Made(at, "coarseToFineBorder", l))
          /\ Issued("swap", l)' = Cardinality(Made(at + 1, "swap", l))
          /\ Issued("coarseToFineBorder", l)' = Cardinality(Made(at + 1, "coarseToFineBorder", l))
      BY <2>1 DEF Issued, Made
    <3>2. at \in Nat \ {0} /\ Current = Program[setup][at]
      BY <1>3 DEF Current
    <3>3. /\ Cardinality(Made(at, "swap", l)) \in Nat /\ Cardinality(Made(at, "coarseToFineBorder", l)) \in Nat
          /\ Cardinality(Made(at + 1, "swap", l)) = Cardinality(Made(at, "swap", l))
               + IF Current.do = "swap" /\ Current.level = l THEN 1 ELSE 0
          /\ Cardinality(Made(at + 1, "coarseToFineBorder", l)) = Cardinality(Made(at, "coarseToFineBorder", l))
               + IF Current.do = "coarseToFineBorder" /\ Current.level = l THEN 1 ELSE 0
      BY <3>2, CountMade
    <3>4. Issued("swap", l) - Issued("coarseToFineBorder", l) = IF Ahead(Place, l) THEN 1 ELSE 0
      BY DEF AsCounted
    <3>5. /\ Current.do = "swap" => ~Ahead(Place, l) /\ (Ahead(Place', l) <=> l = Current.level)
          /\ Current.do = "coarseToFineBorder" => ~Ahead(Place', l) /\ (Ahead(Place, l) <=> l = Current.level)
          /\ Current.do \notin {"swap", "coarseToFineBorder"} => (Ahead(Place, l) <=> Ahead(Place', l))
      BY <1>1, EdgeAhead
    <3> QED
      BY <3>1, <3>3, <3>4, <3>5
  <2>2. CASE at' = 1
    <3>1. Issued("swap", l)' = Cardinality({}) /\ Issued("coarseToFineBorder", l)' = Cardinality({})
      BY <2>2 DEF Issued
    <3>2. Place' = Between
      BY <1>2, <2>2 DEF Place, Walk
    <3>3. ~Ahead(Between, l)
      BY DEF Ahead, Between, Point
    <3> QED
      BY <3>1, <3>2, <3>3, FS_EmptySet
  <2> QED
    BY <1>3, <2>1, <2>2
<1> QED
  BY <1>4 DEF AsCounted

\* What a step of the host does to the levels.
LEMMA HostActs ==
  ASSUME Host
  PROVE  \E do : /\ Doing(do) /\ Advance /\ setup' = setup
                 /\ IF do = "swap" THEN swaps' = [swaps EXCEPT ![Current.level] = @ + 1] ELSE swaps' = swaps
<1>1. CASE Launch
  BY <1>1 DEF Launch, Kernels
<1>2. CASE SwapBetweenEvenAndOddTimestep
  BY <1>2 DEF SwapBetweenEvenAndOddTimestep
<1>3. CASE Synchronize \/ DeviceSynchronize \/ PostReceive \/ Send \/ WaitAll
  BY <1>3 DEF Synchronize, DeviceSynchronize, PostReceive, Send, WaitAll
<1> QED
  BY <1>1, <1>2, <1>3 DEF Host

\* At the beginning no level has been advanced.
LEMMA NestingInit == Init => Nesting /\ Nested!Init
<1> SUFFICES ASSUME Init PROVE Nesting /\ Nested!Init
  OBVIOUS
<1>1. setup \in Setups /\ at = 1 /\ swaps = [l \in Levels |-> 0]
  BY DEF Init
<1>2. Types
  BY InitInv DEF Inv
<1>3. Place = Between
  <2>1. Walk(Roads(setup), Program[setup], Passed(setup), Between, Between)
    BY <1>1, Round
  <2> QED
    BY <1>1, <2>1 DEF Walk, Place
<1>4. Odometer = Nowhere
  <2>1. Leads(Turns, UpdateGrid(setup), Nowhere, Nowhere)
    BY <1>1, GridTurns
  <2>2. \E w : Walk(Turns, UpdateGrid(setup), w, Nowhere, Nowhere)
    BY <2>1 DEF Leads
  <2>3. Walk(Turns, UpdateGrid(setup), Readings(setup), Nowhere, Nowhere)
    BY <2>2 DEF Readings
  <2> QED
    BY <1>1, <2>3 DEF Walk, Odometer
<1>5. \A do, l : Issued(do, l) = 0
  <2>1. \A do, l : Issued(do, l) = Cardinality({})
    BY <1>1 DEF Issued
  <2> QED
    BY <2>1, FS_EmptySet
<1>6. AsCounted
  <2>1. \A l : ~Ahead(Between, l)
    BY DEF Ahead, Between, Point
  <2> QED
    BY <1>3, <1>5, <2>1 DEF AsCounted
<1>7. \A l \in Interfaces : l \in Levels /\ l + 1 \in Levels
  BY FineAssumption DEF Interfaces, Levels
<1>8. LastCoupled = [l \in Interfaces |-> 0]
  BY <1>1, <1>5, <1>7 DEF LastCoupled, Interfaces
<1>9. AsRead
  BY <1>1, <1>4, <1>7, <1>8 DEF AsRead, Nowhere
<1>10. Nested!Init
  <2>1. Nested!Level = Levels /\ Nested!Interface = Interfaces
    BY FineAssumption DEF Nested!Level, Nested!Interface, Levels, Interfaces
  <2> QED
    BY <1>1, <1>8, <2>1 DEF Nested!Init
<1> QED
  BY <1>2, <1>6, <1>9, <1>10 DEF Nesting

\* The host advances a level that was coupled to the finer one, and at most
\* twice for every coupling to the coarser one; it couples a level to the finer
\* one when that was advanced twice.
LEMMA HostNests ==
  ASSUME Nesting, Host
  PROVE  AsRead' /\ [Nested!Next]_(Nested!vars)
<1>1. Types /\ AsCounted /\ AsRead
  BY DEF Nesting
<1>2. PICK do : /\ Doing(do) /\ Advance /\ setup' = setup
                /\ IF do = "swap" THEN swaps' = [swaps EXCEPT ![Current.level] = @ + 1] ELSE swaps' = swaps
  BY HostActs
<1>3. Edge(setup, Place, Current, Place') /\ Current.do = do /\ Current \in Statements
  BY <1>1, <1>2, HostMoves
<1>4. AsCounted'
  BY <1>1, <1>2, HostCounts
<1>5. Odometer \in Odometers /\ Odometer' \in Odometers /\ Turn(Odometer, Current, Odometer')
  BY <1>1, <1>2, HostTurns
<1> DEFINE l == Current.level
           m == Place'
           e == Odometer
           f == Odometer'
           b == LastCoupled
           c == LastCoupled'
<1>6. /\ b = [k \in Interfaces |-> b[k]] /\ c = [k \in Interfaces |-> c[k]]
      /\ \A k \in Interfaces : b[k] = swaps[k] - IF Ahead(Place, k) THEN 1 ELSE 0
      /\ \A k \in Interfaces : c[k] = swaps'[k] - IF Ahead(m, k) THEN 1 ELSE 0
  <2>1. b = [k \in Interfaces |-> b[k]] /\ \A k \in Interfaces : b[k] = swaps[k] - IF Ahead(Place, k) THEN 1 ELSE 0
    BY <1>1, CoupledAt
  <2>2. c = [k \in Interfaces |-> c[k]] /\ \A k \in Interfaces : c[k] = swaps'[k] - IF Ahead(m, k) THEN 1 ELSE 0
    BY <1>4 DEF AsCounted, LastCoupled, Interfaces
  <2> QED
    BY <2>1, <2>2
<1>7. /\ l \in Levels /\ Levels = 0 .. Fine /\ Interfaces = 0 .. Fine - 1 /\ Fine \in Nat
      /\ swaps \in [Levels -> Nat]
  <2>1. Levels = 0 .. Fine /\ Interfaces = 0 .. Fine - 1 /\ Fine \in Nat
    BY FineAssumption DEF Levels, Interfaces
  <2>2. l \in Levels
    BY <1>3 DEF Statements
  <2> QED
    BY <1>1, <2>1, <2>2 DEF Types
<1>8. /\ \A k \in Interfaces : e[k] \in 0 .. 2 /\ f[k] \in 0 .. 2
      /\ e \in [Interfaces -> 0 .. 2]
  BY <1>5 DEF Odometers
<1>9. \A k \in Interfaces : swaps[k + 1] = 2 * b[k] + e[k]
  BY <1>1 DEF AsRead
<1>10. AsRead' <=> \A k \in Interfaces : swaps'[k + 1] = 2 * c[k] + f[k]
  BY DEF AsRead
<1>11. /\ do = "swap" => \A k \in Interfaces : ~Ahead(Place, k) /\ (Ahead(m, k) <=> k = l)
       /\ do = "coarseToFineBorder" => /\ l \in Interfaces
                                       /\ \A k \in Interfaces : ~Ahead(m, k) /\ (Ahead(Place, k) <=> k = l)
       /\ do \notin {"swap", "coarseToFineBorder"} => \A k \in Interfaces : Ahead(Place, k) <=> Ahead(m, k)
  <2>1. \A k \in Interfaces :
          /\ do = "swap" => ~Ahead(Place, k) /\ (Ahead(m, k) <=> k = l)
          /\ do = "coarseToFineBorder" => l \in Interfaces /\ ~Ahead(m, k) /\ (Ahead(Place, k) <=> k = l)
          /\ do \notin {"swap", "coarseToFineBorder"} => (Ahead(Place, k) <=> Ahead(m, k))
    BY <1>3, EdgeAhead
  <2>2. do = "coarseToFineBorder" => l \in Interfaces
    BY <1>3, <1>5, <1>7 DEF Turn
  <2> QED
    BY <2>1, <2>2
<1>12. /\ do \notin {"swap", "coarseToFineBorder"} => f = e
       /\ do = "swap" => (l # 0 => e[l - 1] < 2) /\ f = Advanced(e, l)
       /\ do = "coarseToFineBorder" => e[l] = 2 /\ f = [e EXCEPT ![l] = 0]
  BY <1>3, <1>5 DEF Turn, Coupled
<1> HIDE DEF l, m, e, f, b, c
<1>13. CASE do \notin {"swap", "coarseToFineBorder"}
  <2>1. swaps' = swaps /\ f = e
    BY <1>2, <1>12, <1>13
  <2>2. \A k \in Interfaces : c[k] = b[k]
    BY <1>6, <1>11, <1>13, <2>1
  <2>3. c = b
    BY <1>6, <2>2
  <2>4. AsRead'
    BY <1>9, <1>10, <2>1, <2>3
  <2>5. UNCHANGED Nested!vars
    BY <2>1, <2>3 DEF Nested!vars, b, c
  <2> QED
    BY <2>4, <2>5
<1>14. CASE do = "swap"
  <2>1. /\ swaps' = [swaps EXCEPT ![l] = @ + 1]
        /\ swaps'[l] = swaps[l] + 1 /\ \A k \in Levels : k # l => swaps'[k] = swaps[k]
    BY <1>2, <1>7, <1>14 DEF l
  <2>2. \A k \in Interfaces : c[k] = b[k]
    BY <1>6, <1>7, <1>11, <1>14, <2>1
  <2>3. c = b
    BY <1>6, <2>2
  <2>4. \A k \in Interfaces : f[k] = IF k = l - 1 THEN e[k] + 1 ELSE e[k]
    BY <1>7, <1>8, <1>12, <1>14 DEF Advanced
  <2>5. ASSUME NEW k \in Interfaces PROVE swaps'[k + 1] = 2 * c[k] + f[k]
    <3>1. k + 1 \in Levels /\ b[k] \in Int /\ (k + 1 = l <=> k = l - 1)
      BY <1>6, <1>7
    <3>2. swaps[k + 1] = 2 * b[k] + e[k] /\ swaps[k + 1] \in Nat /\ e[k] \in 0 .. 2
      BY <1>7, <1>8, <1>9, <3>1
    <3> QED
      BY <2>1, <2>2, <2>4, <3>1, <3>2
  <2>6. Nested!Advance(0, l)
    <3>1. l \in Interfaces => swaps[l] = b[l]
      BY <1>6, <1>7, <1>11, <1>14
    <3>2. l - 1 \in Interfaces => swaps[l] < 2 * (b[l - 1] + 1)
      <4>1. ASSUME l - 1 \in Interfaces PROVE swaps[l] < 2 * (b[l - 1] + 1)
        <5>1. (l - 1) + 1 = l /\ l - 1 \in Levels /\ l # 0
          BY <1>7, <4>1
        <5>2. b[l - 1] \in Int /\ e[l - 1] \in 0 .. 2 /\ e[l - 1] < 2
          BY <1>6, <1>7, <1>8, <1>12, <1>14, <4>1, <5>1
        <5>3. swaps[l] = 2 * b[l - 1] + e[l - 1]
          BY <1>9, <4>1, <5>1
        <5> QED
          BY <5>2, <5>3
      <4> QED
        BY <4>1
    <3>3. [r \in {0} |-> swaps'] = [[r \in {0} |-> swaps] EXCEPT ![0][l] = @ + 1]
      BY <2>1
    <3>4. Nested!Interface = Interfaces
      BY <1>7 DEF Nested!Interface
    <3> QED
      BY <2>3, <3>1, <3>2, <3>3, <3>4 DEF Nested!Advance, b, c
  <2>7. Nested!Next
    <3>1. l \in Nested!Level
      BY <1>7 DEF Nested!Level
    <3> QED
      BY <2>6, <3>1 DEF Nested!Next
  <2> QED
    BY <1>10, <2>5, <2>7
<1>15. CASE do = "coarseToFineBorder"
  <2>1. swaps' = swaps /\ l \in Interfaces /\ l + 1 \in Levels
    BY <1>2, <1>7, <1>11, <1>15
  <2>2. \A k \in Interfaces : b[k] \in Int /\ c[k] = IF k = l THEN b[k] + 1 ELSE b[k]
    BY <1>6, <1>7, <1>11, <1>15, <2>1
  <2>3. c = [b EXCEPT ![l] = @ + 1]
    BY <1>6, <2>1, <2>2
  <2>4. e[l] = 2 /\ \A k \in Interfaces : f[k] = IF k = l THEN 0 ELSE e[k]
    BY <1>8, <1>12, <1>15
  <2>5. ASSUME NEW k \in Interfaces PROVE swaps'[k + 1] = 2 * c[k] + f[k]
    <3>1. swaps[k + 1] = 2 * b[k] + e[k] /\ b[k] \in Int /\ e[k] \in 0 .. 2
      BY <1>8, <1>9, <2>2
    <3> QED
      BY <2>1, <2>2, <2>4, <3>1
  <2>6. Nested!Couple(0, l)
    <3>1. swaps[l] = b[l] + 1
      BY <1>6, <1>7, <1>11, <1>15, <2>1
    <3>2. swaps[l + 1] = 2 * (b[l] + 1)
      BY <1>9, <2>1, <2>2, <2>4
    <3>3. [r \in {0} |-> c] = [[r \in {0} |-> b] EXCEPT ![0][l] = @ + 1]
      BY <2>3
    <3> QED
      BY <2>1, <3>1, <3>2, <3>3 DEF Nested!Couple, b, c
  <2>7. Nested!Next
    <3>1. l \in Nested!Interface
      BY <1>7, <2>1 DEF Nested!Interface
    <3> QED
      BY <2>6, <3>1 DEF Nested!Next
  <2> QED
    BY <1>10, <2>5, <2>7
<1> QED
  BY <1>13, <1>14, <1>15

\* The end of an operation changes no level.
LEMMA DeviceNests ==
  ASSUME Nesting, UNCHANGED <<setup, step, at, swaps, posted>>
  PROVE  AsCounted' /\ AsRead' /\ UNCHANGED Nested!vars
<1>1. LastCoupled' = LastCoupled
  BY DEF LastCoupled, Issued
<1> QED
  BY <1>1 DEF Nesting, AsCounted, AsRead, Issued, Place, Odometer, Nested!vars

\* The recursion of updateGrid is a nested time stepping, for any number of
\* levels.
THEOREM RecursionNests == Spec => NestedSteps
<1>1. Inv /\ Nesting /\ [Next]_vars => Nesting'
  <2> SUFFICES ASSUME Inv, Nesting, [Next]_vars PROVE Nesting'
    OBVIOUS
  <2>1. Types'
    BY LaunchInv, CallInv, DeviceSynchronizeInv, SwapInv, ExecuteInv, StutterInv DEF Next, Host, Inv
  <2>2. CASE Host
    <3>1. AsRead'
      BY <2>2, HostNests
    <3>2. AsCounted'
      BY <2>2, HostActs, HostCounts DEF Nesting
    <3> QED
      BY <2>1, <3>1, <3>2 DEF Nesting
  <2>3. CASE (\E i \in DOMAIN pending : Execute(i)) \/ UNCHANGED vars
    BY <2>1, <2>3, DeviceNests DEF Execute, vars, Nesting
  <2> QED
    BY <2>2, <2>3 DEF Next
<1>2. Nesting /\ [Next]_vars => [Nested!Next]_(Nested!vars)
  <2> SUFFICES ASSUME Nesting, [Next]_vars PROVE [Nested!Next]_(Nested!vars)
    OBVIOUS
  <2>1. CASE Host
    BY <2>1, HostNests
  <2>2. CASE (\E i \in DOMAIN pending : Execute(i)) \/ UNCHANGED vars
    BY <2>2, DeviceNests DEF Execute, vars
  <2> QED
    BY <2>1, <2>2 DEF Next
<1>3. Init => Nesting /\ Nested!Init
  BY NestingInit
<1> QED
  BY <1>1, <1>2, <1>3, InvariantHolds, PTL DEF Spec, NestedSteps, Nested!Spec
=============================================================================
