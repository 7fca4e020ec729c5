---------------------------- MODULE MCGpuStreams ----------------------------
(* Instances of GpuStreams. *)
EXTENDS GpuStreams

Setup(axes, post, pre) == [axes |-> axes, postCollisionBC |-> post, preCollisionBC |-> pre]

\* Neighbours on one or more axes; boundary nodes of both kinds on all levels,
\* of one kind only, on some levels, or on none.
Mixed == { Setup(axes, Levels, Levels) : axes \in {{"X"}, {"Z"}, {"X", "Z"}, Axes} }
         \cup { Setup({"X"}, Levels, {}), Setup({"X"}, {}, Levels), Setup({"X", "Y"}, {1}, {2}),
                Setup({"X"}, {0}, {}), Setup({"Y"}, {}, {}) }

\* What GpuHalo.tla takes for granted.  It does not hold, with boundary nodes on
\* all levels either: OnlyBulkOvertaken says in which cases.
InProgramOrder ==
  \A i \in DOMAIN pending : Ready(i) => \A j \in 1 .. i - 1 : ~Conflict(pending[j], pending[i])
=============================================================================
