--------------------------- MODULE VersionedRecord ---------------------------
(***************************************************************************)
(* What the one-row-per-user tables running_timers and sketchpads promise  *)
(* their clients, whatever the clients do: a version that a database       *)
(* trigger lets grow by one at a time, and a value that changes only with  *)
(* it.  Every writer replaces a version it names, so no write is silently  *)
(* overwritten by one that had not seen it.  Components that keep such a   *)
(* row are shown to implement this module by refinement.                   *)
(***************************************************************************)
EXTENDS Naturals

CONSTANTS
    Value,       \* what a row may hold
    NoValue,     \* the value of a row nobody has written yet
    MaxVersion   \* bound on the version counter, for model checking

VARIABLE row     \* [version, value]: the one row of this user

Init == row = [version |-> 0, value |-> NoValue]

\* A compare-and-swap that wins: the writer named the version it replaces.
\* Version 0 is the INSERT, every later one the PATCH ?version=eq.<seen>.
Swap(seen, v) ==
    /\ row.version = seen
    /\ seen < MaxVersion
    /\ row' = [version |-> seen + 1, value |-> v]

Next == \E seen \in 0..MaxVersion, v \in Value : Swap(seen, v)

Spec == Init /\ [][Next]_row
=============================================================================
