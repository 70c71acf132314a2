---------------------------- MODULE MCLocalBackups ----------------------------
(* Instances of LocalBackups for TLC. *)
EXTENDS LocalBackups, TLC

CONSTANTS p1, f1, f2, v1, v2

\* A save of two files, and a later one that has lost the second file.
MCFilesOf == (v1 :> {f1, f2}) @@ (v2 :> {f1})
MCCloud == p1 :> v2

\* Bounds the mess: at most one directory at a time is neither empty nor a
\* whole backup, and a behaviour is not followed further once two copies are
\* not to be trusted: spoiled, harmed or being restored with a slip.
InOrder(t) == backup[t] = NoDirectory \/ OnShelf(t)
OneMess ==
    /\ Cardinality({t \in Times : ~InOrder(t)}) <= 1
    /\ Cardinality(spoiled) + Cardinality(harmed) <= 1
    /\ job.kind = "restore" /\ job.slip => spoiled = {} /\ harmed = {}
===============================================================================
