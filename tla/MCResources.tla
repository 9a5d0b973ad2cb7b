---------------------------- MODULE MCResources ----------------------------
(* Instances of Resources for TLC.                                         *)
EXTENDS Resources

(* Bound: in one behaviour either the processes compute or their memory    *)
(* changes.  The two kinds of counters meet only where one is not there.   *)
OneKind == cpu = Zero \/ (rss = Zero /\ peak \in {None, 0} /\ quietTree = 0)
=============================================================================
