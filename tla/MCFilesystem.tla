---------------------------- MODULE MCFilesystem ----------------------------
(* Instances of Filesystem for TLC.                                        *)
EXTENDS Filesystem

(* Nothing open, or regular files.  A directory in the list changes the    *)
(* report only when there is no total anyway.                              *)
FilesOrNothing == {l \in Listing : l.open \subseteq Directions /\ ~l.incomplete}
=============================================================================
