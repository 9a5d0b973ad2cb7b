---------------------------- MODULE MCDescriptors ----------------------------
(* Instances of Descriptors for TLC: a regular file, the directory that    *)
(* takes its place under the same path, and a connection.                  *)
EXTENDS Descriptors, TLC

NamesOfThree == "file" :> "path" @@ "directory" :> "path" @@ "socket" :> "endpoints"
KindsOfThree == [f \in Files |-> f]

SomeModes == {{"write"}, {}}
=============================================================================
