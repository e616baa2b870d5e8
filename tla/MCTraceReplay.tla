--------------------------- MODULE MCTraceReplay ---------------------------
(* Instances of TraceReplay for TLC. *)
EXTENDS TraceReplay

TreeOps == {"create", "mkdir", "unlink", "rmdir", "link", "rename", "symlink"}
LoggedOps == TreeOps \cup {"write"}
AllOps    == LoggedOps \cup {"mknod", "writev"}
RaceOps   == {"create", "mkdir"}

\* Names and dentries other than the root are interchangeable, and so are tasks.
Symmetry == Permutations(Tasks) \cup Permutations(Names) \cup Permutations(Dents \ {Root})
=============================================================================
