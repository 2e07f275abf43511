--------------------------- MODULE MCBackupRestore ---------------------------
(* BackupRestore.tla for TLC: one content is as good as another, and two    *)
(* states count as one when they differ only in history that no property    *)
(* looks at again: of a child that a request has touched, and of any child  *)
(* once the restore has committed.                                          *)
EXTENDS BackupRestore, TLC

ContentSymmetry == Permutations(Content)

Watched == IF outcome \in {"running", "failed", "crashed"} THEN Child \ touched ELSE {}

View ==
    <<system, archive, pc, tree, todo, installed, request, outcome, touched, mishaps,
      IF pc = "clean" THEN {c \in Child : displaced[c] # None} ELSE displaced,
      [c \in Watched |-> <<before.files[c], before.rows[c], c \in stuck>>],
      {d \in debris : d[1] \in Watched}>>
=============================================================================
