---------------------------- MODULE BackupRestore ----------------------------
(***************************************************************************)
(* Export and restore of a backup (ui/task_logic/backup_export.py,         *)
(* backup_import.py, backup_db_import.py): the managed file trees and the  *)
(* rows that go with them, replaced child by child and then in one         *)
(* transaction, beside the requests that take no lock: on presets, on      *)
(* addon packages and on downloaded plugins.                               *)
(*                                                                         *)
(* A child is a direct child of a managed tree. Its row is what the        *)
(* database holds about it: the files and the rows belong together when    *)
(* both show the same content. The jobs and the other backups are kept out *)
(* by the maintenance lock (TaskLock.tla). Staged and displaced copies     *)
(* have names that every listing of a tree passes over (is_restore_child). *)
(* A folder moves by a rename or, across file systems, by a copy and the   *)
(* removal of the original, which may break off half way.                  *)
(***************************************************************************)
EXTENDS Naturals, FiniteSets

CONSTANTS None,       \* no file, or no row
          Mixed,      \* a folder that is no one content: in part removed or
                      \* copied, or with another folder moved into it
          Child,      \* the children of all trees
          Preset,     \* the children of the presets tree
          Open,       \* others that requests may change: addon packages, plugins
          Content,    \* what a child, or its row, may hold
          Faults,     \* what may go wrong
          MaxFaults   \* bound

FaultKinds ==
    {"step",      \* a move or the reload of the database fails
     "removal",   \* the rollback cannot remove a child, or not all of it
     "rollback",  \* a displaced copy cannot be moved back
     "cleanup",   \* a displaced copy cannot be removed
     "request",   \* a preset request ends before its second half
     "crash"}     \* the process that restores dies

ASSUME RestoreAssumption ==
    /\ None \notin Content /\ Mixed \notin Content /\ None # Mixed
    /\ Preset \subseteq Child /\ Open \subseteq Child \ Preset
    /\ Faults \in SUBSET FaultKinds
    /\ MaxFaults \in Nat

VARIABLES files,      \* files[c]: what the tree holds
          rows,       \* rows[c]: what the database says of it
          archive,    \* the backup file: files and rows, or None
          pc,         \* of the export or restore that has the maintenance lock
          tree,       \* the tree being swapped: 1, 2 for the presets
          todo,       \* its children still to displace or to install; in the
                      \* rollback, the children still to remove
          displaced,  \* displaced[c]: the copy this restore moved aside
          installed,  \* the children this restore has installed
          debris,     \* <<c, where, content>>: copies the last restore left beside
                      \* the children, which nothing looks at, or inside a leftover
          request,    \* a preset request between its two halves, or None
          outcome,    \* history: of the last restore, until something else changes
          before,     \* history: files and rows when it began
          touched,    \* history: children that a request changed since then
          stuck,      \* history: children that a failed removal or move left behind
          mishaps

system == <<files, rows>>
work == <<pc, tree, todo, displaced, installed>>
history == <<debris, before, touched, stuck, outcome>>
vars == <<system, archive, work, request, history, mishaps>>

Holding == [Child -> Content \cup {None, Mixed}]
State == [files : Holding, rows : [Child -> Content \cup {None}]]
Now == [files |-> files, rows |-> rows]
NoCopies == [c \in Child |-> None]
Nothing == [files |-> NoCopies, rows |-> NoCopies]

TypeOK ==
    /\ Now \in State
    /\ archive \in State \cup {None}
    /\ pc \in {"idle", "export", "displace", "install", "reload", "unwind", "undo", "clean"}
    /\ tree \in {1, 2}
    /\ todo \subseteq Child
    /\ displaced \in Holding
    /\ installed \subseteq Child
    /\ debris \subseteq Child \X {"beside", "inside"} \X (Content \cup {Mixed})
    /\ request \in [preset : Preset, holds : Content \cup {None}] \cup {None}
    /\ before \in State
    /\ touched \subseteq Preset \cup Open
    /\ stuck \subseteq Child
    /\ outcome \in {"none", "running", "restored", "failed", "crashed"}
    /\ mishaps \in 0..MaxFaults
    /\ pc = "idle" => displaced = NoCopies /\ installed = {}

\* A system with nothing in it yet.
Init ==
    /\ files = NoCopies /\ rows = NoCopies
    /\ archive = None
    /\ pc = "idle" /\ tree = 1 /\ todo = {}
    /\ displaced = NoCopies /\ installed = {} /\ debris = {}
    /\ request = None
    /\ before = Nothing /\ touched = {} /\ stuck = {} /\ outcome = "none"
    /\ mishaps = 0

\* Something else changes: what the last restore did is no longer observed.
Forget ==
    /\ debris' = {} /\ touched' = {} /\ stuck' = {}
    /\ before' = Nothing /\ outcome' = "none"

Fault(kind) == kind \in Faults /\ mishaps < MaxFaults /\ mishaps' = mishaps + 1

-----------------------------------------------------------------------------
(* The rest of the system.                                                 *)

\* A job that holds an entity lock, or a request, changes a child and its row. An
\* addon package or a plugin has none.
Work(c, v) ==
    /\ pc = "idle" /\ c \notin Preset
    /\ files' = [files EXCEPT ![c] = v]
    /\ rows' = IF c \in Open THEN rows ELSE [rows EXCEPT ![c] = v]
    /\ Forget
    /\ UNCHANGED <<archive, work, request, mishaps>>

Touch(c) ==
    IF pc = "idle" THEN Forget
    ELSE touched' = touched \cup {c} /\ UNCHANGED <<debris, before, stuck, outcome>>

\* A request installs, replaces or removes an addon package or a plugin beside an
\* export or a restore. (At other times, Work stands for it.)
Replace(c, v) ==
    /\ pc # "idle" /\ c \in Open
    /\ files' = [files EXCEPT ![c] = v]
    /\ Touch(c)
    /\ UNCHANGED <<rows, archive, work, request, mishaps>>

\* create_preset_api: the folder, then the row.
SaveFolder(p, v) ==
    /\ request = None
    /\ files[p] = None /\ rows[p] = None
    /\ files' = [files EXCEPT ![p] = v]
    /\ request' = [preset |-> p, holds |-> v]
    /\ Touch(p)
    /\ UNCHANGED <<rows, archive, work, mishaps>>

\* The name is unique: a row that a restore loaded meanwhile makes the commit
\* fail, as anything else may, and then the folder is removed.
SaveRow ==
    /\ request # None
    /\ request.holds # None
    /\ LET p == request.preset IN
       \/ /\ rows[p] = None
          /\ rows' = [rows EXCEPT ![p] = request.holds]
          /\ UNCHANGED <<files, mishaps>>
       \/ /\ files' = [files EXCEPT ![p] = None]
          /\ \/ rows[p] # None /\ UNCHANGED mishaps
             \/ rows[p] = None /\ Fault("request")
          /\ UNCHANGED rows
    /\ request' = None
    /\ Touch(request.preset)
    /\ UNCHANGED <<archive, work>>

\* delete_preset_api: the row, then the folder.
DeleteRow(p) ==
    /\ request = None
    /\ rows[p] # None
    /\ rows' = [rows EXCEPT ![p] = None]
    /\ request' = [preset |-> p, holds |-> None]
    /\ Touch(p)
    /\ UNCHANGED <<files, archive, work, mishaps>>

DeleteFolder ==
    /\ request # None
    /\ request.holds = None
    /\ \/ files' = [files EXCEPT ![request.preset] = None] /\ UNCHANGED mishaps
       \/ Fault("request") /\ UNCHANGED files
    /\ request' = None
    /\ Touch(request.preset)
    /\ UNCHANGED <<rows, archive, work>>

-----------------------------------------------------------------------------
(* Export.                                                                 *)

\* serialize_database, before the trees are walked.
ExportRows ==
    /\ pc = "idle"
    /\ pc' = "export"
    /\ archive' = [files |-> NoCopies, rows |-> rows]
    /\ Forget
    /\ UNCHANGED <<system, tree, todo, displaced, installed, request, mishaps>>

ExportFiles ==
    /\ pc = "export"
    /\ pc' = "idle"
    /\ archive' = [archive EXCEPT !.files = files]
    /\ UNCHANGED <<system, tree, todo, displaced, installed, request, history, mishaps>>

-----------------------------------------------------------------------------
(* Restore.                                                                *)

Tree(n) == IF n = 1 THEN Child \ Preset ELSE Preset

\* _swap_tree lists the children of a tree.
Swap(n) ==
    /\ pc' = "displace" /\ tree' = n
    /\ todo' = {c \in Tree(n) : files[c] # None}

\* A valid archive was staged, beside every tree. (An invalid one, and a failure
\* to stage it, change nothing.)
Begin ==
    /\ pc = "idle"
    /\ archive # None
    /\ Swap(1)
    /\ before' = Now
    /\ touched' = IF request = None THEN {} ELSE {request.preset}
    /\ debris' = {} /\ stuck' = {} /\ outcome' = "running"
    /\ UNCHANGED <<system, archive, displaced, installed, request, mishaps>>

\* Faulty variant: what is in the way is deleted.
DisplaceDeletes(c) ==
    /\ pc = "displace" /\ c \in todo
    /\ files[c] # None
    /\ files' = [files EXCEPT ![c] = None]
    /\ todo' = todo \ {c}
    /\ UNCHANGED <<rows, archive, pc, tree, displaced, installed, request, history, mishaps>>

Displace(c) ==
    /\ pc = "displace" /\ c \in todo
    /\ files[c] # None
    /\ files' = [files EXCEPT ![c] = None]
    /\ displaced' = [displaced EXCEPT ![c] = files[c]]
    /\ todo' = todo \ {c}
    /\ UNCHANGED <<rows, archive, pc, tree, installed, request, history, mishaps>>

AllDisplaced ==
    /\ pc = "displace" /\ todo = {}
    /\ pc' = "install"
    /\ todo' = {c \in Tree(tree) : archive.files[c] # None}
    /\ UNCHANGED <<system, archive, tree, displaced, installed, request, history, mishaps>>

\* shutil.move replaces a file that is there already, and puts what it moves into
\* a folder that is there.
Install(c) ==
    /\ pc = "install" /\ c \in todo
    /\ \E v \in IF files[c] = None THEN {archive.files[c]} ELSE {archive.files[c], Mixed} :
           files' = [files EXCEPT ![c] = v]
    /\ installed' = installed \cup {c}
    /\ todo' = todo \ {c}
    /\ UNCHANGED <<rows, archive, pc, tree, displaced, request, history, mishaps>>

AllInstalled ==
    /\ pc = "install" /\ todo = {}
    /\ IF tree = 1 THEN Swap(2) ELSE pc' = "reload" /\ UNCHANGED <<tree, todo>>
    /\ UNCHANGED <<system, archive, displaced, installed, request, history, mishaps>>

\* replace_database and the commit: one transaction, which shuts other writers
\* out from its first DELETE on.
Reload ==
    /\ pc = "reload"
    /\ rows' = archive.rows
    /\ pc' = "clean" /\ tree' = 1
    /\ installed' = {}
    /\ outcome' = "restored"
    /\ UNCHANGED <<files, archive, todo, displaced, debris, request, before, touched,
                   stuck, mishaps>>

UndoAll ==
    /\ pc' = "undo" /\ tree' = 1
    /\ todo' = installed \cup {c \in Child : displaced[c] # None}

\* The swap of a tree first removes what it has installed.
Unwind ==
    /\ pc' = "unwind" /\ tree' = 1
    /\ todo' = installed \cap Tree(tree)

\* A step fails: because a child that was listed is gone, or for another reason.
Fail ==
    /\ pc \in {"displace", "install", "reload"}
    /\ IF pc = "reload" THEN UndoAll ELSE Unwind
    /\ \/ pc = "displace" /\ (\E c \in todo : files[c] = None) /\ UNCHANGED mishaps
       \/ Fault("step")
    /\ UNCHANGED <<system, archive, displaced, installed, request, history>>

\* A folder was copied aside, but not all of it can be removed: the copy is not
\* noted as displaced. (A copy that breaks off is a Fail, since the folder is
\* whole; a crash within a move is a break and then a crash.)
DisplaceBreaks(c) ==
    /\ pc = "displace" /\ c \in todo
    /\ files[c] # None
    /\ Fault("step")
    /\ Unwind
    /\ files' = [files EXCEPT ![c] = Mixed]
    /\ debris' = debris \cup {<<c, "beside", files[c]>>}
    /\ stuck' = stuck \cup {c}
    /\ UNCHANGED <<rows, archive, displaced, installed, request, before, touched, outcome>>

\* A staged folder was copied in part, or not removed afterwards: what is there is
\* not noted as installed, and goes only if an old child comes back in its place.
InstallBreaks(c) ==
    /\ pc = "install" /\ c \in todo
    /\ Fault("step")
    /\ Unwind
    /\ \E v \in {archive.files[c], Mixed} : files' = [files EXCEPT ![c] = v]
    /\ stuck' = IF displaced[c] = None THEN stuck \cup {c} ELSE stuck
    /\ UNCHANGED <<rows, archive, displaced, installed, debris, request, before, touched,
                   outcome>>

\* Faulty variant: only what was displaced is rolled back.
RemoveKeepsNew(c) ==
    /\ pc \in {"unwind", "undo"} /\ c \in todo
    /\ files' = IF displaced[c] # None THEN [files EXCEPT ![c] = None] ELSE files
    /\ todo' = todo \ {c} /\ installed' = installed \ {c}
    /\ UNCHANGED <<rows, archive, pc, tree, displaced, request, history, mishaps>>

\* The rollback removes what stands in the place of a child. A failure is logged
\* and passed over: the child stays, whole or in part.
Remove(c) ==
    /\ pc \in {"unwind", "undo"} /\ c \in todo
    /\ todo' = todo \ {c} /\ installed' = installed \ {c}
    /\ \/ /\ files' = [files EXCEPT ![c] = None]
          /\ stuck' = stuck \ {c}
          /\ UNCHANGED mishaps
       \/ /\ files[c] # None
          /\ Fault("removal")
          /\ \E v \in {files[c], Mixed} : files' = [files EXCEPT ![c] = v]
          /\ stuck' = stuck \cup {c}
    /\ UNCHANGED <<rows, archive, pc, tree, displaced, debris, request, before, touched, outcome>>

\* The swap of the tree has failed; so do the swaps before it.
Unwound ==
    /\ pc = "unwind" /\ todo = {}
    /\ UndoAll
    /\ UNCHANGED <<system, archive, displaced, installed, request, history, mishaps>>

\* What was displaced comes back. It replaces a file that is still there and ends
\* up inside a folder that is, which is no error to shutil.move. A copy that cannot
\* be moved, or not all of it, is logged and left.
MoveBack(c) ==
    /\ pc = "undo" /\ c \notin todo
    /\ displaced[c] # None
    /\ displaced' = [displaced EXCEPT ![c] = None]
    /\ \/ /\ files' = [files EXCEPT ![c] = displaced[c]]
          /\ stuck' = stuck \ {c}
          /\ UNCHANGED <<debris, mishaps>>
       \/ /\ files[c] # None
          /\ files' = [files EXCEPT ![c] = Mixed]
          /\ debris' = debris \cup {<<c, "inside", displaced[c]>>}
          /\ UNCHANGED <<stuck, mishaps>>
       \/ /\ Fault("rollback")
          /\ \E v \in {files[c], Mixed} : files' = [files EXCEPT ![c] = v]
          /\ debris' = debris \cup {<<c, "beside", displaced[c]>>}
          /\ stuck' = stuck \cup {c}
    /\ UNCHANGED <<rows, archive, pc, tree, todo, installed, request, before, touched, outcome>>

Undone ==
    /\ pc = "undo" /\ todo = {} /\ displaced = NoCopies
    /\ pc' = "idle"
    /\ outcome' = "failed"
    /\ UNCHANGED <<system, archive, tree, todo, displaced, installed, debris, request, before,
                   touched, stuck, mishaps>>

\* After the commit, the displaced copies are removed, as far as possible. (Of one
\* that is not, a part may be gone; nothing looks at it.)
Clean(c) ==
    /\ pc = "clean" /\ displaced[c] # None
    /\ displaced' = [displaced EXCEPT ![c] = None]
    /\ \/ UNCHANGED <<debris, mishaps>>
       \/ Fault("cleanup") /\ debris' = debris \cup {<<c, "beside", displaced[c]>>}
    /\ UNCHANGED <<system, archive, pc, tree, todo, installed, request, before, touched,
                   stuck, outcome>>

\* Faulty variant: the request ends before all copies were dealt with.
CleanedAtOnce ==
    /\ pc = "clean"
    /\ pc' = "idle"
    /\ UNCHANGED <<system, archive, tree, todo, displaced, installed, request, history,
                   mishaps>>

Cleaned ==
    /\ pc = "clean" /\ displaced = NoCopies
    /\ pc' = "idle"
    /\ UNCHANGED <<system, archive, tree, todo, displaced, installed, request, history,
                   mishaps>>

\* Nothing is undone later. The maintenance lock expires after a while.
Crash ==
    /\ pc # "idle"
    /\ Fault("crash")
    /\ debris' = debris \cup
           {<<c, "beside", displaced[c]>> : c \in {d \in Child : displaced[d] # None}}
    /\ displaced' = NoCopies /\ installed' = {} /\ todo' = {}
    /\ pc' = "idle" /\ tree' = 1
    /\ archive' = IF pc = "export" THEN None ELSE archive
    /\ outcome' = IF outcome = "running" THEN "crashed" ELSE outcome
    /\ UNCHANGED <<system, request, before, touched, stuck>>

-----------------------------------------------------------------------------
Backup ==
    \/ ExportRows \/ ExportFiles
    \/ Begin \/ AllDisplaced \/ AllInstalled \/ Reload \/ Cleaned
    \/ Fail \/ Unwound \/ Undone
    \/ \E c \in Child : Displace(c) \/ Install(c) \/ Clean(c)
    \/ \E c \in Child : DisplaceBreaks(c) \/ InstallBreaks(c) \/ Remove(c) \/ MoveBack(c)

Requests ==
    \/ SaveRow \/ DeleteFolder
    \/ \E p \in Preset : DeleteRow(p) \/ (\E v \in Content : SaveFolder(p, v))

Next ==
    \/ Backup \/ Requests \/ Crash
    \/ \E c \in Child, v \in Content \cup {None} : Work(c, v) \/ Replace(c, v)

Spec == Init /\ [][Next]_vars

-----------------------------------------------------------------------------
(* Properties.                                                             *)

\* A restore leaves the files and the rows all as in the archive, or all as they
\* were (backup_import.py:6-11, backup_db_import.py:3-5), whatever step failed,
\* and also on top of what a crash left behind, but for the children that a
\* request changed meanwhile and, after a failure, for those at which a removal or
\* a move of the rollback failed as well or a move had broken off half way.
AllOrNothing ==
    /\ outcome = "restored" =>
           \A c \in Child \ touched :
               files[c] = archive.files[c] /\ rows[c] = archive.rows[c]
    /\ outcome = "failed" =>
           \A c \in Child \ touched :
               /\ rows[c] = before.rows[c]
               /\ c \notin stuck => files[c] = before.files[c]

\* Until the restore has committed, what a tree held is in its place or in a copy
\* beside it (backup_import.py:6-11), at every moment and also when the process
\* has died or the rollback has failed; only where the rollback could not remove
\* what it had installed, it may be inside that.
NothingLost ==
    outcome \in {"running", "failed", "crashed"} =>
        \A c \in Child \ touched :
            \/ before.files[c] \in {None, files[c], displaced[c]}
            \/ <<c, "beside", before.files[c]>> \in debris
            \/ c \in stuck /\ <<c, "inside", before.files[c]>> \in debris

\* No run checks this, and it does not hold: "On any failure, everything already
\* swapped is rolled back" (backup_import.py:10-11). TLC refutes it with Faults =
\* {"step"}, for one move that breaks off half way, and with "removal".
RolledBackWhole ==
    outcome = "failed" =>
        \A c \in Child \ touched : files[c] = before.files[c]
=============================================================================
