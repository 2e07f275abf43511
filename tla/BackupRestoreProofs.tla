------------------------- MODULE BackupRestoreProofs -------------------------
(***************************************************************************)
(* For any trees, presets and contents, whatever fails and however often:  *)
(* a restore replaces everything, or nothing but what its rollback fails   *)
(* at, and until it has committed nothing is lost.                         *)
(***************************************************************************)
EXTENDS BackupRestore, TLAPS

-----------------------------------------------------------------------------
(* The inductive invariant. Where a child's old and new content are depends *)
(* on how far the restore has come with its tree.                           *)

Untouched == Child \ touched

Pristine(c) ==
    /\ files[c] = before.files[c] /\ displaced[c] = None /\ c \notin installed
Aside(c) ==
    /\ files[c] = None /\ displaced[c] = before.files[c] /\ c \notin installed
Swapped(c) ==
    /\ files[c] = archive.files[c] /\ displaced[c] = before.files[c]
    /\ c \in installed <=> archive.files[c] # None

\* A child of the tree that is not being swapped now.
Elsewhere(c) == IF tree = 1 THEN Pristine(c) ELSE Swapped(c)

Forward(c) ==
    /\ pc = "displace" =>
          /\ c \in Tree(tree) => IF c \in todo THEN Pristine(c) ELSE Aside(c)
          /\ c \notin Tree(tree) => Elsewhere(c)
    /\ pc = "install" =>
          /\ c \in Tree(tree) =>
                IF c \in todo THEN Aside(c) /\ archive.files[c] # None ELSE Swapped(c)
          /\ c \notin Tree(tree) => Elsewhere(c)
    /\ pc = "reload" => Swapped(c)

\* In the rollback, an old child waits for its copy, and what is in its place has
\* been removed or could not be; or it is back, or its copy was left somewhere.
ToReturn(c) ==
    /\ displaced[c] = before.files[c] /\ before.files[c] # None
    /\ pc = "undo" /\ c \notin todo => files[c] = None \/ c \in stuck
Returned(c) ==
    /\ displaced[c] = None /\ c \notin todo \cup installed
    /\ \/ files[c] = before.files[c]
       \/ /\ c \in stuck
          /\ <<c, "beside", before.files[c]>> \in debris
             \/ <<c, "inside", before.files[c]>> \in debris
\* A child that there was not is still to be removed, is gone or could not be.
Fresh(c) ==
    /\ displaced[c] = None /\ before.files[c] = None
    /\ files[c] = None \/ c \in installed \/ c \in stuck

Rollback == {"unwind", "undo"}
Backward(c) == pc \in Rollback => ToReturn(c) \/ Returned(c) \/ Fresh(c)

Running == {"displace", "install", "reload", "unwind", "undo"}

\* What the position of the restore says about its outcome and its archive.
Progress ==
    /\ outcome = "running" <=> pc \in Running
    /\ pc = "export" => outcome = "none" /\ displaced = NoCopies /\ installed = {}
    /\ pc = "clean" => outcome = "restored" /\ installed = {}
    /\ pc \in Running \cup {"export"} => archive \in State
    /\ pc \in {"displace", "install"} => todo \subseteq Tree(tree)
    /\ pc = "undo" => installed \subseteq todo

RestoreInv ==
    /\ TypeOK
    /\ Progress
    /\ \A c \in Untouched : Forward(c) /\ Backward(c)
    /\ pc \in Running => \A c \in Untouched : rows[c] = before.rows[c]
    /\ NothingLost
    /\ AllOrNothing

-----------------------------------------------------------------------------
(* Types.                                                                  *)

USE RestoreAssumption

Copies == Child \X {"beside", "inside"} \X (Content \cup {Mixed})

LEMMA ForgetType ==
  ASSUME Forget
  PROVE  /\ debris' = {} /\ touched' = {} /\ stuck' = {} /\ before' \in State
         /\ outcome' = "none"
BY DEF Forget, Nothing, State, NoCopies, Holding

LEMMA FaultType ==
  ASSUME NEW kind, mishaps \in 0..MaxFaults, Fault(kind)
  PROVE  mishaps' \in 0..MaxFaults
BY DEF Fault

\* What a request does to the history.
LEMMA TouchType ==
  ASSUME TypeOK, NEW p \in Preset \cup Open, Touch(p)
  PROVE  /\ debris' \subseteq Copies
         /\ before' \in State /\ touched' \subseteq Preset \cup Open /\ stuck' \subseteq Child
         /\ outcome' \in {"none", "running", "restored", "failed", "crashed"}
BY ForgetType DEF Touch, TypeOK, Copies

LEMMA RequestType ==
  ASSUME TypeOK, Requests
  PROVE  TypeOK'
<1>1. ASSUME NEW p \in Preset, NEW v \in Content, SaveFolder(p, v)
      PROVE  TypeOK'
  <2>1. request' \in [preset : Preset, holds : Content \cup {None}] \cup {None}
    BY <1>1 DEF SaveFolder
  <2> QED
    BY <1>1, <2>1, TouchType DEF SaveFolder, TypeOK, Now, State, Holding, work, Copies
<1>2. CASE SaveRow
  <2>1. request.preset \in Preset /\ request.holds \in Content
    BY <1>2 DEF SaveRow, TypeOK
  <2>2. Now' \in State
    BY <1>2, <2>1 DEF SaveRow, TypeOK, Now, State, Holding
  <2>3. mishaps' \in 0..MaxFaults
    BY <1>2, FaultType DEF SaveRow, TypeOK
  <2> QED
    BY <1>2, <2>1, <2>2, <2>3, TouchType DEF SaveRow, TypeOK, work, Copies
<1>3. ASSUME NEW p \in Preset, DeleteRow(p)
      PROVE  TypeOK'
  <2>1. request' \in [preset : Preset, holds : Content \cup {None}] \cup {None}
    BY <1>3 DEF DeleteRow
  <2> QED
    BY <1>3, <2>1, TouchType DEF DeleteRow, TypeOK, Now, State, Holding, work, Copies
<1>4. CASE DeleteFolder
  <2>1. request.preset \in Preset
    BY <1>4 DEF DeleteFolder, TypeOK
  <2>2. Now' \in State
    BY <1>4, <2>1 DEF DeleteFolder, TypeOK, Now, State, Holding
  <2>3. mishaps' \in 0..MaxFaults
    BY <1>4, FaultType DEF DeleteFolder, TypeOK
  <2> QED
    BY <1>4, <2>1, <2>2, <2>3, TouchType DEF DeleteFolder, TypeOK, work, Copies
<1> QED
  BY <1>1, <1>2, <1>3, <1>4 DEF Requests

LEMMA WorkType ==
  ASSUME TypeOK, NEW c \in Child, NEW v \in Content \cup {None}, Work(c, v) \/ Replace(c, v)
  PROVE  TypeOK'
<1>1. Now' \in State
  BY DEF Work, Replace, TypeOK, Now, State, Holding
<1>2. CASE Work(c, v)
  BY <1>1, <1>2, ForgetType DEF Work, TypeOK, work
<1>3. CASE Replace(c, v)
  BY <1>1, <1>3, TouchType DEF Replace, TypeOK, Copies, work
<1> QED
  BY <1>2, <1>3

LEMMA CrashType ==
  ASSUME TypeOK, Crash
  PROVE  TypeOK'
<1>1. debris' \subseteq Copies
  BY DEF Crash, TypeOK, Holding, Copies
<1>2. mishaps' \in 0..MaxFaults
  BY FaultType DEF Crash, TypeOK
<1> QED
  BY <1>1, <1>2 DEF Crash, TypeOK, Now, State, Holding, NoCopies, system, Copies

\* The steps of an export or a restore. What a step installs comes from the
\* archive, which Progress says is there.
LEMMA BackupType ==
  ASSUME TypeOK, Progress, Backup
  PROVE  TypeOK'
<1>1. CASE ExportRows
  BY <1>1, ForgetType DEF ExportRows, TypeOK, Now, State, Holding, NoCopies, system
<1>2. CASE ExportFiles
  <2>1. archive' \in State
    BY <1>2 DEF ExportFiles, Progress, TypeOK, Now, State
  <2> QED
    BY <1>2, <2>1 DEF ExportFiles, Progress, TypeOK, Now, system, history
<1>3. CASE Begin
  BY <1>3 DEF Begin, Swap, Tree, TypeOK, Now, State, Holding, system
<1>4. CASE AllDisplaced
  BY <1>4 DEF AllDisplaced, Tree, TypeOK, Now, system, history
<1>5. CASE AllInstalled
  BY <1>5 DEF AllInstalled, Swap, Tree, TypeOK, Now, system, history
<1>6. CASE Reload
  BY <1>6 DEF Reload, Progress, Running, TypeOK, Now, State
<1>7. CASE Fail
  <2>1. mishaps' \in 0..MaxFaults
    BY <1>7, FaultType DEF Fail, TypeOK
  <2>2. todo' \subseteq Child /\ pc' \in {"unwind", "undo"} /\ tree' = 1
    BY <1>7 DEF Fail, UndoAll, Unwind, TypeOK
  <2> QED
    BY <1>7, <2>1, <2>2 DEF Fail, TypeOK, Now, system, history
<1>8. CASE Undone
  BY <1>8 DEF Undone, Progress, TypeOK, Now, system
<1>9. CASE Cleaned
  BY <1>9 DEF Cleaned, Progress, TypeOK, Now, system, history
<1>10. ASSUME NEW c \in Child, Displace(c)
       PROVE  TypeOK'
  BY <1>10 DEF Displace, TypeOK, Now, State, Holding, history
<1>11. ASSUME NEW c \in Child, Install(c)
       PROVE  TypeOK'
  BY <1>11 DEF Install, Progress, Running, TypeOK, Now, State, Holding, history
<1>12. ASSUME NEW c \in Child, Remove(c)
       PROVE  TypeOK'
  <2>1. mishaps' \in 0..MaxFaults
    BY <1>12, FaultType DEF Remove, TypeOK
  <2>2. Now' \in State
    BY <1>12 DEF Remove, TypeOK, Now, State, Holding
  <2> QED
    BY <1>12, <2>1, <2>2 DEF Remove, TypeOK
<1>13. ASSUME NEW c \in Child, MoveBack(c)
       PROVE  TypeOK'
  <2>1. mishaps' \in 0..MaxFaults
    BY <1>13, FaultType DEF MoveBack, TypeOK
  <2>2. Now' \in State
    BY <1>13 DEF MoveBack, TypeOK, Now, State, Holding
  <2>3. debris' \subseteq Copies
    BY <1>13 DEF MoveBack, TypeOK, Holding, Copies
  <2>4. displaced' \in Holding /\ stuck' \subseteq Child
    BY <1>13 DEF MoveBack, TypeOK, Holding
  <2> QED
    BY <1>13, <2>1, <2>2, <2>3, <2>4 DEF MoveBack, TypeOK, Copies
<1>14. ASSUME NEW c \in Child, Clean(c)
       PROVE  TypeOK'
  <2>1. mishaps' \in 0..MaxFaults
    BY <1>14, FaultType DEF Clean, TypeOK
  <2>2. debris' \subseteq Copies
    BY <1>14 DEF Clean, TypeOK, Holding, Copies
  <2> QED
    BY <1>14, <2>1, <2>2 DEF Clean, TypeOK, Now, State, Holding, system, Copies
<1>15. CASE Unwound
  BY <1>15 DEF Unwound, UndoAll, TypeOK, Now, system, history
<1>16. ASSUME NEW c \in Child, DisplaceBreaks(c) \/ InstallBreaks(c)
       PROVE  TypeOK'
  <2>1. mishaps' \in 0..MaxFaults
    BY <1>16, FaultType DEF DisplaceBreaks, InstallBreaks, TypeOK
  <2>2. Now' \in State
    BY <1>16 DEF DisplaceBreaks, InstallBreaks, Progress, Running, TypeOK, Now, State, Holding
  <2>3. debris' \subseteq Copies
    BY <1>16 DEF DisplaceBreaks, InstallBreaks, TypeOK, Now, State, Holding, Copies
  <2>4. /\ todo' \subseteq Child /\ pc' = "unwind" /\ tree' = 1 /\ stuck' \subseteq Child
        /\ UNCHANGED <<archive, displaced, installed, request, before, touched, outcome>>
    BY <1>16 DEF DisplaceBreaks, InstallBreaks, Unwind, TypeOK
  <2> QED
    BY <2>1, <2>2, <2>3, <2>4 DEF TypeOK, Copies
<1> QED
  BY <1>1, <1>2, <1>3, <1>4, <1>5, <1>6, <1>7, <1>8, <1>9, <1>10, <1>11, <1>12, <1>13,
     <1>14, <1>15, <1>16 DEF Backup

-----------------------------------------------------------------------------
(* What is not a step of the restore.                                      *)

\* Something else changed while nothing was restored: the history starts anew.
LEMMA Forgotten ==
  ASSUME TypeOK', outcome' = "none", pc' \in {"idle", "export"},
         pc' = "export" =>
             archive' \in State /\ displaced' = NoCopies /\ installed' = {}
  PROVE  RestoreInv'
<1>1. Progress'
  BY DEF Progress, Running
<1>2. \A c \in Untouched' : Forward(c)' /\ Backward(c)'
  BY DEF Forward, Backward, Rollback
<1> QED
  BY <1>1, <1>2 DEF RestoreInv, NothingLost, AllOrNothing, Running

\* A child changed beside a restore: it counts as touched from then on.
LEMMA Beside ==
  ASSUME RestoreInv, TypeOK', NEW p \in Preset \cup Open, pc # "idle",
         UNCHANGED <<archive, work, debris, before, stuck, outcome>>,
         touched' = touched \cup {p},
         \A c \in Child \ {p} : files'[c] = files[c] /\ rows'[c] = rows[c]
  PROVE  RestoreInv'
<1> USE DEF work
<1>1. Progress'
  BY DEF RestoreInv, Progress
<1>2. Untouched' = Untouched \ {p}
  BY DEF Untouched
<1>3. ASSUME NEW c \in Untouched'
      PROVE  Forward(c)' /\ Backward(c)'
  <2>1. /\ Pristine(c)' <=> Pristine(c)
        /\ Aside(c)' <=> Aside(c)
        /\ Swapped(c)' <=> Swapped(c)
        /\ ToReturn(c)' <=> ToReturn(c)
        /\ Returned(c)' <=> Returned(c)
        /\ Fresh(c)' <=> Fresh(c)
        /\ Elsewhere(c)' <=> Elsewhere(c)
    BY <1>2 DEF Untouched, Pristine, Aside, Swapped, ToReturn, Returned, Fresh, Elsewhere
  <2>2. Forward(c) /\ Backward(c)
    BY <1>2 DEF RestoreInv
  <2> QED
    BY <2>1, <2>2 DEF Forward, Backward, Tree
<1>4. pc' \in Running => \A c \in Untouched' : rows'[c] = before'.rows[c]
  BY <1>2 DEF RestoreInv, Untouched
<1>5. NothingLost' /\ AllOrNothing'
  BY DEF RestoreInv, NothingLost, AllOrNothing
<1> QED
  BY <1>1, <1>3, <1>4, <1>5 DEF RestoreInv

LEMMA RequestInv ==
  ASSUME RestoreInv, Requests
  PROVE  RestoreInv'
<1>1. TypeOK'
  BY RequestType DEF RestoreInv
<1>2. PICK p \in Preset :
         /\ Touch(p) /\ UNCHANGED <<archive, work>>
         /\ \A c \in Child \ {p} : files'[c] = files[c] /\ rows'[c] = rows[c]
  <2>1. ASSUME NEW p \in Preset, NEW v \in Content, SaveFolder(p, v)
        PROVE  \A c \in Child \ {p} : files'[c] = files[c] /\ rows'[c] = rows[c]
    BY <2>1 DEF SaveFolder, RestoreInv, TypeOK, Now, State, Holding
  <2>2. ASSUME SaveRow
        PROVE  /\ request.preset \in Preset
               /\ \A c \in Child \ {request.preset} :
                     files'[c] = files[c] /\ rows'[c] = rows[c]
    BY <2>2 DEF SaveRow, RestoreInv, TypeOK, Now, State, Holding
  <2>3. ASSUME NEW p \in Preset, DeleteRow(p)
        PROVE  \A c \in Child \ {p} : files'[c] = files[c] /\ rows'[c] = rows[c]
    BY <2>3 DEF DeleteRow, RestoreInv, TypeOK, Now, State, Holding
  <2>4. ASSUME DeleteFolder
        PROVE  /\ request.preset \in Preset
               /\ \A c \in Child \ {request.preset} :
                     files'[c] = files[c] /\ rows'[c] = rows[c]
    BY <2>4 DEF DeleteFolder, RestoreInv, TypeOK, Now, State, Holding
  <2> QED
    BY <2>1, <2>2, <2>3, <2>4 DEF Requests, SaveFolder, SaveRow, DeleteRow, DeleteFolder
<1>3. CASE pc = "idle"
  BY <1>1, <1>2, <1>3, Forgotten, ForgetType DEF Touch, work
<1>4. CASE pc # "idle"
  BY <1>1, <1>2, <1>4, Beside DEF Touch
<1> QED
  BY <1>3, <1>4

LEMMA WorkInv ==
  ASSUME RestoreInv, NEW c \in Child, NEW v \in Content \cup {None}, Work(c, v) \/ Replace(c, v)
  PROVE  RestoreInv'
<1>1. TypeOK'
  BY WorkType DEF RestoreInv
<1>2. CASE Work(c, v)
  BY <1>1, <1>2, Forgotten, ForgetType DEF Work, work
<1>3. CASE Replace(c, v)
  <2>1. \A d \in Child \ {c} : files'[d] = files[d] /\ rows'[d] = rows[d]
    BY <1>3 DEF Replace, RestoreInv, TypeOK, Now, State, Holding
  <2> QED
    BY <1>1, <1>3, <2>1, Beside DEF Replace, Touch
<1> QED
  BY <1>2, <1>3

LEMMA ExportInv ==
  ASSUME RestoreInv, ExportRows \/ ExportFiles
  PROVE  RestoreInv'
<1>1. TypeOK'
  BY BackupType DEF RestoreInv, Backup
<1>2. CASE ExportRows
  <2>1. archive' \in State
    BY <1>2 DEF ExportRows, RestoreInv, TypeOK, Now, State, Holding, NoCopies
  <2>2. displaced' = NoCopies /\ installed' = {}
    BY <1>2 DEF ExportRows, RestoreInv, TypeOK
  <2> QED
    BY <1>1, <1>2, <2>1, <2>2, Forgotten, ForgetType DEF ExportRows
<1>3. CASE ExportFiles
  BY <1>1, <1>3, Forgotten DEF ExportFiles, RestoreInv, Progress, history
<1> QED
  BY <1>2, <1>3

-----------------------------------------------------------------------------
(* The steps of the restore.                                               *)

\* A step that leaves the restore running has only to account for where each
\* child is now: then its old content is at hand.
LEMMA StillRunning ==
  ASSUME TypeOK', pc' \in Running, outcome' = "running", archive' \in State,
         pc' \in {"displace", "install"} => todo' \subseteq Tree(tree'),
         pc' = "undo" => installed' \subseteq todo',
         \A c \in Untouched' : Forward(c)' /\ Backward(c)' /\ rows'[c] = before'.rows[c]
  PROVE  RestoreInv'
<1>1. Progress'
  BY DEF Progress, Running
<1>2. NothingLost'
  <2>1. ASSUME NEW c \in Untouched'
        PROVE  \/ before'.files[c] \in {None, files'[c], displaced'[c]}
               \/ <<c, "beside", before'.files[c]>> \in debris'
               \/ c \in stuck' /\ <<c, "inside", before'.files[c]>> \in debris'
    BY <2>1 DEF Forward, Backward, Running, Rollback, Pristine, Aside, Swapped, ToReturn,
       Returned, Fresh, Elsewhere
  <2> QED
    BY <2>1 DEF NothingLost, Untouched
<1>3. AllOrNothing'
  BY DEF AllOrNothing
<1> QED
  BY <1>1, <1>2, <1>3 DEF RestoreInv

LEMMA BeginInv ==
  ASSUME RestoreInv, Begin
  PROVE  RestoreInv'
<1>1. TypeOK'
  BY BackupType DEF RestoreInv, Backup
<1>2. archive' \in State
  BY DEF Begin, RestoreInv, TypeOK
<1>3. ASSUME NEW c \in Untouched'
      PROVE  Forward(c)' /\ Backward(c)' /\ rows'[c] = before'.rows[c]
  <2>1. displaced'[c] = None /\ c \notin installed' /\ c \in Child
    BY <1>3 DEF Begin, RestoreInv, TypeOK, NoCopies, Untouched
  <2>2. /\ files'[c] = before'.files[c] /\ rows'[c] = before'.rows[c]
        /\ c \in todo' <=> c \in Tree(1) /\ files[c] # None
    BY <2>1 DEF Begin, Swap, Now, system, Tree
  <2> QED
    BY <2>1, <2>2 DEF Begin, Swap, Forward, Backward, Rollback, Elsewhere, Pristine, Aside, system, Tree
<1> QED
  BY <1>1, <1>2, <1>3, StillRunning DEF Begin, Swap, Running

LEMMA DisplaceInv ==
  ASSUME RestoreInv, NEW d \in Child, Displace(d)
  PROVE  RestoreInv'
<1>1. TypeOK'
  BY BackupType DEF RestoreInv, Backup
<1>2. ASSUME NEW c \in Untouched'
      PROVE  Forward(c)' /\ Backward(c)' /\ rows'[c] = before'.rows[c]
  <2>1. c \in Child /\ Forward(c) /\ rows[c] = before.rows[c]
    BY <1>2 DEF RestoreInv, Displace, history, Untouched, Running
  <2>2. /\ c # d => files'[c] = files[c] /\ displaced'[c] = displaced[c]
        /\ c = d => files'[c] = None /\ displaced'[c] = files[c]
    BY <2>1 DEF Displace, RestoreInv, TypeOK, Now, State, Holding
  <2>3. /\ pc' = pc /\ pc = "displace" /\ tree' = tree /\ todo' = todo \ {d} /\ d \in todo
        /\ archive' = archive /\ installed' = installed /\ before' = before /\ rows' = rows
    BY DEF Displace, history
  <2>4. CASE c = d
    BY <2>1, <2>2, <2>3, <2>4 DEF Forward, Backward, Rollback, Pristine, Aside, RestoreInv, Progress
  <2>5. CASE c # d
    BY <2>1, <2>2, <2>3, <2>5 DEF Forward, Backward, Rollback, Elsewhere, Pristine, Aside, Swapped
  <2> QED
    BY <2>4, <2>5
<1> QED
  BY <1>1, <1>2, StillRunning DEF Displace, RestoreInv, Progress, Running, history, Tree

LEMMA AllDisplacedInv ==
  ASSUME RestoreInv, AllDisplaced
  PROVE  RestoreInv'
<1>1. TypeOK'
  BY BackupType DEF RestoreInv, Backup
<1>2. ASSUME NEW c \in Untouched'
      PROVE  Forward(c)' /\ Backward(c)' /\ rows'[c] = before'.rows[c]
  <2>1. c \in Child /\ Forward(c) /\ rows[c] = before.rows[c]
    BY <1>2 DEF RestoreInv, AllDisplaced, history, Untouched, Running
  <2> QED
    BY <2>1 DEF AllDisplaced, Forward, Backward, Rollback, Elsewhere, Pristine, Aside, Swapped, Tree,
       history, system
<1> QED
  BY <1>1, <1>2, StillRunning DEF AllDisplaced, RestoreInv, Progress, Running, history

LEMMA InstallInv ==
  ASSUME RestoreInv, NEW d \in Child, Install(d)
  PROVE  RestoreInv'
<1>1. TypeOK'
  BY BackupType DEF RestoreInv, Backup
<1>2. ASSUME NEW c \in Untouched'
      PROVE  Forward(c)' /\ Backward(c)' /\ rows'[c] = before'.rows[c]
  <2>1. c \in Child /\ Forward(c) /\ rows[c] = before.rows[c]
    BY <1>2 DEF RestoreInv, Install, history, Untouched, Running
  <2>2. /\ c # d => files'[c] = files[c]
        /\ c = d /\ files[c] = None => files'[c] = archive.files[c]
    BY <2>1 DEF Install, RestoreInv, TypeOK, Now, State, Holding
  <2>3. /\ pc' = pc /\ pc = "install" /\ tree' = tree /\ todo' = todo \ {d} /\ d \in todo
        /\ archive' = archive /\ displaced' = displaced /\ before' = before /\ rows' = rows
        /\ installed' = installed \cup {d}
    BY DEF Install, history
  <2>4. CASE c = d
    BY <2>1, <2>2, <2>3, <2>4 DEF Forward, Backward, Rollback, Swapped, Aside, RestoreInv, Progress
  <2>5. CASE c # d
    BY <2>1, <2>2, <2>3, <2>5 DEF Forward, Backward, Rollback, Elsewhere, Pristine, Aside, Swapped
  <2> QED
    BY <2>4, <2>5
<1> QED
  BY <1>1, <1>2, StillRunning DEF Install, RestoreInv, Progress, Running, history

LEMMA AllInstalledInv ==
  ASSUME RestoreInv, AllInstalled
  PROVE  RestoreInv'
<1>1. TypeOK'
  BY BackupType DEF RestoreInv, Backup
<1>2. ASSUME NEW c \in Untouched'
      PROVE  Forward(c)' /\ Backward(c)' /\ rows'[c] = before'.rows[c]
  <2>1. c \in Child /\ Forward(c) /\ rows[c] = before.rows[c]
    BY <1>2 DEF RestoreInv, AllInstalled, history, Untouched, Running
  <2>2. tree \in {1, 2}
    BY DEF RestoreInv, TypeOK
  <2> QED
    BY <2>1, <2>2 DEF AllInstalled, Swap, Forward, Backward, Rollback, Elsewhere, Pristine, Aside,
       Swapped, Tree, history, system
<1> QED
  BY <1>1, <1>2, StillRunning DEF AllInstalled, Swap, RestoreInv, Progress, Running, history

\* Where a child is when a step fails is where the rollback finds it.
LEMMA Failing ==
  ASSUME RestoreInv, pc \in {"displace", "install", "reload"}, Unwind \/ UndoAll,
         NEW c \in Untouched, before.files[c] # None \/ displaced[c] = None,
         UNCHANGED <<displaced, installed, before>>,
         files'[c] = files[c], c \in stuck' <=> c \in stuck, Forward(c),
         UndoAll => pc = "reload"
  PROVE  Backward(c)'
<1>1. c \in Child /\ tree \in {1, 2} /\ (displaced[c] # None /\ pc' = "undo" => c \in todo')
  BY DEF RestoreInv, TypeOK, Untouched, Unwind, UndoAll
<1>2. CASE Pristine(c)
  BY <1>1, <1>2 DEF Pristine, Backward, Returned, Unwind, UndoAll
<1>3. CASE Aside(c)
  BY <1>1, <1>3 DEF Aside, Backward, ToReturn, Fresh
<1>4. CASE Swapped(c)
  BY <1>1, <1>4 DEF Swapped, Backward, ToReturn, Fresh
<1> QED
  BY <1>1, <1>2, <1>3, <1>4 DEF Forward, Elsewhere

LEMMA FailInv ==
  ASSUME RestoreInv, Fail
  PROVE  RestoreInv'
<1>1. TypeOK'
  BY BackupType DEF RestoreInv, Backup
<1>2. pc' \in Rollback /\ (pc' = "undo" => installed' \subseteq todo')
  BY DEF Fail, UndoAll, Unwind, Rollback
<1>3. ASSUME NEW c \in Untouched'
      PROVE  Forward(c)' /\ Backward(c)' /\ rows'[c] = before'.rows[c]
  <2>1. c \in Untouched /\ Forward(c) /\ rows[c] = before.rows[c]
    BY <1>3 DEF RestoreInv, Fail, history, Untouched, Running
  <2>2. before.files[c] # None \/ displaced[c] = None
    BY <2>1 DEF Fail, Forward, Elsewhere, Pristine, Aside, Swapped
  <2>3. /\ pc \in {"displace", "install", "reload"} /\ (Unwind \/ UndoAll)
        /\ UndoAll => pc = "reload"
    BY DEF Fail, Unwind, UndoAll
  <2>4. Backward(c)'
    BY <2>1, <2>2, <2>3, Failing DEF Fail, system, history
  <2> QED
    BY <1>2, <2>1, <2>4 DEF Fail, Forward, Rollback, system, history
<1> QED
  BY <1>1, <1>2, <1>3, StillRunning
     DEF Fail, RestoreInv, Progress, Running, Rollback, history

LEMMA BreakInv ==
  ASSUME RestoreInv, NEW d \in Child, DisplaceBreaks(d) \/ InstallBreaks(d)
  PROVE  RestoreInv'
<1>1. TypeOK'
  BY BackupType DEF RestoreInv, Backup
<1>2. /\ pc \in {"displace", "install"} /\ pc' = "unwind" /\ Unwind /\ ~ UndoAll
      /\ d \in todo /\ d \in Tree(tree)
      /\ UNCHANGED <<rows, archive, displaced, installed, before, touched, outcome>>
  BY DEF DisplaceBreaks, InstallBreaks, Unwind, UndoAll, RestoreInv, Progress
<1>3. ASSUME NEW c \in Untouched'
      PROVE  Forward(c)' /\ Backward(c)' /\ rows'[c] = before'.rows[c]
  <2>1. c \in Untouched /\ c \in Child /\ Forward(c) /\ rows[c] = before.rows[c]
    BY <1>2, <1>3 DEF RestoreInv, Untouched, Running
  <2>2. before.files[c] # None \/ displaced[c] = None
    BY <1>2, <2>1 DEF Forward, Elsewhere, Pristine, Aside, Swapped
  <2>3. CASE c # d
    <3>1. files'[c] = files[c] /\ (c \in stuck' <=> c \in stuck)
      BY <2>1, <2>3 DEF DisplaceBreaks, InstallBreaks, RestoreInv, TypeOK, Now, State, Holding
    <3>2. Backward(c)'
      BY <1>2, <2>1, <2>2, <3>1, Failing
    <3> QED
      BY <1>2, <2>1, <3>2 DEF Forward
  <2>4. CASE c = d /\ DisplaceBreaks(d)
    <3>1. Pristine(c) /\ c \in stuck' /\ <<c, "beside", files[c]>> \in debris'
      BY <1>2, <2>1, <2>4 DEF DisplaceBreaks, Forward
    <3>2. Returned(c)'
      BY <1>2, <3>1 DEF Pristine, Returned, Unwind
    <3> QED
      BY <1>2, <2>1, <3>2 DEF Forward, Backward
  <2>5. CASE c = d /\ InstallBreaks(d)
    <3>1. Aside(c) /\ (displaced[c] = None => c \in stuck')
      BY <1>2, <2>1, <2>5 DEF InstallBreaks, Forward
    <3>2. ToReturn(c)' \/ Fresh(c)'
      BY <1>2, <3>1 DEF Aside, ToReturn, Fresh
    <3> QED
      BY <1>2, <2>1, <3>2 DEF Forward, Backward
  <2> QED
    BY <2>3, <2>4, <2>5
<1> QED
  BY <1>1, <1>2, <1>3, StillRunning DEF RestoreInv, Progress, Running

LEMMA UnwoundInv ==
  ASSUME RestoreInv, Unwound
  PROVE  RestoreInv'
<1>1. TypeOK'
  BY BackupType DEF RestoreInv, Backup
<1>2. /\ pc = "unwind" /\ pc' = "undo"
      /\ todo' = installed \cup {c \in Child : displaced[c] # None}
      /\ UNCHANGED <<files, rows, archive, displaced, installed, before, touched, stuck,
                     debris, outcome>>
  BY DEF Unwound, UndoAll, system, history
<1>3. ASSUME NEW c \in Untouched'
      PROVE  Forward(c)' /\ Backward(c)' /\ rows'[c] = before'.rows[c]
  <2>1. c \in Child /\ Backward(c) /\ rows[c] = before.rows[c]
    BY <1>2, <1>3 DEF RestoreInv, Untouched, Running
  <2> QED
    BY <1>2, <2>1 DEF Forward, Backward, Rollback, ToReturn, Returned, Fresh
<1> QED
  BY <1>1, <1>2, <1>3, StillRunning DEF RestoreInv, Progress, Running

LEMMA RemoveInv ==
  ASSUME RestoreInv, NEW d \in Child, Remove(d)
  PROVE  RestoreInv'
<1>1. TypeOK'
  BY BackupType DEF RestoreInv, Backup
<1>2. /\ pc' = pc /\ pc \in Rollback /\ d \in todo
      /\ installed' = installed \ {d} /\ todo' = todo \ {d}
      /\ UNCHANGED <<rows, archive, displaced, before, touched, debris, outcome>>
  BY DEF Remove, Rollback
<1>3. ASSUME NEW c \in Untouched'
      PROVE  Forward(c)' /\ Backward(c)' /\ rows'[c] = before'.rows[c]
  <2>1. c \in Child /\ Backward(c) /\ rows[c] = before.rows[c]
    BY <1>2, <1>3 DEF RestoreInv, Untouched, Running, Rollback
  <2>2. /\ c # d => files'[c] = files[c] /\ (c \in stuck' <=> c \in stuck)
        /\ c = d => files'[c] = None \/ c \in stuck'
    BY <2>1 DEF Remove, RestoreInv, TypeOK, Now, State, Holding
  <2>3. CASE c # d
    BY <1>2, <2>1, <2>2, <2>3 DEF Forward, Backward, Rollback, ToReturn, Returned, Fresh
  <2>4. CASE c = d
    <3>1. ToReturn(c) \/ Fresh(c)
      BY <1>2, <2>1, <2>4 DEF Backward, Returned
    <3>2. ToReturn(c)' \/ Fresh(c)'
      BY <1>2, <2>2, <2>4, <3>1 DEF ToReturn, Fresh
    <3> QED
      BY <1>2, <2>1, <3>2 DEF Forward, Backward, Rollback
  <2> QED
    BY <2>3, <2>4
<1> QED
  BY <1>1, <1>2, <1>3, StillRunning DEF RestoreInv, Progress, Running, Rollback

LEMMA MoveBackInv ==
  ASSUME RestoreInv, NEW d \in Child, MoveBack(d)
  PROVE  RestoreInv'
<1>1. TypeOK'
  BY BackupType DEF RestoreInv, Backup
<1>2. /\ pc' = pc /\ pc = "undo" /\ d \notin todo /\ displaced[d] # None
      /\ UNCHANGED <<rows, archive, todo, installed, before, touched, outcome>>
      /\ debris \subseteq debris'
  BY DEF MoveBack
<1>3. ASSUME NEW c \in Untouched'
      PROVE  Forward(c)' /\ Backward(c)' /\ rows'[c] = before'.rows[c]
  <2>1. c \in Child /\ Backward(c) /\ rows[c] = before.rows[c]
    BY <1>2, <1>3 DEF RestoreInv, Untouched, Running
  <2>2. CASE c # d
    <3>1. files'[c] = files[c] /\ displaced'[c] = displaced[c] /\ (c \in stuck' <=> c \in stuck)
      BY <2>1, <2>2 DEF MoveBack, RestoreInv, TypeOK, Now, State, Holding
    <3> QED
      BY <1>2, <2>1, <3>1 DEF Forward, Backward, Rollback, ToReturn, Returned, Fresh
  <2>3. CASE c = d
    <3>1. ToReturn(c) /\ c \notin installed
      BY <1>2, <2>1, <2>3
         DEF Backward, Rollback, Returned, Fresh, RestoreInv, Progress
    <3>2. /\ displaced'[c] = None
          /\ \/ files'[c] = displaced[c]
             \/ /\ files[c] # None /\ stuck' = stuck
                /\ <<c, "inside", displaced[c]>> \in debris'
             \/ c \in stuck' /\ <<c, "beside", displaced[c]>> \in debris'
      BY <2>1, <2>3 DEF MoveBack, RestoreInv, TypeOK, Now, State, Holding
    <3>3. Returned(c)'
      BY <1>2, <2>3, <3>1, <3>2 DEF ToReturn, Returned
    <3> QED
      BY <1>2, <2>1, <3>3 DEF Forward, Backward
  <2> QED
    BY <2>2, <2>3
<1> QED
  BY <1>1, <1>2, <1>3, StillRunning DEF RestoreInv, Progress, Running

LEMMA UndoneInv ==
  ASSUME RestoreInv, Undone
  PROVE  RestoreInv'
<1>1. TypeOK'
  BY BackupType DEF RestoreInv, Backup
<1>2. Progress'
  BY DEF Undone, RestoreInv, Progress, Running
<1>3. ASSUME NEW c \in Untouched
      PROVE  /\ rows[c] = before.rows[c]
             /\ \/ files[c] = before.files[c]
                \/ c \in stuck /\ before.files[c] = None
                \/ c \in stuck /\ <<c, "beside", before.files[c]>> \in debris
                \/ c \in stuck /\ <<c, "inside", before.files[c]>> \in debris
  <2>1. Backward(c) /\ rows[c] = before.rows[c] /\ c \in Child
    BY <1>3 DEF RestoreInv, Undone, Running, Untouched
  <2>2. c \notin installed /\ displaced[c] = None
    BY <2>1 DEF Undone, NoCopies, RestoreInv, Progress
  <2> QED
    BY <2>1, <2>2 DEF Backward, Rollback, ToReturn, Returned, Fresh, Undone
<1>4. NothingLost' /\ AllOrNothing'
  BY <1>3 DEF Undone, NothingLost, AllOrNothing, Untouched, system
<1>5. \A c \in Untouched' : Forward(c)' /\ Backward(c)'
  BY DEF Undone, Forward, Backward, Rollback
<1> QED
  BY <1>1, <1>2, <1>4, <1>5 DEF RestoreInv, Undone, Running

LEMMA ReloadInv ==
  ASSUME RestoreInv, Reload
  PROVE  RestoreInv'
<1>1. TypeOK'
  BY BackupType DEF RestoreInv, Backup
<1>2. Progress'
  BY DEF Reload, Progress, Running
<1>3. \A c \in Untouched : files[c] = archive.files[c]
  BY DEF RestoreInv, Reload, Forward, Swapped
<1>4. NothingLost' /\ AllOrNothing'
  BY <1>3 DEF Reload, NothingLost, AllOrNothing, Untouched
<1>5. \A c \in Untouched' : Forward(c)' /\ Backward(c)'
  BY DEF Reload, Forward, Backward, Rollback
<1> QED
  BY <1>1, <1>2, <1>4, <1>5 DEF RestoreInv, Reload, Running

\* After the commit.
LEMMA CleanInv ==
  ASSUME RestoreInv, Cleaned \/ \E d \in Child : Clean(d)
  PROVE  RestoreInv'
<1>1. TypeOK'
  BY BackupType DEF RestoreInv, Backup
<1>2. /\ outcome = "restored" /\ outcome' = outcome /\ pc' \in {"idle", "clean"}
      /\ UNCHANGED <<files, rows, archive, touched, installed>>
  BY DEF RestoreInv, Progress, Cleaned, Clean, system, history
<1>3. Progress'
  BY <1>2 DEF RestoreInv, Progress, Running, Cleaned, Clean
<1>4. NothingLost' /\ AllOrNothing'
  BY <1>2 DEF RestoreInv, NothingLost, AllOrNothing
<1>5. \A c \in Untouched' : Forward(c)' /\ Backward(c)'
  BY <1>2 DEF Forward, Backward, Rollback
<1> QED
  BY <1>1, <1>2, <1>3, <1>4, <1>5 DEF RestoreInv, Running

LEMMA CrashInv ==
  ASSUME RestoreInv, Crash
  PROVE  RestoreInv'
<1>1. TypeOK'
  BY CrashType DEF RestoreInv
<1>2. Progress' /\ outcome' # "running"
  BY DEF RestoreInv, Crash, Progress, Running
<1>3. /\ outcome' = "crashed" => outcome = "running"
      /\ outcome' # "crashed" => outcome \in {"none", "restored"}
  BY DEF RestoreInv, TypeOK, Crash, Progress, Running
<1>4. NothingLost'
  <2> SUFFICES ASSUME outcome' = "crashed", NEW c \in Child \ touched'
               PROVE  \/ before'.files[c] \in {None, files'[c], displaced'[c]}
                      \/ <<c, "beside", before'.files[c]>> \in debris'
                      \/ c \in stuck' /\ <<c, "inside", before'.files[c]>> \in debris'
    BY <1>3, <1>2 DEF NothingLost, Crash
  <2>1. /\ \/ before.files[c] \in {None, files[c], displaced[c]}
           \/ <<c, "beside", before.files[c]>> \in debris
           \/ c \in stuck /\ <<c, "inside", before.files[c]>> \in debris
        /\ files' = files /\ before' = before /\ stuck' = stuck /\ c \in Child
    BY <1>3 DEF RestoreInv, NothingLost, Crash, system
  <2>2. displaced[c] # None => <<c, "beside", displaced[c]>> \in debris'
    BY <2>1 DEF Crash
  <2>3. debris \subseteq debris'
    BY DEF Crash
  <2> QED
    BY <2>1, <2>2, <2>3
<1>5. AllOrNothing'
  BY <1>3 DEF RestoreInv, AllOrNothing, Crash, Progress, system
<1>6. \A c \in Untouched' : Forward(c)' /\ Backward(c)'
  BY DEF Crash, Forward, Backward, Rollback
<1> QED
  BY <1>1, <1>2, <1>4, <1>5, <1>6 DEF RestoreInv, Crash, Running

-----------------------------------------------------------------------------
(* The theorem.                                                            *)

LEMMA InitRestore == Init => RestoreInv
<1> SUFFICES ASSUME Init
             PROVE  RestoreInv
  OBVIOUS
<1>1. TypeOK
  BY DEF Init, TypeOK, Now, State, Holding, NoCopies, Nothing
<1> QED
  BY <1>1 DEF Init, RestoreInv, Progress, Running, Forward, Backward, Rollback, NothingLost, AllOrNothing

LEMMA NextRestore == RestoreInv /\ [Next]_vars => RestoreInv'
<1> SUFFICES ASSUME RestoreInv, [Next]_vars
             PROVE  RestoreInv'
  OBVIOUS
<1>1. CASE Backup
  BY <1>1, ExportInv, BeginInv, AllDisplacedInv, AllInstalledInv, ReloadInv, FailInv, BreakInv,
     UnwoundInv, UndoneInv, CleanInv, DisplaceInv, InstallInv, RemoveInv, MoveBackInv DEF Backup
<1>2. CASE UNCHANGED vars
  <2> USE <1>2 DEF vars, system, work, history
  <2>1. TypeOK' /\ Progress'
    BY DEF RestoreInv, TypeOK, Progress, Now
  <2>2. Untouched' = Untouched
    BY DEF Untouched
  <2>3. \A c \in Untouched' : Forward(c)' /\ Backward(c)'
    BY <2>2 DEF RestoreInv, Forward, Backward, Rollback, Elsewhere, Pristine, Aside, Swapped, ToReturn,
       Returned, Fresh
  <2> QED
    BY <2>1, <2>2, <2>3 DEF RestoreInv, NothingLost, AllOrNothing
<1> QED
  BY <1>1, <1>2, RequestInv, CrashInv, WorkInv DEF Next

LEMMA RestoreInvHolds == Spec => []RestoreInv
BY InitRestore, NextRestore, PTL DEF Spec

\* Whatever requests, failures and crashes come in between, every variable keeps
\* its type: a displaced copy is one of a child, and when the restore has ended no
\* child counts as displaced or installed.
THEOREM RestoreTypes == Spec => []TypeOK
<1>1. RestoreInv => TypeOK
  BY DEF RestoreInv
<1> QED
  BY <1>1, RestoreInvHolds, PTL

\* A restore leaves files and rows all as in the archive or all as they were
\* (backup_import.py:6-11, 148-228), for any trees, presets and contents, and any
\* requests beside it. After a failure that holds of every row, and of the files of
\* every child at which no second step failed: whose removal or move in the rollback
\* went through, and whose own move had not broken off half way.
THEOREM RestoreIsAllOrNothing == Spec => []AllOrNothing
<1>1. RestoreInv => AllOrNothing
  BY DEF RestoreInv
<1> QED
  BY <1>1, RestoreInvHolds, PTL

\* Until the restore has committed, what a tree held is in place or in a copy beside
\* it (backup_import.py:6-11), at every moment, after any number of failures of the
\* restore and of its rollback, and after a crash; only a child that the rollback
\* could not remove first may hold its old content inside (backup_import.py:137-140).
THEOREM NothingIsLost == Spec => []NothingLost
<1>1. RestoreInv => NothingLost
  BY DEF RestoreInv
<1> QED
  BY <1>1, RestoreInvHolds, PTL

=============================================================================
