----------------------------- MODULE AgentFiles -----------------------------
(***************************************************************************)
(* The file side of the HAPTIC agent: pkg/dataplane/agent/files, driven by *)
(* the apply state machine of pkg/dataplane/agent/server.                   *)
(*                                                                         *)
(* One transaction at a time backs up the last-known-good (LKG) version of *)
(* every path it is about to change, persists the journal of backups with  *)
(* the state file, installs the staged parts (the config file last), and   *)
(* unlinks the paths the manifest gave up.  A failure, or the controller's *)
(* revert, restores the journal.  A reload HAProxy accepted, or a          *)
(* promotion, clears it.  The agent may crash between any two steps; only  *)
(* the disk, the backup directory and the saved state file survive.  A     *)
(* save of the state file may fail: but for the one an apply is admitted   *)
(* with, the agent logs that and goes on.                                  *)
(*                                                                         *)
(* File contents are abstract values.  A backup is a hard link: a file is  *)
(* only ever replaced by a rename, so the link keeps the content it had.   *)
(***************************************************************************)
EXTENDS Naturals, Sequences

CONSTANTS
    Paths,       \* manifest paths, numbered in the order the agent sorts them
    Content,     \* what a file may hold
    Absent,      \* the content of a path that does not exist
    ConfigFile,  \* the path of haproxy.cfg (server.Config.ConfigFile)
    PathDigest,  \* renderplan.DigestString of a path; paths may collide
    FirstTrees,  \* the trees an agent may first find on its volumes
    Requests     \* the transactions applies may ask for: parts and deletions

ASSUME PathsAssumption == Paths \subseteq Nat
ASSUME ConfigAssumption == ConfigFile \in Paths
ASSUME AbsentAssumption == Absent \notin Content
ASSUME FirstTreesAssumption == FirstTrees \subseteq [Paths -> Content \cup {Absent}]
ASSUME RequestsAssumption ==
    \A r \in Requests :
        /\ DOMAIN r.inst \subseteq Paths /\ \A p \in DOMAIN r.inst : r.inst[p] \in Content
        /\ r.dels \subseteq Paths \ DOMAIN r.inst

VARIABLES
    disk,     \* the managed tree
    bak,      \* the LKG directory: backup name -> content
    journal,  \* s.state.Journal, in memory
    saved,    \* the journal the state file on disk holds
    op,       \* how far the transaction or the restore got
    inst,     \* the staged parts of the transaction, path -> content
    dels,     \* the paths the transaction unlinks
    todo,     \* paths the current pass still has to install or restore
    todoDel,  \* paths the current pass still has to unlink
    failed,   \* a step of the current pass returned an error
    lkg,      \* history: the tree the journal protects
    unsaved,  \* history: the save before the first write failed, or the journal
              \* was cleared, and no save has succeeded since
    torn      \* history: the agent crashed while unsaved, and no tree has become
              \* the last known good one since

txVars == <<op, inst, dels, todo, todoDel, failed>>
fileVars == <<disk, bak, journal, saved, op, inst, dels, todo, todoDel, failed,
              lkg, unsaved, torn>>

-----------------------------------------------------------------------------
(* The journal *)

Tree == [Paths -> Content \cup {Absent}]
Digests == {PathDigest[p] : p \in Paths}
BackupName == Nat \X Digests
NoBackup == <<>>
Entry == [path : Paths, kind : {"modified", "created", "deleted"},
          backup : BackupName \cup {NoBackup}]

Has(j, p) == \E i \in DOMAIN j : j[i].path = p

JournalPaths(j) == {j[i].path : i \in DOMAIN j}

\* Mutant: a name without the position.
LinkName_NoPosition(j, p) == <<0, PathDigest[p]>>

\* The hard link's name carries the journal position, so two paths whose
\* digests collide keep separate backups.
LinkName(j, p) == <<Len(j), PathDigest[p]>>

Add(j, p, kind, name) ==
    IF Has(j, p) THEN j
    ELSE Append(j, [path |-> p, kind |-> kind, backup |-> name])

\* os.Remove of a leftover at that name, then os.Link.
LinkAside(b, name, c) ==
    [n \in DOMAIN b \cup {name} |-> IF n = name THEN c ELSE b[n]]

\* ClearJournal's removal of every backup the journal names.
WithoutBackups(b, j) ==
    [n \in DOMAIN b \ {j[i].backup : i \in DOMAIN j} |-> b[n]]

\* stateStore.save replaces the state file by a rename, or leaves it alone.
Save(ok) ==
    /\ saved' = IF ok THEN journal ELSE saved
    /\ unsaved' = (unsaved /\ ~ok)

Lowest(p, S) == p \in S /\ \A q \in S : p <= q

-----------------------------------------------------------------------------
(* The transaction *)

\* Begin, Install and Delete: the staged parts and the paths to drop.  An apply
\* whose reservation of proofs could not be saved was refused before
\* (reserveRoleProofs); the save of setPhase(phaseVerified) adds nothing.
Begin(r) ==
    /\ op = "idle"
    /\ op' = "backup"
    /\ inst' = r.inst /\ dels' = r.dels
    /\ todo' = DOMAIN r.inst /\ todoDel' = r.dels
    /\ failed' = FALSE
    /\ Save(TRUE)
    /\ UNCHANGED <<disk, bak, journal, lkg, torn>>

\* Mutant: a path that is already journalled is backed up again.
BackupInstall_Again(p) ==
    /\ op = "backup" /\ Lowest(p, todo)
    /\ todo' = todo \ {p}
    /\ IF disk[p] = Absent
       THEN /\ journal' = Append(journal, [path |-> p, kind |-> "created", backup |-> NoBackup])
            /\ UNCHANGED bak
       ELSE /\ bak' = LinkAside(bak, LinkName(journal, p), disk[p])
            /\ journal' = Append(journal, [path |-> p, kind |-> "modified",
                                           backup |-> LinkName(journal, p)])
    /\ UNCHANGED <<disk, saved, op, inst, dels, todoDel, failed, lkg, unsaved, torn>>

\* Store.backup: the first entry per path wins, and a path that does not
\* exist is recorded as created.
BackupInstall(p) ==
    /\ op = "backup" /\ Lowest(p, todo)
    /\ todo' = todo \ {p}
    /\ IF Has(journal, p) THEN UNCHANGED <<bak, journal>>
       ELSE IF disk[p] = Absent
            THEN /\ journal' = Add(journal, p, "created", NoBackup)
                 /\ UNCHANGED bak
            ELSE /\ bak' = LinkAside(bak, LinkName(journal, p), disk[p])
                 /\ journal' = Add(journal, p, "modified", LinkName(journal, p))
    /\ UNCHANGED <<disk, saved, op, inst, dels, todoDel, failed, lkg, unsaved, torn>>

\* Store.backupDeleted: a path that is already gone needs no backup.
BackupDelete(p) ==
    /\ op = "backup" /\ todo = {} /\ Lowest(p, todoDel)
    /\ todoDel' = todoDel \ {p}
    /\ IF Has(journal, p) \/ disk[p] = Absent THEN UNCHANGED <<bak, journal>>
       ELSE /\ bak' = LinkAside(bak, LinkName(journal, p), disk[p])
            /\ journal' = Add(journal, p, "deleted", LinkName(journal, p))
    /\ UNCHANGED <<disk, saved, op, inst, dels, todo, failed, lkg, unsaved, torn>>

\* Mutant: the first write does not wait for the save.
StartWrite_Unsaved(ok) ==
    /\ op = "backup" /\ todo = {} /\ todoDel = {}
    /\ op' = "write"
    /\ todo' = DOMAIN inst /\ todoDel' = dels
    /\ unsaved' = (~ok /\ saved # journal)
    /\ UNCHANGED <<disk, bak, journal, saved, inst, dels, failed, lkg, torn>>

\* setPhase(phaseBackedUp) persists the journal before the first write, which
\* follows whether or not the save went through.
StartWrite(ok) ==
    /\ op = "backup" /\ todo = {} /\ todoDel = {}
    /\ op' = "write"
    /\ todo' = DOMAIN inst /\ todoDel' = dels
    /\ saved' = IF ok THEN journal ELSE saved
    /\ unsaved' = (~ok /\ saved # journal)
    /\ UNCHANGED <<disk, bak, journal, inst, dels, failed, lkg, torn>>

\* Mutant: path order, wherever the config falls in it.
WriteInstall_PathOrder(p) ==
    /\ op = "write" /\ Lowest(p, todo)
    /\ disk' = [disk EXCEPT ![p] = inst[p]]
    /\ todo' = todo \ {p}
    /\ UNCHANGED <<bak, journal, saved, op, inst, dels, todoDel, failed, lkg, unsaved, torn>>

\* Transaction.Write installs in path order, the config after all the others.
WriteInstall(p) ==
    /\ op = "write"
    /\ IF todo = {ConfigFile} THEN p = ConfigFile
                              ELSE Lowest(p, todo \ {ConfigFile})
    /\ disk' = [disk EXCEPT ![p] = inst[p]]
    /\ todo' = todo \ {p}
    /\ UNCHANGED <<bak, journal, saved, op, inst, dels, todoDel, failed, lkg, unsaved, torn>>

\* An unlink that fails is reported at the end; the others still run.
WriteDelete(p, ok) ==
    /\ op = "write" /\ todo = {} /\ Lowest(p, todoDel)
    /\ disk' = IF ok THEN [disk EXCEPT ![p] = Absent] ELSE disk
    /\ todoDel' = todoDel \ {p}
    /\ failed' = (failed \/ ~ok)
    /\ UNCHANGED <<bak, journal, saved, op, inst, dels, todo, lkg, unsaved, torn>>

\* setPhase(phaseWritten).
EndWrite(ok) ==
    /\ op = "write" /\ todo = {} /\ todoDel = {} /\ ~failed
    /\ op' = "written" /\ Save(ok)
    /\ inst' = <<>> /\ dels' = {}
    /\ UNCHANGED <<disk, bak, journal, todo, todoDel, failed, lkg, torn>>

\* The server aborts the apply and discards the staged parts.
Discard ==
    /\ op' = "failed"
    /\ inst' = <<>> /\ dels' = {} /\ todo' = {} /\ todoDel' = {} /\ failed' = FALSE
    /\ UNCHANGED <<disk, bak, journal, saved, lkg, unsaved, torn>>

\* An error of Backup, or of an install (a full disk, a path something else
\* turned into a socket), stops the pass it happens in.
Fail ==
    /\ op = "backup" \/ (op = "write" /\ todo # {})
    /\ Discard

\* Write returns the errors of its unlinks once they have all been tried.
UnlinksFailed ==
    /\ op = "write" /\ todo = {} /\ todoDel = {} /\ failed
    /\ Discard

\* finish after an apply that kept its files and did not reload.
Keep(ok) ==
    /\ op = "written"
    /\ op' = "idle" /\ Save(ok)
    /\ UNCHANGED <<disk, bak, journal, inst, dels, todo, todoDel, failed, lkg, torn>>

\* ClearJournal on a tree that became the last known good one: recordReload
\* after an accepted reload, or promoteLKG between applies.  The state file is
\* saved by the step that follows.
ClearJournal ==
    /\ op \in {"idle", "written"}
    /\ bak' = WithoutBackups(bak, journal)
    /\ journal' = <<>>
    /\ lkg' = disk /\ unsaved' = (saved # <<>>) /\ torn' = FALSE
    /\ op' = "cleared"
    /\ UNCHANGED <<disk, saved, inst, dels, todo, todoDel, failed>>

\* The save that follows a cleared journal.
SaveCleared(ok) ==
    /\ op = "cleared"
    /\ op' = "idle" /\ Save(ok)
    /\ UNCHANGED <<disk, bak, journal, inst, dels, todo, todoDel, failed, lkg, torn>>

-----------------------------------------------------------------------------
(* Rollback *)

\* abort, or revertLKG, which starts with the save of setPhase(phaseBackedUp).
StartRestore(ok) ==
    /\ op \in {"idle", "written", "failed"} /\ (ok => op = "idle")
    /\ op' = "restore" /\ todo' = JournalPaths(journal) /\ failed' = FALSE
    /\ Save(ok)
    /\ UNCHANGED <<disk, bak, journal, inst, dels, todoDel, lkg, torn>>

\* The entry Restore works on next: journal order, the config last.
NextToRestore(i) ==
    /\ i \in DOMAIN journal /\ journal[i].path \in todo
    /\ IF todo = {ConfigFile} THEN journal[i].path = ConfigFile
       ELSE /\ journal[i].path # ConfigFile
            /\ \A k \in DOMAIN journal :
                   (journal[k].path \in todo \ {ConfigFile}) => i <= k

Restorable(e) == e.kind = "created" \/ e.backup \in DOMAIN bak

\* restoreEntry: a created path is removed; any other is linked beside the path
\* and renamed onto it, which fails when the backup is gone.  Restore goes on
\* to the other entries after an error.
RestoreEntry(i, ok) ==
    /\ op = "restore" /\ NextToRestore(i)
    /\ LET e == journal[i] IN
       /\ ok => Restorable(e)
       /\ disk' = IF ~ok THEN disk
                  ELSE [disk EXCEPT ![e.path] = IF e.kind = "created" THEN Absent
                                                ELSE bak[e.backup]]
       /\ todo' = todo \ {e.path}
       /\ failed' = (failed \/ ~ok)
    /\ UNCHANGED <<bak, journal, saved, op, inst, dels, todoDel, lkg, unsaved, torn>>

\* restoreJournal: the tree is the LKG set again, so the backups are cleared.
RestoreDone ==
    /\ op = "restore" /\ todo = {} /\ ~failed
    /\ bak' = WithoutBackups(bak, journal)
    /\ journal' = <<>> /\ unsaved' = (saved # <<>>)
    /\ op' = "cleared"
    /\ UNCHANGED <<disk, saved, inst, dels, todo, todoDel, failed, lkg, torn>>

\* A restore that failed keeps the journal and finish saves it.
RestoreFailed(ok) ==
    /\ op = "restore" /\ todo = {} /\ failed
    /\ op' = "idle" /\ Save(ok) /\ failed' = FALSE
    /\ UNCHANGED <<disk, bak, journal, inst, dels, todo, todoDel, lkg, torn>>

\* The process dies and New loads the state file.  SweepTemp drops the staged
\* parts.
Crash ==
    /\ op' = "idle"
    /\ journal' = saved
    /\ inst' = <<>> /\ dels' = {} /\ todo' = {} /\ todoDel' = {} /\ failed' = FALSE
    /\ torn' = (torn \/ unsaved) /\ unsaved' = FALSE
    /\ UNCHANGED <<disk, bak, saved, lkg>>

-----------------------------------------------------------------------------
Init ==
    /\ disk \in FirstTrees
    /\ bak = <<>> /\ journal = <<>> /\ saved = <<>>
    /\ op = "idle" /\ inst = <<>> /\ dels = {} /\ todo = {} /\ todoDel = {}
    /\ failed = FALSE
    /\ lkg = disk /\ unsaved = FALSE /\ torn = FALSE

Step ==
    \/ \E r \in Requests : Begin(r)
    \/ \E p \in Paths : BackupInstall(p) \/ BackupDelete(p) \/ WriteInstall(p)
                        \/ WriteDelete(p, TRUE)
    \/ StartWrite(TRUE) \/ EndWrite(TRUE) \/ UnlinksFailed \/ Keep(TRUE)
    \/ ClearJournal \/ SaveCleared(TRUE)
    \/ (\E ok \in BOOLEAN : StartRestore(ok)) \/ RestoreDone \/ RestoreFailed(TRUE)
    \/ \E i \in DOMAIN journal : RestoreEntry(i, Restorable(journal[i]))

SaveFails ==
    StartWrite(FALSE) \/ EndWrite(FALSE) \/ Keep(FALSE) \/ SaveCleared(FALSE)
      \/ RestoreFailed(FALSE)

Fault ==
    \/ Fail \/ Crash \/ SaveFails
    \/ \E p \in Paths : WriteDelete(p, FALSE)
    \/ \E i \in DOMAIN journal : RestoreEntry(i, FALSE)

Next == Step \/ Fault

Spec == Init /\ [][Next]_fileVars

-----------------------------------------------------------------------------
(* Properties *)

\* Every variable keeps its type; in particular the LKG directory never holds
\* a backup of a file that did not exist (Store.backup, Store.backupDeleted).
TypeOK ==
    /\ disk \in Tree /\ lkg \in Tree
    /\ DOMAIN bak \subseteq BackupName
    /\ \A n \in DOMAIN bak : bak[n] \in Content
    /\ journal \in Seq(Entry) /\ saved \in Seq(Entry)
    /\ op \in {"idle", "backup", "write", "written", "failed", "cleared", "restore"}
    /\ DOMAIN inst \subseteq Paths /\ \A p \in DOMAIN inst : inst[p] \in Content
    /\ dels \subseteq Paths /\ todo \subseteq Paths /\ todoDel \subseteq Paths
    /\ failed \in BOOLEAN /\ unsaved \in BOOLEAN /\ torn \in BOOLEAN

\* What path p holds after a restore of the journal j, on today's disk.
RestoresTo(j, p, c) ==
    IF Has(j, p)
    THEN \A i \in DOMAIN j : j[i].path = p =>
            IF j[i].kind = "created" THEN c = Absent
            ELSE j[i].backup \in DOMAIN bak /\ bak[j[i].backup] = c
    ELSE disk[p] = c

\* At every moment of every apply, restoring the journal the agent holds in
\* memory brings back exactly the last known good tree: the rollback that
\* abort and revertLKG perform loses no file, keeps no file the apply created,
\* and never mixes two plans, however many applies the journal spans.
RollbackExact == ~torn => \A p \in Paths : RestoresTo(journal, p, lkg[p])

\* The same of the journal in the state file: whenever the agent dies, the
\* journal it loads at the next start still undoes every write since the last
\* known good tree, whichever saves failed before: the next apply saves the
\* journal again before it is admitted.  There are two exceptions: the save
\* before the first write failed (setPhase logs it and Write follows), or the
\* journal was cleared; each lasts until the next save that goes through.
CrashRecoverable ==
    (~torn /\ ~unsaved) => \A p \in Paths : RestoresTo(saved, p, lkg[p])

\* A restore that reported no error left the last known good tree, and only
\* then are the backups dropped (restoreJournal).
RestoreIsExact == [][(RestoreDone /\ ~torn) => disk = lkg]_fileVars

\* HAProxy may read haproxy.cfg at any moment, so when a write replaces it every
\* other part is already installed and nothing it drops is unlinked yet
\* (Transaction.Write).
ConfigAfterItsFiles ==
    [][ (op = "write" /\ disk'[ConfigFile] # disk[ConfigFile]
           /\ ConfigFile \in DOMAIN inst)
        => /\ \A p \in DOMAIN inst : disk'[p] = inst[p]
           /\ todoDel' = dels ]_fileVars

-----------------------------------------------------------------------------
(* The inductive invariant *)

\* A path has one entry, and the entry at position i links a backup whose name
\* no other position can have.
WellFormed(j) ==
    /\ \A i, k \in DOMAIN j : j[i].path = j[k].path => i = k
    /\ \A i \in DOMAIN j :
           j[i].backup = IF j[i].kind = "created" THEN NoBackup
                         ELSE <<i - 1, PathDigest[j[i].path]>>

Extends(j, k) ==
    /\ Len(k) <= Len(j)
    /\ \A i \in DOMAIN k : k[i] = j[i]

\* The saved journal trails the one in memory: entries are only added, and
\* nothing is written before they are saved, unless that save failed.
SavedTrails ==
    /\ op = "cleared" => journal = <<>>
    /\ op = "backup" => ~unsaved
    /\ ~unsaved => Extends(journal, saved)
    /\ (op \in {"write", "written"} /\ ~unsaved) => saved = journal

\* Every path a write may touch is journalled before the write starts; only a
\* deletion that finds nothing is not.
WritesJournalled ==
    /\ op = "backup" =>
          /\ \A p \in DOMAIN inst \ todo : Has(journal, p)
          /\ \A p \in dels \ todoDel : Has(journal, p) \/ disk[p] = Absent
    /\ op = "write" =>
          /\ todo \subseteq DOMAIN inst /\ todoDel \subseteq dels
          /\ \A p \in DOMAIN inst : Has(journal, p)
          /\ \A p \in dels : Has(journal, p) \/ disk[p] = Absent

\* The backup of an entry holds what the last known good tree holds there.
Protects(e) ==
    IF e.kind = "created" THEN lkg[e.path] = Absent
    ELSE e.backup \in DOMAIN bak /\ bak[e.backup] = lkg[e.path]

\* The disk differs from the last known good tree only at journalled paths,
\* whose entry the state file already holds, and every entry protects its path.
TreeProtected ==
    ~torn =>
      /\ \A i \in DOMAIN journal : Protects(journal[i])
      /\ op = "cleared" => disk = lkg
      /\ \A p \in Paths : Has(journal, p) \/ disk[p] = lkg[p]
      /\ ~unsaved => \A p \in Paths : Has(saved, p) \/ disk[p] = lkg[p]
      /\ (op = "restore" /\ ~failed) => \A p \in Paths \ todo : disk[p] = lkg[p]

\* The journal discipline of the file store and of the apply state machine that
\* drives it, strong enough to be preserved by every step: why RollbackExact,
\* CrashRecoverable and RestoreIsExact hold.
JournalInv ==
    /\ TypeOK
    /\ WellFormed(journal) /\ WellFormed(saved)
    /\ SavedTrails /\ WritesJournalled /\ TreeProtected

=============================================================================
