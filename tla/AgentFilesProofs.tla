-------------------------- MODULE AgentFilesProofs --------------------------
(* The journal discipline of AgentFiles, proved for every set of paths,       *)
(* contents and transactions, and for any number of crashes, failed saves and *)
(* file errors.                                                               *)
EXTENDS AgentFiles, TLAPS

\* The empty function has no domain: the journal and the LKG directory of a
\* fresh agent, and the parts of a discarded transaction.
LEMMA EmptyDomain == DOMAIN <<>> = {} /\ Len(<<>>) = 0 /\ <<>> \in Seq(Entry)
OBVIOUS

\* Appending an entry keeps the others where they are.
LEMMA AppendEntry ==
    ASSUME NEW j \in Seq(Entry), NEW e \in Entry
    PROVE  /\ Append(j, e) \in Seq(Entry)
           /\ Len(Append(j, e)) = Len(j) + 1
           /\ DOMAIN Append(j, e) = DOMAIN j \cup {Len(j) + 1}
           /\ DOMAIN j = 1..Len(j) /\ Len(j) \in Nat
           /\ \A i \in DOMAIN j : Append(j, e)[i] = j[i]
           /\ Append(j, e)[Len(j) + 1] = e
OBVIOUS

\* A backup step (Store.backup, Store.backupDeleted) that records path p of kind
\* k keeps the journal discipline, whether or not it links a file aside.
LEMMA Recorded ==
    ASSUME JournalInv, NEW p \in Paths, op = "backup",
           ~Has(journal, p),
           NEW k \in {"modified", "created", "deleted"},
           (k = "created") <=> (disk[p] = Absent),
           journal' = Add(journal, p, k, IF k = "created" THEN NoBackup
                                         ELSE LinkName(journal, p)),
           bak' = IF k = "created" THEN bak
                  ELSE LinkAside(bak, LinkName(journal, p), disk[p]),
           UNCHANGED <<disk, saved, op, inst, dels, failed, lkg, unsaved, torn>>
    PROVE  /\ journal' \in Seq(Entry)
           /\ DOMAIN bak' \subseteq BackupName
           /\ \A n \in DOMAIN bak' : bak'[n] \in Content
           /\ WellFormed(journal') /\ SavedTrails' /\ TreeProtected'
           /\ \A q \in Paths : Has(journal', q) <=> (Has(journal, q) \/ q = p)
<1> DEFINE e == [path |-> p, kind |-> k,
                 backup |-> IF k = "created" THEN NoBackup ELSE LinkName(journal, p)]
<1>0. /\ TypeOK /\ WellFormed(journal) /\ SavedTrails /\ TreeProtected
      /\ journal \in Seq(Entry)
  BY DEF JournalInv, TypeOK
<1>1. /\ e \in Entry
      /\ e.path = p /\ e.kind = k
      /\ e.backup = IF k = "created" THEN NoBackup ELSE <<Len(journal), PathDigest[p]>>
  BY <1>0 DEF Entry, BackupName, Digests, LinkName
<1>2. journal' = Append(journal, e)
  BY DEF Add
<1> HIDE DEF e
<1>3. /\ journal' \in Seq(Entry)
      /\ DOMAIN journal' = DOMAIN journal \cup {Len(journal) + 1}
      /\ DOMAIN journal = 1..Len(journal) /\ Len(journal) \in Nat
      /\ Len(journal') = Len(journal) + 1
      /\ \A i \in DOMAIN journal : journal'[i] = journal[i]
      /\ journal'[Len(journal) + 1] = e
  <2> SUFFICES /\ Append(journal, e) \in Seq(Entry)
               /\ DOMAIN Append(journal, e) = DOMAIN journal \cup {Len(journal) + 1}
               /\ DOMAIN journal = 1..Len(journal) /\ Len(journal) \in Nat
               /\ Len(Append(journal, e)) = Len(journal) + 1
               /\ \A i \in DOMAIN journal : Append(journal, e)[i] = journal[i]
               /\ Append(journal, e)[Len(journal) + 1] = e
    BY <1>2, Zenon
  <2> QED BY <1>0, <1>1, AppendEntry, Zenon
<1>4. \A q \in Paths : Has(journal', q) <=> (Has(journal, q) \/ q = p)
  BY <1>1, <1>3 DEF Has
<1>5. WellFormed(journal')
  <2>1. \A i \in DOMAIN journal : journal'[i].path # p /\ journal'[i] = journal[i]
    BY <1>3 DEF Has
  <2>2. ASSUME NEW i \in DOMAIN journal', NEW m \in DOMAIN journal',
               journal'[i].path = journal'[m].path
        PROVE  i = m
    BY <2>1, <2>2, <1>0, <1>1, <1>3 DEF WellFormed
  <2>3. ASSUME NEW i \in DOMAIN journal'
        PROVE  journal'[i].backup = IF journal'[i].kind = "created" THEN NoBackup
                                    ELSE <<i - 1, PathDigest[journal'[i].path]>>
    <3>1. CASE i \in DOMAIN journal
      BY <3>1, <2>1, <1>0 DEF WellFormed
    <3>2. CASE i = Len(journal) + 1
      BY <3>2, <1>1, <1>3
    <3> QED BY <3>1, <3>2, <1>3
  <2> QED BY <2>2, <2>3 DEF WellFormed
<1>6. SavedTrails'
  BY <1>0, <1>3 DEF SavedTrails, Extends, TypeOK
<1>7. /\ DOMAIN bak' \subseteq BackupName
      /\ \A n \in DOMAIN bak' : bak'[n] \in Content
  BY <1>0, <1>3 DEF LinkAside, LinkName, TypeOK, Tree, BackupName, Digests
<1>8. TreeProtected'
  <2> SUFFICES ASSUME ~torn PROVE TreeProtected'
    BY DEF TreeProtected
  <2>2. disk[p] = lkg[p]
    BY <1>0 DEF TreeProtected
  <2>3. ASSUME NEW i \in DOMAIN journal
        PROVE  IF journal[i].kind = "created" THEN lkg[journal[i].path] = Absent
               ELSE /\ journal[i].backup \in DOMAIN bak'
                    /\ bak'[journal[i].backup] = lkg[journal[i].path]
    <3>1. Protects(journal[i])
      BY <1>0 DEF TreeProtected
    <3>2. journal[i].kind # "created" => journal[i].backup # LinkName(journal, p)
      <4>1. i - 1 # Len(journal)
        BY <1>3
      <4>2. journal[i].kind # "created" =>
                journal[i].backup = <<i - 1, PathDigest[journal[i].path]>>
        BY <1>0 DEF WellFormed
      <4> QED BY <4>1, <4>2 DEF LinkName
    <3> QED BY <3>1, <3>2 DEF Protects, LinkAside
  <2>4. IF k = "created" THEN lkg[p] = Absent
        ELSE e.backup \in DOMAIN bak' /\ bak'[e.backup] = lkg[p]
    BY <1>1, <2>2 DEF LinkAside, LinkName
  <2>5. \A i \in DOMAIN journal' : Protects(journal[i])'
    <3> SUFFICES ASSUME NEW i \in DOMAIN journal'
                 PROVE  IF journal'[i].kind = "created" THEN lkg[journal'[i].path] = Absent
                        ELSE /\ journal'[i].backup \in DOMAIN bak'
                             /\ bak'[journal'[i].backup] = lkg[journal'[i].path]
      BY DEF Protects
    <3>1. CASE i \in DOMAIN journal
      BY <3>1, <1>3, <2>3
    <3>2. CASE i = Len(journal) + 1
      BY <3>2, <1>1, <1>3, <2>4
    <3> QED BY <3>1, <3>2, <1>3
  <2>6. \A q \in Paths : Has(journal', q) \/ disk[q] = lkg[q]
    BY <1>0, <1>4 DEF TreeProtected
  <2> QED BY <2>5, <2>6, <1>0 DEF TreeProtected, Has
<1> QED BY <1>3, <1>4, <1>5, <1>6, <1>7, <1>8

\* A backup step that records nothing.
LEMMA NotRecorded ==
    ASSUME JournalInv, op = "backup",
           UNCHANGED <<disk, bak, journal, saved, op, inst, dels, failed, lkg, unsaved, torn>>
    PROVE  SavedTrails' /\ TreeProtected'
BY DEF JournalInv, SavedTrails, TreeProtected, Extends, Protects, Has

\* The journal discipline holds when the agent first starts.
LEMMA JournalInvInit == Init => JournalInv
<1> SUFFICES ASSUME Init PROVE JournalInv
  OBVIOUS
<1>1. TypeOK
  BY EmptyDomain, FirstTreesAssumption DEF Init, TypeOK, Tree
<1> QED BY <1>1, EmptyDomain DEF Init, JournalInv, WellFormed, SavedTrails, Extends,
                              WritesJournalled, TreeProtected, Has

\* Store.backup of one staged part keeps the journal discipline.
LEMMA BackupInstallStep ==
    ASSUME JournalInv, NEW p \in Paths, BackupInstall(p)
    PROVE  JournalInv'
<1>0. TypeOK /\ WellFormed(saved) /\ WritesJournalled
  BY DEF JournalInv
<1>1. CASE Has(journal, p)
  <2>1. UNCHANGED <<disk, bak, journal, saved, op, inst, dels, todoDel, failed, lkg, unsaved, torn>>
        /\ op = "backup" /\ todo' = todo \ {p}
    BY <1>1 DEF BackupInstall
  <2>2. SavedTrails' /\ TreeProtected'
    BY <2>1, NotRecorded
  <2>3. TypeOK' /\ WellFormed(journal)' /\ WellFormed(saved)'
    BY <2>1 DEF JournalInv, TypeOK, WellFormed
  <2>4. WritesJournalled'
    BY <1>0, <1>1, <2>1 DEF WritesJournalled, Has
  <2> QED BY <2>2, <2>3, <2>4 DEF JournalInv
<1>2. CASE ~Has(journal, p)
  <2> DEFINE k == IF disk[p] = Absent THEN "created" ELSE "modified"
  <2>1. /\ op = "backup" /\ k \in {"modified", "created", "deleted"}
        /\ (k = "created") <=> (disk[p] = Absent)
        /\ journal' = Add(journal, p, k, IF k = "created" THEN NoBackup
                                         ELSE LinkName(journal, p))
        /\ bak' = IF k = "created" THEN bak
                  ELSE LinkAside(bak, LinkName(journal, p), disk[p])
        /\ UNCHANGED <<disk, saved, op, inst, dels, failed, lkg, unsaved, torn>>
        /\ todo' = todo \ {p} /\ todoDel' = todoDel
    BY <1>2 DEF BackupInstall
  <2> HIDE DEF k
  <2>2. /\ journal' \in Seq(Entry)
        /\ DOMAIN bak' \subseteq BackupName
        /\ \A n \in DOMAIN bak' : bak'[n] \in Content
        /\ WellFormed(journal') /\ SavedTrails' /\ TreeProtected'
        /\ \A q \in Paths : Has(journal', q) <=> (Has(journal, q) \/ q = p)
    BY <1>2, <2>1, Recorded
  <2>3. TypeOK' /\ WellFormed(journal)' /\ WellFormed(saved)'
    BY <1>0, <2>1, <2>2 DEF TypeOK, WellFormed
  <2>4. WritesJournalled'
    BY <1>0, <2>1, <2>2 DEF WritesJournalled, TypeOK
  <2> QED BY <2>2, <2>3, <2>4 DEF JournalInv
<1> QED BY <1>1, <1>2

\* Store.backupDeleted of one dropped path keeps the journal discipline.
LEMMA BackupDeleteStep ==
    ASSUME JournalInv, NEW p \in Paths, BackupDelete(p)
    PROVE  JournalInv'
<1>0. TypeOK /\ WellFormed(saved) /\ WritesJournalled
  BY DEF JournalInv
<1>1. CASE Has(journal, p) \/ disk[p] = Absent
  <2>1. UNCHANGED <<disk, bak, journal, saved, op, inst, dels, todo, failed, lkg, unsaved, torn>>
        /\ op = "backup" /\ todoDel' = todoDel \ {p}
    BY <1>1 DEF BackupDelete
  <2>2. SavedTrails' /\ TreeProtected'
    BY <2>1, NotRecorded
  <2>3. TypeOK' /\ WellFormed(journal)' /\ WellFormed(saved)'
    BY <2>1 DEF JournalInv, TypeOK, WellFormed
  <2>4. WritesJournalled'
    BY <1>0, <1>1, <2>1 DEF WritesJournalled, Has
  <2> QED BY <2>2, <2>3, <2>4 DEF JournalInv
<1>2. CASE ~Has(journal, p) /\ disk[p] # Absent
  <2> DEFINE k == "deleted"
  <2>1. /\ op = "backup" /\ k \in {"modified", "created", "deleted"}
        /\ (k = "created") <=> (disk[p] = Absent)
        /\ journal' = Add(journal, p, k, IF k = "created" THEN NoBackup
                                         ELSE LinkName(journal, p))
        /\ bak' = IF k = "created" THEN bak
                  ELSE LinkAside(bak, LinkName(journal, p), disk[p])
        /\ UNCHANGED <<disk, saved, op, inst, dels, failed, lkg, unsaved, torn>>
        /\ todo' = todo /\ todoDel' = todoDel \ {p}
    BY <1>2 DEF BackupDelete
  <2> HIDE DEF k
  <2>2. /\ journal' \in Seq(Entry)
        /\ DOMAIN bak' \subseteq BackupName
        /\ \A n \in DOMAIN bak' : bak'[n] \in Content
        /\ WellFormed(journal') /\ SavedTrails' /\ TreeProtected'
        /\ \A q \in Paths : Has(journal', q) <=> (Has(journal, q) \/ q = p)
    BY <1>2, <2>1, Recorded
  <2>3. TypeOK' /\ WellFormed(journal)' /\ WellFormed(saved)'
    BY <1>0, <2>1, <2>2 DEF TypeOK, WellFormed
  <2>4. WritesJournalled'
    BY <1>0, <2>1, <2>2 DEF WritesJournalled, TypeOK
  <2> QED BY <2>2, <2>3, <2>4 DEF JournalInv
<1> QED BY <1>1, <1>2

\* Clearing the backups keeps the type of the LKG directory.
LEMMA ClearedBackups ==
    ASSUME TypeOK
    PROVE  /\ DOMAIN WithoutBackups(bak, journal) \subseteq BackupName
           /\ \A n \in DOMAIN WithoutBackups(bak, journal) :
                  WithoutBackups(bak, journal)[n] \in Content
BY DEF TypeOK, WithoutBackups

\* A restored entry leaves its path as the last known good tree has it.
LEMMA RestoreEntryStep ==
    ASSUME JournalInv, NEW i \in DOMAIN journal, NEW ok \in BOOLEAN, RestoreEntry(i, ok)
    PROVE  JournalInv'
<1> DEFINE e == journal[i]
           c == IF e.kind = "created" THEN Absent ELSE bak[e.backup]
<1>0. /\ TypeOK /\ WellFormed(journal) /\ WellFormed(saved) /\ SavedTrails
      /\ WritesJournalled /\ TreeProtected
  BY DEF JournalInv
<1>1. /\ op = "restore" /\ e.path \in todo
      /\ ok => (e.kind = "created" \/ e.backup \in DOMAIN bak)
      /\ disk' = IF ok THEN [disk EXCEPT ![e.path] = c] ELSE disk
      /\ todo' = todo \ {e.path} /\ failed' = (failed \/ ~ok)
      /\ UNCHANGED <<bak, journal, saved, op, inst, dels, todoDel, lkg, unsaved, torn>>
  BY DEF RestoreEntry, NextToRestore, Restorable
<1>2. e \in Entry /\ e.path \in Paths
  <2>1. e \in Entry
    BY <1>0 DEF TypeOK
  <2> QED BY <2>1 DEF Entry
<1>3. ok => c \in Content \cup {Absent}
  BY <1>0, <1>1 DEF TypeOK
<1>4. (ok /\ ~torn) => c = lkg[e.path]
  BY <1>0, <1>1 DEF TreeProtected, Protects
<1> HIDE DEF e, c
<1>5. TypeOK'
  BY <1>0, <1>1, <1>2, <1>3 DEF TypeOK, Tree
<1>6. WellFormed(journal)' /\ WellFormed(saved)' /\ SavedTrails' /\ WritesJournalled'
  BY <1>0, <1>1 DEF WellFormed, SavedTrails, Extends, WritesJournalled
<1>7. TreeProtected'
  <2> SUFFICES ASSUME ~torn PROVE TreeProtected'
    BY <1>1 DEF TreeProtected
  <2>1. \A j \in DOMAIN journal : Protects(journal[j])
    BY <1>0 DEF TreeProtected
  <2>2. \A j \in DOMAIN journal' : Protects(journal[j])'
    BY <2>1, <1>1 DEF Protects
  <2>3. \A p \in Paths : disk'[p] = disk[p] \/ disk'[p] = lkg[p]
    BY <1>0, <1>1, <1>2, <1>4 DEF TypeOK, Tree
  <2>4. /\ \A p \in Paths : Has(journal, p)' \/ disk'[p] = lkg'[p]
        /\ ~unsaved' => \A p \in Paths : Has(saved, p)' \/ disk'[p] = lkg'[p]
    BY <1>0, <1>1, <2>3 DEF TreeProtected, Has
  <2>5. ASSUME ~failed', NEW p \in Paths \ todo'
        PROVE  disk'[p] = lkg'[p]
    <3>1. ok /\ ~failed
      BY <1>1, <2>5
    <3>2. CASE p = e.path
      BY <3>1, <3>2, <1>0, <1>1, <1>2, <1>4 DEF TypeOK, Tree
    <3>3. CASE p # e.path
      <4>1. p \notin todo
        BY <3>3, <1>1, <2>5
      <4>2. disk[p] = lkg[p]
        BY <4>1, <3>1, <1>0, <1>1 DEF TreeProtected
      <4> QED BY <4>2, <2>3, <1>1
    <3> QED BY <3>2, <3>3
  <2> QED BY <1>1, <2>2, <2>4, <2>5 DEF TreeProtected
<1> QED BY <1>5, <1>6, <1>7 DEF JournalInv

\* An install or an unlink only touches a path the state file already protects,
\* or removes nothing.
LEMMA WriteStep ==
    ASSUME JournalInv, NEW p \in Paths,
           WriteInstall(p) \/ (\E ok \in BOOLEAN : WriteDelete(p, ok))
    PROVE  JournalInv'
<1>0. /\ TypeOK /\ WellFormed(journal) /\ WellFormed(saved) /\ SavedTrails
      /\ WritesJournalled /\ TreeProtected
  BY DEF JournalInv
<1> DEFINE c == disk'[p]
<1>1. /\ op = "write" /\ c \in Content \cup {Absent}
      /\ disk' = [disk EXCEPT ![p] = c]
      /\ todo' \subseteq todo /\ todoDel' \subseteq todoDel /\ failed' \in BOOLEAN
      /\ UNCHANGED <<bak, journal, saved, op, inst, dels, lkg, unsaved, torn>>
      /\ p \in DOMAIN inst \/ (p \in dels /\ (c = Absent \/ c = disk[p]))
  <2>1. CASE WriteInstall(p)
    <3>1. op = "write" /\ p \in todo
      BY <2>1 DEF WriteInstall, Lowest
    <3>2. p \in DOMAIN inst
      BY <3>1, <1>0 DEF WritesJournalled
    <3> QED BY <2>1, <3>1, <3>2, <1>0 DEF WriteInstall, TypeOK, Tree
  <2>2. CASE \E ok \in BOOLEAN : WriteDelete(p, ok)
    <3>0. PICK ok \in BOOLEAN : WriteDelete(p, ok)
      BY <2>2
    <3>1. op = "write" /\ p \in todoDel
      BY <3>0 DEF WriteDelete, Lowest
    <3>2. p \in dels
      BY <3>1, <1>0 DEF WritesJournalled
    <3> QED BY <3>0, <3>1, <3>2, <1>0 DEF WriteDelete, TypeOK, Tree
  <2> QED BY <2>1, <2>2
<1> HIDE DEF c
<1>2. TypeOK'
  BY <1>0, <1>1 DEF TypeOK, Tree
<1>3. WellFormed(journal)' /\ WellFormed(saved)' /\ SavedTrails'
  BY <1>0, <1>1 DEF WellFormed, SavedTrails, Extends
<1>4. \A q \in Paths : disk'[q] = IF q = p THEN c ELSE disk[q]
  BY <1>0, <1>1 DEF TypeOK, Tree
<1>5. WritesJournalled'
  BY <1>0, <1>1, <1>4 DEF WritesJournalled, Has, TypeOK
<1>6. TreeProtected'
  <2> SUFFICES ASSUME ~torn PROVE TreeProtected'
    BY <1>1 DEF TreeProtected
  <2>1. \A j \in DOMAIN journal' : Protects(journal[j])'
    BY <1>0, <1>1 DEF Protects, TreeProtected
  <2>2. ~unsaved => saved = journal
    BY <1>0, <1>1 DEF SavedTrails
  <2>3. Has(journal, p) \/ c = disk[p]
    BY <1>0, <1>1 DEF WritesJournalled
  <2>4. \A q \in Paths : Has(journal, q) \/ disk'[q] = lkg[q]
    BY <1>0, <1>4, <2>3 DEF TreeProtected
  <2> QED BY <1>1, <2>1, <2>2, <2>4 DEF TreeProtected, Has
<1> QED BY <1>2, <1>3, <1>5, <1>6 DEF JournalInv

\* Every step of the agent, and every crash, keeps the journal discipline.
LEMMA JournalInvNext == JournalInv /\ [Next]_fileVars => JournalInv'
<1> SUFFICES ASSUME JournalInv, [Next]_fileVars PROVE JournalInv'
  OBVIOUS
<1>0. /\ TypeOK /\ WellFormed(journal) /\ WellFormed(saved) /\ SavedTrails
      /\ WritesJournalled /\ TreeProtected
  BY DEF JournalInv
<1>1. ASSUME NEW r \in Requests, Begin(r) PROVE JournalInv'
  <2>1. /\ DOMAIN r.inst \subseteq Paths /\ r.dels \subseteq Paths
        /\ \A p \in DOMAIN r.inst : r.inst[p] \in Content
    BY <1>1, RequestsAssumption
  <2>2. TypeOK' /\ WellFormed(journal)' /\ WellFormed(saved)'
    BY <1>0, <1>1, <2>1 DEF Begin, Save, TypeOK, WellFormed
  <2>3. SavedTrails' /\ WritesJournalled'
    <3>1. /\ op' = "backup" /\ ~unsaved' /\ saved' = journal /\ journal' = journal
          /\ DOMAIN inst' = todo' /\ dels' = todoDel' /\ journal \in Seq(Entry)
      BY <1>0, <1>1 DEF Begin, Save, TypeOK
    <3>2. Extends(journal', saved')
      BY <3>1 DEF Extends
    <3>3. SavedTrails'
      BY <3>1, <3>2 DEF SavedTrails
    <3> QED BY <3>1, <3>3 DEF WritesJournalled
  <2>4. TreeProtected'
    BY <1>0, <1>1 DEF Begin, Save, TreeProtected, Protects, Has
  <2> QED BY <2>2, <2>3, <2>4 DEF JournalInv
<1>2. ASSUME NEW ok \in BOOLEAN, StartWrite(ok) \/ EndWrite(ok) \/ Keep(ok)
      PROVE  JournalInv'
  <2>0. /\ op \in {"backup", "write", "written"} /\ op' \in {"write", "written", "idle"}
        /\ (op' = "write") <=> (op = "backup")
        /\ saved' = IF ok THEN journal ELSE saved
        /\ unsaved' = (~ok /\ IF op = "backup" THEN saved # journal ELSE unsaved)
        /\ UNCHANGED <<disk, bak, journal, lkg, torn>>
    BY <1>2 DEF StartWrite, EndWrite, Keep, Save
  <2>1. TypeOK' /\ WellFormed(journal)' /\ WellFormed(saved)'
    BY <1>0, <1>2, EmptyDomain DEF StartWrite, EndWrite, Keep, Save, TypeOK, WellFormed
  <2>2. SavedTrails'
    <3>1. Extends(journal, journal)
      BY <1>0 DEF Extends, TypeOK
    <3>2. CASE ok
      BY <3>1, <3>2, <2>0 DEF SavedTrails
    <3>3. CASE ~ok
      <4>1. ~unsaved' => (~unsaved /\ saved' = saved)
        BY <3>3, <1>0, <2>0 DEF SavedTrails
      <4>2. (op' \in {"write", "written"} /\ ~unsaved') => saved' = journal
        BY <3>3, <4>1, <1>0, <2>0 DEF SavedTrails
      <4> QED BY <4>1, <4>2, <1>0, <2>0 DEF SavedTrails
    <3> QED BY <3>2, <3>3
  <2>3. WritesJournalled'
    BY <1>0, <1>2 DEF StartWrite, EndWrite, Keep, WritesJournalled, Has
  <2>4. TreeProtected'
    BY <1>0, <2>0 DEF TreeProtected, SavedTrails, Protects, Has
  <2> QED BY <2>1, <2>2, <2>3, <2>4 DEF JournalInv
<1>3. CASE Fail \/ UnlinksFailed
  <2>0. /\ op \in {"backup", "write"} /\ op' = "failed"
        /\ inst' = <<>> /\ dels' = {} /\ todo' = {} /\ todoDel' = {} /\ failed' = FALSE
        /\ UNCHANGED <<disk, bak, journal, saved, lkg, unsaved, torn>>
    BY <1>3 DEF Fail, UnlinksFailed, Discard
  <2>1. TypeOK' /\ WellFormed(journal)' /\ WellFormed(saved)'
    BY <1>0, <2>0, EmptyDomain DEF TypeOK, WellFormed
  <2>2. SavedTrails' /\ WritesJournalled'
    BY <1>0, <2>0 DEF SavedTrails, Extends, WritesJournalled
  <2>3. TreeProtected'
    BY <1>0, <2>0 DEF TreeProtected, Protects, Has
  <2> QED BY <2>1, <2>2, <2>3 DEF JournalInv
<1>4. CASE ClearJournal
  <2>1. TypeOK' /\ WellFormed(journal)' /\ WellFormed(saved)'
    BY <1>0, <1>4, EmptyDomain, ClearedBackups DEF ClearJournal, TypeOK, WellFormed
  <2>2. SavedTrails' /\ WritesJournalled'
    <3>1. op' = "cleared" /\ journal' = <<>> /\ (~unsaved' => saved' = <<>>)
      BY <1>4 DEF ClearJournal
    <3>2. Extends(<<>>, <<>>)
      BY EmptyDomain DEF Extends
    <3> QED BY <3>1, <3>2 DEF SavedTrails, WritesJournalled
  <2>3. TreeProtected'
    BY <1>4, EmptyDomain DEF ClearJournal, TreeProtected
  <2> QED BY <2>1, <2>2, <2>3 DEF JournalInv
<1>5. ASSUME NEW ok \in BOOLEAN, SaveCleared(ok) PROVE JournalInv'
  <2>1. TypeOK' /\ WellFormed(journal)' /\ WellFormed(saved)'
    BY <1>0, <1>5 DEF SaveCleared, Save, TypeOK, WellFormed
  <2>2. SavedTrails' /\ WritesJournalled'
    BY <1>0, <1>5 DEF SaveCleared, Save, SavedTrails, Extends, WritesJournalled, TypeOK
  <2>3. TreeProtected'
    BY <1>0, <1>5 DEF SaveCleared, Save, TreeProtected, Protects, Has
  <2> QED BY <2>1, <2>2, <2>3 DEF JournalInv
<1>6. ASSUME NEW ok \in BOOLEAN, StartRestore(ok) PROVE JournalInv'
  <2>1. JournalPaths(journal) \subseteq Paths
    <3>1. \A i \in DOMAIN journal : journal[i] \in Entry
      BY <1>0 DEF TypeOK
    <3> QED BY <3>1 DEF JournalPaths, Entry
  <2>2. TypeOK' /\ WellFormed(journal)' /\ WellFormed(saved)'
    BY <1>0, <1>6, <2>1 DEF StartRestore, Save, TypeOK, WellFormed
  <2>3. SavedTrails' /\ WritesJournalled'
    BY <1>0, <1>6 DEF StartRestore, Save, SavedTrails, Extends, WritesJournalled, TypeOK
  <2>4. TreeProtected'
    <3>1. \A p \in Paths \ JournalPaths(journal) : ~Has(journal, p)
      BY DEF JournalPaths, Has
    <3> QED BY <3>1, <1>0, <1>6 DEF StartRestore, Save, TreeProtected, Protects, Has
  <2> QED BY <2>2, <2>3, <2>4 DEF JournalInv
<1>7. CASE RestoreDone
  <2>1. TypeOK' /\ WellFormed(journal)' /\ WellFormed(saved)'
    BY <1>0, <1>7, EmptyDomain, ClearedBackups DEF RestoreDone, TypeOK, WellFormed
  <2>2. SavedTrails' /\ WritesJournalled'
    <3>1. op' = "cleared" /\ journal' = <<>> /\ (~unsaved' => saved' = <<>>)
      BY <1>7 DEF RestoreDone
    <3>2. Extends(<<>>, <<>>)
      BY EmptyDomain DEF Extends
    <3> QED BY <3>1, <3>2 DEF SavedTrails, WritesJournalled
  <2>3. ~torn => disk = lkg
    <3>1. ~torn => \A p \in Paths : disk[p] = lkg[p]
      BY <1>0, <1>7 DEF RestoreDone, TreeProtected
    <3> QED BY <3>1, <1>0 DEF TypeOK, Tree
  <2>4. TreeProtected'
    BY <2>3, <1>7, EmptyDomain DEF RestoreDone, TreeProtected
  <2> QED BY <2>1, <2>2, <2>4 DEF JournalInv
<1>8. ASSUME NEW ok \in BOOLEAN, RestoreFailed(ok) PROVE JournalInv'
  <2>1. TypeOK' /\ WellFormed(journal)' /\ WellFormed(saved)'
    BY <1>0, <1>8 DEF RestoreFailed, Save, TypeOK, WellFormed
  <2>2. SavedTrails' /\ WritesJournalled'
    BY <1>0, <1>8 DEF RestoreFailed, Save, SavedTrails, Extends, WritesJournalled, TypeOK
  <2>3. TreeProtected'
    BY <1>0, <1>8 DEF RestoreFailed, Save, TreeProtected, Protects, Has
  <2> QED BY <2>1, <2>2, <2>3 DEF JournalInv
<1>9. CASE Crash
  <2>1. TypeOK' /\ WellFormed(journal)' /\ WellFormed(saved)'
    BY <1>0, <1>9, EmptyDomain DEF Crash, TypeOK, WellFormed
  <2>2. SavedTrails' /\ WritesJournalled'
    BY <1>0, <1>9 DEF Crash, SavedTrails, Extends, WritesJournalled, TypeOK
  <2>3. TreeProtected'
    <3> SUFFICES ASSUME ~torn' PROVE TreeProtected'
      BY DEF TreeProtected
    <3>1. ~torn /\ ~unsaved
      BY <1>9 DEF Crash
    <3>2. \A i \in DOMAIN saved : Protects(saved[i])
      BY <1>0, <3>1 DEF TreeProtected, SavedTrails, Extends, TypeOK
    <3>3. \A p \in Paths : Has(saved, p) \/ disk[p] = lkg[p]
      BY <1>0, <3>1 DEF TreeProtected
    <3> QED BY <3>2, <3>3, <1>9 DEF Crash, TreeProtected, Protects, Has
  <2> QED BY <2>1, <2>2, <2>3 DEF JournalInv
<1>10. CASE UNCHANGED fileVars
  <2>1. TypeOK' /\ WellFormed(journal)' /\ WellFormed(saved)'
    BY <1>0, <1>10 DEF fileVars, TypeOK, WellFormed
  <2>2. SavedTrails'
    BY <1>0, <1>10 DEF fileVars, SavedTrails, Extends
  <2>3. WritesJournalled'
    BY <1>0, <1>10 DEF fileVars, WritesJournalled, Has
  <2>4. TreeProtected'
    BY <1>0, <1>10 DEF fileVars, TreeProtected, Protects, Has
  <2> QED BY <2>1, <2>2, <2>3, <2>4 DEF JournalInv
<1>11. ASSUME NEW p \in Paths,
              BackupInstall(p) \/ BackupDelete(p) \/ WriteInstall(p)
                \/ WriteDelete(p, TRUE) \/ WriteDelete(p, FALSE)
       PROVE  JournalInv'
  BY <1>11, BackupInstallStep, BackupDeleteStep, WriteStep
<1>12. ASSUME NEW i \in DOMAIN journal,
              RestoreEntry(i, Restorable(journal[i])) \/ RestoreEntry(i, FALSE)
       PROVE  JournalInv'
  <2>1. Restorable(journal[i]) \in BOOLEAN
    BY DEF Restorable
  <2> QED BY <2>1, <1>12, RestoreEntryStep
<1> QED
  BY <1>1, <1>2, <1>3, <1>4, <1>5, <1>6, <1>7, <1>8, <1>9, <1>10, <1>11, <1>12
  DEF Next, Step, Fault, SaveFails

\* The journal discipline is an invariant of the agent's file handling.
THEOREM JournalDiscipline == Spec => []JournalInv
BY JournalInvInit, JournalInvNext, PTL DEF Spec

\* Whatever the paths, the plans, the crashes, the failed saves and the file
\* errors, the journal in memory restores exactly the last known good tree (abort, revertLKG).
THEOREM RollbackIsExact == Spec => []RollbackExact
<1>1. JournalInv => RollbackExact
  <2> SUFFICES ASSUME JournalInv, ~torn, NEW p \in Paths
               PROVE  RestoresTo(journal, p, lkg[p])
    BY DEF RollbackExact
  <2>1. Has(journal, p) \/ disk[p] = lkg[p]
    BY DEF JournalInv, TreeProtected
  <2> QED BY <2>1 DEF JournalInv, TreeProtected, Protects, RestoresTo
<1> QED BY <1>1, JournalDiscipline, PTL

\* Wherever a crash strikes, the journal the restarted agent loads restores the
\* last known good tree, unless the save before the first write failed, or the
\* journal was cleared, and no save has gone through since (finish, setPhase and
\* the reservation of proofs save again).
THEOREM CrashIsRecoverable == Spec => []CrashRecoverable
<1>1. JournalInv => CrashRecoverable
  <2> SUFFICES ASSUME JournalInv, ~torn, ~unsaved, NEW p \in Paths
               PROVE  RestoresTo(saved, p, lkg[p])
    BY DEF CrashRecoverable
  <2>1. Has(saved, p) \/ disk[p] = lkg[p]
    BY DEF JournalInv, TreeProtected
  <2>2. \A i \in DOMAIN saved : Protects(saved[i])
    BY DEF JournalInv, TreeProtected, SavedTrails, Extends, TypeOK
  <2> QED BY <2>1, <2>2 DEF Protects, RestoresTo
<1> QED BY <1>1, JournalDiscipline, PTL

\* A restore that reports success (restoreJournal) has put the last known good
\* tree back before it drops the backups.
THEOREM RestoreRestores == Spec => RestoreIsExact
<1>1. JournalInv /\ [Next]_fileVars => [(RestoreDone /\ ~torn) => disk = lkg]_fileVars
  <2> SUFFICES ASSUME JournalInv, RestoreDone, ~torn PROVE disk = lkg
    OBVIOUS
  <2>1. \A p \in Paths : disk[p] = lkg[p]
    BY DEF JournalInv, RestoreDone, TreeProtected
  <2> QED BY <2>1 DEF JournalInv, TypeOK, Tree
<1> QED BY <1>1, JournalDiscipline, PTL DEF Spec, RestoreIsExact

=============================================================================
