----------------------------- MODULE StateFile ------------------------------
(***************************************************************************)
(* StateFileSync: the state file of a cycle and its .bak.  Write serves    *)
(* the writers of one process under a mutex; another process (the daemon   *)
(* beside a `cycle run --once`) has a mutex of its own.  Read and Remove   *)
(* take none.  A process may be killed at any point, a write may fail, and *)
(* the file may be damaged from outside.                                   *)
(*                                                                         *)
(* A content is the number of its commit, the rename that put it in place; *)
(* the temporary file before that is the writer's own.                     *)
(***************************************************************************)
EXTENDS Naturals, FiniteSets

CONSTANTS
  Syncers,        \* the processes, each with its StateFileSync
  Writers,        \* calls of Write, and
  SyncerOf(_),    \* the process each belongs to
  Readers,        \* calls of Read
  NoFile, Damaged, Unset,
  MaxCommits, MaxDamages, MaxKills

ASSUME FileAssumption ==
  /\ \A w \in Writers : SyncerOf(w) \in Syncers
  /\ {NoFile, Damaged, Unset} \cap Nat = {}
  /\ NoFile # Damaged /\ NoFile # Unset /\ Damaged # Unset /\ Unset \notin Writers
  /\ MaxCommits \in Nat /\ MaxDamages \in Nat /\ MaxKills \in Nat

VARIABLES
  primary, bak,   \* the two files
  holder,         \* who holds each process's mutex
  writeAt,        \* where each Write is
  prior,          \* what it has read before it commits
  readAt, from,   \* where each Read is, and the last commit when it began
  got,            \* what it returns: a content, NoFile for a zero State, Damaged for an error
  commits,        \* history: how many renames there have been,
  by,             \* the processes that made them,
  removed,        \* whether the file was removed,
  damages, kills  \* and how often it was damaged, and a Write cut short

fileVars == <<primary, bak, holder, writeAt, prior, readAt, from, got,
              commits, by, removed, damages, kills>>
readVars == <<readAt, from, got>>

Content == Nat \cup {Damaged}

FileInit ==
  /\ primary = NoFile /\ bak = NoFile
  /\ holder = [s \in Syncers |-> Unset]
  /\ writeAt = [w \in Writers |-> "idle"] /\ prior = [w \in Writers |-> NoFile]
  /\ readAt = [r \in Readers |-> "idle"] /\ from = [r \in Readers |-> 0]
  /\ got = [r \in Readers |-> Unset]
  /\ commits = 0 /\ by = {} /\ removed = FALSE /\ damages = 0 /\ kills = 0

ToWrite(w, next) == writeAt' = [writeAt EXCEPT ![w] = next]
-----------------------------------------------------------------------------
(* Mutant of Free: Write takes no lock. *)
FreeAlways(s) == TRUE

Free(s) == holder[s] = Unset

(* Write: the mutex and the prior content, *)
ReadPrior(w) ==
  /\ writeAt[w] = "idle" /\ Free(SyncerOf(w)) /\ commits < MaxCommits
  /\ holder' = [holder EXCEPT ![SyncerOf(w)] = w]
  /\ prior' = [prior EXCEPT ![w] = primary]
  /\ ToWrite(w, "temp")
  /\ UNCHANGED <<primary, bak, readVars, commits, by, removed, damages, kills>>

Install(w) ==
  /\ primary' = commits + 1 /\ commits' = commits + 1
  /\ by' = by \cup {SyncerOf(w)} /\ ToWrite(w, "renamed") /\ UNCHANGED bak

(* the temporary file and its rename, *)
Rename(w) ==
  /\ writeAt[w] = "temp" /\ Install(w)
  /\ UNCHANGED <<holder, prior, readVars, removed, damages, kills>>

(* Mutant of BackupDue: no backup is made. *)
BackupDueNot(w) == FALSE

(* and, if there was a prior content, the backup, which is truncated and     *)
(* then written.                                                             *)
BackupDue(w) == prior[w] # NoFile

TruncateBackup(w) ==
  /\ writeAt[w] = "renamed" /\ BackupDue(w)
  /\ bak' = Damaged /\ ToWrite(w, "truncated")
  /\ UNCHANGED <<primary, holder, prior, readVars, commits, by, removed, damages, kills>>

(* Mutant of Saved: the backup is a copy of the new file. *)
SavedLate(w) == primary

Saved(w) == prior[w]

Release(w) ==
  /\ holder' = [holder EXCEPT ![SyncerOf(w)] = Unset] /\ ToWrite(w, "idle")
  /\ prior' = [prior EXCEPT ![w] = NoFile]

WriteBackup(w) ==
  /\ \/ writeAt[w] = "renamed" /\ ~BackupDue(w) /\ UNCHANGED bak
     \/ writeAt[w] = "truncated" /\ bak' = Saved(w)
  /\ Release(w)
  /\ UNCHANGED <<primary, readVars, commits, by, removed, damages, kills>>

(* An error before the rename changes nothing; one in the backup leaves it   *)
(* as it is.                                                                 *)
WriteErrs(w) ==
  /\ writeAt[w] \in {"temp", "renamed", "truncated"} /\ kills < MaxKills
  /\ kills' = IF writeAt[w] = "temp" THEN kills ELSE kills + 1
  /\ Release(w)
  /\ UNCHANGED <<primary, bak, readVars, commits, by, removed, damages>>

(* A process is killed, with all it was writing. *)
Kill(s) ==
  /\ holder[s] # Unset /\ kills < MaxKills /\ kills' = kills + 1
  /\ holder' = [holder EXCEPT ![s] = Unset]
  /\ writeAt' = [w \in Writers |-> IF SyncerOf(w) = s THEN "idle" ELSE writeAt[w]]
  /\ prior' = [w \in Writers |-> IF SyncerOf(w) = s THEN NoFile ELSE prior[w]]
  /\ UNCHANGED <<primary, bak, readVars, commits, by, removed, damages>>

Remove ==
  /\ primary # NoFile /\ primary' = NoFile /\ removed' = TRUE
  /\ UNCHANGED <<bak, holder, writeAt, prior, readVars, commits, by, damages, kills>>

Damage ==
  /\ primary \in Nat /\ damages < MaxDamages
  /\ primary' = Damaged /\ damages' = damages + 1
  /\ UNCHANGED <<bak, holder, writeAt, prior, readVars, commits, by, removed, kills>>
-----------------------------------------------------------------------------
(* Read: the file, *)
ReadPrimary(r) ==
  /\ readAt[r] = "idle"
  /\ from' = [from EXCEPT ![r] = commits]
  /\ readAt' = [readAt EXCEPT ![r] = IF primary = Damaged THEN "backup" ELSE "done"]
  /\ got' = [got EXCEPT ![r] = IF primary = Damaged THEN Unset ELSE primary]
  /\ UNCHANGED <<primary, bak, holder, writeAt, prior, commits, by, removed, damages, kills>>

(* and if it does not parse the backup; if there is none it is an error. *)
ReadBackup(r) ==
  /\ readAt[r] = "backup"
  /\ readAt' = [readAt EXCEPT ![r] = "done"]
  /\ got' = [got EXCEPT ![r] = IF bak = NoFile THEN Damaged ELSE bak]
  /\ UNCHANGED <<primary, bak, holder, writeAt, prior, from, commits, by, removed, damages, kills>>

FileNext ==
  \/ \E w \in Writers : \/ ReadPrior(w) \/ Rename(w) \/ TruncateBackup(w)
                        \/ WriteBackup(w) \/ WriteErrs(w)
  \/ \E s \in Syncers : Kill(s)
  \/ \E r \in Readers : ReadPrimary(r) \/ ReadBackup(r)
  \/ Remove \/ Damage

FileSpec == FileInit /\ [][FileNext]_fileVars
-----------------------------------------------------------------------------
(* The types of the files and of the calls. *)
FileTypeOK ==
  /\ primary \in Content \cup {NoFile} /\ bak \in Content \cup {NoFile}
  /\ holder \in [Syncers -> Writers \cup {Unset}]
  /\ writeAt \in [Writers -> {"idle", "temp", "renamed", "truncated"}]
  /\ prior \in [Writers -> Content \cup {NoFile}]
  /\ readAt \in [Readers -> {"idle", "backup", "done"}]
  /\ from \in [Readers -> Nat] /\ got \in [Readers -> Content \cup {NoFile, Unset}]
  /\ commits \in Nat /\ by \subseteq Syncers /\ removed \in BOOLEAN
  /\ damages \in Nat /\ kills \in Nat

(* The backup holds an earlier commit than the file does, even when two      *)
(* processes write at once and one of them is killed.                        *)
BackupEarlier ==
  bak \in Nat => bak < commits /\ (primary \in Nat => bak < primary)

(* Read never takes a moment of a Write for a missing file, which it would   *)
(* give back as a zero State, a cycle without limits.  And as long as one    *)
(* process writes and nothing is removed, what it returns is the last        *)
(* commit, or, from the backup of a damaged file, at most two commits older, *)
(* and one more for each Write that was cut short.                           *)
ReadFresh ==
  \A r \in Readers :
    /\ got[r] = NoFile => removed \/ from[r] = 0
    /\ got[r] \in Nat /\ Cardinality(by) <= 1 /\ ~removed => got[r] + 2 + kills >= from[r]

(* One damage is survived: after two commits of one process, between two     *)
(* Writes, one of the two files parses.                                      *)
Recoverable ==
  /\ Cardinality(by) = 1 /\ ~removed /\ kills = 0 /\ damages <= 1
  /\ commits >= 2 /\ \A w \in Writers : writeAt[w] \in {"idle", "temp"}
  => primary \in Nat \/ bak \in Nat
=============================================================================
