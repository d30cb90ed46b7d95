------------------------------- MODULE Ledger -------------------------------
(***************************************************************************)
(* The append-only ledger file of a cycle and the processes that append to *)
(* it: the daemon, whose handlers and orchestrating goroutine append       *)
(* concurrently, and every `cycle run --once`.  Each entry carries the     *)
(* hash of its predecessor.  A process keeps the hash of the last entry in *)
(* a registry (ledgerLocks), made on first use, and does not read it from  *)
(* the file again.                                                         *)
(*                                                                         *)
(* Hashes do not collide: the hash of an entry is a number given once.     *)
(***************************************************************************)
EXTENDS Naturals, Sequences

CONSTANTS
  Procs,        \* processes
  OneShot,      \* those that make one pass and end: cycle run --once
  Threads,      \* goroutines that append
  home,         \* the process of each goroutine
  NoLock,       \* no entry in the registry
  Garbage,      \* a line that is not a whole entry
  MaxHashes     \* bound on the entries hashed

Genesis == 0
Entries == [prev : Nat, hash : Nat]

ASSUME LedgerAssumption ==
  /\ OneShot \subseteq Procs
  /\ home \in [Threads -> Procs]
  /\ NoLock \notin Nat
  /\ Garbage \notin Entries
  /\ MaxHashes \in Nat

VARIABLES
  file,         \* the lines of the file
  end,          \* whether the last line has its newline: "newline" or "open"
  hashes,       \* how many hashes have been given
  lastHash,     \* the registry of each process: its ledgerLock.lastHash
  at,           \* where each goroutine is in Append
  last          \* what a goroutine has read in readLastHash

vars == <<file, end, hashes, lastHash, at, last>>

Init ==
  /\ file = <<>> /\ end = "newline" /\ hashes = Genesis
  /\ lastHash = [p \in Procs |-> NoLock]
  /\ at   = [t \in Threads |-> "idle"]
  /\ last = [t \in Threads |-> Genesis]

(* forEachLedgerLine fails on a line that does not parse. *)
Readable == \A i \in 1..Len(file) : file[i] # Garbage

(* readLastHash of a readable file. *)
TailHash == IF file = <<>> THEN Genesis ELSE file[Len(file)].hash

(* O_APPEND adds to what is there: to a line without newline as well, which  *)
(* then does not parse.                                                      *)
Extended(line) ==
  IF end = "newline" THEN Append(file, line)
  ELSE [file EXCEPT ![Len(file)] = Garbage]

NewEntry(t) == [prev |-> lastHash[home[t]], hash |-> hashes + 1]

(* A write that stops half-way: short of the closing brace, or of the        *)
(* newline only.                                                             *)
PartOfLine(t) ==
  /\ \/ file' = Extended(Garbage) /\ UNCHANGED hashes
     \/ /\ hashes < MaxHashes
        /\ file' = Extended(NewEntry(t))
        /\ hashes' = hashes + 1
  /\ end' = "open"
-----------------------------------------------------------------------------
(* ledger.go asks for a single active writer per cycle across processes: the *)
(* others are not in Append, and a one-shot pass that has begun has ended.   *)
SoleWriter(p) ==
  /\ \A u \in Threads : home[u] # p => at[u] = "idle"
  /\ \A q \in OneShot \ {p} : lastHash[q] = NoLock

(* Append begins with lockForLedger's ledgerLocks.Load. *)
Load(t) ==
  /\ at[t] = "idle"
  /\ SoleWriter(home[t])
  /\ at' = [at EXCEPT ![t] = IF lastHash[home[t]] = NoLock THEN "miss" ELSE "locked"]
  /\ UNCHANGED <<file, end, hashes, lastHash, last>>

(* Mutant of ReadLastHash: a line that does not parse is skipped. *)
ReadLastHashLenient(t) ==
  /\ at[t] = "miss"
  /\ at'   = [at EXCEPT ![t] = "read"]
  /\ last' = [last EXCEPT ![t] =
                IF \E i \in 1..Len(file) : file[i] # Garbage
                THEN file[CHOOSE i \in 1..Len(file) :
                            /\ file[i] # Garbage
                            /\ \A j \in i+1..Len(file) : file[j] = Garbage].hash
                ELSE Genesis]
  /\ UNCHANGED <<file, end, hashes, lastHash>>

(* readLastHash, without a lock.  A line that does not parse fails Append,   *)
(* and so does an error of the file system.                                  *)
ReadLastHash(t) ==
  /\ at[t] = "miss"
  /\ \/ /\ Readable
        /\ at'   = [at EXCEPT ![t] = "read"]
        /\ last' = [last EXCEPT ![t] = TailHash]
     \/ /\ at' = [at EXCEPT ![t] = "idle"]
        /\ UNCHANGED last
  /\ UNCHANGED <<file, end, hashes, lastHash>>

(* Mutant of LoadOrStore: the entry somebody else has stored is replaced. *)
StoreAlways(t) ==
  /\ at[t] = "read"
  /\ lastHash' = [lastHash EXCEPT ![home[t]] = last[t]]
  /\ at' = [at EXCEPT ![t] = "locked"]
  /\ UNCHANGED <<file, end, hashes, last>>

(* ledgerLocks.LoadOrStore: the first of several goroutines wins. *)
LoadOrStore(t) ==
  /\ at[t] = "read"
  /\ lastHash' = [lastHash EXCEPT ![home[t]] =
                    IF lastHash[home[t]] = NoLock THEN last[t] ELSE lastHash[home[t]]]
  /\ at' = [at EXCEPT ![t] = "locked"]
  /\ UNCHANGED <<file, end, hashes, last>>

(* The rest of Append, under the lock. *)
Write(t) ==
  /\ at[t] = "locked"
  /\ hashes < MaxHashes
  /\ hashes' = hashes + 1
  /\ file' = Extended(NewEntry(t))
  /\ end' = "newline"
  /\ lastHash' = [lastHash EXCEPT ![home[t]] = hashes + 1]
  /\ at' = [at EXCEPT ![t] = "idle"]
  /\ UNCHANGED last

(* The directory or the file cannot be opened: nothing is written. *)
OpenFails(t) ==
  /\ at[t] = "locked"
  /\ at' = [at EXCEPT ![t] = "idle"]
  /\ UNCHANGED <<file, end, hashes, lastHash, last>>

(* Only a part of the line gets written (a full disk): lastHash stays. *)
WriteFails(t) ==
  /\ at[t] = "locked"
  /\ PartOfLine(t)
  /\ at' = [at EXCEPT ![t] = "idle"]
  /\ UNCHANGED <<lastHash, last>>

(* The process ends or dies, and is started again; a write it was in the     *)
(* middle of may have got a part of its line into the file.                  *)
Restart(p) ==
  /\ lastHash' = [lastHash EXCEPT ![p] = NoLock]
  /\ at'   = [t \in Threads |-> IF home[t] = p THEN "idle" ELSE at[t]]
  /\ \/ UNCHANGED <<file, end, hashes>>
     \/ \E t \in Threads : home[t] = p /\ at[t] = "locked" /\ PartOfLine(t)
  /\ UNCHANGED last

Next ==
  \/ \E t \in Threads :
       \/ Load(t) \/ ReadLastHash(t) \/ LoadOrStore(t)
       \/ Write(t) \/ OpenFails(t) \/ WriteFails(t)
  \/ \E p \in Procs : Restart(p)

Spec == Init /\ [][Next]_vars
-----------------------------------------------------------------------------
(* The types of the file, of the registry and of Append's locals. *)
TypeOK ==
  /\ file \in Seq(Entries \cup {Garbage})
  /\ end \in {"newline", "open"}
  /\ hashes \in Nat
  /\ lastHash \in [Procs -> Nat \cup {NoLock}]
  /\ at \in [Threads -> {"idle", "miss", "read", "locked"}]
  /\ last \in [Threads -> Nat]

(* VerifyChain up to the first line that does not parse: every entry names   *)
(* the hash of the line before it.  The registry is filled without a lock    *)
(* and never read back from the file, and still no two goroutines link their *)
(* entries to the same predecessor.                                          *)
ChainIntact ==
  \A i \in 1..Len(file) :
    (\A j \in 1..i : file[j] # Garbage) =>
      file[i].prev = IF i = 1 THEN Genesis ELSE file[i-1].hash

(* After a torn write, a process that has not appended before never does     *)
(* (Append fails in readLastHash): a restarted daemon does not continue a    *)
(* damaged ledger as if nothing had happened.                                *)
NewcomersRefuse ==
  [][\A p \in Procs : ~Readable /\ lastHash[p] = NoLock => lastHash'[p] = NoLock]_vars
=============================================================================
