----------------------------- MODULE DiskProofs -----------------------------
(***************************************************************************)
(* Proofs about what rallish keeps on disk: the parts that module MCDisk   *)
(* checks, but for the audits.                                             *)
(*                                                                         *)
(* The ledger, for any goroutines and any bound on entries.  The types     *)
(* need TInv only and hold for any processes.  That the chain is intact    *)
(* holds for one process, by IInv: what a goroutine has read in            *)
(* readLastHash is still the hash of the last line when LoadOrStore makes  *)
(* it the registry's, because nobody can have appended without the         *)
(* registry having an entry.                                               *)
(*                                                                         *)
(* The state file, for any number of processes, of calls of Write and      *)
(* Read, and for any bounds on commits, damages and kills.                 *)
(*                                                                         *)
(* The daemon's files, for any number of daemons and commands that start,  *)
(* stop, are killed and call at any time.                                  *)
(*                                                                         *)
(* The gate pipeline, for any changes, any number of local gates, with and *)
(* without overridden commands, and an agent that edits, commits and       *)
(* changes the branch between any two gates.                               *)
(***************************************************************************)
EXTENDS Ledger, StateFile, Daemon, Gates, FiniteSetTheorems, SequenceTheorems, TLAPS

Line == Entries \cup {Garbage}

\* A daemon that is the only process to append to its cycle's ledger.
OneProcess == \A p, q \in Procs : p = q

\* Only a line can lack its newline.
OpenIsLine == end = "open" => file # <<>>

\* What the registry holds is the hash of the last line, if that is whole.
RegistryIsTail ==
  \A p \in Procs :
    lastHash[p] # NoLock /\ Readable /\ end = "newline" => lastHash[p] = TailHash

\* What a goroutine has read is not yet old when it may still be stored.
ReadIsTail ==
  \A t \in Threads :
    at[t] = "read" /\ lastHash[home[t]] = NoLock => Readable /\ last[t] = TailHash

\* A goroutine that got a lock got it from the registry.
LockedIsStored == \A t \in Threads : at[t] = "locked" => lastHash[home[t]] # NoLock

TInv == TypeOK /\ OpenIsLine /\ LockedIsStored
IInv == TInv /\ ChainIntact /\ RegistryIsTail /\ ReadIsTail
-----------------------------------------------------------------------------
(* What O_APPEND makes of the file is a sequence of lines, and not empty. *)
LEMMA ExtendedType ==
  ASSUME TypeOK, OpenIsLine, NEW line \in Line
  PROVE  Extended(line) \in Seq(Line) /\ Extended(line) # <<>>
<1>1. CASE end = "newline"
  BY <1>1 DEF Extended, TypeOK, Line
<1>2. CASE end = "open"
  <2>1. file \in Seq(Line) /\ file # <<>> /\ Garbage \in Line
    BY <1>2 DEF TypeOK, OpenIsLine, Line
  <2>2. Extended(line) = [file EXCEPT ![Len(file)] = Garbage]
    BY <1>2 DEF Extended
  <2>3. QED
    BY <2>1, <2>2
<1>3. QED
  BY <1>1, <1>2 DEF TypeOK

(* The entry Append makes is an entry: the registry has a hash for it. *)
LEMMA NewEntryType ==
  ASSUME TInv, NEW t \in Threads, at[t] = "locked"
  PROVE  NewEntry(t) \in Entries
<1>1. lastHash[home[t]] \in Nat
  BY LedgerAssumption DEF TInv, TypeOK, LockedIsStored
<1>2. hashes + 1 \in Nat
  BY DEF TInv, TypeOK
<1>3. QED
  BY <1>1, <1>2 DEF NewEntry, Entries

(* A write that stops half-way leaves a file of lines behind. *)
LEMMA PartOfLineType ==
  ASSUME TInv, NEW t \in Threads, at[t] = "locked", PartOfLine(t)
  PROVE  /\ file' \in Seq(Line) /\ end' = "open" /\ hashes' \in Nat
         /\ file' # <<>>
<1>1. NewEntry(t) \in Line /\ Garbage \in Line
  BY NewEntryType DEF Line
<1>2. hashes \in Nat
  BY DEF TInv, TypeOK
<1>3. TypeOK /\ OpenIsLine
  BY DEF TInv
<1>4. CASE file' = Extended(Garbage) /\ UNCHANGED hashes
  <2>1. Extended(Garbage) \in Seq(Line) /\ Extended(Garbage) # <<>>
    BY <1>1, <1>3, ExtendedType, Zenon
  <2>2. QED
    BY <1>2, <1>4, <2>1 DEF PartOfLine
<1>5. CASE file' = Extended(NewEntry(t)) /\ hashes' = hashes + 1
  <2>1. Extended(NewEntry(t)) \in Seq(Line) /\ Extended(NewEntry(t)) # <<>>
    BY <1>1, <1>3, ExtendedType, Zenon
  <2>2. QED
    BY <1>2, <1>5, <2>1 DEF PartOfLine
<1>6. QED
  BY <1>4, <1>5, Zenon DEF PartOfLine

(* Every step keeps the types, that only a line is open and that a lock      *)
(* comes from the registry.                                                  *)
LEMMA TNext ==
  TInv /\ [Next]_vars => TInv'
<1> SUFFICES ASSUME TInv, [Next]_vars PROVE TInv'
  OBVIOUS
<1> USE LedgerAssumption
<1>1. ASSUME NEW t \in Threads, Load(t) PROVE TInv'
  BY <1>1 DEF Load, TInv, TypeOK, OpenIsLine, LockedIsStored
<1>2. ASSUME NEW t \in Threads, ReadLastHash(t) PROVE TInv'
  <2>1. Readable => TailHash \in Nat
    BY DEF TInv, TypeOK, Readable, TailHash, Entries, Genesis
  <2>2. TypeOK'
    BY <1>2, <2>1 DEF ReadLastHash, TInv, TypeOK
  <2>3. OpenIsLine' /\ LockedIsStored'
    BY <1>2 DEF ReadLastHash, TInv, TypeOK, OpenIsLine, LockedIsStored
  <2>4. QED
    BY <2>2, <2>3 DEF TInv
<1>3. ASSUME NEW t \in Threads, LoadOrStore(t) PROVE TInv'
  BY <1>3 DEF LoadOrStore, TInv, TypeOK, OpenIsLine, LockedIsStored
<1>4. ASSUME NEW t \in Threads, Write(t) PROVE TInv'
  <2>1. NewEntry(t) \in Line
    BY <1>4, NewEntryType DEF Line, Write
  <2>2. file' \in Seq(Line)
    BY <1>4, <2>1, ExtendedType DEF Write, TInv
  <2>3. TypeOK'
    BY <1>4, <2>2 DEF Write, TInv, TypeOK, Line
  <2>4. OpenIsLine' /\ LockedIsStored'
    BY <1>4 DEF Write, TInv, TypeOK, OpenIsLine, LockedIsStored
  <2>5. QED
    BY <2>3, <2>4 DEF TInv
<1>5. ASSUME NEW t \in Threads, OpenFails(t) PROVE TInv'
  BY <1>5 DEF OpenFails, TInv, TypeOK, OpenIsLine, LockedIsStored
<1>6. ASSUME NEW t \in Threads, WriteFails(t) PROVE TInv'
  <2>1. file' \in Seq(Line) /\ end' = "open" /\ hashes' \in Nat /\ file' # <<>>
    BY <1>6, PartOfLineType DEF WriteFails
  <2>2. TypeOK'
    BY <1>6, <2>1 DEF WriteFails, TInv, TypeOK, Line
  <2>3. OpenIsLine' /\ LockedIsStored'
    BY <1>6, <2>1 DEF WriteFails, TInv, TypeOK, OpenIsLine, LockedIsStored
  <2>4. QED
    BY <2>2, <2>3 DEF TInv
<1>7. ASSUME NEW p \in Procs, Restart(p) PROVE TInv'
  <2>1. /\ file' \in Seq(Line) /\ end' \in {"newline", "open"} /\ hashes' \in Nat
        /\ OpenIsLine'
    <3>1. CASE UNCHANGED <<file, end, hashes>>
      BY <3>1 DEF TInv, TypeOK, OpenIsLine, Line
    <3>2. CASE \E t \in Threads : home[t] = p /\ at[t] = "locked" /\ PartOfLine(t)
      BY <3>2, PartOfLineType DEF OpenIsLine
    <3>3. QED
      BY <1>7, <3>1, <3>2 DEF Restart
  <2>2. TypeOK'
    BY <1>7, <2>1 DEF Restart, TInv, TypeOK, Line
  <2>3. LockedIsStored'
    BY <1>7 DEF Restart, TInv, TypeOK, LockedIsStored
  <2>4. QED
    BY <2>1, <2>2, <2>3 DEF TInv
<1>8. CASE UNCHANGED vars
  BY <1>8 DEF vars, TInv, TypeOK, OpenIsLine, LockedIsStored
<1>9. QED
  BY <1>1, <1>2, <1>3, <1>4, <1>5, <1>6, <1>7, <1>8 DEF Next

(* Initially the file is empty and nobody has a lock. *)
LEMMA TInit == Init => TInv
  BY LedgerAssumption DEF Init, TInv, TypeOK, OpenIsLine, LockedIsStored, Genesis

(* The types hold, for any number of processes that take turns: in           *)
(* particular no entry is linked to a hash the registry does not have.       *)
THEOREM LedgerTypeCorrect == Spec => []TypeOK
<1>1. TInv => TypeOK
  BY DEF TInv
<1>2. QED
  BY <1>1, TInit, TNext, PTL DEF Spec
-----------------------------------------------------------------------------
(* An entry linked to the last line keeps the chain; a line that does not    *)
(* parse, or one appended to an open line, ends it.                          *)
LEMMA ExtendedChain ==
  ASSUME TypeOK, OpenIsLine, ChainIntact, NEW line \in Line, file' = Extended(line),
         Readable /\ end = "newline" /\ line # Garbage => line.prev = TailHash
  PROVE  /\ ChainIntact'
         /\ Readable' => Readable /\ end = "newline" /\ TailHash' = line.hash
<1> DEFINE n == Len(file)
<1>0. file \in Seq(Line) /\ n \in Nat
  BY DEF TypeOK, Line
<1>1. CASE end = "newline"
  <2>1. /\ Len(file') = n + 1 /\ file'[n+1] = line /\ file' # <<>>
        /\ \A i \in 1..n : file'[i] = file[i]
    BY <1>0, <1>1 DEF Extended
  <2>2. ASSUME NEW i \in 1..n+1, \A j \in 1..i : file'[j] # Garbage
        PROVE  file'[i].prev = IF i = 1 THEN Genesis ELSE file'[i-1].hash
    <3>1. CASE i \in 1..n
      <4>1. \A j \in 1..i : file[j] # Garbage
        BY <1>0, <2>1, <2>2, <3>1
      <4>2. file[i].prev = IF i = 1 THEN Genesis ELSE file[i-1].hash
        BY <3>1, <4>1 DEF ChainIntact
      <4>3. i # 1 => i-1 \in 1..n
        BY <1>0, <3>1
      <4>4. QED
        BY <2>1, <3>1, <4>2, <4>3
    <3>2. CASE i = n + 1
      <4>1. Readable
        BY <1>0, <2>1, <2>2, <3>2 DEF Readable
      <4>2. line # Garbage
        BY <1>0, <2>1, <2>2, <3>2
      <4>3. file'[i].prev = TailHash
        BY <1>1, <2>1, <3>2, <4>1, <4>2
      <4>4. n = 0 <=> file = <<>>
        BY <1>0
      <4>5. n # 0 => n \in 1..n
        BY <1>0
      <4>6. i - 1 = n /\ (i = 1 <=> n = 0)
        BY <1>0, <3>2
      <4>7. QED
        BY <2>1, <4>3, <4>4, <4>5, <4>6 DEF TailHash
    <3>3. QED
      BY <1>0, <3>1, <3>2
  <2>3. ChainIntact'
    BY <2>1, <2>2 DEF ChainIntact
  <2>4. Readable' => Readable
    BY <1>0, <2>1 DEF Readable
  <2>5. TailHash' = line.hash
    BY <2>1 DEF TailHash
  <2>6. QED
    BY <1>1, <2>3, <2>4, <2>5
<1>2. CASE end = "open"
  <2>1. n \in 1..n
    BY <1>0, <1>2 DEF OpenIsLine
  <2>2. file' = [file EXCEPT ![n] = Garbage]
    BY <1>2 DEF Extended
  <2>3. /\ Len(file') = n /\ file'[n] = Garbage
        /\ \A i \in 1..n : i # n => file'[i] = file[i]
    BY <1>0, <2>1, <2>2
  <2>4. ~ Readable'
    BY <2>1, <2>3 DEF Readable
  <2>5. ASSUME NEW i \in 1..n, \A j \in 1..i : file'[j] # Garbage
        PROVE  file'[i].prev = IF i = 1 THEN Genesis ELSE file'[i-1].hash
    <3>1. i # n
      BY <1>0, <2>3, <2>5
    <3>2. \A j \in 1..i : file[j] # Garbage
      <4>1. \A j \in 1..i : j \in 1..n /\ j # n
        BY <1>0, <3>1
      <4>2. QED
        BY <4>1, <2>3, <2>5
    <3>3. file[i].prev = IF i = 1 THEN Genesis ELSE file[i-1].hash
      BY <3>2 DEF ChainIntact
    <3>4. i # 1 => i-1 \in 1..n /\ i-1 # n
      BY <1>0
    <3>5. QED
      BY <2>3, <3>1, <3>3, <3>4
  <2>6. QED
    BY <2>3, <2>4, <2>5 DEF ChainIntact
<1>3. QED
  BY <1>1, <1>2 DEF TypeOK

(* A step that leaves the file alone leaves what is said of it alone. *)
LEMMA SameFile ==
  ASSUME UNCHANGED file
  PROVE  /\ ChainIntact => ChainIntact'
         /\ Readable' <=> Readable
         /\ TailHash' = TailHash
  BY DEF ChainIntact, Readable, TailHash

(* A write that stops half-way keeps the chain and leaves the line open. *)
LEMMA PartOfLineChain ==
  ASSUME IInv, NEW t \in Threads, at[t] = "locked", PartOfLine(t)
  PROVE  ChainIntact' /\ end' = "open"
<1>1. NewEntry(t) \in Entries /\ Garbage \in Line
  BY NewEntryType DEF Line, IInv
<1>2. Readable /\ end = "newline" => NewEntry(t).prev = TailHash
  BY LedgerAssumption DEF IInv, TInv, TypeOK, RegistryIsTail, LockedIsStored, NewEntry
<1>3. CASE file' = Extended(Garbage)
  BY <1>1, <1>3, ExtendedChain DEF IInv, TInv, PartOfLine
<1>4. CASE file' = Extended(NewEntry(t))
  BY <1>1, <1>2, <1>4, ExtendedChain DEF IInv, TInv, PartOfLine, Line
<1>5. QED
  BY <1>3, <1>4 DEF PartOfLine

(* Every step of the one process keeps the chain, the registry and what has  *)
(* been read for it.                                                         *)
LEMMA CNext ==
  ASSUME OneProcess
  PROVE  IInv /\ [Next]_vars => IInv'
<1> SUFFICES ASSUME IInv, [Next]_vars PROVE IInv'
  OBVIOUS
<1> USE LedgerAssumption
<1>0. TInv'
  BY TNext DEF IInv
<1> SUFFICES ChainIntact' /\ RegistryIsTail' /\ ReadIsTail'
  BY <1>0 DEF IInv
<1>a. TypeOK /\ LockedIsStored /\ ChainIntact /\ RegistryIsTail /\ ReadIsTail
  BY DEF IInv, TInv
<1>b. \A t, u \in Threads : home[t] = home[u]
  BY DEF OneProcess
<1>1. ASSUME NEW t \in Threads, Load(t)
      PROVE  ChainIntact' /\ RegistryIsTail' /\ ReadIsTail'
  <2>1. UNCHANGED <<file, end, lastHash, last>>
    BY <1>1 DEF Load
  <2>2. \A u \in Threads : at'[u] = "read" => at[u] = "read"
    BY <1>a, <1>1 DEF Load, TypeOK
  <2>3. QED
    BY <1>a, <2>1, <2>2, SameFile DEF RegistryIsTail, ReadIsTail
<1>2. ASSUME NEW t \in Threads, ReadLastHash(t)
      PROVE  ChainIntact' /\ RegistryIsTail' /\ ReadIsTail'
  <2>1. UNCHANGED <<file, end, lastHash>>
    BY <1>2 DEF ReadLastHash
  <2>2. \A u \in Threads : at'[u] = "read" =>
          (at[u] = "read" /\ last'[u] = last[u]) \/ (Readable /\ last'[u] = TailHash)
    BY <1>a, <1>2 DEF ReadLastHash, TypeOK
  <2>3. QED
    BY <1>a, <2>1, <2>2, SameFile DEF RegistryIsTail, ReadIsTail
<1>3. ASSUME NEW t \in Threads, LoadOrStore(t)
      PROVE  ChainIntact' /\ RegistryIsTail' /\ ReadIsTail'
  <2>1. UNCHANGED <<file, end, last>> /\ at[t] = "read"
    BY <1>3 DEF LoadOrStore
  <2>2. \A p \in Procs : lastHash'[p] = lastHash[p] \/
          (lastHash[home[t]] = NoLock /\ lastHash'[p] = last[t])
    BY <1>a, <1>3 DEF LoadOrStore, TypeOK
  <2>3. RegistryIsTail'
    BY <1>a, <2>1, <2>2, SameFile DEF RegistryIsTail, ReadIsTail
  <2>4. \A u \in Threads : lastHash'[home[u]] # NoLock
    BY <1>a, <1>b, <1>3 DEF LoadOrStore, TypeOK
  <2>5. QED
    BY <1>a, <2>1, <2>3, <2>4, SameFile DEF ReadIsTail
<1>4. ASSUME NEW t \in Threads, Write(t)
      PROVE  ChainIntact' /\ RegistryIsTail' /\ ReadIsTail'
  <2>1. NewEntry(t) \in Entries /\ NewEntry(t).hash = hashes + 1
    BY <1>4, NewEntryType DEF Write, NewEntry, IInv
  <2>2. Readable /\ end = "newline" => NewEntry(t).prev = TailHash
    BY <1>a, <1>4 DEF TypeOK, RegistryIsTail, LockedIsStored, NewEntry, Write
  <2>3. ChainIntact' /\ (Readable' => TailHash' = hashes + 1)
    BY <1>4, <2>1, <2>2, ExtendedChain DEF IInv, TInv, Write, Line
  <2>4. \A p \in Procs : lastHash'[p] = hashes + 1
    BY <1>a, <1>4 DEF Write, TypeOK, OneProcess
  <2>5. RegistryIsTail'
    BY <2>3, <2>4 DEF RegistryIsTail
  <2>6. \A u \in Threads : lastHash'[home[u]] # NoLock
    BY <1>a, <2>4 DEF TypeOK
  <2>7. QED
    BY <2>3, <2>5, <2>6 DEF ReadIsTail
<1>5. ASSUME NEW t \in Threads, OpenFails(t)
      PROVE  ChainIntact' /\ RegistryIsTail' /\ ReadIsTail'
  <2>1. UNCHANGED <<file, end, lastHash, last>>
    BY <1>5 DEF OpenFails
  <2>2. \A u \in Threads : at'[u] = "read" => at[u] = "read"
    BY <1>a, <1>5 DEF OpenFails, TypeOK
  <2>3. QED
    BY <1>a, <2>1, <2>2, SameFile DEF RegistryIsTail, ReadIsTail
<1>6. ASSUME NEW t \in Threads, WriteFails(t)
      PROVE  ChainIntact' /\ RegistryIsTail' /\ ReadIsTail'
  <2>1. ChainIntact' /\ end' = "open"
    BY <1>6, PartOfLineChain DEF WriteFails
  <2>2. \A u \in Threads : lastHash'[home[u]] # NoLock
    BY <1>a, <1>b, <1>6 DEF WriteFails, LockedIsStored
  <2>3. QED
    BY <2>1, <2>2 DEF RegistryIsTail, ReadIsTail
<1>7. ASSUME NEW p \in Procs, Restart(p)
      PROVE  ChainIntact' /\ RegistryIsTail' /\ ReadIsTail'
  <2>1. ChainIntact'
    <3>1. CASE UNCHANGED <<file, end, hashes>>
      BY <1>a, <3>1, SameFile
    <3>2. CASE \E t \in Threads : home[t] = p /\ at[t] = "locked" /\ PartOfLine(t)
      BY <3>2, PartOfLineChain
    <3>3. QED
      BY <1>7, <3>1, <3>2 DEF Restart
  <2>2. \A q \in Procs : lastHash'[q] = NoLock
    BY <1>a, <1>7 DEF Restart, TypeOK, OneProcess
  <2>3. \A u \in Threads : at'[u] = "idle"
    BY <1>7 DEF Restart, OneProcess
  <2>4. QED
    BY <2>1, <2>2, <2>3 DEF RegistryIsTail, ReadIsTail
<1>8. CASE UNCHANGED vars
  <2>1. UNCHANGED <<file, end, lastHash, at, last>>
    BY <1>8 DEF vars
  <2>2. QED
    BY <1>a, <2>1, SameFile DEF RegistryIsTail, ReadIsTail
<1>9. QED
  BY <1>1, <1>2, <1>3, <1>4, <1>5, <1>6, <1>7, <1>8 DEF Next

(* Initially there is nothing to link to. *)
LEMMA CInit == Init => IInv
<1> SUFFICES ASSUME Init PROVE IInv
  OBVIOUS
<1>1. TInv
  BY TInit
<1>2. ChainIntact
  BY DEF Init, ChainIntact
<1>3. RegistryIsTail /\ ReadIsTail
  BY DEF Init, RegistryIsTail, ReadIsTail
<1>4. QED
  BY <1>1, <1>2, <1>3 DEF IInv

(* A ledger appended to by one daemon, from however many goroutines and      *)
(* through failed writes and restarts, verifies up to the first line that    *)
(* does not parse.                                                           *)
THEOREM ChainKept ==
  ASSUME OneProcess
  PROVE  Spec => []ChainIntact
<1>1. IInv => ChainIntact
  BY DEF IInv
<1>2. QED
  BY <1>1, CInit, CNext, PTL DEF Spec

(* And a daemon restarted over a ledger with a line that does not parse does *)
(* not append to it.                                                         *)
THEOREM DamagedIsLeft ==
  ASSUME OneProcess
  PROVE  Spec => NewcomersRefuse
<1>1. ASSUME IInv, [Next]_vars, NEW p \in Procs, ~Readable, lastHash[p] = NoLock
      PROVE  lastHash'[p] = NoLock
  <2>0. /\ TypeOK /\ ReadIsTail
        /\ \A t \in Threads : at[t] # "locked" \/ home[t] # p
    BY <1>1 DEF IInv, TInv, LockedIsStored
  <2>1. ASSUME NEW t \in Threads, LoadOrStore(t) PROVE lastHash'[p] = NoLock
    BY <1>1, <2>0, <2>1, LedgerAssumption DEF LoadOrStore, TypeOK, ReadIsTail
  <2>2. ASSUME NEW t \in Threads, Write(t) PROVE lastHash'[p] = NoLock
    BY <1>1, <2>0, <2>2, LedgerAssumption DEF Write, TypeOK
  <2>3. ASSUME NEW q \in Procs, Restart(q) PROVE lastHash'[p] = NoLock
    BY <1>1, <2>0, <2>3 DEF Restart, TypeOK
  <2>4. QED
    BY <1>1, <2>1, <2>2, <2>3
    DEF Next, vars, Load, ReadLastHash, OpenFails, WriteFails
<1>2. IInv /\ [Next]_vars =>
        [\A p \in Procs : ~Readable /\ lastHash[p] = NoLock => lastHash'[p] = NoLock]_vars
  BY <1>1
<1>3. QED
  BY <1>2, CInit, CNext, PTL DEF Spec, NewcomersRefuse
-----------------------------------------------------------------------------
(* The constants that stand for no content are no content. *)
LEMMA Constants ==
  /\ NoFile \notin Nat /\ Unset \notin Nat /\ Damaged \notin Nat
  /\ NoFile # Damaged /\ NoFile # Unset /\ Damaged # Unset
  /\ Unset \notin Writers /\ \A w \in Writers : SyncerOf(w) \in Syncers
BY FileAssumption

-----------------------------------------------------------------------------
(* Types. *)
LEMMA FileTypeInit == FileInit => FileTypeOK
<1> SUFFICES ASSUME FileInit PROVE FileTypeOK
  OBVIOUS
<1> USE DEF FileInit, Content
<1>1. /\ primary \in Content \cup {NoFile} /\ bak \in Content \cup {NoFile}
      /\ commits \in Nat /\ by \subseteq Syncers /\ removed \in BOOLEAN
      /\ damages \in Nat /\ kills \in Nat
  OBVIOUS
<1>2. /\ holder \in [Syncers -> Writers \cup {Unset}]
      /\ writeAt \in [Writers -> {"idle", "temp", "renamed", "truncated"}]
      /\ prior \in [Writers -> Content \cup {NoFile}]
  OBVIOUS
<1>3. /\ readAt \in [Readers -> {"idle", "backup", "done"}]
      /\ from \in [Readers -> Nat] /\ got \in [Readers -> Content \cup {NoFile, Unset}]
  OBVIOUS
<1> QED
  BY <1>1, <1>2, <1>3 DEF FileTypeOK

LEMMA FileTypeStep == FileTypeOK /\ [FileNext]_fileVars => FileTypeOK'
<1> SUFFICES ASSUME FileTypeOK, [FileNext]_fileVars PROVE FileTypeOK'
  OBVIOUS
<1> USE DEF FileTypeOK, Content
<1>1. ASSUME NEW w \in Writers, ReadPrior(w) PROVE FileTypeOK'
  BY <1>1 DEF ReadPrior, ToWrite, readVars
<1>2. ASSUME NEW w \in Writers, Rename(w) PROVE FileTypeOK'
  BY <1>2, Constants DEF Rename, Install, ToWrite, readVars
<1>3. ASSUME NEW w \in Writers, TruncateBackup(w) PROVE FileTypeOK'
  BY <1>3 DEF TruncateBackup, ToWrite, readVars
<1>4. ASSUME NEW w \in Writers, WriteBackup(w) PROVE FileTypeOK'
  BY <1>4, Constants DEF WriteBackup, Saved, Release, ToWrite, readVars
<1>5. ASSUME NEW w \in Writers, WriteErrs(w) PROVE FileTypeOK'
  BY <1>5, Constants DEF WriteErrs, Release, ToWrite, readVars
<1>6. ASSUME NEW s \in Syncers, Kill(s) PROVE FileTypeOK'
  BY <1>6 DEF Kill, readVars
<1>7. ASSUME NEW r \in Readers, ReadPrimary(r) PROVE FileTypeOK'
  BY <1>7 DEF ReadPrimary
<1>8. ASSUME NEW r \in Readers, ReadBackup(r) PROVE FileTypeOK'
  BY <1>8 DEF ReadBackup
<1>9. CASE Remove
  BY <1>9 DEF Remove, readVars
<1>10. CASE Damage
  BY <1>10 DEF Damage, readVars
<1>11. CASE UNCHANGED fileVars
  BY <1>11 DEF fileVars
<1> QED
  BY <1>1, <1>2, <1>3, <1>4, <1>5, <1>6, <1>7, <1>8, <1>9, <1>10, <1>11 DEF FileNext

(* The files, the mutexes and the calls are well typed: sync.go keeps no     *)
(* content but a commit or a damaged one.                                    *)
THEOREM FileTypeCorrect == FileSpec => []FileTypeOK
BY FileTypeInit, FileTypeStep, PTL DEF FileSpec
-----------------------------------------------------------------------------
(* The inductive invariant.  First, for any processes: the file holds the    *)
(* last commit if it holds one, what a Write has read and what the backup    *)
(* holds is an earlier one.                                                  *)
CommitInv ==
  /\ primary \in Nat => primary = commits
  /\ primary = NoFile => removed \/ commits = 0
  /\ primary = Damaged => damages > 0
  /\ bak \in Nat => bak < commits

PriorInv ==
  \A w \in Writers :
    /\ writeAt[w] = "temp" /\ prior[w] \in Nat => prior[w] <= commits
    /\ writeAt[w] \in {"renamed", "truncated"} /\ prior[w] \in Nat => prior[w] < commits
    /\ writeAt[w] = "truncated" => prior[w] # NoFile

ReadInv ==
  \A r \in Readers : from[r] <= commits /\ (got[r] = NoFile => removed \/ from[r] = 0)

(* A process's mutex is held by its Write that is under way. *)
LockInv ==
  /\ \A w \in Writers : writeAt[w] # "idle" => holder[SyncerOf(w)] = w
  /\ \A w \in Writers : writeAt[w] \in {"renamed", "truncated"} => SyncerOf(w) \in by
  /\ IsFiniteSet(by)

(* While no process but that of w has committed, what w has read is the      *)
(* commit before its own.                                                    *)
Mine(w) == ~removed /\ \A s \in by : s = SyncerOf(w)

OwnInv ==
  \A w \in Writers : Mine(w) =>
    /\ writeAt[w] = "temp" =>
         /\ prior[w] \in Nat => prior[w] = commits
         /\ prior[w] = NoFile => commits = 0
         /\ prior[w] = Damaged => damages > 0
    /\ writeAt[w] \in {"renamed", "truncated"} =>
         /\ prior[w] \in Nat => prior[w] + 1 = commits
         /\ prior[w] = NoFile => commits = 1
         /\ prior[w] = Damaged => damages > 0 /\ (primary \in Nat \/ damages > 1)

(* While one process has committed, the backup is one commit behind between  *)
(* two Writes, two in the middle of one, and one more for each that was cut  *)
(* short; if it is damaged, then so was the file before.                     *)
Alone == ~removed /\ \A s, t \in by : s = t
NoneAt(places) == \A w \in Writers : writeAt[w] \notin places

LagInv ==
  Alone /\ bak \in Nat =>
    /\ bak + 2 + kills >= commits
    /\ NoneAt({"renamed"}) => bak + 1 + kills >= commits

FreshInv == \A r \in Readers : Alone /\ got[r] \in Nat => got[r] + 2 + kills >= from[r]

SpareInv ==
  Alone /\ kills = 0 /\ commits >= 2 /\ NoneAt({"renamed", "truncated"}) =>
    bak \in Nat \/ damages > 1 \/ (damages > 0 /\ primary \in Nat)

FileInv ==
  /\ FileTypeOK /\ CommitInv /\ PriorInv /\ ReadInv /\ LockInv
  /\ OwnInv /\ LagInv /\ FreshInv /\ SpareInv
-----------------------------------------------------------------------------
(* Each part is preserved by every step. *)
LEMMA CommitStep ==
  ASSUME FileTypeOK, CommitInv, PriorInv, [FileNext]_fileVars
  PROVE  CommitInv'
<1> USE Constants DEF FileTypeOK, CommitInv, PriorInv, Content
<1>1. ASSUME NEW w \in Writers, ReadPrior(w) PROVE CommitInv'
  BY <1>1 DEF ReadPrior, ToWrite, readVars
<1>2. ASSUME NEW w \in Writers, Rename(w) PROVE CommitInv'
  BY <1>2 DEF Rename, Install, ToWrite, readVars
<1>3. ASSUME NEW w \in Writers, TruncateBackup(w) PROVE CommitInv'
  BY <1>3 DEF TruncateBackup, BackupDue, ToWrite, readVars
<1>4. ASSUME NEW w \in Writers, WriteBackup(w) PROVE CommitInv'
  BY <1>4 DEF WriteBackup, BackupDue, Saved, Release, ToWrite, readVars
<1>5. ASSUME NEW w \in Writers, WriteErrs(w) PROVE CommitInv'
  BY <1>5 DEF WriteErrs, Release, ToWrite, readVars
<1>6. ASSUME NEW s \in Syncers, Kill(s) PROVE CommitInv'
  BY <1>6 DEF Kill, readVars
<1>7. ASSUME NEW r \in Readers, ReadPrimary(r) PROVE CommitInv'
  BY <1>7 DEF ReadPrimary
<1>8. ASSUME NEW r \in Readers, ReadBackup(r) PROVE CommitInv'
  BY <1>8 DEF ReadBackup
<1>9. ASSUME Remove PROVE CommitInv'
  BY <1>9 DEF Remove, readVars
<1>10. ASSUME Damage PROVE CommitInv'
  BY <1>10 DEF Damage, readVars
<1>11. ASSUME UNCHANGED fileVars PROVE CommitInv'
  BY <1>11 DEF fileVars, readVars
<1> QED
  BY <1>1, <1>2, <1>3, <1>4, <1>5, <1>6, <1>7, <1>8, <1>9, <1>10, <1>11 DEF FileNext

LEMMA PriorStep ==
  ASSUME FileTypeOK, CommitInv, PriorInv, [FileNext]_fileVars
  PROVE  PriorInv'
<1> USE Constants DEF FileTypeOK, CommitInv, PriorInv, Content
<1>1. ASSUME NEW w \in Writers, ReadPrior(w) PROVE PriorInv'
  BY <1>1 DEF ReadPrior, ToWrite, readVars
<1>2. ASSUME NEW w \in Writers, Rename(w) PROVE PriorInv'
  BY <1>2 DEF Rename, Install, ToWrite, readVars
<1>3. ASSUME NEW w \in Writers, TruncateBackup(w) PROVE PriorInv'
  BY <1>3 DEF TruncateBackup, BackupDue, ToWrite, readVars
<1>4. ASSUME NEW w \in Writers, WriteBackup(w) PROVE PriorInv'
  BY <1>4 DEF WriteBackup, BackupDue, Saved, Release, ToWrite, readVars
<1>5. ASSUME NEW w \in Writers, WriteErrs(w) PROVE PriorInv'
  BY <1>5 DEF WriteErrs, Release, ToWrite, readVars
<1>6. ASSUME NEW s \in Syncers, Kill(s) PROVE PriorInv'
  BY <1>6 DEF Kill, readVars
<1>7. ASSUME NEW r \in Readers, ReadPrimary(r) PROVE PriorInv'
  BY <1>7 DEF ReadPrimary
<1>8. ASSUME NEW r \in Readers, ReadBackup(r) PROVE PriorInv'
  BY <1>8 DEF ReadBackup
<1>9. ASSUME Remove PROVE PriorInv'
  BY <1>9 DEF Remove, readVars
<1>10. ASSUME Damage PROVE PriorInv'
  BY <1>10 DEF Damage, readVars
<1>11. ASSUME UNCHANGED fileVars PROVE PriorInv'
  BY <1>11 DEF fileVars, readVars
<1> QED
  BY <1>1, <1>2, <1>3, <1>4, <1>5, <1>6, <1>7, <1>8, <1>9, <1>10, <1>11 DEF FileNext

LEMMA ReadStep ==
  ASSUME FileTypeOK, CommitInv, ReadInv, [FileNext]_fileVars
  PROVE  ReadInv'
<1> USE Constants DEF FileTypeOK, CommitInv, ReadInv, Content
<1>1. ASSUME NEW w \in Writers, ReadPrior(w) PROVE ReadInv'
  BY <1>1 DEF ReadPrior, ToWrite, readVars
<1>2. ASSUME NEW w \in Writers, Rename(w) PROVE ReadInv'
  BY <1>2 DEF Rename, Install, ToWrite, readVars
<1>3. ASSUME NEW w \in Writers, TruncateBackup(w) PROVE ReadInv'
  BY <1>3 DEF TruncateBackup, BackupDue, ToWrite, readVars
<1>4. ASSUME NEW w \in Writers, WriteBackup(w) PROVE ReadInv'
  BY <1>4 DEF WriteBackup, BackupDue, Saved, Release, ToWrite, readVars
<1>5. ASSUME NEW w \in Writers, WriteErrs(w) PROVE ReadInv'
  BY <1>5 DEF WriteErrs, Release, ToWrite, readVars
<1>6. ASSUME NEW s \in Syncers, Kill(s) PROVE ReadInv'
  BY <1>6 DEF Kill, readVars
<1>7. ASSUME NEW r \in Readers, ReadPrimary(r) PROVE ReadInv'
  BY <1>7 DEF ReadPrimary
<1>8. ASSUME NEW r \in Readers, ReadBackup(r) PROVE ReadInv'
  BY <1>8 DEF ReadBackup
<1>9. ASSUME Remove PROVE ReadInv'
  BY <1>9 DEF Remove, readVars
<1>10. ASSUME Damage PROVE ReadInv'
  BY <1>10 DEF Damage, readVars
<1>11. ASSUME UNCHANGED fileVars PROVE ReadInv'
  BY <1>11 DEF fileVars, readVars
<1> QED
  BY <1>1, <1>2, <1>3, <1>4, <1>5, <1>6, <1>7, <1>8, <1>9, <1>10, <1>11 DEF FileNext

LEMMA LockStep ==
  ASSUME FileTypeOK, LockInv, [FileNext]_fileVars
  PROVE  LockInv'
<1> USE Constants DEF FileTypeOK, LockInv, Free
<1>1. ASSUME NEW w \in Writers, ReadPrior(w) PROVE LockInv'
  BY <1>1 DEF ReadPrior, ToWrite, readVars
<1>2. ASSUME NEW w \in Writers, Rename(w) PROVE LockInv'
  BY <1>2, FS_AddElement DEF Rename, Install, ToWrite, readVars
<1>3. ASSUME NEW w \in Writers, TruncateBackup(w) PROVE LockInv'
  BY <1>3 DEF TruncateBackup, BackupDue, ToWrite, readVars
<1>4. ASSUME NEW w \in Writers, WriteBackup(w) PROVE LockInv'
  BY <1>4 DEF WriteBackup, BackupDue, Saved, Release, ToWrite, readVars
<1>5. ASSUME NEW w \in Writers, WriteErrs(w) PROVE LockInv'
  BY <1>5 DEF WriteErrs, Release, ToWrite, readVars
<1>6. ASSUME NEW s \in Syncers, Kill(s) PROVE LockInv'
  BY <1>6 DEF Kill, readVars
<1>7. ASSUME NEW r \in Readers, ReadPrimary(r) PROVE LockInv'
  BY <1>7 DEF ReadPrimary
<1>8. ASSUME NEW r \in Readers, ReadBackup(r) PROVE LockInv'
  BY <1>8 DEF ReadBackup
<1>9. ASSUME Remove PROVE LockInv'
  BY <1>9 DEF Remove, readVars
<1>10. ASSUME Damage PROVE LockInv'
  BY <1>10 DEF Damage, readVars
<1>11. ASSUME UNCHANGED fileVars PROVE LockInv'
  BY <1>11 DEF fileVars, readVars
<1> QED
  BY <1>1, <1>2, <1>3, <1>4, <1>5, <1>6, <1>7, <1>8, <1>9, <1>10, <1>11 DEF FileNext

LEMMA OwnStep ==
  ASSUME FileTypeOK, CommitInv, LockInv, OwnInv, [FileNext]_fileVars
  PROVE  OwnInv'
<1> USE Constants DEF FileTypeOK, CommitInv, LockInv, OwnInv, Mine, Content, Free
<1>1. ASSUME NEW w \in Writers, ReadPrior(w) PROVE OwnInv'
  BY <1>1 DEF ReadPrior, ToWrite, readVars
<1>2. ASSUME NEW w \in Writers, Rename(w) PROVE OwnInv'
  BY <1>2 DEF Rename, Install, ToWrite, readVars
<1>3. ASSUME NEW w \in Writers, TruncateBackup(w) PROVE OwnInv'
  BY <1>3 DEF TruncateBackup, BackupDue, ToWrite, readVars
<1>4. ASSUME NEW w \in Writers, WriteBackup(w) PROVE OwnInv'
  BY <1>4 DEF WriteBackup, BackupDue, Saved, Release, ToWrite, readVars
<1>5. ASSUME NEW w \in Writers, WriteErrs(w) PROVE OwnInv'
  BY <1>5 DEF WriteErrs, Release, ToWrite, readVars
<1>6. ASSUME NEW s \in Syncers, Kill(s) PROVE OwnInv'
  BY <1>6 DEF Kill, readVars
<1>7. ASSUME NEW r \in Readers, ReadPrimary(r) PROVE OwnInv'
  BY <1>7 DEF ReadPrimary
<1>8. ASSUME NEW r \in Readers, ReadBackup(r) PROVE OwnInv'
  BY <1>8 DEF ReadBackup
<1>9. ASSUME Remove PROVE OwnInv'
  BY <1>9 DEF Remove, readVars
<1>10. ASSUME Damage PROVE OwnInv'
  BY <1>10 DEF Damage, readVars
<1>11. ASSUME UNCHANGED fileVars PROVE OwnInv'
  BY <1>11 DEF fileVars, readVars
<1> QED
  BY <1>1, <1>2, <1>3, <1>4, <1>5, <1>6, <1>7, <1>8, <1>9, <1>10, <1>11 DEF FileNext

LEMMA LagStep ==
  ASSUME FileTypeOK, CommitInv, LockInv, OwnInv, LagInv, [FileNext]_fileVars
  PROVE  LagInv'
<1> USE Constants DEF FileTypeOK, CommitInv, LockInv, OwnInv, LagInv, Mine, Alone, NoneAt,
        Content
<1>1. ASSUME NEW w \in Writers, ReadPrior(w) PROVE LagInv'
  BY <1>1 DEF ReadPrior, ToWrite, readVars
<1>2. ASSUME NEW w \in Writers, Rename(w) PROVE LagInv'
  BY <1>2 DEF Rename, Install, ToWrite, readVars
<1>3. ASSUME NEW w \in Writers, TruncateBackup(w) PROVE LagInv'
  BY <1>3 DEF TruncateBackup, BackupDue, ToWrite, readVars
<1>4. ASSUME NEW w \in Writers, WriteBackup(w) PROVE LagInv'
  <2>1. SyncerOf(w) \in by
    BY <1>4 DEF WriteBackup, BackupDue, Saved, Release, ToWrite, readVars
  <2>2. Alone' => Alone /\ Mine(w)
    BY <1>4, <2>1 DEF WriteBackup, BackupDue, Saved, Release, ToWrite, readVars
  <2>3. CASE writeAt[w] = "renamed" /\ ~BackupDue(w) /\ UNCHANGED bak
    BY <1>4, <2>2, <2>3 DEF WriteBackup, BackupDue, Saved, Release, ToWrite, readVars
  <2>4. CASE writeAt[w] = "truncated" /\ bak' = prior[w]
    BY <1>4, <2>2, <2>4 DEF WriteBackup, BackupDue, Saved, Release, ToWrite, readVars
  <2> QED
    BY <1>4, <2>3, <2>4 DEF WriteBackup, Saved
<1>5. ASSUME NEW w \in Writers, WriteErrs(w) PROVE LagInv'
  BY <1>5 DEF WriteErrs, Release, ToWrite, readVars
<1>6. ASSUME NEW s \in Syncers, Kill(s) PROVE LagInv'
  BY <1>6 DEF Kill, readVars
<1>7. ASSUME NEW r \in Readers, ReadPrimary(r) PROVE LagInv'
  BY <1>7 DEF ReadPrimary
<1>8. ASSUME NEW r \in Readers, ReadBackup(r) PROVE LagInv'
  BY <1>8 DEF ReadBackup
<1>9. ASSUME Remove PROVE LagInv'
  BY <1>9 DEF Remove, readVars
<1>10. ASSUME Damage PROVE LagInv'
  BY <1>10 DEF Damage, readVars
<1>11. ASSUME UNCHANGED fileVars PROVE LagInv'
  BY <1>11 DEF fileVars, readVars
<1> QED
  BY <1>1, <1>2, <1>3, <1>4, <1>5, <1>6, <1>7, <1>8, <1>9, <1>10, <1>11 DEF FileNext

LEMMA FreshStep ==
  ASSUME FileTypeOK, CommitInv, ReadInv, LagInv, FreshInv, [FileNext]_fileVars
  PROVE  FreshInv'
<1> USE Constants DEF FileTypeOK, CommitInv, ReadInv, LagInv, FreshInv, Alone, Content
<1>1. ASSUME NEW w \in Writers, ReadPrior(w) PROVE FreshInv'
  BY <1>1 DEF ReadPrior, ToWrite, readVars
<1>2. ASSUME NEW w \in Writers, Rename(w) PROVE FreshInv'
  BY <1>2 DEF Rename, Install, ToWrite, readVars
<1>3. ASSUME NEW w \in Writers, TruncateBackup(w) PROVE FreshInv'
  BY <1>3 DEF TruncateBackup, BackupDue, ToWrite, readVars
<1>4. ASSUME NEW w \in Writers, WriteBackup(w) PROVE FreshInv'
  BY <1>4 DEF WriteBackup, BackupDue, Saved, Release, ToWrite, readVars
<1>5. ASSUME NEW w \in Writers, WriteErrs(w) PROVE FreshInv'
  BY <1>5 DEF WriteErrs, Release, ToWrite, readVars
<1>6. ASSUME NEW s \in Syncers, Kill(s) PROVE FreshInv'
  BY <1>6 DEF Kill, readVars
<1>7. ASSUME NEW r \in Readers, ReadPrimary(r) PROVE FreshInv'
  BY <1>7 DEF ReadPrimary
<1>8. ASSUME NEW r \in Readers, ReadBackup(r) PROVE FreshInv'
  BY <1>8 DEF ReadBackup
<1>9. ASSUME Remove PROVE FreshInv'
  BY <1>9 DEF Remove, readVars
<1>10. ASSUME Damage PROVE FreshInv'
  BY <1>10 DEF Damage, readVars
<1>11. ASSUME UNCHANGED fileVars PROVE FreshInv'
  BY <1>11 DEF fileVars, readVars
<1> QED
  BY <1>1, <1>2, <1>3, <1>4, <1>5, <1>6, <1>7, <1>8, <1>9, <1>10, <1>11 DEF FileNext

LEMMA SpareStep ==
  ASSUME FileTypeOK, CommitInv, PriorInv, LockInv, OwnInv, SpareInv, [FileNext]_fileVars
  PROVE  SpareInv'
<1> USE Constants DEF FileTypeOK, CommitInv, PriorInv, LockInv, OwnInv, SpareInv, Mine,
        Alone, NoneAt, Content
<1>1. ASSUME NEW w \in Writers, ReadPrior(w) PROVE SpareInv'
  BY <1>1 DEF ReadPrior, ToWrite, readVars
<1>2. ASSUME NEW w \in Writers, Rename(w) PROVE SpareInv'
  BY <1>2 DEF Rename, Install, ToWrite, readVars
<1>3. ASSUME NEW w \in Writers, TruncateBackup(w) PROVE SpareInv'
  BY <1>3 DEF TruncateBackup, BackupDue, ToWrite, readVars
<1>4. ASSUME NEW w \in Writers, WriteBackup(w) PROVE SpareInv'
  BY <1>4 DEF WriteBackup, BackupDue, Saved, Release, ToWrite, readVars
<1>5. ASSUME NEW w \in Writers, WriteErrs(w) PROVE SpareInv'
  BY <1>5 DEF WriteErrs, Release, ToWrite, readVars
<1>6. ASSUME NEW s \in Syncers, Kill(s) PROVE SpareInv'
  BY <1>6 DEF Kill, readVars
<1>7. ASSUME NEW r \in Readers, ReadPrimary(r) PROVE SpareInv'
  BY <1>7 DEF ReadPrimary
<1>8. ASSUME NEW r \in Readers, ReadBackup(r) PROVE SpareInv'
  BY <1>8 DEF ReadBackup
<1>9. ASSUME Remove PROVE SpareInv'
  BY <1>9 DEF Remove, readVars
<1>10. ASSUME Damage PROVE SpareInv'
  BY <1>10 DEF Damage, readVars
<1>11. ASSUME UNCHANGED fileVars PROVE SpareInv'
  BY <1>11 DEF fileVars, readVars
<1> QED
  BY <1>1, <1>2, <1>3, <1>4, <1>5, <1>6, <1>7, <1>8, <1>9, <1>10, <1>11 DEF FileNext

LEMMA InvInit == FileInit => FileInv
<1> SUFFICES ASSUME FileInit PROVE FileInv
  OBVIOUS
<1>1. FileTypeOK
  BY FileTypeInit
<1>2. CommitInv /\ PriorInv /\ ReadInv
  BY Constants DEF FileInit, CommitInv, PriorInv, ReadInv
<1>3. LockInv
  BY FS_EmptySet DEF FileInit, LockInv
<1>4. OwnInv /\ LagInv /\ FreshInv /\ SpareInv
  BY Constants DEF FileInit, OwnInv, LagInv, FreshInv, SpareInv
<1> QED
  BY <1>1, <1>2, <1>3, <1>4 DEF FileInv

LEMMA Inductive == FileInv /\ [FileNext]_fileVars => FileInv'
BY FileTypeStep, CommitStep, PriorStep, ReadStep, LockStep, OwnStep, LagStep, FreshStep,
   SpareStep DEF FileInv

LEMMA Invariance == FileSpec => []FileInv
BY InvInit, Inductive, PTL DEF FileSpec

(* A set of at most one element has no two. *)
LEMMA AtMostOne ==
  ASSUME NEW S, IsFiniteSet(S), Cardinality(S) <= 1, NEW a \in S, NEW b \in S
  PROVE  a = b
<1> SUFFICES ASSUME a # b PROVE FALSE
  OBVIOUS
<1>1. IsFiniteSet({a}) /\ Cardinality({a}) = 1
  BY FS_Singleton
<1>2. /\ IsFiniteSet({a} \cup {b})
      /\ Cardinality({a} \cup {b}) = IF b \in {a} THEN Cardinality({a}) ELSE Cardinality({a}) + 1
  BY <1>1, FS_AddElement, Zenon
<1>3. Cardinality({a} \cup {b}) <= Cardinality(S)
  BY <1>2, FS_Subset
<1>4. Cardinality({a} \cup {b}) = 2
  BY <1>1, <1>2
<1>5. Cardinality(S) \in Nat
  BY FS_CardinalityType
<1>6. QED
  BY <1>3, <1>4, <1>5

(* The backup that Write makes is older than the file, for any number of     *)
(* processes that write at once.                                             *)
THEOREM BackupIsEarlier == FileSpec => []BackupEarlier
<1>1. FileInv => BackupEarlier
  BY DEF FileInv, FileTypeOK, CommitInv, BackupEarlier
<1> QED
  BY <1>1, Invariance, PTL

(* Read never takes a moment of a Write for a missing file, and what it      *)
(* returns while one process writes is at most two commits old, and one more *)
(* for each Write that was cut short.                                        *)
THEOREM ReadsAreFresh == FileSpec => []ReadFresh
<1>1. ASSUME FileInv PROVE ReadFresh
  <2> SUFFICES ASSUME NEW r \in Readers
               PROVE  /\ got[r] = NoFile => removed \/ from[r] = 0
                      /\ got[r] \in Nat /\ Cardinality(by) <= 1 /\ ~removed
                           => got[r] + 2 + kills >= from[r]
    BY DEF ReadFresh
  <2>1. Cardinality(by) <= 1 /\ ~removed => Alone
    BY <1>1, AtMostOne DEF FileInv, LockInv, Alone
  <2> QED
    BY <1>1, <2>1 DEF FileInv, ReadInv, FreshInv
<1> QED
  BY <1>1, Invariance, PTL

(* After two commits of one process, one damage leaves one of the two files  *)
(* that Read tries.                                                          *)
THEOREM DamageIsSurvived == FileSpec => []Recoverable
<1>1. ASSUME FileInv PROVE Recoverable
  <2> SUFFICES ASSUME Cardinality(by) = 1, ~removed, kills = 0, damages <= 1, commits >= 2,
                      \A w \in Writers : writeAt[w] \in {"idle", "temp"}
               PROVE  primary \in Nat \/ bak \in Nat
    BY DEF Recoverable
  <2>1. Alone
    BY <1>1, AtMostOne DEF FileInv, LockInv, Alone
  <2>2. NoneAt({"renamed", "truncated"})
    BY DEF NoneAt
  <2> QED
    BY <1>1, <2>1, <2>2 DEF FileInv, FileTypeOK, SpareInv
<1> QED
  BY <1>1, Invariance, PTL
-----------------------------------------------------------------------------
(* While no daemon has been killed, every file has a daemon that will remove *)
(* it: the socket the one that bound it, the pointer and the port one that   *)
(* has not come to its removal yet.  A daemon that is refused leaves its     *)
(* port to the one that answered.                                            *)
ListensIn  == {"bound", "pointing", "closed", "unlinked"}
PointsIn   == {"pointing", "closed", "unlinked"}
AnnouncesIn == (Starting \ {"exec", "listening"}) \cup Closing \cup {"serving"}

OwnerInv ==
  /\ \A d \in Daemons : st[d] \in ListensIn => d \in unixOK
  /\ ~crashed =>
       /\ sock # Missing => sock \in unixOK /\ st[sock] \in {"bound", "pointing", "serving"}
       /\ ptr # Missing =>
            \E d \in unixOK : st[d] \in PointsIn \cup {"serving"}
       /\ port # Missing => \E d \in Daemons : st[d] \in AnnouncesIn

(* Every step of a daemon or a command keeps the types. *)
LEMMA TypeStep ==
  ASSUME DaemonTypeOK, [DaemonNext]_daemonVars
  PROVE  DaemonTypeOK'
<1> USE DEF DaemonTypeOK, Starting, Closing, Over, Kinds, files, daemons, calls
<1>1. ASSUME NEW d \in Daemons, StartDaemon(d) PROVE DaemonTypeOK'
  BY <1>1 DEF StartDaemon, Goto
<1>2. ASSUME NEW d \in Daemons, ListenTCP(d) PROVE DaemonTypeOK'
  BY <1>2 DEF ListenTCP, Goto
<1>3. ASSUME NEW d \in Daemons, TruncatePort(d) PROVE DaemonTypeOK'
  BY <1>3 DEF TruncatePort, Goto
<1>4. ASSUME NEW d \in Daemons, WritePort(d) PROVE DaemonTypeOK'
  BY <1>4 DEF WritePort, Goto
<1>5. ASSUME NEW d \in Daemons, Refused(d) PROVE DaemonTypeOK'
  BY <1>5 DEF Refused, Goto, MayRun, dialExistingDaemon
<1>6. ASSUME NEW d \in Daemons, Admitted(d) PROVE DaemonTypeOK'
  BY <1>6 DEF Admitted, Goto
<1>7. ASSUME NEW d \in Daemons, ClearSocket(d) PROVE DaemonTypeOK'
  BY <1>7 DEF ClearSocket, Goto
<1>8. ASSUME NEW d \in Daemons, ListenUnix(d) PROVE DaemonTypeOK'
  BY <1>8 DEF ListenUnix, Goto
<1>9. ASSUME NEW d \in Daemons, ListenUnixFails(d) PROVE DaemonTypeOK'
  BY <1>9 DEF ListenUnixFails, Goto
<1>10. ASSUME NEW d \in Daemons, TruncatePointer(d) PROVE DaemonTypeOK'
  BY <1>10 DEF TruncatePointer, Goto
<1>11. ASSUME NEW d \in Daemons, WritePointer(d) PROVE DaemonTypeOK'
  BY <1>11 DEF WritePointer, Goto
<1>12. ASSUME NEW d \in Daemons, Shutdown(d) PROVE DaemonTypeOK'
  BY <1>12 DEF Shutdown, Goto, Disturb
<1>13. ASSUME NEW d \in Daemons, RemoveSocket(d) PROVE DaemonTypeOK'
  BY <1>13 DEF RemoveSocket, Goto
<1>14. ASSUME NEW d \in Daemons, RemovePointer(d) PROVE DaemonTypeOK'
  BY <1>14 DEF RemovePointer, Goto, RemovesPointer, Unlink
<1>15. ASSUME NEW d \in Daemons, RemovePort(d) PROVE DaemonTypeOK'
  BY <1>15 DEF RemovePort, Goto, RemovesPort, Unlink
<1>16. ASSUME NEW d \in Daemons, Crash(d) PROVE DaemonTypeOK'
  BY <1>16 DEF Crash, Goto, Disturb, Running
<1>17. ASSUME NEW d \in Daemons, Recycle(d) PROVE DaemonTypeOK'
  BY <1>17 DEF Recycle, Goto
<1>18. ASSUME NEW c \in Clients, NEW k \in Kinds, Invoke(c, k) PROVE DaemonTypeOK'
  BY <1>18 DEF Invoke
<1>19. ASSUME NEW c \in Clients, ReadPointer(c) PROVE DaemonTypeOK'
  BY <1>19 DEF ReadPointer, Moves, SameCall
<1>20. ASSUME NEW c \in Clients, DialSocket(c) PROVE DaemonTypeOK'
  BY <1>20 DEF DialSocket, Moves, SameCall
<1>21. ASSUME NEW c \in Clients, DropPointer(c) PROVE DaemonTypeOK'
  BY <1>21 DEF DropPointer, Moves, SameCall, RemovesPointer, Unlink
<1>22. ASSUME NEW c \in Clients, ReadPort(c) PROVE DaemonTypeOK'
  BY <1>22 DEF ReadPort, Moves, SameCall
<1>23. ASSUME NEW c \in Clients, DialPort(c) PROVE DaemonTypeOK'
  BY <1>23 DEF DialPort, Moves, SameCall
<1>24. ASSUME NEW c \in Clients, DropPort(c) PROVE DaemonTypeOK'
  BY <1>24 DEF DropPort, Moves, SameCall, RemovesPort, Unlink
<1>25. ASSUME NEW c \in Clients, Fail(c) PROVE DaemonTypeOK'
  BY <1>25 DEF Fail, Moves, SameCall
<1>26. ASSUME NEW c \in Clients, Spawn(c) PROVE DaemonTypeOK'
  BY <1>26 DEF Spawn, Moves, SameCall, Goto
<1>27. ASSUME NEW c \in Clients, Retry(c) PROVE DaemonTypeOK'
  BY <1>27 DEF Retry, Moves, SameCall
<1>28. ASSUME NEW c \in Clients, StillAbsent(c) PROVE DaemonTypeOK'
  BY <1>28 DEF StillAbsent, Moves, SameCall, Later
<1>29. ASSUME NEW c \in Clients, AwaitPort(c) PROVE DaemonTypeOK'
  BY <1>29 DEF AwaitPort, Moves, SameCall, Later
<1>30. ASSUME NEW c \in Clients, GiveUp(c) PROVE DaemonTypeOK'
  BY <1>30 DEF GiveUp, Moves, SameCall
<1>31. ASSUME NEW c \in Clients, CreateSession(c) PROVE DaemonTypeOK'
  BY <1>31 DEF CreateSession, Moves, SameCall
<1>32. ASSUME NEW c \in Clients, CreateSessionNowhere(c) PROVE DaemonTypeOK'
  BY <1>32 DEF CreateSessionNowhere, Moves, SameCall
<1>33. ASSUME UNCHANGED daemonVars PROVE DaemonTypeOK'
  BY <1>33 DEF daemonVars
<1> QED
  BY <1>1, <1>2, <1>3, <1>4, <1>5, <1>6, <1>7, <1>8, <1>9, <1>10, <1>11,
     <1>12, <1>13, <1>14, <1>15, <1>16, <1>17, <1>18, <1>19, <1>20, <1>21, <1>22,
     <1>23, <1>24, <1>25, <1>26, <1>27, <1>28, <1>29, <1>30, <1>31,
     <1>32, <1>33
  DEF DaemonNext, Starts, Stops, Calls

(* Every step leaves each file with a daemon that will remove it. *)
LEMMA OwnerStep ==
  ASSUME DaemonTypeOK, OwnerInv, [DaemonNext]_daemonVars
  PROVE  OwnerInv'
<1> USE DEF DaemonTypeOK, Starting, Closing, Over, Kinds, files, daemons, calls, OwnerInv,
            ListensIn, PointsIn, AnnouncesIn
<1>1. ASSUME NEW d \in Daemons, StartDaemon(d) PROVE OwnerInv'
  BY <1>1 DEF StartDaemon, Goto
<1>2. ASSUME NEW d \in Daemons, ListenTCP(d) PROVE OwnerInv'
  BY <1>2 DEF ListenTCP, Goto
<1>3. ASSUME NEW d \in Daemons, TruncatePort(d) PROVE OwnerInv'
  BY <1>3 DEF TruncatePort, Goto
<1>4. ASSUME NEW d \in Daemons, WritePort(d) PROVE OwnerInv'
  BY <1>4 DEF WritePort, Goto
<1>5. ASSUME NEW d \in Daemons, Refused(d) PROVE OwnerInv'
  BY <1>5 DEF Refused, Goto, MayRun, dialExistingDaemon
<1>6. ASSUME NEW d \in Daemons, Admitted(d) PROVE OwnerInv'
  BY <1>6 DEF Admitted, Goto
<1>7. ASSUME NEW d \in Daemons, ClearSocket(d) PROVE OwnerInv'
  BY <1>7 DEF ClearSocket, Goto
<1>8. ASSUME NEW d \in Daemons, ListenUnix(d) PROVE OwnerInv'
  BY <1>8 DEF ListenUnix, Goto
<1>9. ASSUME NEW d \in Daemons, ListenUnixFails(d) PROVE OwnerInv'
  BY <1>9 DEF ListenUnixFails, Goto
<1>10. ASSUME NEW d \in Daemons, TruncatePointer(d) PROVE OwnerInv'
  BY <1>10 DEF TruncatePointer, Goto
<1>11. ASSUME NEW d \in Daemons, WritePointer(d) PROVE OwnerInv'
  BY <1>11 DEF WritePointer, Goto
<1>12. ASSUME NEW d \in Daemons, Shutdown(d) PROVE OwnerInv'
  BY <1>12 DEF Shutdown, Goto, Disturb
<1>13. ASSUME NEW d \in Daemons, RemoveSocket(d) PROVE OwnerInv'
  BY <1>13 DEF RemoveSocket, Goto
<1>14. ASSUME NEW d \in Daemons, RemovePointer(d) PROVE OwnerInv'
  BY <1>14 DEF RemovePointer, Goto, RemovesPointer, Unlink
<1>15. ASSUME NEW d \in Daemons, RemovePort(d) PROVE OwnerInv'
  BY <1>15 DEF RemovePort, Goto, RemovesPort, Unlink
<1>16. ASSUME NEW d \in Daemons, Crash(d) PROVE OwnerInv'
  BY <1>16 DEF Crash, Goto, Disturb, Running
<1>17. ASSUME NEW d \in Daemons, Recycle(d) PROVE OwnerInv'
  BY <1>17 DEF Recycle, Goto
<1>18. ASSUME NEW c \in Clients, NEW k \in Kinds, Invoke(c, k) PROVE OwnerInv'
  BY <1>18 DEF Invoke
<1>19. ASSUME NEW c \in Clients, ReadPointer(c) PROVE OwnerInv'
  BY <1>19 DEF ReadPointer, Moves, SameCall
<1>20. ASSUME NEW c \in Clients, DialSocket(c) PROVE OwnerInv'
  BY <1>20 DEF DialSocket, Moves, SameCall
<1>21. ASSUME NEW c \in Clients, DropPointer(c) PROVE OwnerInv'
  BY <1>21 DEF DropPointer, Moves, SameCall, RemovesPointer, Unlink
<1>22. ASSUME NEW c \in Clients, ReadPort(c) PROVE OwnerInv'
  BY <1>22 DEF ReadPort, Moves, SameCall
<1>23. ASSUME NEW c \in Clients, DialPort(c) PROVE OwnerInv'
  BY <1>23 DEF DialPort, Moves, SameCall
<1>24. ASSUME NEW c \in Clients, DropPort(c) PROVE OwnerInv'
  BY <1>24 DEF DropPort, Moves, SameCall, RemovesPort, Unlink
<1>25. ASSUME NEW c \in Clients, Fail(c) PROVE OwnerInv'
  BY <1>25 DEF Fail, Moves, SameCall
<1>26. ASSUME NEW c \in Clients, Spawn(c) PROVE OwnerInv'
  BY <1>26 DEF Spawn, Moves, SameCall, Goto
<1>27. ASSUME NEW c \in Clients, Retry(c) PROVE OwnerInv'
  BY <1>27 DEF Retry, Moves, SameCall
<1>28. ASSUME NEW c \in Clients, StillAbsent(c) PROVE OwnerInv'
  BY <1>28 DEF StillAbsent, Moves, SameCall, Later
<1>29. ASSUME NEW c \in Clients, AwaitPort(c) PROVE OwnerInv'
  BY <1>29 DEF AwaitPort, Moves, SameCall, Later
<1>30. ASSUME NEW c \in Clients, GiveUp(c) PROVE OwnerInv'
  BY <1>30 DEF GiveUp, Moves, SameCall
<1>31. ASSUME NEW c \in Clients, CreateSession(c) PROVE OwnerInv'
  BY <1>31 DEF CreateSession, Moves, SameCall
<1>32. ASSUME NEW c \in Clients, CreateSessionNowhere(c) PROVE OwnerInv'
  BY <1>32 DEF CreateSessionNowhere, Moves, SameCall
<1>33. ASSUME UNCHANGED daemonVars PROVE OwnerInv'
  BY <1>33 DEF daemonVars
<1> QED
  BY <1>1, <1>2, <1>3, <1>4, <1>5, <1>6, <1>7, <1>8, <1>9, <1>10, <1>11,
     <1>12, <1>13, <1>14, <1>15, <1>16, <1>17, <1>18, <1>19, <1>20, <1>21, <1>22,
     <1>23, <1>24, <1>25, <1>26, <1>27, <1>28, <1>29, <1>30, <1>31,
     <1>32, <1>33
  DEF DaemonNext, Starts, Stops, Calls

(* There is no file and nobody runs at first. *)
LEMMA DaemonInvInit == DaemonInit => DaemonTypeOK /\ OwnerInv
<1> SUFFICES ASSUME DaemonInit PROVE DaemonTypeOK /\ OwnerInv
  OBVIOUS
<1>1. /\ serial \in BOOLEAN /\ crashed \in BOOLEAN /\ unixOK \subseteq Daemons
      /\ sock \in Daemons \cup {Missing} /\ ptr \in {Missing, Empty, "path"}
      /\ port \in Daemons \cup {Missing, Empty} /\ fds \subseteq Daemons \X {"port", "socket"}
  BY DEF DaemonInit
<1>2. st \in [Daemons -> Starting \cup Closing \cup {"off", "serving", "gone"}]
  BY DEF DaemonInit
<1>3. /\ callAt \in [Clients -> Over \cup {"pointer", "dial", "unpoint", "port", "dialport",
                                           "unport", "absent", "retry",
                                           "unprobed"}]
      /\ kind \in [Clients -> Kinds] /\ saw \in [Clients -> Daemons \cup {Missing, Empty}]
  BY DEF DaemonInit, Over, Kinds
<1>4. /\ tries \in [Clients -> Nat]
      /\ wasUp \in [Clients -> BOOLEAN] /\ disturbed \in [Clients -> BOOLEAN]
  BY DEF DaemonInit
<1>5. OwnerInv
  BY DEF DaemonInit, OwnerInv, ListensIn
<1> QED
  BY <1>1, <1>2, <1>3, <1>4, <1>5 DEF DaemonTypeOK

(* Both together, always. *)
LEMMA DaemonInvariance == DaemonSpec => [](DaemonTypeOK /\ OwnerInv)
<1>1. DaemonTypeOK /\ OwnerInv /\ [DaemonNext]_daemonVars => (DaemonTypeOK /\ OwnerInv)'
  BY TypeStep, OwnerStep
<1> QED
  BY DaemonInvInit, <1>1, PTL DEF DaemonSpec

(* The files hold what RunDaemon writes into them, and the processes of      *)
(* daemon.go and broker_client.go are where those functions have a place.    *)
THEOREM DaemonTypeCorrect == DaemonSpec => []DaemonTypeOK
BY DaemonInvariance, PTL

(* Daemons that were not killed leave no file behind, however many of them   *)
(* start, are refused, take each other's socket and stop at once.            *)
THEOREM NothingIsLeft == DaemonSpec => []CleanExit
<1>1. DaemonTypeOK /\ OwnerInv => CleanExit
  BY DEF DaemonTypeOK, OwnerInv, CleanExit, Running, PointsIn, AnnouncesIn, Starting, Closing
<1> QED
  BY <1>1, DaemonInvariance, PTL
-----------------------------------------------------------------------------
(* One thing at a time. *)
Moving(d) == st[d] \in Starting \cup Closing
Active(c) == callAt[c] \notin Over

(* At most one daemon starts or stops and at most one command runs; a daemon *)
(* that starts meanwhile is the one the command has started.                 *)
OneAtATime ==
  /\ \A d, e \in Daemons : Moving(d) /\ Moving(e) => d = e
  /\ \A c, k \in Clients : Active(c) /\ Active(k) => c = k
  /\ \A c \in Clients, d \in Daemons :
       Active(c) /\ Moving(d) => st[d] \in Starting /\ tries[c] > 0

(* A daemon that serves is found, and one that has passed the check, or that *)
(* stops, is alone with the files.                                           *)
FilesOwned ==
  \A d \in Daemons :
    /\ Serving(d) => sock = d /\ d \in unixOK /\ ptr = "path"
    /\ st[d] \in {"checked", "cleared", "bound", "pointing"} \cup Closing =>
         \A e \in Daemons : ~Serving(e)
    /\ st[d] = "cleared" => sock = Missing
    /\ st[d] \in {"bound", "pointing"} => sock = d /\ d \in unixOK
    /\ st[d] = "pointing" => ptr = Empty /\ <<d, "socket">> \in fds

(* A command that has turned from the pointer did so because nothing serves, *)
(* and nothing but the daemon that it started can serve meanwhile.           *)
NoneWhenTurned ==
  \A c \in Clients :
    /\ \A d \in Daemons : Active(c) /\ st[d] \in Starting =>
         ptr # "path" /\ callAt[c] \notin {"dial", "unpoint"} /\ \A e \in Daemons : ~Serving(e)
    /\ callAt[c] = "unpoint" => \A e \in Daemons : ~Serving(e)
    /\ callAt[c] \in {"port", "dialport", "unport", "absent"} /\ tries[c] = 0 =>
         ptr # "path" /\ \A e \in Daemons : ~Serving(e)

SerialInv == serial => OneAtATime /\ FilesOwned /\ NoneWhenTurned

(* Where a command that looks again can be. *)
Retries ==
  \A c \in Clients :
    /\ callAt[c] \in {"retry", "unprobed"} => tries[c] > 0
    /\ Active(c) /\ tries[c] > 0 =>
         \/ kind[c] = "ensure" /\ callAt[c] # "unprobed"
         \/ kind[c] = "squash" /\ callAt[c] \in {"retry", "unprobed"}
    /\ kind[c] = "squash" /\ Active(c) /\ tries[c] > 0 =>
         \A d \in Daemons : st[d] \in AnnouncesIn => port # Missing

(* The daemon that an undisturbed command has started starts or serves, and  *)
(* the command comes back to it once more at most when it serves.            *)
Awaits(c) ==
  \/ tries[c] = 1 /\ \E d \in Daemons : st[d] \in Starting
  \/ /\ \E d \in Daemons : Serving(d)
     /\ tries[c] = 1 \/ (tries[c] = 2 /\ callAt[c] \in {"retry", "unprobed", "pointer", "dial"})

Undisturbed ==
  \A c \in Clients : Active(c) /\ ~disturbed[c] =>
    /\ wasUp[c] => callAt[c] \in {"pointer", "dial"} /\ tries[c] = 0 /\ \E d \in Daemons : Serving(d)
    /\ tries[c] > 0 => Awaits(c)

CallInv == serial => Retries /\ Undisturbed /\ CallsSucceed

(* A daemon is started where no port file is, so the file that an            *)
(* undisturbed squash meets is the one its own daemon is writing: it is      *)
(* empty, or names who answers.                                              *)
Probed ==
  \A c \in Clients :
    /\ callAt[c] = "absent" /\ tries[c] = 0 => port = Missing
    /\ kind[c] = "squash" /\ Active(c) /\ tries[c] > 0 /\ ~disturbed[c] =>
         /\ port \in {Missing, Empty} \/ dialPort(port)
         /\ callAt[c] = "unprobed" => saw[c] = Empty \/ dialPort(saw[c])

ProbedInv == serial => Probed

(* One thing at a time, whoever serves answers on the socket. *)
LEMMA ServingAnswers ==
  ASSUME SerialInv, serial, NEW e \in Daemons, Serving(e) PROVE dialExistingDaemon
BY DEF SerialInv, FilesOwned, Serving, dialExistingDaemon

(* Every step of a daemon or a command, one thing at a time, keeps the files *)
(* with whoever serves.                                                      *)
LEMMA SerialStep ==
  ASSUME DaemonTypeOK, SerialInv, [DaemonNext]_daemonVars
  PROVE  SerialInv'
<1> USE DaemonAssumption
<1> USE DEF DaemonTypeOK, Starting, Closing, Over, Kinds, files, daemons, calls, SerialInv,
            OneAtATime, FilesOwned, NoneWhenTurned, Moving, Active, Serving
<1>1. ASSUME NEW d \in Daemons, StartDaemon(d) PROVE SerialInv'
  BY <1>1 DEF StartDaemon, Goto, MayBegin, Quiet
<1>2. ASSUME NEW d \in Daemons, ListenTCP(d) PROVE SerialInv'
  BY <1>2 DEF ListenTCP, Goto
<1>3. ASSUME NEW d \in Daemons, TruncatePort(d) PROVE SerialInv'
  BY <1>3 DEF TruncatePort, Goto
<1>4. ASSUME NEW d \in Daemons, WritePort(d) PROVE SerialInv'
  BY <1>4 DEF WritePort, Goto
<1>5. ASSUME NEW d \in Daemons, Refused(d) PROVE SerialInv'
  BY <1>5 DEF Refused, Goto, MayRun, dialExistingDaemon
<1>6. ASSUME NEW d \in Daemons, Admitted(d) PROVE SerialInv'
  <2>0. serial' = serial
    BY <1>6 DEF Admitted, Goto, MayRun, dialExistingDaemon
  <2>1. ASSUME serial PROVE OneAtATime'
    BY <1>6, <2>1 DEF Admitted, Goto, MayRun, dialExistingDaemon
  <2>2. ASSUME serial PROVE FilesOwned'
    <3>1. \A e \in Daemons \ {d} : st'[e] = st[e] /\ ~Moving(e)
      BY <1>6, <2>2 DEF Admitted, Goto
    <3>2. \A e \in Daemons : ~Serving(e)
      BY <1>6, <2>2, ServingAnswers DEF Admitted, MayRun
    <3>3. st'[d] = "checked" /\ UNCHANGED <<sock, ptr, fds, unixOK>>
      BY <1>6 DEF Admitted, Goto
    <3> QED
      BY <3>1, <3>2, <3>3
  <2>3. ASSUME serial PROVE NoneWhenTurned'
    BY <1>6, <2>3 DEF Admitted, Goto, MayRun, dialExistingDaemon
  <2> QED
    BY <2>0, <2>1, <2>2, <2>3 DEF SerialInv
<1>7. ASSUME NEW d \in Daemons, ClearSocket(d) PROVE SerialInv'
  <2>0. serial' = serial
    BY <1>7 DEF ClearSocket, Goto
  <2>1. ASSUME serial PROVE OneAtATime'
    BY <1>7, <2>1 DEF ClearSocket, Goto
  <2>2. ASSUME serial PROVE FilesOwned'
    <3>1. \A e \in Daemons \ {d} : st'[e] = st[e] /\ ~Moving(e)
      BY <1>7, <2>2 DEF ClearSocket, Goto
    <3>2. \A e \in Daemons : ~Serving(e)
      BY <1>7, <2>2 DEF ClearSocket, Goto
    <3>3. st'[d] = "cleared" /\ sock' = Missing
      BY <1>7 DEF ClearSocket, Goto
    <3> QED
      BY <3>1, <3>2, <3>3
  <2>3. ASSUME serial PROVE NoneWhenTurned'
    BY <1>7, <2>3 DEF ClearSocket, Goto
  <2> QED
    BY <2>0, <2>1, <2>2, <2>3 DEF SerialInv
<1>8. ASSUME NEW d \in Daemons, ListenUnix(d) PROVE SerialInv'
  <2>0. serial' = serial
    BY <1>8 DEF ListenUnix, Goto
  <2>1. ASSUME serial PROVE OneAtATime'
    BY <1>8, <2>1 DEF ListenUnix, Goto
  <2>2. ASSUME serial PROVE FilesOwned'
    BY <1>8, <2>2, ZenonT(40) DEF ListenUnix, Goto
  <2>3. ASSUME serial PROVE NoneWhenTurned'
    BY <1>8, <2>3 DEF ListenUnix, Goto
  <2> QED
    BY <2>0, <2>1, <2>2, <2>3 DEF SerialInv
<1>9. ASSUME NEW d \in Daemons, ListenUnixFails(d) PROVE SerialInv'
  BY <1>9 DEF ListenUnixFails, Goto
<1>10. ASSUME NEW d \in Daemons, TruncatePointer(d) PROVE SerialInv'
  <2>0. serial' = serial
    BY <1>10 DEF TruncatePointer, Goto
  <2>1. ASSUME serial PROVE OneAtATime'
    BY <1>10, <2>1 DEF TruncatePointer, Goto
  <2>2. ASSUME serial PROVE FilesOwned'
    <3>1. \A e \in Daemons \ {d} : st'[e] = st[e] /\ ~Moving(e)
      BY <1>10, <2>2 DEF TruncatePointer, Goto
    <3>2. \A e \in Daemons : ~Serving(e)
      BY <1>10, <2>2 DEF TruncatePointer, Goto
    <3>3. /\ st'[d] = "pointing" /\ sock = d /\ d \in unixOK /\ UNCHANGED <<sock, unixOK>>
          /\ ptr' = Empty /\ <<d, "socket">> \in fds'
      BY <1>10, <2>2 DEF TruncatePointer, Goto
    <3> QED
      BY <3>1, <3>2, <3>3
  <2>3. ASSUME serial PROVE NoneWhenTurned'
    BY <1>10, <2>3 DEF TruncatePointer, Goto
  <2> QED
    BY <2>0, <2>1, <2>2, <2>3 DEF SerialInv
<1>11. ASSUME NEW d \in Daemons, WritePointer(d) PROVE SerialInv'
  BY <1>11 DEF WritePointer, Goto
<1>12. ASSUME NEW d \in Daemons, Shutdown(d) PROVE SerialInv'
  <2>0. serial' = serial
    BY <1>12 DEF Shutdown, Goto, Disturb, MayBegin, Quiet
  <2>1. ASSUME serial PROVE OneAtATime'
    BY <1>12, <2>1 DEF Shutdown, Goto, Disturb, MayBegin, Quiet
  <2>2. ASSUME serial PROVE FilesOwned'
    <3>1. \A e \in Daemons \ {d} : st'[e] = st[e] /\ ~Moving(e)
      BY <1>12, <2>2 DEF Shutdown, Goto, MayBegin, Quiet
    <3>2. \A e \in Daemons \ {d} : ~Serving(e)
      BY <1>12, <2>2 DEF Shutdown, Goto
    <3>3. st'[d] \in Closing
      BY <1>12 DEF Shutdown, Goto
    <3> QED
      BY <3>1, <3>2, <3>3
  <2>3. ASSUME serial PROVE NoneWhenTurned'
    BY <1>12, <2>3 DEF Shutdown, Goto, Disturb, MayBegin, Quiet
  <2> QED
    BY <2>0, <2>1, <2>2, <2>3 DEF SerialInv
<1>13. ASSUME NEW d \in Daemons, RemoveSocket(d) PROVE SerialInv'
  <2>0. serial' = serial
    BY <1>13 DEF RemoveSocket, Goto
  <2>1. ASSUME serial PROVE OneAtATime'
    BY <1>13, <2>1 DEF RemoveSocket, Goto
  <2>2. ASSUME serial PROVE FilesOwned'
    BY <1>13, <2>2, ZenonT(40) DEF RemoveSocket, Goto
  <2>3. ASSUME serial PROVE NoneWhenTurned'
    BY <1>13, <2>3 DEF RemoveSocket, Goto
  <2> QED
    BY <2>0, <2>1, <2>2, <2>3 DEF SerialInv
<1>14. ASSUME NEW d \in Daemons, RemovePointer(d) PROVE SerialInv'
  <2>0. serial' = serial
    BY <1>14 DEF RemovePointer, Goto, RemovesPointer, Unlink
  <2>1. ASSUME serial PROVE OneAtATime'
    BY <1>14, <2>1 DEF RemovePointer, Goto, RemovesPointer, Unlink
  <2>2. ASSUME serial PROVE FilesOwned'
    <3>1. \A e \in Daemons \ {d} : st'[e] = st[e] /\ ~Moving(e)
      BY <1>14, <2>2 DEF RemovePointer, Goto
    <3>2. \A e \in Daemons : ~Serving(e)
      BY <1>14, <2>2 DEF RemovePointer, Goto
    <3>3. st'[d] = "unpointed"
      BY <1>14 DEF RemovePointer, Goto
    <3> QED
      BY <3>1, <3>2, <3>3
  <2>3. ASSUME serial PROVE NoneWhenTurned'
    BY <1>14, <2>3 DEF RemovePointer, Goto, RemovesPointer, Unlink
  <2> QED
    BY <2>0, <2>1, <2>2, <2>3 DEF SerialInv
<1>15. ASSUME NEW d \in Daemons, RemovePort(d) PROVE SerialInv'
  BY <1>15 DEF RemovePort, Goto, RemovesPort, Unlink
<1>16. ASSUME NEW d \in Daemons, Crash(d) PROVE SerialInv'
  BY <1>16 DEF Crash, Disturb, Running
<1>17. ASSUME NEW d \in Daemons, Recycle(d) PROVE SerialInv'
  BY <1>17 DEF Recycle, Goto
<1>18. ASSUME NEW c \in Clients, NEW k \in Kinds, Invoke(c, k) PROVE SerialInv'
  BY <1>18 DEF Invoke, MayBegin, Quiet
<1>19. ASSUME NEW c \in Clients, ReadPointer(c) PROVE SerialInv'
  <2>0. serial' = serial
    BY <1>19 DEF ReadPointer, Moves, SameCall
  <2>1. ASSUME serial PROVE OneAtATime'
    BY <1>19, <2>1 DEF ReadPointer, Moves, SameCall
  <2>2. ASSUME serial PROVE FilesOwned'
    BY <1>19, <2>2 DEF ReadPointer, Moves, SameCall
  <2>3. ASSUME serial PROVE NoneWhenTurned'
    BY <1>19, <2>3, ZenonT(40) DEF ReadPointer, Moves, SameCall
  <2> QED
    BY <2>0, <2>1, <2>2, <2>3 DEF SerialInv
<1>20. ASSUME NEW c \in Clients, DialSocket(c) PROVE SerialInv'
  <2>0. serial' = serial
    BY <1>20 DEF DialSocket, Moves, SameCall, dialExistingDaemon
  <2>1. ASSUME serial PROVE OneAtATime'
    BY <1>20, <2>1 DEF DialSocket, Moves, SameCall, dialExistingDaemon
  <2>2. ASSUME serial PROVE FilesOwned'
    BY <1>20, <2>2 DEF DialSocket, Moves, SameCall, dialExistingDaemon
  <2>3. ASSUME serial PROVE NoneWhenTurned'
    <3>1. /\ UNCHANGED <<st, ptr, tries>> /\ callAt[c] = "dial"
          /\ \A k \in Clients \ {c} : callAt'[k] = callAt[k]
          /\ callAt'[c] = IF dialExistingDaemon THEN "connected" ELSE "unpoint"
      BY <1>20 DEF DialSocket, Moves, SameCall
    <3>2. (\E e \in Daemons : Serving(e)) => dialExistingDaemon
      BY <2>3, ServingAnswers
    <3>3. \A e \in Daemons : st[e] \notin Starting
      BY <3>1, <2>3
    <3> QED
      BY <3>1, <3>2, <3>3, <2>3
  <2> QED
    BY <2>0, <2>1, <2>2, <2>3 DEF SerialInv
<1>21. ASSUME NEW c \in Clients, DropPointer(c) PROVE SerialInv'
  <2>0. serial' = serial
    BY <1>21 DEF DropPointer, Moves, SameCall, RemovesPointer, Unlink
  <2>1. ASSUME serial PROVE OneAtATime'
    BY <1>21, <2>1 DEF DropPointer, Moves, SameCall, RemovesPointer, Unlink
  <2>2. ASSUME serial PROVE FilesOwned'
    BY <1>21, <2>2 DEF DropPointer, Moves, SameCall, RemovesPointer, Unlink
  <2>3. ASSUME serial PROVE NoneWhenTurned'
    BY <1>21, <2>3 DEF DropPointer, Moves, SameCall, RemovesPointer, Unlink
  <2> QED
    BY <2>0, <2>1, <2>2, <2>3 DEF SerialInv
<1>22. ASSUME NEW c \in Clients, ReadPort(c) PROVE SerialInv'
  BY <1>22 DEF ReadPort, Moves, SameCall
<1>23. ASSUME NEW c \in Clients, DialPort(c) PROVE SerialInv'
  BY <1>23 DEF DialPort, Moves, SameCall
<1>24. ASSUME NEW c \in Clients, DropPort(c) PROVE SerialInv'
  BY <1>24 DEF DropPort, Moves, SameCall, RemovesPort, Unlink
<1>25. ASSUME NEW c \in Clients, Fail(c) PROVE SerialInv'
  BY <1>25 DEF Fail, Moves, SameCall
<1>26. ASSUME NEW c \in Clients, Spawn(c) PROVE SerialInv'
  BY <1>26 DEF Spawn, Goto
<1>27. ASSUME NEW c \in Clients, Retry(c) PROVE SerialInv'
  BY <1>27 DEF Retry, Moves, SameCall
<1>28. ASSUME NEW c \in Clients, StillAbsent(c) PROVE SerialInv'
  BY <1>28 DEF StillAbsent, Moves, SameCall, Later
<1>29. ASSUME NEW c \in Clients, AwaitPort(c) PROVE SerialInv'
  BY <1>29 DEF AwaitPort, Moves, SameCall, Later
<1>30. ASSUME NEW c \in Clients, GiveUp(c) PROVE SerialInv'
  BY <1>30 DEF GiveUp, Moves, SameCall, OutOfTries
<1>31. ASSUME NEW c \in Clients, CreateSession(c) PROVE SerialInv'
  BY <1>31 DEF CreateSession, Moves, SameCall
<1>32. ASSUME NEW c \in Clients, CreateSessionNowhere(c) PROVE SerialInv'
  BY <1>32 DEF CreateSessionNowhere, Moves, SameCall
<1>33. ASSUME UNCHANGED daemonVars PROVE SerialInv'
  BY <1>33 DEF daemonVars
<1> HIDE DEF SerialInv
<1> QED
  BY <1>1, <1>2, <1>3, <1>4, <1>5, <1>6, <1>7, <1>8, <1>9, <1>10, <1>11, <1>12, <1>13,
     <1>14, <1>15, <1>16, <1>17, <1>18, <1>19, <1>20, <1>21, <1>22, <1>23, <1>24, <1>25,
     <1>26, <1>27, <1>28, <1>29, <1>30, <1>31,
     <1>32, <1>33
  DEF DaemonNext, Starts, Stops, Calls

(* An undisturbed command that has started a daemon waits for that one. *)
LEMMA CallStep ==
  ASSUME MaxTries >= 2, DaemonTypeOK, SerialInv, CallInv, ProbedInv, [DaemonNext]_daemonVars
  PROVE  CallInv'
<1> USE DaemonAssumption
<1> USE DEF DaemonTypeOK, Starting, Closing, Over, Kinds, files, daemons, calls, SerialInv,
            OneAtATime, FilesOwned, NoneWhenTurned, Moving, Active, Serving, CallInv,
            Retries, Awaits, Undisturbed, CallsSucceed, AnnouncesIn
<1>1. ASSUME NEW d \in Daemons, StartDaemon(d) PROVE CallInv'
  BY <1>1 DEF StartDaemon, Goto, MayBegin, Quiet
<1>2. ASSUME NEW d \in Daemons, ListenTCP(d) PROVE CallInv'
  BY <1>2 DEF ListenTCP, Goto
<1>3. ASSUME NEW d \in Daemons, TruncatePort(d) PROVE CallInv'
  <2>0. serial' = serial
    BY <1>3 DEF TruncatePort, Goto
  <2>1. ASSUME serial PROVE Retries'
    BY <1>3, <2>1 DEF TruncatePort, Goto
  <2>2. ASSUME serial PROVE Undisturbed'
    BY <1>3, <2>2 DEF TruncatePort, Goto
  <2>3. ASSUME serial PROVE CallsSucceed'
    BY <1>3, <2>3 DEF TruncatePort, Goto
  <2> QED
    BY <2>0, <2>1, <2>2, <2>3 DEF CallInv
<1>4. ASSUME NEW d \in Daemons, WritePort(d) PROVE CallInv'
  <2>0. serial' = serial
    BY <1>4 DEF WritePort, Goto
  <2>1. ASSUME serial PROVE Retries'
    BY <1>4, <2>1 DEF WritePort, Goto
  <2>2. ASSUME serial PROVE Undisturbed'
    BY <1>4, <2>2 DEF WritePort, Goto
  <2>3. ASSUME serial PROVE CallsSucceed'
    BY <1>4, <2>3 DEF WritePort, Goto
  <2> QED
    BY <2>0, <2>1, <2>2, <2>3 DEF CallInv
<1>5. ASSUME NEW d \in Daemons, Refused(d) PROVE CallInv'
  BY <1>5 DEF Refused, Goto, MayRun, dialExistingDaemon
<1>6. ASSUME NEW d \in Daemons, Admitted(d) PROVE CallInv'
  BY <1>6 DEF Admitted, Goto, MayRun, dialExistingDaemon
<1>7. ASSUME NEW d \in Daemons, ClearSocket(d) PROVE CallInv'
  BY <1>7 DEF ClearSocket, Goto
<1>8. ASSUME NEW d \in Daemons, ListenUnix(d) PROVE CallInv'
  BY <1>8 DEF ListenUnix, Goto
<1>9. ASSUME NEW d \in Daemons, ListenUnixFails(d) PROVE CallInv'
  BY <1>9 DEF ListenUnixFails, Goto
<1>10. ASSUME NEW d \in Daemons, TruncatePointer(d) PROVE CallInv'
  BY <1>10 DEF TruncatePointer, Goto
<1>11. ASSUME NEW d \in Daemons, WritePointer(d) PROVE CallInv'
  BY <1>11 DEF WritePointer, Goto
<1>12. ASSUME NEW d \in Daemons, Shutdown(d) PROVE CallInv'
  BY <1>12 DEF Shutdown, Goto, Disturb, MayBegin, Quiet
<1>13. ASSUME NEW d \in Daemons, RemoveSocket(d) PROVE CallInv'
  BY <1>13 DEF RemoveSocket, Goto
<1>14. ASSUME NEW d \in Daemons, RemovePointer(d) PROVE CallInv'
  BY <1>14 DEF RemovePointer, Goto, RemovesPointer, Unlink
<1>15. ASSUME NEW d \in Daemons, RemovePort(d) PROVE CallInv'
  BY <1>15 DEF RemovePort, Goto, RemovesPort, Unlink
<1>16. ASSUME NEW d \in Daemons, Crash(d) PROVE CallInv'
  <2>0. serial' = serial
    BY <1>16 DEF Crash, Disturb, Running
  <2>1. ASSUME serial PROVE Retries'
    BY <1>16, <2>1 DEF Crash, Disturb, Running
  <2>2. ASSUME serial PROVE Undisturbed'
    BY <1>16, <2>2 DEF Crash, Disturb, Running
  <2>3. ASSUME serial PROVE CallsSucceed'
    BY <1>16, <2>3 DEF Crash, Disturb, Running
  <2> QED
    BY <2>0, <2>1, <2>2, <2>3 DEF CallInv
<1>17. ASSUME NEW d \in Daemons, Recycle(d) PROVE CallInv'
  BY <1>17 DEF Recycle, Goto
<1>18. ASSUME NEW c \in Clients, NEW k \in Kinds, Invoke(c, k) PROVE CallInv'
  BY <1>18 DEF Invoke, MayBegin, Quiet
<1>19. ASSUME NEW c \in Clients, ReadPointer(c) PROVE CallInv'
  <2>0. serial' = serial
    BY <1>19 DEF ReadPointer, Moves, SameCall
  <2>1. ASSUME serial PROVE Retries'
    BY <1>19, <2>1 DEF ReadPointer, Moves, SameCall
  <2>2. ASSUME serial PROVE Undisturbed'
    BY <1>19, <2>2, ZenonT(40) DEF ReadPointer, Moves, SameCall
  <2>3. ASSUME serial PROVE CallsSucceed'
    BY <1>19, <2>3 DEF ReadPointer, Moves, SameCall
  <2> QED
    BY <2>0, <2>1, <2>2, <2>3 DEF CallInv
<1>20. ASSUME NEW c \in Clients, DialSocket(c) PROVE CallInv'
  <2>0. serial' = serial
    BY <1>20 DEF DialSocket, Moves, SameCall, dialExistingDaemon
  <2>1. ASSUME serial PROVE Retries'
    BY <1>20, <2>1 DEF DialSocket, Moves, SameCall, dialExistingDaemon
  <2>2. ASSUME serial PROVE Undisturbed'
    <3>1. /\ UNCHANGED <<st, tries, wasUp, disturbed>> /\ callAt[c] = "dial"
          /\ \A k \in Clients \ {c} : callAt'[k] = callAt[k]
          /\ callAt'[c] = IF dialExistingDaemon THEN "connected" ELSE "unpoint"
      BY <1>20 DEF DialSocket, Moves, SameCall
    <3>2. (\E e \in Daemons : Serving(e)) => dialExistingDaemon
      BY <2>2, ServingAnswers
    <3>3. \A e \in Daemons : st[e] \notin Starting
      BY <3>1, <2>2
    <3> QED
      BY <3>1, <3>2, <3>3, <2>2
  <2>3. ASSUME serial PROVE CallsSucceed'
    BY <1>20, <2>3 DEF DialSocket, Moves, SameCall, dialExistingDaemon
  <2> QED
    BY <2>0, <2>1, <2>2, <2>3 DEF CallInv
<1>21. ASSUME NEW c \in Clients, DropPointer(c) PROVE CallInv'
  BY <1>21 DEF DropPointer, Moves, SameCall, RemovesPointer, Unlink
<1>22. ASSUME NEW c \in Clients, ReadPort(c) PROVE CallInv'
  BY <1>22 DEF ReadPort, Moves, SameCall
<1>23. ASSUME NEW c \in Clients, DialPort(c) PROVE CallInv'
  BY <1>23 DEF DialPort, Moves, SameCall
<1>24. ASSUME NEW c \in Clients, DropPort(c) PROVE CallInv'
  BY <1>24 DEF DropPort, Moves, SameCall, RemovesPort, Unlink
<1>25. ASSUME NEW c \in Clients, Fail(c) PROVE CallInv'
  BY <1>25 DEF Fail, Moves, SameCall
<1>26. ASSUME NEW c \in Clients, Spawn(c) PROVE CallInv'
  BY <1>26 DEF Spawn, Goto
<1>27. ASSUME NEW c \in Clients, Retry(c) PROVE CallInv'
  BY <1>27 DEF Retry, Moves, SameCall
<1>28. ASSUME NEW c \in Clients, StillAbsent(c) PROVE CallInv'
  BY <1>28 DEF StillAbsent, Moves, SameCall, Later
<1>29. ASSUME NEW c \in Clients, AwaitPort(c) PROVE CallInv'
  BY <1>29 DEF AwaitPort, Moves, SameCall, Later
<1>30. ASSUME NEW c \in Clients, GiveUp(c) PROVE CallInv'
  BY <1>30 DEF GiveUp, Moves, SameCall, OutOfTries
<1>31. ASSUME NEW c \in Clients, CreateSession(c) PROVE CallInv'
  BY <1>31 DEF CreateSession, Moves, SameCall, ProbedInv, Probed
<1>32. ASSUME NEW c \in Clients, CreateSessionNowhere(c) PROVE CallInv'
  BY <1>32 DEF CreateSessionNowhere, Moves, SameCall
<1>33. ASSUME UNCHANGED daemonVars PROVE CallInv'
  BY <1>33 DEF daemonVars
<1> HIDE DEF CallInv
<1> QED
  BY <1>1, <1>2, <1>3, <1>4, <1>5, <1>6, <1>7, <1>8, <1>9, <1>10, <1>11, <1>12, <1>13,
     <1>14, <1>15, <1>16, <1>17, <1>18, <1>19, <1>20, <1>21, <1>22, <1>23, <1>24, <1>25,
     <1>26, <1>27, <1>28, <1>29, <1>30, <1>31,
     <1>32, <1>33
  DEF DaemonNext, Starts, Stops, Calls

(* What an undisturbed squash meets stays so: whoever announced itself is    *)
(* alone, and goes on answering.                                             *)
LEMMA ProbedStep ==
  ASSUME DaemonTypeOK, SerialInv, CallInv, ProbedInv, [DaemonNext]_daemonVars
  PROVE  ProbedInv'
<1> USE DaemonAssumption
<1> USE DEF DaemonTypeOK, Starting, Closing, Over, Kinds, files, daemons, calls, SerialInv,
            OneAtATime, NoneWhenTurned, Moving, Active, Serving, CallInv, Retries,
            ProbedInv, Probed, dialPort
<1>1. ASSUME NEW d \in Daemons, StartDaemon(d) PROVE ProbedInv'
  BY <1>1 DEF StartDaemon, Goto, MayBegin, Quiet
<1>2. ASSUME NEW d \in Daemons, ListenTCP(d) PROVE ProbedInv'
  BY <1>2 DEF ListenTCP, Goto
<1>3. ASSUME NEW d \in Daemons, TruncatePort(d) PROVE ProbedInv'
  BY <1>3 DEF TruncatePort, Goto
<1>4. ASSUME NEW d \in Daemons, WritePort(d) PROVE ProbedInv'
  BY <1>4 DEF WritePort, Goto
<1>5. ASSUME NEW d \in Daemons, Refused(d) PROVE ProbedInv'
  BY <1>5 DEF Refused, Goto, MayRun, dialExistingDaemon
<1>6. ASSUME NEW d \in Daemons, Admitted(d) PROVE ProbedInv'
  BY <1>6 DEF Admitted, Goto
<1>7. ASSUME NEW d \in Daemons, ClearSocket(d) PROVE ProbedInv'
  BY <1>7 DEF ClearSocket, Goto
<1>8. ASSUME NEW d \in Daemons, ListenUnix(d) PROVE ProbedInv'
  BY <1>8 DEF ListenUnix, Goto
<1>9. ASSUME NEW d \in Daemons, ListenUnixFails(d) PROVE ProbedInv'
  BY <1>9 DEF ListenUnixFails, Goto
<1>10. ASSUME NEW d \in Daemons, TruncatePointer(d) PROVE ProbedInv'
  BY <1>10 DEF TruncatePointer, Goto
<1>11. ASSUME NEW d \in Daemons, WritePointer(d) PROVE ProbedInv'
  BY <1>11 DEF WritePointer, Goto
<1>12. ASSUME NEW d \in Daemons, Shutdown(d) PROVE ProbedInv'
  BY <1>12 DEF Shutdown, Goto, Disturb, MayBegin, Quiet
<1>13. ASSUME NEW d \in Daemons, RemoveSocket(d) PROVE ProbedInv'
  BY <1>13 DEF RemoveSocket, Goto
<1>14. ASSUME NEW d \in Daemons, RemovePointer(d) PROVE ProbedInv'
  BY <1>14 DEF RemovePointer, Goto, RemovesPointer, Unlink
<1>15. ASSUME NEW d \in Daemons, RemovePort(d) PROVE ProbedInv'
  BY <1>15 DEF RemovePort, Goto, RemovesPort, Unlink
<1>16. ASSUME NEW d \in Daemons, Crash(d) PROVE ProbedInv'
  BY <1>16 DEF Crash, Disturb, Running
<1>17. ASSUME NEW d \in Daemons, Recycle(d) PROVE ProbedInv'
  BY <1>17 DEF Recycle, Goto
<1>18. ASSUME NEW c \in Clients, NEW k \in Kinds, Invoke(c, k) PROVE ProbedInv'
  BY <1>18 DEF Invoke, MayBegin, Quiet
<1>19. ASSUME NEW c \in Clients, ReadPointer(c) PROVE ProbedInv'
  BY <1>19 DEF ReadPointer, Moves, SameCall
<1>20. ASSUME NEW c \in Clients, DialSocket(c) PROVE ProbedInv'
  BY <1>20 DEF DialSocket, Moves, SameCall
<1>21. ASSUME NEW c \in Clients, DropPointer(c) PROVE ProbedInv'
  BY <1>21 DEF DropPointer, Moves, SameCall, RemovesPointer, Unlink
<1>22. ASSUME NEW c \in Clients, ReadPort(c) PROVE ProbedInv'
  BY <1>22 DEF ReadPort, Moves, SameCall
<1>23. ASSUME NEW c \in Clients, DialPort(c) PROVE ProbedInv'
  BY <1>23 DEF DialPort, Moves, SameCall
<1>24. ASSUME NEW c \in Clients, DropPort(c) PROVE ProbedInv'
  BY <1>24 DEF DropPort, Moves, SameCall, RemovesPort, Unlink
<1>25. ASSUME NEW c \in Clients, Fail(c) PROVE ProbedInv'
  BY <1>25 DEF Fail, Moves, SameCall
<1>26. ASSUME NEW c \in Clients, Spawn(c) PROVE ProbedInv'
  BY <1>26 DEF Spawn, Goto
<1>27. ASSUME NEW c \in Clients, Retry(c) PROVE ProbedInv'
  BY <1>27 DEF Retry, Moves, SameCall
<1>28. ASSUME NEW c \in Clients, StillAbsent(c) PROVE ProbedInv'
  BY <1>28 DEF StillAbsent, Moves, SameCall, Later
<1>29. ASSUME NEW c \in Clients, AwaitPort(c) PROVE ProbedInv'
  BY <1>29 DEF AwaitPort, Moves, SameCall, Later
<1>30. ASSUME NEW c \in Clients, GiveUp(c) PROVE ProbedInv'
  BY <1>30 DEF GiveUp, Moves, SameCall
<1>31. ASSUME NEW c \in Clients, CreateSession(c) PROVE ProbedInv'
  BY <1>31 DEF CreateSession, Moves, SameCall
<1>32. ASSUME NEW c \in Clients, CreateSessionNowhere(c) PROVE ProbedInv'
  BY <1>32 DEF CreateSessionNowhere, Moves, SameCall
<1>33. ASSUME UNCHANGED daemonVars PROVE ProbedInv'
  BY <1>33 DEF daemonVars
<1> HIDE DEF ProbedInv
<1> QED
  BY <1>1, <1>2, <1>3, <1>4, <1>5, <1>6, <1>7, <1>8, <1>9, <1>10, <1>11, <1>12, <1>13,
     <1>14, <1>15, <1>16, <1>17, <1>18, <1>19, <1>20, <1>21, <1>22, <1>23, <1>24, <1>25,
     <1>26, <1>27, <1>28, <1>29, <1>30, <1>31, <1>32, <1>33
  DEF DaemonNext, Starts, Stops, Calls

(* One thing at a time, whatever is killed: a daemon that serves is found by *)
(* its pointer and its socket, a second one that is refused leaves it so,    *)
(* and doctor says whether there is one.                                     *)
THEOREM ServingIsReachable == DaemonSpec => []Reachable
<1>1. DaemonInit => SerialInv
  BY DEF DaemonInit, SerialInv, OneAtATime, FilesOwned, NoneWhenTurned, Moving, Active,
     Serving,
         Starting, Closing, Over
<1>2. DaemonTypeOK /\ SerialInv /\ [DaemonNext]_daemonVars => SerialInv'
  BY SerialStep
<1>3. DaemonTypeOK /\ SerialInv => Reachable
  <2> SUFFICES ASSUME DaemonTypeOK, SerialInv, serial, Quiet
               PROVE  /\ \A d \in Daemons : Serving(d) => ptr = "path" /\ sock = d /\ d \in unixOK
                      /\ daemonCheck <=> \E d \in Daemons : Serving(d)
    BY DEF Reachable
  <2>1. \A d \in Daemons : Serving(d) => ptr = "path" /\ sock = d /\ d \in unixOK
    BY DEF SerialInv, FilesOwned
  <2>2. ASSUME NEW d \in Daemons, Serving(d) PROVE daemonCheck
    BY <2>1, <2>2, ServingAnswers DEF daemonCheck
  <2>3. ASSUME daemonCheck PROVE \E d \in Daemons : Serving(d)
    BY <2>3 DEF daemonCheck, dialExistingDaemon, dialPort, Quiet, Serving, Starting,
       DaemonTypeOK
  <2> QED
    BY <2>1, <2>2, <2>3
<1> QED
  BY <1>1, <1>2, <1>3, DaemonInvariance, PTL DEF DaemonSpec

(* A command that looks at least twice after it started a daemon works from  *)
(* a cold start, from a crash's leftovers and beside another daemon: one     *)
(* thing at a time, it fails only when a daemon was killed meanwhile, when   *)
(* none was serving and it does not start one, or when, of squash, the file  *)
(* of the daemon it has started is still empty as it reads it.               *)
THEOREM CommandsWork ==
  ASSUME MaxTries >= 2 PROVE DaemonSpec => []CallsSucceed
<1>1. DaemonInit => SerialInv /\ CallInv /\ ProbedInv
  BY DEF DaemonInit, SerialInv, OneAtATime, FilesOwned, NoneWhenTurned, Moving, Active,
     Serving, Starting, Closing, Over, CallInv, Retries, Undisturbed, CallsSucceed,
     ProbedInv, Probed
<1>2. /\ DaemonTypeOK /\ SerialInv /\ CallInv /\ ProbedInv /\ [DaemonNext]_daemonVars
      => SerialInv' /\ CallInv' /\ ProbedInv'
  BY SerialStep, CallStep, ProbedStep
<1>3. DaemonTypeOK /\ CallInv => CallsSucceed
  BY DEF CallInv, CallsSucceed
<1> QED
  BY <1>1, <1>2, <1>3, DaemonInvariance, PTL DEF DaemonSpec
-----------------------------------------------------------------------------
Names == {"preflight", "status", "head", "audit", "local", "claim", "philosophy", "polish",
          "add", "commit"}
LastPlace == LocalGates + 9

(* The gate at a place of the pipeline, counted from both ends. *)
Placed(pipeline) ==
  /\ pipeline \in Seq(Names) /\ Len(pipeline) = LastPlace
  /\ pipeline[1] = "preflight" /\ pipeline[2] = "status" /\ pipeline[3] = "head"
  /\ pipeline[4] = "audit" /\ \A i \in 5..(LastPlace - 5) : pipeline[i] = "local"
  /\ pipeline[LastPlace - 4] = "claim" /\ pipeline[LastPlace - 3] = "philosophy"
  /\ pipeline[LastPlace - 2] = "polish" /\ pipeline[LastPlace - 1] = "add"
  /\ pipeline[LastPlace] = "commit"

(* The gates around the local ones, put together. *)
LEMMA PutTogether ==
  Placed(<<"preflight", "status", "head", "audit">> \o Locals
           \o <<"claim", "philosophy", "polish", "add", "commit">>)
<1> DEFINE before == <<"preflight", "status", "head", "audit">>
           after  == <<"claim", "philosophy", "polish", "add", "commit">>
           front  == before \o Locals
<1> USE GatesAssumption
<1>1. before \in Seq(Names) /\ Len(before) = 4 /\ after \in Seq(Names) /\ Len(after) = 5
  BY DEF Names
<1>2. Locals \in Seq(Names) /\ Len(Locals) = LocalGates
      /\ \A i \in 1..LocalGates : Locals[i] = "local"
  BY DEF Locals, Names
<1>3. before[1] = "preflight" /\ before[2] = "status" /\ before[3] = "head"
      /\ before[4] = "audit"
  OBVIOUS
<1>4. /\ after[1] = "claim" /\ after[2] = "philosophy" /\ after[3] = "polish"
      /\ after[4] = "add" /\ after[5] = "commit"
  OBVIOUS
<1> HIDE DEF before, after
<1>5. /\ front \in Seq(Names) /\ Len(front) = LocalGates + 4
      /\ \A i \in 1..(LocalGates + 4) :
           front[i] = IF i <= 4 THEN before[i] ELSE Locals[i - 4]
  <2>1. /\ before \o Locals \in Seq(Names)
        /\ Len(before \o Locals) = Len(before) + Len(Locals)
        /\ \A i \in 1..(Len(before) + Len(Locals)) :
             (before \o Locals)[i] = IF i <= Len(before) THEN before[i]
                                                         ELSE Locals[i - Len(before)]
    BY <1>1, <1>2, ConcatProperties, Zenon
  <2>2. QED
    BY <1>1, <1>2, <2>1
<1> HIDE DEF front
<1>6. /\ front \o after \in Seq(Names) /\ Len(front \o after) = LastPlace
      /\ \A i \in 1..LastPlace :
           (front \o after)[i] = IF i <= LocalGates + 4 THEN front[i]
                                                       ELSE after[i - (LocalGates + 4)]
  <2>1. /\ front \o after \in Seq(Names)
        /\ Len(front \o after) = Len(front) + Len(after)
        /\ \A i \in 1..(Len(front) + Len(after)) :
             (front \o after)[i] = IF i <= Len(front) THEN front[i] ELSE after[i - Len(front)]
    BY <1>1, <1>5, ConcatProperties, Zenon
  <2>2. QED
    BY <1>1, <1>5, <2>1 DEF LastPlace
<1>7. Placed(front \o after)
  BY <1>2, <1>3, <1>4, <1>5, <1>6, SMTT(30) DEF Placed, LastPlace
<1>8. QED
  BY <1>7 DEF front, before, after

(* A part of the server's pipeline is the sequence of its gates. *)
LEMMA PartOfBare ==
  /\ SubSeq(Bare, 1, 4) = <<"preflight", "status", "head", "audit">>
  /\ SubSeq(Bare, 5, 9) = <<"claim", "philosophy", "polish", "add", "commit">>
<1>1. ASSUME NEW m \in 1..9, NEW n \in 1..9, m <= n, NEW part \in Seq(Names),
             Len(part) = n - m + 1, \A i \in 1..(n - m + 1) : Bare[m + i - 1] = part[i]
      PROVE  SubSeq(Bare, m, n) = part
  <2>1. \A i \in m..n : Bare[i] \in Names
    BY DEF Bare, Names
  <2>2. /\ SubSeq(Bare, m, n) \in Seq(Names) /\ Len(SubSeq(Bare, m, n)) = n - m + 1
        /\ \A i \in 1..(n - m + 1) : SubSeq(Bare, m, n)[i] = Bare[m + i - 1]
    BY <1>1, <2>1, SubSeqProperties
  <2>3. /\ Len(SubSeq(Bare, m, n)) = Len(part)
        /\ \A i \in 1..Len(SubSeq(Bare, m, n)) : SubSeq(Bare, m, n)[i] = part[i]
    BY <1>1, <2>2
  <2>4. QED
    BY <1>1, <2>2, <2>3, SeqEqual, Zenon
<1>2. SubSeq(Bare, 1, 4) = <<"preflight", "status", "head", "audit">>
  <2> DEFINE part == <<"preflight", "status", "head", "audit">>
  <2>1. part \in Seq(Names) /\ Len(part) = 4 - 1 + 1
    BY DEF Names
  <2>2. \A i \in 1..(4 - 1 + 1) : Bare[1 + i - 1] = part[i]
    BY DEF Bare
  <2> HIDE DEF part
  <2>3. SubSeq(Bare, 1, 4) = part
    BY <1>1, <2>1, <2>2
  <2>4. QED
    BY <2>3 DEF part
<1>3. SubSeq(Bare, 5, 9) = <<"claim", "philosophy", "polish", "add", "commit">>
  <2> DEFINE part == <<"claim", "philosophy", "polish", "add", "commit">>
  <2>1. part \in Seq(Names) /\ Len(part) = 9 - 5 + 1
    BY DEF Names
  <2>2. \A i \in 1..(9 - 5 + 1) : Bare[5 + i - 1] = part[i]
    BY DEF Bare
  <2> HIDE DEF part
  <2>3. SubSeq(Bare, 5, 9) = part
    BY <1>1, <2>1, <2>2
  <2>4. QED
    BY <2>3 DEF part
<1>4. QED
  BY <1>2, <1>3

(* pipelineForState runs the same gates in the same order whether it takes   *)
(* the standard pipeline, for overridden commands, or inserts the local      *)
(* gates into the server's own.                                              *)
THEOREM OnePipeline ==
  Inserted(Bare) = StandardPipeline
<1>1. Bare[4] = "audit" /\ \A i \in 1..Len(Bare) : Bare[i] = "audit" => i = 4
  BY DEF Bare
<1>2. Len(Bare) = 9
  BY DEF Bare
<1>3. (CHOOSE i \in 1..Len(Bare) : Bare[i] = "audit") = 4
  BY <1>1, <1>2
<1>4. SubSeq(Bare, 1, 4) = <<"preflight", "status", "head", "audit">>
  BY PartOfBare
<1>5. SubSeq(Bare, 5, 9) = <<"claim", "philosophy", "polish", "add", "commit">>
  BY PartOfBare
<1>6. Inserted(Bare) = SubSeq(Bare, 1, 4) \o Locals \o SubSeq(Bare, 4 + 1, 9)
  BY <1>2, <1>3, Zenon DEF Inserted
<1>7. 4 + 1 = 5
  OBVIOUS
<1>8. QED
  BY <1>4, <1>5, <1>6, <1>7, Zenon DEF StandardPipeline

(* The place of every gate. *)
LEMMA PipelinePlaced ==
  Placed(Pipeline)
BY PutTogether, OnePipeline DEF Pipeline, StandardPipeline
-----------------------------------------------------------------------------
(* The types of the repository and of the step's place. *)
GatesType ==
  /\ branch \in Branches /\ committed \in [Branches -> SUBSET Changes]
  /\ dirty \subseteq Changes /\ staged \subseteq Changes
  /\ gate \in 0..LastPlace

(* Once preflight has read the branch, main is checked out only if it was    *)
(* changed since.                                                            *)
BranchRead == gate > 1 => (branch = "main" => switched)

(* Once the tests have passed, whatever breaks them in the tree or, after    *)
(* git add, in the index was edited since.                                   *)
TreeTested ==
  /\ gate >= LastPlace - 1 => tested /\ dirty \cap Broken \subseteq lateEdits
  /\ gate = LastPlace => staged \cap Broken \subseteq lateEdits

GatesInv == GatesType /\ BranchRead /\ TreeTested /\ CommitsVouched

(* Where each gate is, and where the next one is. *)
LEMMA Places ==
  ASSUME GatesType
  PROVE  /\ At("preflight") => gate = 1
         /\ At("status") => gate = 2
         /\ At("head") => gate = 3
         /\ At("audit") \/ At("local") => gate \in 4..(LastPlace - 5)
         /\ At("claim") => gate = LastPlace - 4
         /\ At("philosophy") => gate = LastPlace - 3
         /\ At("polish") => gate = LastPlace - 2
         /\ At("add") => gate = LastPlace - 1
         /\ At("commit") => gate = LastPlace
         /\ Pass => gate' = IF gate = LastPlace THEN 0 ELSE gate + 1
         /\ LastPlace \in Nat /\ LastPlace >= 9
<1> USE GatesAssumption
<1>1. LastPlace \in Nat /\ LastPlace >= 9
  BY DEF LastPlace
<1>2. Pass => gate' = IF gate = LastPlace THEN 0 ELSE gate + 1
  BY PipelinePlaced DEF Pass, Placed
<1>3. \A i \in 1..LastPlace :
        \/ i = 1 /\ Pipeline[i] = "preflight"
        \/ i = 2 /\ Pipeline[i] = "status"
        \/ i = 3 /\ Pipeline[i] = "head"
        \/ i = 4 /\ Pipeline[i] = "audit"
        \/ i \in 5..(LastPlace - 5) /\ Pipeline[i] = "local"
        \/ i = LastPlace - 4 /\ Pipeline[i] = "claim"
        \/ i = LastPlace - 3 /\ Pipeline[i] = "philosophy"
        \/ i = LastPlace - 2 /\ Pipeline[i] = "polish"
        \/ i = LastPlace - 1 /\ Pipeline[i] = "add"
        \/ i = LastPlace /\ Pipeline[i] = "commit"
  BY <1>1, PipelinePlaced DEF Placed
<1>4. gate > 0 => gate \in 1..LastPlace
  BY <1>1 DEF GatesType
<1>5. QED
  BY <1>1, <1>2, <1>3, <1>4 DEF At

(* Every gate, and everything the agent does between two of them, keeps it. *)
LEMMA GatesStep ==
  ASSUME GatesInv, [GatesNext]_gatesVars PROVE GatesInv'
<1> USE GatesAssumption DEF GatesInv, GatesType, BranchRead, TreeTested, CommitsVouched
<1>0. LastPlace \in Nat /\ LastPlace >= 9
  BY Places
<1>1. CASE StepBegins
  <2>1. GatesType'
    BY <1>0, <1>1 DEF StepBegins, repoVars
  <2>2. BranchRead' /\ TreeTested' /\ CommitsVouched'
    BY <1>0, <1>1 DEF StepBegins
  <2>3. QED
    BY <2>1, <2>2
<1>2. CASE GateErrs
  BY <1>0, <1>2 DEF GateErrs, Ends, repoVars, historyVars
<1>3. CASE PreflightBranch
  <2>1. gate = 1 /\ (gate' = 0 \/ (gate' = 2 /\ branch # "main"))
    BY <1>0, <1>3, Places DEF PreflightBranch, Ends
  <2>2. GatesType'
    BY <1>0, <1>3, <2>1 DEF PreflightBranch, repoVars
  <2>3. BranchRead' /\ TreeTested' /\ CommitsVouched'
    BY <1>0, <1>3, <2>1 DEF PreflightBranch, repoVars
  <2>4. QED
    BY <2>2, <2>3
<1>4. CASE PreflightTree
  <2>1. gate = 2 /\ gate' \in {0, 3}
    BY <1>0, <1>4, Places DEF PreflightTree, Ends
  <2>2. QED
    BY <1>0, <1>4, <2>1 DEF PreflightTree, repoVars, historyVars
<1>5. CASE PreflightHead
  <2>1. gate = 3 /\ gate' = 4
    BY <1>0, <1>5, Places DEF PreflightHead
  <2>2. QED
    BY <1>0, <1>5, <2>1 DEF PreflightHead, repoVars, historyVars
<1>6. CASE CommandGate
  <2>1. gate \in 4..(LastPlace - 5) /\ gate' \in {0, gate + 1}
    BY <1>0, <1>6, Places DEF CommandGate, Ends
  <2>2. QED
    BY <1>0, <1>6, <2>1 DEF CommandGate, repoVars, historyVars
<1>7. CASE ClaimGate
  <2>1. gate = LastPlace - 4 /\ gate' \in {0, LastPlace - 3}
    BY <1>0, <1>7, Places DEF ClaimGate, Ends
  <2>2. QED
    BY <1>0, <1>7, <2>1 DEF ClaimGate, repoVars, historyVars
<1>8. CASE PhilosophyGate
  <2>1. gate = LastPlace - 3 /\ gate' \in {0, LastPlace - 2}
    BY <1>0, <1>8, Places DEF PhilosophyGate, Ends
  <2>2. QED
    BY <1>0, <1>8, <2>1 DEF PhilosophyGate, repoVars, historyVars
<1>9. CASE PolishGate
  <2>1. /\ gate = LastPlace - 2
        /\ \/ gate' = 0 /\ tested' = tested
           \/ gate' = LastPlace - 1 /\ tested' = TRUE /\ Tree \cap Broken = {}
    BY <1>0, <1>9, Places DEF PolishGate, Ends
  <2>2. GatesType'
    BY <1>0, <1>9, <2>1 DEF PolishGate, repoVars
  <2>3. BranchRead' /\ TreeTested' /\ CommitsVouched'
    BY <1>0, <1>9, <2>1 DEF PolishGate, repoVars, Tree
  <2>4. QED
    BY <2>2, <2>3
<1>10. CASE CommitAdd
  <2>1. gate = LastPlace - 1 /\ gate' = LastPlace
    BY <1>0, <1>10, Places DEF CommitAdd
  <2>2. QED
    BY <1>0, <1>10, <2>1 DEF CommitAdd, historyVars
<1>11. CASE CommitGate
  <2>1. gate = LastPlace /\ gate' = 0
    BY <1>0, <1>11, Places DEF CommitGate, Ends
  <2>2. GatesType'
    BY <1>0, <1>11, <2>1 DEF CommitGate
  <2>3. CommitsVouched'
    <3>1. \/ landed' = landed
          \/ landed' = {[change |-> c, on |-> branch, switched |-> switched,
                         late |-> c \in lateEdits] : c \in staged}
      BY <1>11 DEF CommitGate
    <3>2. ASSUME NEW c \in staged
          PROVE  (branch = "main" => switched) /\ (c \in Broken => c \in lateEdits)
      BY <1>0, <2>1
    <3>3. ASSUME NEW c \in staged, NEW l,
                 l = [change |-> c, on |-> branch, switched |-> switched,
                      late |-> c \in lateEdits]
          PROVE  (l.on = "main" => l.switched) /\ (l.change \in Broken => l.late)
      <4>1. l.on = branch /\ l.switched = switched /\ l.change = c
        BY <3>3
      <4>2. l.late = (c \in lateEdits)
        BY <3>3
      <4>3. QED
        BY <3>2, <4>1, <4>2, Zenon
    <3>4. QED
      BY <3>1, <3>3, Zenon DEF CommitsVouched, GatesInv
  <2>4. QED
    BY <1>0, <2>1, <2>2, <2>3
<1>12. ASSUME NEW c \in Changes, Edit(c) PROVE GatesInv'
  BY <1>0, <1>12 DEF Edit
<1>13. ASSUME NEW c \in Changes, TakeBack(c) PROVE GatesInv'
  BY <1>0, <1>13 DEF TakeBack, historyVars
<1>14. CASE AgentCommits
  BY <1>0, <1>14 DEF AgentCommits, historyVars
<1>15. ASSUME NEW b \in Branches, Switch(b) PROVE GatesInv'
  BY <1>0, <1>15 DEF Switch
<1>16. CASE Reports
  BY <1>0, <1>16 DEF Reports, repoVars, historyVars
<1>17. CASE UNCHANGED gatesVars
  BY <1>17 DEF gatesVars
<1> HIDE DEF GatesInv
<1>18. QED
  BY <1>1, <1>2, <1>3, <1>4, <1>5, <1>6, <1>7, <1>8, <1>9, <1>10, <1>11, <1>12, <1>13, <1>14,
     <1>15, <1>16, <1>17, Zenon DEF GatesNext

(* The pipeline commits to main only if the branch was changed after         *)
(* preflight looked at it, and a change that breaks the tests only if it was *)
(* made after they ran, whatever the agent does while the gates run.         *)
THEOREM OnlyVouchedLands ==
  GatesSpec => []CommitsVouched
<1>1. GatesInit => GatesInv
  <2>1. GatesInit => GatesType
    BY GatesAssumption DEF GatesInit, GatesType, Branches, LastPlace
  <2>2. GatesInit => BranchRead /\ TreeTested /\ CommitsVouched
    BY GatesAssumption DEF GatesInit, BranchRead, TreeTested, CommitsVouched, LastPlace
  <2>3. QED
    BY <2>1, <2>2 DEF GatesInv
<1>2. GatesInv /\ [GatesNext]_gatesVars => GatesInv'
  BY GatesStep
<1>3. GatesInv => CommitsVouched
  BY DEF GatesInv
<1>4. QED
  BY <1>1, <1>2, <1>3, PTL DEF GatesSpec
=============================================================================
