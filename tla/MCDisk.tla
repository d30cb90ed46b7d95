------------------------------- MODULE MCDisk -------------------------------
(* What rallish keeps on disk: the files by which a daemon is found, a       *)
(* cycle's state file and its ledger, what is computed from the ledger, and  *)
(* the commits of its gates.  The five share nothing that any of them is     *)
(* about: a behaviour is one of theirs, chosen in its first state.           *)
EXTENDS Daemon, Ledger, StateFile, Audit, Gates

CONSTANTS broker, once, b1
VARIABLE part

MCHome == [t \in Threads |-> broker]
MCSyncerOf(w) == IF w = b1 THEN once ELSE broker

Line(type, cycle, agent, to, print) ==
  [type |-> type, cycle |-> cycle, agent |-> agent, to |-> to, print |-> print]
MCContents == 1..6
MCEntryOf(c) ==
  <<Line("turn", 1, "x", "", "A"), Line("turn", 1, "y", "", "B"),
    Line("handoff", 1, "x", "y", ""), Line("green", 1, "", "", ""),
    Line("turn", 2, "y", "", "A"), Line("failed", 2, "", "", "g")>>[c]

Round(role, artifacts, ends, print) ==
  [role |-> role, artifacts |-> artifacts, ends |-> ends, print |-> print]
MCRecordOf(c) ==
  <<Round("a", {}, FALSE, "p"), Round("b", {}, FALSE, "q"), Round("a", {"f"}, FALSE, "r"),
    Round("b", {}, TRUE, "s"), Round("b", {"f"}, FALSE, "t"), Round("a", {"g"}, FALSE, "u")>>[c]

DiskInit ==
  /\ DaemonInit /\ Init /\ FileInit /\ AuditInit /\ GatesInit
  /\ part \in {"daemon", "ledger", "state", "audit", "gates"}
  /\ part # "daemon" => serial

DaemonGoes ==
  /\ part = "daemon" /\ DaemonNext
  /\ UNCHANGED <<part, vars, fileVars, auditVars, gatesVars>>
LedgerGoes ==
  /\ part = "ledger" /\ Next
  /\ UNCHANGED <<part, daemonVars, fileVars, auditVars, gatesVars>>
StateGoes ==
  /\ part = "state" /\ FileNext
  /\ UNCHANGED <<part, daemonVars, vars, auditVars, gatesVars>>
AuditGoes ==
  /\ part = "audit" /\ AuditNext
  /\ UNCHANGED <<part, daemonVars, vars, fileVars, gatesVars>>
GatesGo ==
  /\ part = "gates" /\ GatesNext
  /\ UNCHANGED <<part, daemonVars, vars, fileVars, auditVars>>

DiskNext == DaemonGoes \/ LedgerGoes \/ StateGoes \/ AuditGoes \/ GatesGo

DiskSpec == DiskInit /\ [][DiskNext]_<<part, daemonVars, vars, fileVars, auditVars, gatesVars>>
=============================================================================
