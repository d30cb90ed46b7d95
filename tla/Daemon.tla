------------------------------- MODULE Daemon -------------------------------
(***************************************************************************)
(* The daemon's life and how commands find it.  A daemon announces itself  *)
(* by three files under ~/.rallish: port (a TCP port), rallish.sock (the   *)
(* socket it listens on) and socket (a pointer to it).  Commands read and  *)
(* probe them, remove what does not answer, and may start a daemon.  All   *)
(* are processes of their own: each system call is a step, and a daemon    *)
(* may be killed at any time, which leaves its files behind.               *)
(*                                                                         *)
(* A file is written by truncating it first.  A probe is answered by       *)
(* whoever listens, from the moment it does.                               *)
(***************************************************************************)
EXTENDS Integers, FiniteSets

CONSTANTS
  Daemons,    \* processes, each with a port of its own
  Clients,    \* terminals, each running one command at a time
  Missing,    \* a file that does not exist
  Empty,      \* a file that has just been truncated
  MaxTries    \* how often a command looks again after it started a daemon

ASSUME DaemonAssumption ==
  /\ Missing \notin Daemons /\ Empty \notin Daemons /\ Missing # Empty
  /\ "path" \notin {Missing, Empty}
  /\ MaxTries \in Nat

VARIABLES
  serial,     \* nobody starts, stops or calls anything while something is under way
  st,         \* where each daemon is in RunDaemon
  unixOK,     \* the daemons whose unixOK is true
  sock,       \* rallish.sock: the daemon that bound it
  ptr,        \* the file socket: Missing, Empty, or "path"
  port,       \* the file port: Missing, Empty, or the daemon whose port it holds
  fds,        \* the daemons that have port or socket open for writing
  callAt, kind,   \* where each command is, and which one it is
  saw,        \* the port that it read
  tries,
  crashed,    \* history: a daemon has been killed
  wasUp,      \* history: a daemon was serving when the command began
  disturbed   \* history: a daemon was killed or stopped during the command

files   == <<sock, ptr, port, fds>>
daemons == <<st, unixOK>>
calls   == <<callAt, kind, saw, tries, wasUp>>
daemonVars == <<serial, daemons, files, calls, crashed, disturbed>>

Starting == {"exec", "listening", "truncated", "announced", "checked", "cleared",
             "bound", "pointing"}
Closing  == {"closed", "unlinked", "unpointed"}
Running(d) == st[d] \in Starting \cup Closing \cup {"serving"}
Serving(d) == st[d] = "serving"

Kinds == {"resolve", "ensure", "squash"}
Over  == {"idle", "connected", "failed"}

DaemonInit ==
  /\ serial \in BOOLEAN
  /\ st = [d \in Daemons |-> "off"] /\ unixOK = {}
  /\ sock = Missing /\ ptr = Missing /\ port = Missing /\ fds = {}
  /\ callAt = [c \in Clients |-> "idle"] /\ kind = [c \in Clients |-> "resolve"]
  /\ saw = [c \in Clients |-> Missing] /\ tries = [c \in Clients |-> 0]
  /\ wasUp = [c \in Clients |-> FALSE]
  /\ crashed = FALSE /\ disturbed = [c \in Clients |-> FALSE]

Quiet ==
  /\ \A d \in Daemons : st[d] \in {"off", "gone", "serving"}
  /\ \A c \in Clients : callAt[c] \in Over

(* Whether a user's next command is issued now. *)
MayBegin == serial => Quiet

(* os.Remove.  Who has the file open goes on writing to what is unlinked. *)
Unlink(file) == fds' = {f \in fds : f[2] # file}
RemovesPort == port' = Missing /\ Unlink("port")
RemovesPointer == ptr' = Missing /\ Unlink("socket")

(* What answers: a TCP listener from net.Listen on, a unix listener while    *)
(* the path is still its own.                                                *)
dialPort(p) ==
  /\ p \in Daemons
  /\ st[p] \in (Starting \ {"exec"}) \cup {"serving"}

(* Mutant of dialExistingDaemon: os.Stat alone. *)
statExistingDaemon == sock # Missing

dialExistingDaemon ==
  /\ sock \in unixOK
  /\ st[sock] \in {"bound", "pointing", "serving"}
-----------------------------------------------------------------------------
(* RunDaemon. *)
Goto(d, from, to) == st[d] = from /\ st' = [st EXCEPT ![d] = to]

(* `rallish daemon` in a terminal. *)
StartDaemon(d) ==
  /\ MayBegin
  /\ Goto(d, "off", "exec")
  /\ UNCHANGED <<serial, unixOK, files, calls, crashed, disturbed>>

ListenTCP(d) ==
  /\ Goto(d, "exec", "listening")
  /\ UNCHANGED <<serial, unixOK, files, calls, crashed, disturbed>>

(* os.WriteFile(portFile), before it is known whether the daemon may run. *)
TruncatePort(d) ==
  /\ Goto(d, "listening", "truncated")
  /\ port' = Empty /\ fds' = fds \cup {<<d, "port">>}
  /\ UNCHANGED <<serial, unixOK, sock, ptr, calls, crashed, disturbed>>

WritePort(d) ==
  /\ Goto(d, "truncated", "announced")
  /\ port' = IF <<d, "port">> \in fds THEN d ELSE port
  /\ fds' = fds \ {<<d, "port">>}
  /\ UNCHANGED <<serial, unixOK, sock, ptr, calls, crashed, disturbed>>

(* Mutant of MayRun: the single-instance check is dropped. *)
MayRunAlways == TRUE

(* The single-instance check. *)
MayRun == ~dialExistingDaemon

(* A daemon answers on the socket: this one returns, its port file stays. *)
Refused(d) ==
  /\ ~MayRun
  /\ Goto(d, "announced", "gone")
  /\ UNCHANGED <<serial, unixOK, files, calls, crashed, disturbed>>

Admitted(d) ==
  /\ MayRun
  /\ Goto(d, "announced", "checked")
  /\ UNCHANGED <<serial, unixOK, files, calls, crashed, disturbed>>

(* us.Remove, whoever has bound it since the check. *)
ClearSocket(d) ==
  /\ Goto(d, "checked", "cleared")
  /\ sock' = Missing
  /\ UNCHANGED <<serial, unixOK, ptr, port, fds, calls, crashed, disturbed>>

ListenUnix(d) ==
  /\ sock = Missing
  /\ Goto(d, "cleared", "bound")
  /\ sock' = d /\ unixOK' = unixOK \cup {d}
  /\ UNCHANGED <<serial, ptr, port, fds, calls, crashed, disturbed>>

(* The path is taken: TCP only. *)
ListenUnixFails(d) ==
  /\ sock # Missing
  /\ Goto(d, "cleared", "serving")
  /\ UNCHANGED <<serial, unixOK, files, calls, crashed, disturbed>>

TruncatePointer(d) ==
  /\ Goto(d, "bound", "pointing")
  /\ ptr' = Empty /\ fds' = fds \cup {<<d, "socket">>}
  /\ UNCHANGED <<serial, unixOK, sock, port, calls, crashed, disturbed>>

WritePointer(d) ==
  /\ Goto(d, "pointing", "serving")
  /\ ptr' = IF <<d, "socket">> \in fds THEN "path" ELSE ptr
  /\ fds' = fds \ {<<d, "socket">>}
  /\ UNCHANGED <<serial, unixOK, sock, port, calls, crashed, disturbed>>

Disturb == disturbed' = [c \in Clients |-> callAt[c] \notin Over \/ disturbed[c]]

(* The signal: Shutdown closes the listeners, and closing a unix listener    *)
(* unlinks its path, whoever has bound it since.                             *)
Shutdown(d) ==
  /\ MayBegin
  /\ Goto(d, "serving", IF d \in unixOK THEN "closed" ELSE "unpointed")
  /\ sock' = IF d \in unixOK THEN Missing ELSE sock
  /\ Disturb
  /\ UNCHANGED <<serial, unixOK, ptr, port, fds, calls, crashed>>

RemoveSocket(d) ==
  /\ Goto(d, "closed", "unlinked")
  /\ sock' = Missing
  /\ UNCHANGED <<serial, unixOK, ptr, port, fds, calls, crashed, disturbed>>

(* Mutant of RemovePointer: the pointer is taken to be gone with the socket. *)
RemovePointerIfSocket(d) ==
  /\ Goto(d, "unlinked", "unpointed")
  /\ IF sock # Missing THEN RemovesPointer ELSE UNCHANGED <<ptr, fds>>
  /\ UNCHANGED <<serial, unixOK, sock, port, calls, crashed, disturbed>>

RemovePointer(d) ==
  /\ Goto(d, "unlinked", "unpointed")
  /\ RemovesPointer
  /\ UNCHANGED <<serial, unixOK, sock, port, calls, crashed, disturbed>>

RemovePort(d) ==
  /\ Goto(d, "unpointed", "gone")
  /\ RemovesPort
  /\ UNCHANGED <<serial, unixOK, sock, ptr, calls, crashed, disturbed>>

(* kill -9, out of memory, reboot. *)
Crash(d) ==
  /\ Running(d)
  /\ st' = [st EXCEPT ![d] = "gone"]
  /\ fds' = {f \in fds : f[1] # d}
  /\ crashed' = TRUE
  /\ Disturb
  /\ UNCHANGED <<serial, unixOK, sock, ptr, port, calls>>

(* Another process with a port that no file and no command knows any more. *)
Recycle(d) ==
  /\ Goto(d, "gone", "off")
  /\ d \notin {sock, port} /\ \A c \in Clients : saw[c] # d
  /\ unixOK' = unixOK \ {d}
  /\ UNCHANGED <<serial, files, calls, crashed, disturbed>>
-----------------------------------------------------------------------------
(* resolveBrokerClient, and what ensureBrokerClient and RunSquash add to it. *)
Invoke(c, k) ==
  /\ MayBegin /\ callAt[c] \in Over
  /\ callAt' = [callAt EXCEPT ![c] = "pointer"]
  /\ kind' = [kind EXCEPT ![c] = k]
  /\ tries' = [tries EXCEPT ![c] = 0]
  /\ wasUp' = [wasUp EXCEPT ![c] = \E d \in Daemons : Serving(d)]
  /\ disturbed' = [disturbed EXCEPT ![c] = FALSE]
  /\ UNCHANGED <<serial, daemons, files, saw, crashed>>

Moves(c, from, to) == callAt[c] = from /\ callAt' = [callAt EXCEPT ![c] = to]
SameCall == UNCHANGED <<serial, daemons, kind, wasUp, crashed, disturbed>>

ReadPointer(c) ==
  /\ Moves(c, "pointer", IF ptr = "path" THEN "dial" ELSE "port")
  /\ UNCHANGED <<files, saw, tries>> /\ SameCall

DialSocket(c) ==
  /\ Moves(c, "dial", IF dialExistingDaemon THEN "connected" ELSE "unpoint")
  /\ UNCHANGED <<files, saw, tries>> /\ SameCall

(* os.Remove(socketFile), whoever has written it since. *)
DropPointer(c) ==
  /\ Moves(c, "unpoint", "port")
  /\ RemovesPointer
  /\ UNCHANGED <<sock, port, saw, tries>> /\ SameCall

(* A missing file means that no broker is running. *)
ReadPort(c) ==
  /\ Moves(c, "port", IF port = Missing THEN "absent" ELSE "dialport")
  /\ saw' = [saw EXCEPT ![c] = port]
  /\ UNCHANGED <<files, tries>> /\ SameCall

DialPort(c) ==
  /\ Moves(c, "dialport", IF dialPort(saw[c]) THEN "connected" ELSE "unport")
  /\ saw' = [saw EXCEPT ![c] = Missing]
  /\ UNCHANGED <<files, tries>> /\ SameCall

(* os.Remove(portFile), whoever has written it since. *)
DropPort(c) ==
  /\ Moves(c, "unport", "absent")
  /\ RemovesPort
  /\ UNCHANGED <<sock, ptr, saw, tries>> /\ SameCall

(* `rally join`, `cycle` and the like end here. *)
Fail(c) ==
  /\ kind[c] = "resolve"
  /\ Moves(c, "absent", "failed")
  /\ UNCHANGED <<files, saw, tries>> /\ SameCall

(* startDaemon; at = "retry" while the command waits for it. *)
Spawn(c) ==
  /\ kind[c] # "resolve" /\ callAt[c] = "absent" /\ tries[c] = 0
  /\ callAt' = [callAt EXCEPT ![c] = "retry"]
  /\ tries' = [tries EXCEPT ![c] = 1]
  /\ \E d \in Daemons : Goto(d, "off", "exec")
  /\ UNCHANGED <<serial, unixOK, files, kind, saw, wasUp, crashed, disturbed>>

(* The 20 polls of 250 ms outlast the start of a daemon when nothing else    *)
(* is under way, and need not otherwise.                                     *)
OutOfTries(c) == tries[c] > MaxTries
Later(c) ==
  IF serial /\ \E d \in Daemons : st[d] \in Starting THEN tries[c] ELSE tries[c] + 1

(* ensureBrokerClient calls resolveBrokerClient again. *)
Retry(c) ==
  /\ kind[c] = "ensure" /\ ~OutOfTries(c)
  /\ Moves(c, "retry", "pointer")
  /\ UNCHANGED <<files, saw, tries>> /\ SameCall

StillAbsent(c) ==
  /\ kind[c] = "ensure" /\ tries[c] > 0
  /\ Moves(c, "absent", "retry")
  /\ tries' = [tries EXCEPT ![c] = Later(c)]
  /\ UNCHANGED <<files, saw>> /\ SameCall

(* RunSquash looks for the port file only: a file that is there ends the     *)
(* loop, and what it holds is not probed.                                    *)
AwaitPort(c) ==
  /\ kind[c] = "squash" /\ ~OutOfTries(c)
  /\ Moves(c, "retry", IF port = Missing THEN "retry" ELSE "unprobed")
  /\ tries' = [tries EXCEPT ![c] = IF port = Missing THEN Later(c) ELSE @]
  /\ saw' = [saw EXCEPT ![c] = port]
  /\ UNCHANGED files /\ SameCall

(* The request that creates the session, to the port that was read. *)
CreateSession(c) ==
  /\ saw[c] # Empty
  /\ Moves(c, "unprobed", IF dialPort(saw[c]) THEN "connected" ELSE "failed")
  /\ saw' = [saw EXCEPT ![c] = Missing]
  /\ UNCHANGED <<files, tries>> /\ SameCall

(* readPortFile gives an empty file back without an error: the URL has no    *)
(* port, and the session is not created.                                     *)
CreateSessionNowhere(c) ==
  /\ saw[c] = Empty
  /\ Moves(c, "unprobed", "failed")
  /\ UNCHANGED <<files, saw, tries>> /\ SameCall

GiveUp(c) ==
  /\ OutOfTries(c)
  /\ Moves(c, "retry", "failed")
  /\ UNCHANGED <<files, saw, tries>> /\ SameCall
-----------------------------------------------------------------------------
Starts(d) ==
  \/ StartDaemon(d) \/ ListenTCP(d) \/ TruncatePort(d) \/ WritePort(d)
  \/ Refused(d) \/ Admitted(d) \/ ClearSocket(d) \/ ListenUnix(d) \/ ListenUnixFails(d)
  \/ TruncatePointer(d) \/ WritePointer(d)

Stops(d) ==
  \/ Shutdown(d) \/ RemoveSocket(d) \/ RemovePointer(d) \/ RemovePort(d)
  \/ Crash(d) \/ Recycle(d)

Calls(c) ==
  \/ \E k \in Kinds : Invoke(c, k)
  \/ ReadPointer(c) \/ DialSocket(c) \/ DropPointer(c)
  \/ ReadPort(c) \/ DialPort(c) \/ DropPort(c)
  \/ Fail(c) \/ Spawn(c) \/ Retry(c) \/ StillAbsent(c) \/ AwaitPort(c)
  \/ CreateSession(c) \/ CreateSessionNowhere(c) \/ GiveUp(c)

DaemonNext == (\E d \in Daemons : Starts(d) \/ Stops(d)) \/ (\E c \in Clients : Calls(c))

DaemonSpec == DaemonInit /\ [][DaemonNext]_daemonVars
-----------------------------------------------------------------------------
(* doctor's daemonCheck: a pointer that does not answer is not followed by a *)
(* look at the port.                                                         *)
daemonCheck ==
  IF ptr = "path" THEN dialExistingDaemon ELSE dialPort(port)
-----------------------------------------------------------------------------
(* The types of the files and of the processes' program counters. *)
DaemonTypeOK ==
  /\ serial \in BOOLEAN /\ crashed \in BOOLEAN
  /\ st \in [Daemons -> Starting \cup Closing \cup {"off", "serving", "gone"}]
  /\ unixOK \subseteq Daemons
  /\ sock \in Daemons \cup {Missing} /\ ptr \in {Missing, Empty, "path"}
  /\ port \in Daemons \cup {Missing, Empty} /\ fds \subseteq Daemons \X {"port", "socket"}
  /\ callAt \in [Clients -> Over \cup {"pointer", "dial", "unpoint", "port", "dialport",
                                   "unport", "absent", "retry", "unprobed"}]
  /\ kind \in [Clients -> Kinds] /\ saw \in [Clients -> Daemons \cup {Missing, Empty}]
  /\ tries \in [Clients -> Nat]
  /\ wasUp \in [Clients -> BOOLEAN] /\ disturbed \in [Clients -> BOOLEAN]

(* RunDaemon: "RunDaemon will then clean up its socket files".  However many *)
(* daemons start, are refused, take each other's socket and stop at once,    *)
(* and whatever commands remove meanwhile: when none was killed and none     *)
(* runs, no file is left.                                                    *)
CleanExit ==
  ~crashed /\ (\A d \in Daemons : ~Running(d)) =>
    sock = Missing /\ ptr = Missing /\ port = Missing

(* One thing at a time, and kills at any moment: a daemon that serves is     *)
(* found by its pointer, so there is one at most, and neither the removal of *)
(* stale files nor a second daemon that was refused, whose port file stays,  *)
(* has cut it off; and doctor says whether there is one.                     *)
Reachable ==
  serial /\ Quiet =>
    /\ \A d \in Daemons : Serving(d) => ptr = "path" /\ sock = d /\ d \in unixOK
    /\ daemonCheck <=> \E d \in Daemons : Serving(d)

(* ensureBrokerClient: commands "should just work from a cold start".  One   *)
(* thing at a time: unless a daemon was killed meanwhile, a command fails    *)
(* only when none was serving, and then only if it does not start one or, of *)
(* squash, if it met the port file between truncation and write.             *)
CallsSucceed ==
  serial => \A c \in Clients :
    callAt[c] = "failed" /\ ~disturbed[c] =>
      /\ ~wasUp[c]
      /\ kind[c] = "resolve" \/ (kind[c] = "squash" /\ saw[c] = Empty)
=============================================================================
