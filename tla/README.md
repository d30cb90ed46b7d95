# rallish in TLA+

A verification project for rallish, a Go program that lets coding agents work in turns. It holds TLA+ models
of the parts of rallish in which something can go wrong that a test would hardly reach, TLC configurations
that check them on small instances, and proofs, checked by TLAPS, of what the models promise for every size.

Everything is translated from the source under `src/`. `PROJECT.json` gives the lines each definition stands
for, the runs, the mutants that show each property can fail, the hazards and the theorems.

## 1. The system and its parts

One process, the broker daemon (`src/internal/broker`), serves HTTP on a local socket. Around it are runners,
interactive agents and a command line (`src/internal/cli`); below it are files under `~/.rallish`.

| Part | State | Operations | What makes it correct |
|---|---|---|---|
| Rally sessions (`broker/rally.go`, `broker/mcp.go`) | participants, holder, status, turn counter, history; one channel of capacity 1 per connected participant; all under one mutex | create, join (SSE stream or MCP `rally_join`), done, interrupt, shutdown | one holder at a time, the history is a chain, no wake-up of a holder is lost, no channel is sent on after it was closed, an interruption frees everybody |
| MCP transport and its client (`broker/mcp.go`, `cli/rally_mcp_agent.go`) | a registered session and a response channel of capacity 16 per SSE connection | open, message, close; handshake, one tool call | the tool of a client is run once, no handler of its is left blocked |
| Headless sessions (`broker/broker.go`, `session`, `router`, `budget`, `exit`) | per session: turn counter, usage, last response, pending request, notify channel, terminal flag; transcript on disk | create, next (long poll), turn (post), status | a turn is recorded once, an ended session ends every poll, the transcript and the counter agree |
| A2A tasks (`broker/a2a.go`) | subscribers' channels of a headless session | send, get, cancel, sendSubscribe | every subscriber learns the final state, no channel is closed twice |
| Runner (`runner`, `cli/squash.go`) | none but the turn in hand | poll, run the adapter, post; one loop per role | works on its own turn only, ends when the session does |
| Daemon life cycle (`cli/daemon.go`, `cli/broker_client.go`, `doctor`) | the files `port`, `rallish.sock` and `socket` | start, serve, stop; resolve, ensure, squash's search | a serving daemon is found, stale files are seen through, nothing is left behind |
| Autonomous cycles (`broker/cycle.go`, `cycle`, `cli/cycle_run.go`) | state file, cache of it in the daemon, append-only ledger, orchestrating flag | create, step, halt, orchestrate, `cycle run --once` | a halt sticks: a sealed cycle is not revived; ledger and state agree |
| Cycle events (`broker/cycle.go`, `cli/cycle.go`) | a list of channels per cycle | subscribe, unsubscribe, broadcast, close all | no channel is sent on after it was closed, a halt is seen and ends the streams |
| Ledger (`cycle/ledger.go`, `pkg/contract/harness_ledger.go`) | JSON lines linked by hashes; the tail's hash cached per process | append, read, verify | the chain verifies |
| State file (`cycle/sync.go`) | file and `.bak` | read, write (rename, then backup), remove | a reader sees a whole state that is recent; one damage is survived |
| Gates (`cycle/gates`) | the working tree and the index, shared with an agent; baseline and violations in the state | preflight, audit, local commands, claim, philosophy, polish, commit | what is committed has passed |
| Stuck detectors, replay, Merkle tree, `cycle verify` (`cycle/stuck.go`, `session/stuck.go`, `contract/replay.go`, `contract/merkle.go`, `cli/cycle_verify.go`) | none: pure functions of a ledger | | agree with their definitions; an edited ledger is found out |
| The rest (config, doctor, ui, skills, presets, logging, adapters' child processes, bootstrap) | files and terminals | | input and output, not modelled |

How they interact: agents call the broker over HTTP or MCP; handlers run concurrently, one goroutine per
request, and share state under a mutex per store, which they release before writing to a client, running a
pipeline or closing channels. The daemon and a `cycle run --once` started by cron share nothing but the state
file and the ledger. The hard behaviour is all at those seams: what happens between an unlock and the next
lock, when a channel is full, when a client goes away, when two processes write the same files, when the
process dies between two writes.

## 2. Plan

| Part | Modules | Section |
|---|---|---|
| Rally sessions, the core of the program | `Baton` (what a session promises), `Rally` (what the broker does), `MCRally`, `RallyProofs` | 3 |
| Ledger, the file every cycle depends on | `Ledger`, `DiskProofs` | 4 |
| Headless sessions and A2A tasks | `Turns`, `MCTurns`, `TurnsProofs` | 5 |
| Runners of a squash, composed with `Turns` | `Squash`, `MCSquash`, `SquashProofs` | 6 |
| Autonomous cycles | `Seal` (what a halt promises), `Cycle`, `MCCycle`, `CycleProofs` | 7 |
| Event streams: MCP transport, events of a cycle | `Mcp`, `Watch`, `MCStreams`, `StreamProofs` | 8 |
| On disk: daemon's files, state file, audits, gates | `Daemon`, `StateFile`, `Merkle`, `Audit`, `Gates`, `MCDisk` (with `Ledger`), `DiskProofs` (all but the audits), `MerkleProofs`, `AuditProofs` | 9 |

All of them are written and checked, and every safety property a run checks is proved for every size. Left are
those that section 10 names.

Each module is written to be proved about as well as checked: named assumptions on constants, invariants as
conjunctions of named parts, and recursion as recursive functions, in `Merkle` and `Audit` only.

## 3. Rally sessions

### Modules

`Baton` is the abstract specification: one baton that is opened, served, passed from its holder to somebody
else, and finally taken away. `Rally` is one session of the broker with all its connections. `MCRally` gives
TLC its instances.

A *connection* is one run of `handleRallyBaton` or `mcpToolRallyJoin` together with the channel it makes; a
connection that has ended is used again for the next one. `pc` says where the handler is. Everything a handler
does while it holds `rallies.mu` is one step, and so is each piece of work between two critical sections.

| Model | Code |
|---|---|
| `participants status holder turnN history` | fields of `rallySession` |
| `streams` | `rallySession.streams` |
| `buf`, `closed` | the channel's one place, and whether it is closed |
| `toClose` | the local `toClose` of `interruptRallySession` and `CloseAllRallies` |
| `Create` | `createRallySession` |
| `SSEJoin`, `MCPJoin` | the locked parts of the two joins |
| `SSEHeaders` | `writeSSEHeaders`, with the early return when it fails |
| `SSEReceive SSEClosed SSEWrite SSEEnd`; `SSETick SSEPing` | the select of `streamBatonEvents`; its heartbeat, up to the flush and the flush |
| `MCPReceive MCPTimer MCPCancel MCPReturn` | the select of `mcpToolRallyJoin` |
| `Cleanup` | `cleanupStream`, and the drain after a timeout |
| `Done` | `advanceRallyBaton` |
| `Interrupt`, `CloseChannel` | `interruptRallySession` / `CloseAllRallies`, under the lock and after it |

`woken` and `seen` are history variables: who was told of a turn since it last got the baton, and the turn of
the last event taken for a participant. Left out: `last_seen` and staleness (reported, never acted on), the
note (it travels with `from`), the session's id, task and pattern. Requests that are refused change nothing
and are no steps; a join of an interrupted session touches no shared state either.

### Runs

| Run | Instance | Shows |
|---|---|---|
| `rally_pair` | 2 members, a stranger, 3 connections, 4 turns, symmetric connections; all the lists `createRallySession` must refuse | all safety properties, the order of events, and `Rally` implements `Baton` |
| `rally_live` | 2 members, 2 connections, 3 turns, fairness | interruption ends every handler, and a waiting holder is told, unless a client that does not read holds it up |
| `rally_leak` | violation | a failed header flush leaves a registration behind |

Three connections for two participants are the least with which one participant has an old handler, a new one
and somebody else to pass the baton; four turns let the baton come back to a participant whose first event is
still unread. With two members round-robin and `handoff_to` never differ; that they are right for any list is
proved. Deadlock is not an error: a session that is interrupted, or whose clients are gone, stops.

*Fairness* is weak fairness of each handler's own steps and of the closing loop: the Go scheduler runs a
goroutine that can run, and the frames of events and of the close sentinel are written under a deadline
(`sseWriteDeadline`). It is strong for taking an event: the heartbeat leaves the select and comes back, so that the
event is ready again and again rather than all the time, and Go picks among the cases that are ready at random.
Nothing is assumed of clients, timers or handoffs, and nothing of two flushes (`FlushStep`): that of the headers sets no
deadline, and that of a heartbeat comes after its deadline was cleared. A client that is connected and does not read
may hold them for ever. `InterruptDrains` and `HolderHears` are therefore for connections whose handler is again and
again outside of them (`ClientsRead`), which is what clients that read, or go, amount to.

### What was found

* `RegisteredMeansConnected` fails. `handleRallyBaton` registers the channel, unlocks, and returns without
  `cleanupStream` if the header flush fails. The participant cannot join again until the session ends.

The model shows more, which has no run of its own. The heartbeat sets the deadline, writes into a buffer, clears the
deadline and then flushes (`rally.go:453-461`), and the server has no `WriteTimeout`: the handler of a client that does
not read stays there, also when the session is interrupted, although `sseWriteDeadline` (line 26) is to keep a stuck
client from blocking it. Without `ClientsRead` both properties of `rally_live` fail for that reason. And the event of
a handoff to a participant whose channel still holds the event of an earlier turn is dropped (`TrySend`). The holder is
woken, which is what `HolderWoken` says, but with the older turn number, sender and note.

### Proofs

`RallyProofs` proves, for any set of names, connections and any bound on turns: `TypeCorrect`, `ChannelsSafe`
(`ReadersSafe`, that is `ChannelSafety` and `OneReader`), `OneBaton` (`BatonTruth`: `BatonConsistent`,
`HistoryIsChain` and `EventsTruthful`), `Delivery` (`HolderWoken`), `InOrder` (`ReceivesInOrder`), `ClosedIsSeen`
(`JoinSeesSentinel`: `rally_join` finds its channel closed only after a sentinel, so that its early return there
leaks nothing) and `Refinement` (`ImplementsBaton`). They assume `RallyAssumption` only: the three "nothing" values are
not names, connections or events, and requests are sequences of names.

`ClosedIsSeen` is inductive with the types. The others rest on one inductive invariant, `IInv`, which TLC checked first. The properties alone are not inductive:
that `cleanupStream` deletes the caller's own registration (`OneReader`) needs that two handlers never wait for
the same participant, even in an interrupted session (`ReadersDistinct`), which in turn needs that a registered
channel belongs to the participant it is registered for, unless its handler leaked it (`StreamsOwned`). That
round-robin never returns the holder (`NextIsOther`) needs that the list was checked when the session was
created (`ListValid`). `ReceivesInOrder` needs that what waits in a channel is not older than what was seen
(`PendingInOrder`). The steps of a single handler are proved once, through `LocalStep` and `LocalEvents`; each
step that changes the session has its own lemma.

## 4. Ledger

`Ledger` is the file of one cycle, `ledger.jsonl`, with the processes that append to it. An entry is the hash of
its predecessor and its own; hashes are numbers given once, which is what a hash without collisions is. What an
entry says, and its time, play no part in the chain.

| Model | Code (`src/internal/cycle/ledger.go`) |
|---|---|
| `file`, `end` | the lines, and whether the last one has its newline |
| `lastHash[p]` | `ledgerLocks` of process `p`: no entry, or `ledgerLock.lastHash` |
| `Load`, `ReadLastHash`, `LoadOrStore` | the three parts of `lockForLedger`; no lock is held between them |
| `Write`, `OpenFails`, `WriteFails` | the locked rest of `Append`, and the ways it returns an error |
| `Restart` | the process ends or dies, also in the middle of a write |
| `SoleWriter` | the comment at line 38: one active writer per cycle across processes |

`SoleWriter` is an assumption on the processes, taken from the code's own comment; goroutines of one process
are free. `O_APPEND` onto a line without newline makes one line that does not parse (`Extended`).

The run is part of `disk` (section 9): one daemon, 3 goroutines, 4 entries, failing and torn writes, restarts.
`ChainIntact`: the chain verifies up to the first damaged line. `NewcomersRefuse`: a daemon restarted over a
damaged file appends nothing. `MaxHashes` bounds the entries. Three goroutines are one more than needed for a
late `LoadOrStore` to meet an entry that was stored *and* advanced; four entries leave room for a tear before,
between and after them.

*Observed*: the model with a second process is not run, because the code rules it out, but the rule is weaker than
what is needed. A process never reads the tail again after its first append. When a daemon has appended, a
whole `cycle run --once` pass comes and goes, and the daemon appends again, its entry has the same predecessor as
the first of the pass, and the ledger no longer verifies, although the two were never active at once (the comment
at lines 36-40 asks for no more, and the one at lines 80-84 has the tail on disk as the predecessor).

*Proved* in `DiskProofs`, for any number of goroutines and entries: `LedgerTypeCorrect` (for any processes),
`ChainKept` and `DamagedIsLeft`, both for `OneProcess`: they are false for more. The
invariant behind `ChainKept` says that what a goroutine has read in `readLastHash` is still the tail as long as
it could still be stored (`ReadIsTail`), because nobody writes before the registry has an entry
(`LockedIsStored`), and that the registry is the tail of a whole file (`RegistryIsTail`).

## 5. Headless sessions and A2A tasks

`Turns` is one session. Runners poll `next` (each run of `handleNextTurn` is a member of `Polls`) and post to
`turn` (`Posts`); A2A clients subscribe (`Subs`), cancel, or make the session in the first place. Anybody may
call anything at any time, so the model does not rely on runners that behave.

| Model | Code |
|---|---|
| `turnCount used dryRounds lastFrom lastResp terminal` | fields of `sessionState`; `terminal` is the reason, or `Open` |
| `pending` | `pendingReqs[id]` |
| `notify`, `toClose` | which notify channel is current, and the replaced ones not closed yet |
| `a2aSubs subBuf subClosed` | the subscribers' list, what is in their channels, which channels are closed |
| `log` | the records of `log.jsonl` |
| `handleCreateSession`, `handleA2ASend` | the two ways to make a session; the second has no scratch file |
| `PollStart` ... `PollTimesOut` | `handleNextTurn`: one action per way through the locked part, and the select |
| `PostTurn`; `AppendTurn`, `PostFails`, `SyncFails`; `Finish`; `CloseNotify` | `handlePostTurn`: first locked half, the transcript, second half, close after the unlock |
| `NextRole`, `roundRobin`, `slot` | `router.Next` |
| `IsExhausted`, `Matches`, `Evaluate` | `Budgeter` and the exit `Evaluator` |
| `Cancel`, `Subscribe`, `SubReceives`, `SubEnds`, `SubLeaves` | `handleA2ACancel`, `handleA2ASendSubscribe` |

`endedAt` is a history variable. An answer is what the broker looks at: self-evaluation, done, handoff, whether
it brings an artifact not seen before, and tokens. Deadlines may have passed or not and a stuck pattern may be
there or not (`late`, `stuck` are free). `panics` remembers panics: one under `s.mu` leaves it locked for good
(`Unlocked`), because the handlers unlock by hand and `net/http` recovers. Not modelled: the scratch file's
contents, and that a restart of the broker forgets all sessions.

`Faults` says what may go wrong with a post: `"client"` (the request's context ends, which fails `Append`,
`Replay` and `Evaluate`) and `"disk"`. Polls and subscribers may always go away. `Replay` reads without the
lock that `Append` writes under; that it may meet half a line is one of the failures of `PostFails`.

| Run | Instance | Shows |
|---|---|---|
| `turns_faults` | 2 roles, 2 polls, 2 posts, 3 turns, 3 tokens, all faults, `fake-demo`'s conditions | `TurnsBounded` (within the budget, at most one turn after the end), `TurnsDistinct` |
| `turns_clean` | 2 polls, 2 posts, 1 subscriber with one place, 3 turns, no faults, no shell condition | `NoSleepingRole`, `EveryTurnLogged`, `ExhaustionEnds`, `SubsReleased` |
| `turns_panics` | violation: 1 poll, 1 post, 1 subscriber, 2 turns | `NoPanics` |

Two polls and two posts are enough for every pair of handlers to overlap, also two of a kind; three turns let a
post of turn 2 overtake the second half of turn 1 with one more turn to come. `SubCap` is 1 where the code has
4, so that a full channel, where events are dropped, is reached. Deadlock is not an error: when a poll of an A2A
task has panicked, everything stops. There is no fairness here; that a poll which should go on is always woken
is the invariant `NoSleepingRole`.

### What was found

* `NoPanics` fails: a poll of a session made by `SendMessage` dereferences a nil scratch manager under the
  broker's lock, and the whole broker stops.

The model shows more, which has no run of its own. `Evaluate` (`exit.go:67`) returns at the first condition that
gives an error. In the broker shell predicates are disabled, which is such an error (line 108); `tests_pass` is not
skipped, as `docs/user-manual.md:206` says, so that in the presets `pair-review` and `solo-ralph` the conditions
after it never end a session (`docs/feature-spec.md:270`): with a shell condition first `ExhaustionEnds` fails. When a
client goes away after its turn was counted, `Append` refuses to write for a request whose context has ended
(`PostFails`), and the turn is in no record, though `DESIGN.md:228` has every turn in the log: with that fault
`EveryTurnLogged` fails. A post under way when a task is canceled replaces the
reason `canceled` by an exit condition's (`Ruled`). A subscriber that leaves after its channel was
closed closes it again (`SubLeaves`; `SubsOpen`, which is proved, says that the other direction is safe: nobody
else else touches a channel that a subscriber closed). `last_writer_wins` keeps the writer for one turn only
(`slot`), where feature-spec.md's AC-F6.3 has it kept until a handoff.

### Proofs

`TurnsProofs` proves, for any handlers, roles, routing, exit conditions, budgets, answers and faults:
`TypeCorrect`, `BudgetKept` (`TurnsBounded`), `RecordedOnce` (`TurnsDistinct`), `SubscribersReleased`
(`SubsReleased`) and `EndKept`: an ended session stays ended and hands out no turn. They assume `TurnsAssumption`: the preset has at least one role and a known routing, budgets and
tokens are natural numbers, and the "nothing" values are no requests or answers.

`handlePostTurn` checks nothing but that a request is pending, so none of this is inductive alone. The
strengthening says what that request still guarantees (`PendingIsNext`: it is for the turn after the last one
counted, and within the budget; `LastIsPending`: pending at the end, it is the only one to come), that whatever
is recorded or about to be has been counted (`RecordedCounted`), so that a new turn's number is fresh, and that
a post which records has a request in hand (`RequestTaken`). `CoreSteps` reduces each proof to the seven actions
that matter.

Three more hold under the assumptions of the run that checks them, which are constants of the theorems:

* `NobodySleeps` (`NoSleepingRole`), for `Faults = {}`. Whoever waits on the current notify channel read the state
  after that channel was made, and everybody who changes the state replaces the channel in the same critical section;
  the invariant adds that nobody waits on a channel that does not exist yet (`WaitsOnMade`). A post between its two
  halves is the exception that `Quiet` makes: it replaces the channel in the second. A poll that ends the session on
  its budget (`PollExhausted`) replaces none, and needs none: the invariant says that nobody sleeps once it is exhausted.
* `NothingUnlogged` (`EveryTurnLogged`), for `Faults = {}`. The number of turns counted is that of the records and of
  the posts about to record together (`AllAccounted`), which is an equation on the size of a set.
* `LastTurnEnds` (`ExhaustionEnds`), for `Faults = {}`, `MaxTurns > 0` (every preset has a turn) and `TurnsListed`:
  the preset lists `turns_exhausted`, and no shell condition before it. Without the last it is false, which is the
  finding above. `Evaluate` takes the first condition that holds or fails; that there is a first is an instance of
  the well-ordering of the numbers (`LeastNat`).

## 6. Squash

`Squash` extends `Turns` with what `rallish squash` runs against it: a `runner.Loop` for each role, in an errgroup.
A request takes a handler of `Turns` that is free; the answer moves the runner that still waits for it (`Told`).

| Model | Code |
|---|---|
| `runAt` | where `Loop.Run` is: polling, running its adapter, posting, over |
| `conn` | the handler that answers its request; a client that gave up has none, the handler goes on |
| `Launch` | `RunSquash` up to the goroutines |
| `PollNext`, `PollAnswered` | `pollNext`: 410 ends the loop, 204 goes on, anything but 200 is an error |
| `Adapt`, `AdapterFails` | `adapter.Run` |
| `PostTaken`, `PostRefused`, `PostAnswered` | `postTurn`, and the end of the loop when the answer said `done` |
| `PostHeld`, `PostBroken` | the second half of `handlePostTurn` at work, and its returns with status 500, which wake nobody |
| `PollGivenUp`, `PostGivenUp`, `stray` | the HTTP client's timeout, which `isTransient` goes on after; a post that is still on its way |
| `Quit` | the errgroup's context |

The run `squash` has 2 roles, 3 polls and 2 posts (one more poll than runners, for the handler of a poll given up),
2 turns and one timeout; it reaches about 500,000 states. A post may fail after its turn was counted, for its client has
gone (`net/http` then cancels its context, which `Append`, `Replay` and `Evaluate` look at) or for the disk: then nothing
is evaluated, no poll is woken, and a runner that still waits is told of an error. `OwnTurn`: a runner works on its own
turn only while that is pending, so that two adapters never work in the repository at once. `SuccessIsEnd`: success is
reported for a session that ended. `SquashEnds`, under weak fairness of the launch, of every runner and of the broker's
handlers: squash ends, also after a post that woke nobody, since the long poll of the others times out in the broker and
they poll again. No client has to time out or to cancel; a goroutine that can go on does.

The exceptions in these properties are what the model shows. A post that timed out is taken for transient; the
broker may take it later, also for a request of another role, which is why `OwnTurn` asks that no post was lost.
And a runner leaves when its own answer says `done`, although only an exit condition ends the session: the others
may then poll for ever for a turn that is not theirs.

### Proofs

`SquashProofs` proves, for any roles, presets, adapters, numbers of handlers and of timeouts, whatever posts fail:

* `SquashPlaysTurns`: every step of a runner is a step that `Turns` allows or changes nothing of the session. All
  that is proved in section 5 holds of a squash run, and the types of `Turns` need not be proved again.
* `RunnersKeepTurns` (`OwnTurn`) and `SuccessMeansEnd` (`SuccessIsEnd`), by `SquashInv`. A runner learns of its turn from
  an answer it reads later than it was made, so the invariant says what is still true then: who polls is
  connected to a poll of its own role (`Connected`), the pending request is for the role whose turn it is
  (`PendingIsDue`), and a post that goes on without its client, when another runner's error has cut it off, is for the
  turn still pending and of a runner that has ended (`StrayIsDue`). `DoneWhy` keeps the reason for which each
  runner was done.

They assume `SquashAssumption` beside `TurnsAssumption`: polls and posts are different handlers, and `NoConn` is none.

## 7. Autonomous cycles

`Cycle` is one cycle with everything that works on it: requests to step, to halt and to orchestrate it, served
by the daemon at once; the goroutine an orchestration leaves behind; and `cycle run --once` passes, started by
cron or by hand, which are processes of their own. They share the state file, the ledger and, in the daemon, a
copy of the state. No lock is held over more than one access to either.

`Seal` is what the reviver guard promises: while the cycle is sealed nothing is let in, and only what was let in
can lift the seal. The refinement mapping takes the seal from the ledger (`Sealed`) and the workers from where
the processes are (`Admitted`).

| Model | Code |
|---|---|
| `file` | the state file; `NoState` when it is removed |
| `cache`, `synced`, `orchestrating` | `states`, `syncs` and `orchestrating` of `cycleStore`, for this cycle |
| `ledger` | the entries some decision looks at: `cycle_halted`, `validation_green`, `cycle_completed`, `agent_turn`, `gate_failed` |
| `clock`, `expired` | milliseconds, as far as `updated_at` compares them; whether `max_duration_minutes` have passed |
| `StepRefresh` ... `StepPut` | `handleStepCycle`, a step for each access to something shared |
| `HaltGet` ... `HaltClose` | `handleHaltCycle` |
| `OrchGet` ... `OrchFlag`; `RunGuard`, `RunRead` | `handleOrchestrate`; `MultiAgentOrchestrator.Run` |
| `PassRead`, `PassGuard`, `PassBare`, `PassAgents`, `PassSealing` | `runCycleOnce`, `haltOnce` |
| `RunCheck` ... `RunSave` | `RunOnce` with `Driver.Step`, for the goroutine and for a pass with agents |
| `GetCycle` | what the handlers that only look do to the copy |
| `DaemonRestart`, `PassDies` | the process ends or dies anywhere |

`answered` is a history variable. A state is whether it has an ID, is halted and has a goal, its completed
cycles and its stamp. `Execute` passes or fails freely. `Stuck` may find
something as soon as there are `StuckAfter` turns or failed gates. `validation_green` and `cycle_completed` are
appended in one step, because nothing that is decided tells them apart. Creation is the initial state: nobody
knows the ID before it has answered. `Driver.Run` is left out (only tests call it). Events are in `Watch`, what the
gates do in `Gates`, what `Stuck` finds in `Audit`, and the backup file in `StateFile`.

| Run | Instance | Shows |
|---|---|---|
| `cycle_work` | one step, halt and orchestration, used again and again; 2 cycles, 1 turn, stamps up to 2, no faults | `ImplementsSeal`, `GoneStaysGone` |
| `cycle_faults` | one halt, two requests to orchestrate, one pass; failing writes, unreadable ledger, deaths, a time limit | `OneOrchestrator`, `CeilingHolds` |
| `cycle_zombie` | violation: one halt, one orchestration, no faults | `HaltSticks` |

`MaxLedger` is a bound on what may *start*: work under way always ends, so the ledger grows to twice that and
more. With 2 entries a halt, a green after it and another halt are reached, each by any process. The thresholds
of `Stuck` and the ceiling are scaled down to 1 so that they are met; symmetry is of the orchestrations only. One
process of a kind is enough for the kinds to meet, and two orchestrations for the flag; that nothing depends on
the numbers is proved. Deadlock is not an error: there may be nothing left to do. There is no fairness.

### What was found

* `HaltSticks` fails. `Run` looks at the ledger once. A halt removes the state file so that nothing is
  resurrected; a running orchestration reads the missing file as an empty state, which is not halted and has no
  limits, and goes on: another agent turn, and `validation_green` when the gates pass, which lifts the seal. The
  run has no faults and one halt. A step under way when the halt comes lifts the seal in the same way.

The model shows more, which has no run of its own. A gate that fails in a step, or in a pass with agents, halts
the state but records no `cycle_halted` (`StepRecord`, `RunStep`), although
`docs/runbook-autonomous-work-harness.md:86` says a halt appends one; as a step looks at the ledger and not at
`halted`, the next step of the halted cycle runs, ignores that `CompleteCycle` refuses, and records
`validation_green` and `cycle_completed`. A step does not look at `max_cycles` either. And a copy in the daemon
with a later stamp hides a halt that an overlapping pass has written.

### Proofs

`CycleProofs` proves, for any handlers, orchestrations and passes, any limits and with all faults:
`TypeCorrect`, `GuardImplementsSeal` (`ImplementsSeal`), `HaltHolds` (`SealHolds`), `NoZombies`
(`GoneStaysGone`), `OneGoroutine` (`OneOrchestrator`) and `CeilingKept` (`CeilingHolds`, for a finite set of passes).
They assume `CycleAssumption`: the four kinds of
processes are disjoint, the limits are natural numbers and `NoState` is no state.

The argument for the seal has two halves. About the ledger: appending `cycle_halted` seals, `validation_green`
lifts, anything else changes nothing (`SealSteps`, from the definition of `LedgerSealsResume` over all
sequences). About the processes: a process gets inside only at one of the three guards, in a step in which the
ledger is not sealed, and the entries that lift the seal are appended from inside (`SealStep`, a lemma for each
kind of process). `HaltHolds` and `NoZombies` follow from the abstract step. The type invariant carries the
weight of where a process may be and what it has in hand there (`Places`, `Holding`). `OneOrchestrator` is not
inductive; it needs that the flag is set for as long as a goroutine works (`FlagHeld`).

`CeilingHolds` is not inductive either: a runner looks at the ledger, runs its agent, and only then records the turn.
`CeilingInv` counts the turns recorded and those under way together. Whoever begins one has found the ledger below
the ceiling, and there are at most as many under way as passes and one goroutine (`FewInTurn`, from
`OneOrchestrator`); recording moves a turn from one side of the sum to the other (`TurnsCounted`); whoever fails, dies or
is restarted only makes it smaller.

## 8. Event streams

Two kinds of streams stay open in the broker beside the batons of section 3. They have nothing in common but the
run: `MCStreams` chooses in the first state which of the two a behaviour is about.

### MCP transport

`Mcp` has two kinds of clients. An *agent* is `rally mcp-agent`, which comes with rallish: it opens a stream,
initializes, calls one tool and ends, with one request at a time. A *host* is any other MCP client, which may post
without reading.

| Model | Code |
|---|---|
| `sessions`, `respCh` | the manager's sessions, and `respCh` of each |
| `OpenStream StreamWrites StreamCloses` | `handleMCPSSE`: create, its select, the deferred `remove` |
| `handlers` with `LookedUp NotFound DispatchMCP SendResponse` | `handleMCPMessage`: the locked look-up, the tool, the send without a way out |
| `ReadEndpoint Post Answered Skip` | `readEndpoint` and the two halves of `call` |
| `GiveUp` | the command's timeout, or a signal |

Safety: `ToolOnce` (a tool, which passes the baton, runs at most once for an agent, and exactly once when the agent
reports success) and `RoomToAnswer` (no handler of an agent ever blocks). Liveness: `AgentEnds`.

### Events of a cycle

`Watch` is the hub of one cycle: `handleCycleEvents`, which sends the state, subscribes and then forwards, with a
step and halts that feed it.

| Model | Code |
|---|---|
| `events`, `channel`, `closed` | `cycleStore.events` and its channels |
| `mem disk synced sealed` | the store's copy, the file, `syncs`, the ledger's seal, as far as they decide what is sent |
| `Snapshot Subscribe Forward Drained Leave` | `handleCycleEvents`, in its order |
| `StepGet` ... `StepBroadcast` | `handleStepCycle` |
| `HaltGet` ... `HaltBroadcast`, `CloseAll` | `handleHaltCycle`, which looks its `StateFileSync` up once, if there is one (`HaltUnsynced` if not) |

Safety: `ListedOpen` (nothing is sent on a closed channel, whatever overlaps) and `HaltSeen` (who is cut off without
a halt event had no room for it, or subscribed between broadcast and `closeAll`). Liveness: `HaltEndsStreams`.
Which of two copies of a state is later is left open here; `Cycle` has the stamps. Writes never fail here; in
`Cycle` they may.

### Run and proofs

`streams`: one agent beside a host with 3 posts over channels of capacity 1, and 2 streams with one step and two
halts over channels of capacity 1. The capacities are 16 in the code; with 1 they fill up. Two halts are the least
for `closeAll` to meet a stream that subscribed after the first. *Fairness*: every goroutine of the broker that
can go on does, and so does an agent; nobody has to send a request, to leave or to time out, and hosts need not
read. That a tool ends is `Rally`'s matter.

`StreamProofs` has the proofs of both. Of `Mcp`: `McpTypeCorrect`, `ToolRunsOnce` (`ToolOnce`) and `NeverBlocks`
(`RoomToAnswer`) for any clients and any capacity. Neither is inductive: they need that an agent has one request in flight at a time, which is in a
handler, in the channel, on the stream or read, but never in two of them (`FlightInv`, `WireInv`), and how often the
tool has run for each place it may be in (`CountInv`). Of `Watch`: `WatchTypeCorrect`, `BroadcastIsSafe`
(`ListedOpen`) and `HaltIsSeen` (`HaltSeen`) for any streams, steps and halts, from what each handler has in hand
(`HeldInv`), which streams are listed or closed at each place (`HubInv`), and that a closed channel without a halt
event has its reason (`NoticeInv`).

### What the model shows

* A host that fills its channel and goes away leaves handlers that block for ever on it (`SendResponse` is never
  enabled again). `RoomToAnswer` is about agents for that reason.
* An agent whose timeout ends the command after the tool ran reports an error although the baton was passed.
* A stream that ends after `closeAll` closes its channel again (`broker/cycle.go:159`): `unsubscribe` panics, and
  `net/http` recovers and aborts the connection (`aborted`; `Drained` always panics, at the stream's end).
* A stream that subscribes after `closeAll` waits until its client gives up, and a halt between the first event and
  the subscription is not seen (`broker/cycle.go:479`).

## 9. What is kept on disk

`MCDisk` is one run over five modules that have only the directory in common: `Daemon`, `Ledger` (section 4),
`StateFile`, `Audit` with `Merkle`, and `Gates`. `part` says which of them a behaviour is about; it is chosen in the
first state and never changes, and what the others' variables are is fixed.

### Daemon life cycle

A daemon announces itself by `port`, `rallish.sock` and `socket`; commands read them, probe them and remove what
does not answer. Each system call is a step. A file is truncated and then written; who has a file open goes on
writing to it after it was unlinked (`fds`). A daemon may be killed anywhere.

| Model | Code |
|---|---|
| `StartDaemon` ... `WritePointer` | `RunDaemon`: listen, port file, single-instance check, socket, pointer |
| `Shutdown` ... `RemovePort` | the end of `RunDaemon` |
| `ReadPointer` ... `DropPort` | `resolveBrokerClient` |
| `Spawn Retry StillAbsent GiveUp` | `ensureBrokerClient` |
| `AwaitPort CreateSession CreateSessionNowhere` | the search of `RunSquash`, and the first request to the port it read |
| `daemonCheck` | doctor's check |

`serial` is chosen at the start: either everything may overlap, or users do one thing at a time (kills still come at
any moment). Under both, `CleanExit`: unless one was killed, no file is left when no daemon runs. `Reachable` and
`CallsSucceed` are for `serial`: a serving daemon is unique, found, and reported by doctor; a command fails only when
a daemon was killed meanwhile, when it starts none and none was there, or, of squash, when it read an empty port file. Without `serial` both are false, as the code's
checks are separate from its actions: two daemons may pass the single-instance check before either has bound the
socket and then both serve, and a command may remove a file that was written after its probe.

The empty port file is what the model shows of squash (`docs/feature-spec.md:81` has it reach the daemon that it
starts): `RunSquash` waits for a port file that can be read, its own daemon truncates that file before it writes it, and
what was read is not probed (`squash.go:101-113`). `ensureBrokerClient` probes, so it
takes an empty file for a stale one and looks again.

`DiskProofs` proves `DaemonTypeCorrect` and `NothingIsLeft` (`CleanExit`) for any number of daemons and commands. The
invariant, `OwnerInv`, says that while none was killed every file has a daemon that has not come to its removal yet; a
daemon that is refused leaves its port file to the one that answered its probe.

It also proves `ServingIsReachable` (`Reachable`) and, for `MaxTries >= 2` (`ensureBrokerClient` tries 20 times),
`CommandsWork` (`CallsSucceed`). `SerialInv` follows the one process that is under way: there is at most one
(`OneAtATime`), each file belongs to the daemon that serves or starts (`FilesOwned`), and a command that has turned away
from the pointer or the port found none serving (`NoneWhenTurned`). `CallInv` adds what a command that was not disturbed
can count on: the daemon it started starts or serves, and once it serves the next look finds it (`Undisturbed`,
`Awaits`); and `ProbedInv` that a squash, which starts a daemon only where no port file is, meets no file but that
daemon's, which is empty or names who answers (`Probed`). With one try that is false, as the bounds below say.

### State file

`StateFile` is `StateFileSync`: `Write` takes its process's mutex, reads what is there, renames a temporary file over it
and then truncates and writes the backup. `Read` takes no lock, and tries the backup when the file does not parse. A
content is the number of its commit.

`BackupEarlier`: the backup is older than the file, also with two processes that write at once. `ReadFresh`: no
moment of a `Write` is taken for a missing file, and with one process what is read is at most two commits old, one
more for each `Write` that was cut short. `Recoverable`: after two commits one damage is survived. The instance has two
processes, three writers, a reader, three commits, one damage and one kill: a commit more than the property speaks of.

`DiskProofs` proves all of them for any numbers: `FileTypeCorrect`, `BackupIsEarlier`, `ReadsAreFresh`,
`DamageIsSurvived`. `FileInv` orders what is in hand: contents are earlier than the count of commits (`CommitInv`),
what a `Write` has read is earlier than what it commits (`PriorInv`), one writer per mutex (`LockInv`), and with a single
process how far the backup may be behind at each place (`OwnInv`, `LagInv`, `FreshInv`, `SpareInv`).

Observed: the next `Write` after a damage copies the damaged file over the good backup, and `Remove` leaves the backup.

### Audits

`Merkle` and `Audit` hold what is computed from a ledger: `VerifyChain`, inclusion and consistency proofs, `cycle verify`,
`Replay` and both stuck detectors, with the code's loops as recursive functions. A hash is the term it is computed
from. The machine grows a ledger, lets an auditor keep a root, and lets somebody change an entry (`Tamper`), write
the ledger anew from an entry on (`Rewrite`) or cut it off (`Cut`). Ledgers over two contents, up to 6 entries, are
edited: a right edge over one, two and three levels. Ledgers over six contents, which
differ in type, cycle, agent and fingerprint, go up to 4. The thresholds are scaled down to be met. `Replay`'s terminal
mark of a segment is left out.

`AuditCatches`: chain and consistency together accept a ledger exactly if it goes on from what was seen and every
hash is right. `ProofsExact`: proofs verify for their own entry and place and no other. `StuckExact` and
`ReplayFaithful` compare the loops with declarative definitions.

All four are proved for any contents, cycles and agents, any thresholds from two on, and ledgers of any length: `AuditorCatches`,
`ProofsAreExact`, `StuckIsExact` and `ReplayIsFaithful` in `AuditProofs`, on the lemmas of `MerkleProofs`.

- *Recursion.* The library's induction theorems cannot be instantiated, so `MerkleProofs` derives its own from the
  least element of a set of numbers, as statements about sets: `CountUp`, `RankInduction`, and `Recursion`, by which a
  function whose body looks at arguments of lower rank exists. With it every recursive function of `Merkle` is shown to
  satisfy its equation (`TreeHashSteps`, `PathLenSteps`, `EdgeSteps`, `BoundarySteps`, `InclusionPathSteps`,
  `SubProofSteps`): the code's recursions and inner loops end, for every size and index.
- *Hashes.* A tree hash is a word that spells its tree. `PrefixFree` says that none begins another, from the two
  first letters that stand for the prefixes of RFC 6962; so a root determines the leaves of a tree of known size
  (`HashInjective`).
- *Inclusion.* By induction on the leaves, a path leads from a leaf to its subtree's place, and the subtree's hash is
  what comes out only for the right leaf along its own path: in a subtree that does not end the tree (`Inside`), and in
  one that does, where the verifier skips levels (`OnEdge`). `PathLeads` puts them together. `NoForgedInclusion` says
  that, of all paths of whatever tree hashes and all indexes, exactly the path that `InclusionProof` returns is accepted,
  and for the right entry only; `InclusionIsExact` follows.
- *Consistency.* The same induction for two hashes at once (`Within`, `OnRim`), with the seed that is left out of the
  proof when the old tree is a whole left subtree (`Spine`). `VerifyConsistency` does not compare the path's length with
  the one it expects, as `VerifyInclusion` does; `OneLength` shows that it need not: no node has a say in where the loop
  is, so only one length uses the levels up and is not beyond them. `NoForgedConsistency` says that, of all paths of
  whatever tree hashes, exactly the one that `ConsistencyProof` returns is accepted, and exactly if the old ledger is kept,
  for all pairs of sizes; `ConsistencyIsExact` follows.
- *Loops.* What a detector or `Replay` holds after i entries is proved by counting up: the run that ends at i
  (`RunsAlternate`, `RunsReach`), the dry records at the end (`DryTailMeans`), the edges and segments of the first i
  steps (`GraphRight`). `NoProgressMeans` needs that the stamps in the file are in order, and that several may be equal.
- *The machine.* The inductive invariant is `LedgerOK /\ RootOK`: the file is lines in the order of their stamps; its
  hashes rise, whatever was edited (`Rising`), which stands for that no two entries have the same one; a file that was not edited fits;
  and the kept root is the root of a ledger that fits and has the contents of which the auditor is witness
  (`KeptFrom`). `AuditCatches` alone does not say where the root came from. `ChainIsRehash` says that what `VerifyChain`
  accepts is exactly what appending can write.

Observed: `merkle.go:232` says that a tampered leaf fails, which is so only if its `Hash` was changed too: the tree
commits to the recorded hashes. `cycle verify --consistency` takes the old root from the same entries and so never
detects a rewrite; only a root that was kept elsewhere does. Repetition is never forgiven by a green entry.

### Gates

`Gates` is the pipeline of a step over a working tree in which an agent edits, takes back, commits and changes the
branch at the same time. A change is broken (commands fail while it is there), flawed (the scanners object to it) or
new (`git diff` does not show it until it is committed). `Pipeline` is `StandardPipeline`, or the server's own with the
local gates inserted, as in `pipelineForState`; each gate is an action, preflight three and commit two, since their git
commands see different moments.

`CommitsVouched`: what a step commits lands on `main` only if the branch was changed after preflight, and a broken
change is in it only if it was made after the step's tests. The instance has two changes, both flawed, one
broken and the other new, a local gate and one reported violation.

`DiskProofs` proves `OnlyVouchedLands` (`CommitsVouched`) for any changes and any number of local gates, and
`OnePipeline`: the server's pipeline with the local gates inserted is `StandardPipeline`, so that the place of a gate
does not depend on how the pipeline was made (`Places`). The invariant says what a gate's finding is worth later: after
preflight, `main` is checked out only if the branch was changed since (`BranchRead`); after the tests, what breaks them
in the tree, and after `git add` in the index, is late (`TreeTested`).

Observed: preflight requires a clean tree, so what a step commits is always an edit made during that step. Warnings
of the philosophy gate have `Passed` false, which appends `gate_failed` under a green step; three of them trip
`cycle.Stuck`. What an agent reports as violations loosens the comparison of the next scan, which then forgets them. The
driver pins the local gates and compares them with the same list (`driver.go:187`), so that tampering is not seen.

### Bounds

`disk` reaches about 1,200,000 states. Two daemons and one command are the least for a second daemon to be refused,
to take a socket, or to be started by a command beside one that stops; processes are used again (`Recycle`). `MaxTries`
is 2 for 20; with 1 a command may look while the port is being written, remove it, and fail. Deadlock is not an
error: a ledger that is full or a cycle without changes stops. There is no fairness.

## 10. What is only model-checked

Out of the prover's reach are liveness under fairness (`InterruptDrains`, `HolderHears`, `SquashEnds`, `AgentEnds`,
`HaltEndsStreams`) and anything with ENABLED. The findings are counterexamples, which TLC shows. Of the audits, that
hashes do not collide is part of the model (`ChainHash`, `TreeHash`) and not proved.

The type invariants are checked as theorems only.

## 11. What is not modelled

`PROJECT.json` lists every part with its status. Left out are those without state of their own: configuration,
presets, skills, terminal output and logging; those that talk to agents' processes: adapters; the classification of
texts by patterns (action and tool-use gates, secret containment, the scanners' patterns); goal discovery and
`Driver.Run`, which only tests call; the daemon's socket on Windows; and that a restart of the broker forgets all
headless and rally sessions, which are in memory only. `rally new`, `join`, `done` and `status` send one request
and print the answer: what the request does is in `Rally`, how they find the daemon in `Daemon`.
