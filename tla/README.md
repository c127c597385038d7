# A TLA+ verification of mutmuas

mutmuas lets agents on different machines delegate tasks to each other: an agent sends a REQUEST, the node
that owns the addressed agent executes it, and a RESULT comes back, while machines go offline, daemons crash
and messages are repeated. This directory models its core in TLA+, checks the models with TLC on small
instances, and proves the main safety properties with TLAPS for every instance.

Paths such as `node.py:154` are files of `src/src/mutmuas/`, `docs/...` of `src/docs/`.

## 1. The system

| Component | Code | State it keeps | Operations | Talks to |
|---|---|---|---|---|
| Message transport | `hub.py` send/try_publish/flush_outbox, `ledger.py` outbox and inbox, `bus.py`, `node.py` `_outbox_loop`, `_receiver`, `_dispatcher` | rows `out` (queued, sent) and `in` (new, handled), the JetStream stream, the consumer's pending and acknowledged copies | send, flush, publish, mark sent, fetch, ingest, ack, handle, mark handled | one sender node, the NATS server, one recipient node |
| Worker tasks | `node.py` `_on_request`, `_on_cancel`, `_enqueue`, `_runner`, `_execute`, `recover`, `stop`; `hub.py` owner_transition, finish; `ledger.py` update_task | owner row of each task (status, attempts, draft, result), run queue, running tasks, requested cancellations | accept, reject, enqueue, start, deliver, time out, cancel, resume | requester (messages), agent process (tools), ledger |
| Agent tools in a run | `tools.py` report_progress, submit_result, reject_task | none of its own | report, draft a result, refuse | the same ledger, from another process |
| Interactive tasks and the requester's view | `tools.py` accept_task, cancel_task, ..., `node.py` `_on_reply` | requester row of each task | accept, submit, cancel, ask, follow the owner's announcements | both ledgers, by messages |
| Task records | `hub.py` publish_task_record, task_view | one KV record per task | put, merge with the local row | KV store |
| Inbox and notifier | `ledger.py` unseen, mark_seen, `tools.py` inbox, `cli.py` cmd_watch | `seen` flags, the cursor file | read, peek, notify | ledger |
| Results | `node.py` `_result_from`, `_attach_git` | none | choose and downgrade a result | - |
| Worktrees | `worktree.py` | clone and branch per task | create, resume, export, import | git |
| Agent runs | `runtime.py` run, _kill_group; `node.py` `_runner`, the wait_for of `_execute`, `stop` | a process group per run, its deadline, where its runner is | start, read, break off, kill, stop | operating system, event loop |
| Artifacts | `artifacts.py` | objects and their headers, files on every node | publish, put, fetch, verify, unpack | object store, disks |
| Registry and presence | `node.py` start, stop, _publish_cards, _heartbeat, _forget_removed_agents; `hub.py` resolve, remove_agent, is_online; `bus.py` ensure_inbox; `cli.py` add-agent, retire | cards of the node and its agents, mailboxes, the configuration file | boot, put, beat, forget, retire, resolve, send, receive | KV store, server, people who edit the configuration |
| Protocol, ids, configuration, CLI, MCP server, server configuration | `protocol.py`, `ids.py`, `config.py`, `cli.py`, `mcp_server.py`, `server_config.py` | none | parse, validate, wrap | - |

**What is hard here.** The daemon is one asyncio thread with a receiver and a dispatcher per agent, several
runners, an outbox loop and a recovery that all interleave at every await; a CANCEL injects an exception at
whichever await `_execute` has reached. The CLI, the MCP server and the agents' own tools are other processes
that write the same SQLite file. The daemon can be killed between any two transactions. Publishes and
acknowledgements can be lost on either side of the server, and every repeat must be harmless. Messages of one
sender reach their recipient in an order nobody fixed. `PROJECT.json` lists each such hazard at its line.

**What makes each component correct.** Transport: nothing queued is lost, nothing is committed twice, rows are
handled in commit order, at least once, and repeated only by a death. Worker tasks: one runner per task, a
bounded number of attempts, nothing executed after it is closed, one closing announcement queued with the
closing, accepted tasks finished, cancelled tasks closed, refused tasks not run in the life of the daemon that refused them. Requester: its row follows
the owner's. Records and views: never an end the task did not have. Notifier: every message announced, again only
after a death. Results: never better than claimed. Worktrees: no attempt loses work or exports what others did.
Runs: they end, their process does not outlive them, a CANCEL closes them, stop() returns. Registry: a running node
looks online and a stopped one offline, a renamed agent's old name always leads somewhere, mail waits for whoever
comes up. Artifacts: what a fetch returns is what was published.

## 2. Modules

Each component has a module with its state as VARIABLES and one action per operation, an `MC` module with the
symmetry and definitions its `.cfg` files need, and, where something is proved, a `Proofs` module.

```
ReliableMailbox  <-- refined by --  Mailbox      MailboxProofs
TaskLifecycle    <-- refined by --  OwnerNode    OwnerNodeProofs
                 <-- refined by --  Delegation   DelegationProofs
                                    CodeTask     ResultsProofs
                                    Artifacts    ResultsProofs
                                    TaskRecord   TaskRecordProofs
                                    Notifier     NotifierProofs
                                    AgentRun     AgentRunProofs
                                    Registry     RegistryProofs
```

The modules meet in what they promise. `ReliableMailbox` (each queued message is logged once, in an order of
its own, and read from the beginning) is what `Delegation`, `TaskRecord` and `Notifier` take the transport to
be: messages arrive once or, after a death, again, in any order. `TaskLifecycle` (closed once, announced in the
closing step, never changed again) is what requester-side models take an owner to be, and both kinds of owner
are shown to keep it.

**Mailbox** - one sender node, the server, one mailbox. `outbox`/`outRow` and `inbox`/`inRow` are the rows of
the two ledgers, `stream`, `pending`, `acked` the JetStream stream and its durable consumer, `wire`, `replies`
what is under way between client and server. `Send` (Hub.send) and `FlushStart`/`FlushPublish` (flush_outbox)
publish independently; `PublishOk`/`PublishFails` are the two ends of try_publish; `Fetch`, `Ingest`, `Ack`,
`Terminate` are _receiver; `Snapshot`, `Handle`, `MarkHandled` are _dispatcher. Faults: connections go down,
acknowledgements are lost in either direction, the duplicate window and ack_wait expire, the recipient daemon
dies anywhere.

**OwnerNode** - a worker agent's tasks on their node. Ledger rows (`status`, `attempts`, `draft`, `result`), the
dispatcher (`handling`, `step`), the run queue (`queue`, `queued`), the runners (`at`, `on`, `signalled`),
recover() (`recovery`, `snapshot`, `resuming`) and surviving processes (`orphans`). `closings` and `answers` count
what is queued to the requester. A CANCEL only marks a runner as `signalled`; where it lands (`CancelLands`,
`Undisturbed`) depends on the await _execute has reached. `Crash`, `GracefulStop`, `KilledBeforeReject` and
`Restart` end and begin lives of the daemon; `Report`, `Submit`, `Refuse` are the agent's tools, called from its
own process at any time. The start of _execute is one step per access to the ledger (`Admit` looks at the state, `Count` counts
the attempt, `GiveUp` or `ClearDraft` and `Announce` follow): no coroutine of the daemon comes in between, because the
thread is held (`ThreadFree`), but a death does, and so do processes of earlier lives. Three history variables serve the properties only:
`launched` counts the agent processes started for a task, `outlived` is the tasks that had a left-over process when this life began, `dropped`
those whose delivery ended a runner loop in this life.

**Delegation** - requester, interactive owner and its sessions. Calls that read a task in one ledger access and
write it in another (report_progress, submit_result, cancel_task) are two actions; `mail` counts copies of
messages not yet handled; a death inside a handler leaves the message to be handled again. ERROR replies are left out: a
node sends one (node.py:206) only for a message it cannot decode, and every message is validated by the same rules before it
is queued (hub.py:142, 279, 296), so one needs two versions of this code that disagree.

**CodeTask** - one code task over all its attempts. Branches are histories (sets of commits), `base..HEAD` is a
set difference. The clone has a HEAD (`head`), from which the patch is read, and the task's branch (`branch`), which is fetched by its name;
`onBranch` says whether HEAD is on it. One action per git command of Worktree.create, write_patch and import_branch, the result rules
of _result_from and _attach_git, kills between any two commands, and people
who commit, merge and switch branches in the repository. Agents, those of killed daemons and processes an agent left behind
have git in the clone at any time, also during the export: they commit, merge what is in the repository, take commits back (`Reset`), leave
the task's branch and return to it or make it. History variables: `made` is what the agents of all attempts
committed before the last one was done and did not drop, `taken` what they merged or began the branch with, `export` what was done in the
clone since summary() - nothing, commits and merges, or anything else.

**TaskRecord** - the KV record and the merged view. Publishers (coroutines and processes of the owner's node)
move the row, read it and put it in three steps; the requester handles announcements and looks, reading its
row in one step and the record in the next. Rows carry `updated_at`, and the requester's clock is off by `Skew`.

**Notifier** - an agent's inbox rows by rowid, the dispatcher that makes them visible in order, sessions that
mark what they read as seen, and the notifier with its cursor file: peek, notify, cut the file off, write it.

**AgentRun** - one runner loop and the runs of its agent's process, at the grain of one resumption of a coroutine.
`exec`, `run` and `runner` are where _execute, SubprocessRuntime.run and _runner are; `execCancel`, `runCancel`,
`runnerCancel` the cancellations they have not met yet. `Deadline`, `ExecCancelled`, `ExecKilled` and
`ExecInterrupted` are the branches of asyncio.wait_for, which runs run() as a task of its own up to Python 3.11 and
inline from 3.12 on (`python`; pyproject.toml allows both); `Conclude` is what _execute makes of its outcome.
`RunBreaks`, `Escalate`, `KillGivesUp` and `KillInterrupted` are run()'s `except BaseException` and _kill_group.
OwnerNode sees all of this as one place, "running": what is coarse there is fine here, and the other way round.

**Registry** - one node, from `agent-node add-agent` to `agent-node retire`. `file` is the configuration file and `cfg` what the
daemon loaded of it; `stage` is where start() or stop() has got to; `card` and `inbox` are what the server holds. Cards
have an age instead of a timestamp, and `Tick` makes everything older. `round` is a call of _publish_cards, of which two
can be under way: that of start() or stop() ("main") and the heartbeat's ("beat"). Its age is the time since it
read the clock, and every card it puts is that old from the start. `job` is a call of remove_agent, from
_forget_removed_agents ("start") or retire, in its three awaits: `DropCard`, `InboxPending`, `DeleteInbox`. `Send`
goes through `Resolve`, or takes the name as it is when the registry cannot be reached. What Mailbox does with a
message in many steps is one step here (`Receive`); what is fine here - who has a mailbox, and since when - does not
exist there.

**Artifacts** - processes on nodes with disks of their own publish one file or folder, from any directory to any key, and
fetch it into any directory. The content of a file is a set of pieces and serves as its checksum. `Publish` takes size and
checksum, `PutOk` reads the file again (`Uploaded`: a mix of two versions if it was rewritten meanwhile); `FetchObject`
reads the header and opens its target, `GetOk` writes what the key holds by then over what others put there
(`Written`), and compares with header and reference (`Verified`). `FetchFile` is a file:// reference.

## 3. Runs

Bounds are CONSTANTS named in each module and given in the `.cfg`. "Violated" runs show a disagreement between
the code and what it is said to do (section 6).

| Run | Checks | Instance | Why it is enough |
|---|---|---|---|
| mailbox_safety | types, NothingLost, HandledOncePerLife, ImplementsReliableMailbox | 2 messages, 2 faults | every race needs two messages or one message and one repeat; a repeat after a repeat is a second fault |
| mailbox_live | EventuallyHandled | 2 messages, one refused, 1 fault | one failing row in front of another; every kind of fault on the way |
| owner_lives | types, OneRunnerPerTask, AttemptsBounded, OpenTaskIsInHand, NoReexecution, ImplementsTaskLifecycle | 1 code task sent twice, 2 runners, 2 attempts, 3 restarts, CANCEL, orphans, raising deliveries | 3 restarts exhaust max_attempts = 2, see the give-up and a death just before it; two runners can meet on one task; every exception of OpenTaskIsInHand and NoReexecution is reached |
| owner_done | DeniedRunsOnlyAfterDeath, AcceptedGetsDone | a refused task and a code task with a CANCEL, 1 runner, 2 attempts, 1 restart | tasks wait for each other; recover() works on one while the other is dispatched; the restart can fall between creating a task and refusing it |
| owner_cancel | CancelIsHonoured | 1 task, no restart | violated |
| delegation | types, RequesterAgrees, ImplementsTaskLifecycle, RequesterLearns | 2 tasks, one refused, 2 sessions, 4 calls, 1 death | accept and two concurrent closings, or a closing and a withdrawal, fit in four calls |
| codetask | types, PatchIsOnBranch, WorkIsDelivered, OnlyNewCommits | 2 agent commits, 1 other, claims "complete" and none, 2 kills, 1 switch, 1 reset or checkout in the clone | commits and merges before and between the commands of the export, by this agent or an orphan; base, HEAD and branch see different histories; three attempts; the other claims take the path of these two |
| taskrecord | types, ViewIsTrue, HandledIsSeen | 2 publishers, 2 ms, 1 failure | crossing puts, equal and different timestamps |
| notifier | types, NoneSkipped, RepeatedByDeath, EventuallyAnnounced | 4 rows, pages of 2, 1 death | two pages, rows handled behind younger ones, a death in each phase of a page |
| agentrun | types, DoneIsSettled, RunEnds, CancelLands, StopEnds | 2 tasks, both kinds of wait_for, 1 CANCEL, stop() | deadline, CANCEL and stop() break one run off three times; the second task is taken after, or stays behind |
| registry | types, PresenceIsTrue, RemovesOnlyGhosts, MailArrives, ComesOnline | 1 agent, a second that it is renamed to or that joins it, 1 message, period 1, no latency, 3 misses, 2 events | two events are an edit and a restart, two failed puts, or a retire and a death at any point of a start; the card can reach every age up to the limit |
| artifacts | types, FetchedIsPublished | 2 processes, 2 nodes, 2 directories, 3 pieces, 1 key, cap 2, 6 events | an edit, a publication, a fetch, a second edit and publication during the download, and one more fetch or failure |

The registry run takes puts to be instantaneous; the same properties hold with Latency = 1 and Misses = 0 (1.6 million
states, some minutes), and the theorems below are for any latency.

Each of the properties that hold has a mutant in `PROJECT.json`: a changed definition, written next to the one it
replaces, that breaks it in the same run.

**Deadlock.** Runs set CHECK_DEADLOCK FALSE because the bounded systems really stop: all messages are handled, all
tasks closed, all faults used up, and the daemons wait. That they do not stop too early is what the liveness
properties say.

**Fairness.** `Mailbox`: each loop of the daemons goes on (weak fairness of the flusher, the receiver and the
dispatcher as wholes, not of their branches), connections come back and ack_wait runs out; what a server does
with a request it has is its own. `OwnerNode`: dispatcher, recovery and each runner go on; agents, requesters,
crashes and orphans have no fairness (an agent may do nothing; its deadline, part of the runner, ends it).
`Delegation`: messages get handled; nobody has to call anything. `Notifier`: dispatcher and notifier go on,
sessions need not look. `AgentRun`: the event loop resumes what can go on and fires its timers (the deadline,
the two waits of _kill_group); processes need do nothing, not even end on SIGTERM. `Registry`: time passes, the
client reconnects (it retries for ever), the heartbeat loop and the receivers go on; nobody has to start, stop, edit or
retire anything. `Artifacts` has no liveness: a transfer that hangs hangs. Faults are bounded by their
constant, so that "eventually" means after the last one.

## 4. Proofs

For every value of the constants (any sets of tasks, messages, sessions, any numbers of faults and deaths),
from the ASSUMEs of the modules:

| Theorem | States | Argument |
|---|---|---|
| `MailboxProofs!TypeCorrect`, `NothingIsLost`, `HandledOnce`, `HandledForGood`, `KeepsReliableMailbox` | TypeOK, NothingLost, HandledOncePerLife, HandledIsFinal (no run checks it), ImplementsReliableMailbox | `CopiesInv`: an acknowledgement on its way, a sent row and an id in the window have a copy in the stream, and the consumer has put away only copies committed or refused. NothingLost alone says nothing of the acknowledgement that makes a row sent. `DispatchInv`: the snapshot holds new rows, a death costs at most one run. The refinement rests on `RowsCorrect`: `RowsInv` says that rowids number the committed messages 1..n, one row each, and `PrefixInv` that the rows before the one the dispatcher works on are handled, which holds because its snapshot is the new rows in order and nobody else marks a row. The abstract log is then the table read by rowid (`LogEntries`); a commit appends to it (`IngestCommits`), marking a row moves the consumed prefix by one (`MarkHandledConsumes`), and every other step stutters |
| `OwnerNodeProofs!TypeCorrect`, `OneRunner`, `KeepsLifecycle`, `AttemptsAreBounded`, `ClosedIsNotStarted`, `DeniedStaysOut`, `OpenTasksAreInHand`, `ClosingIsAnnouncedOnce` | TypeOK, OneRunnerPerTask, ImplementsTaskLifecycle, AttemptsBounded, NoReexecution, DeniedRunsOnlyAfterDeath, OpenTaskIsInHand, TaskLifecycle's ClosedOnce | OneRunnerPerTask is inductive with TypeOK; `PromiseInv` adds that results belong to finished tasks and that whatever the dispatcher, recover() and runners hold has a row; `AttemptsInv` says that between count and launch a task's attempts are one ahead of its launches, and that attempts beyond the maximum are paid for by a death each, or by a runner about to give the task up (`PlacesStep`, `SpentStep`: where a runner in the places before the launch comes from and goes). NoReexecution rests on `Accepted` (what is queued, or will be, is no longer PENDING, so that a CANCEL of it finds a runner or nobody) and `StartedOpen`: from the look at the state to the launch the task is open, or a process of an earlier life closed it.`DeniedInv`: in the daemon's first life nothing of a refused task is in the queue, in recover()'s hands or in a process. `HandInv`: a runner that was cancelled has its cancel on record, and the record goes only when it closes the task (`WhoForgets`); lemmas `WhoOpens`, `WhoQueues`, `WhoLetsGo` say which steps make a task open, queue it and let go of it |
| `DelegationProofs!TypeCorrect`, `RequesterFollows`, `KeepsLifecycle`, `ClosingIsAnnouncedOnce` | TypeOK, RequesterAgrees (RowIsTrue and ClosingIsTold), ImplementsTaskLifecycle, TaskLifecycle's ClosedOnce | `AgreeInv`: every closing announcement in the mail tells the state the owner's row has, and closed rows do not move. ClosingIsTold, which is what is left of RequesterLearns without fairness, is inductive with the types: the step that closes a task queues an announcement that closes the row (`ClosingAnnounces`), it waits in the mail until OnReply has handled it (`MailWaits`), and OnReply closes the row, which stays closed (`RowStaysClosed`). `ClosingIsAnnouncedOnce` (here and for workers) follows from the refinement: ClosedOnce is an invariant of TaskLifecycle itself (`PromiseIsKept`) |
| `ResultsProofs!ArtifactsTypeCorrect`, `FetchesArePublished` | StoreTypeOK, FetchedIsPublished (the specification of Artifacts is StoreSpec, so that ResultsProofs can extend it and CodeTask) | `PublishedInv`: the checksum a put will store and the one a get has read were published under that key, and an object, once there, is replaced but never removed. What returns was compared with both checksums after it was written (`GetReturnsPublished`, `CopyReturnsPublished`), so what else was written into the same place meanwhile does not matter |
| `ResultsProofs!TypeCorrect`, `PatchReachesBranch`, `WorkSurvives`, `ResultIsHonest`, `PatchIsNew` | TypeOK, PatchIsOnBranch, WorkIsDelivered, HonestResult (no run checks it), OnlyNewCommits | `ExportInv`: while HEAD is on the task's branch and only grows, what one command of the export found is contained in what the next reads, and the import is skipped only after an empty summary; `WorkInv`: what agents made stays on HEAD until they drop it, because clone and checkout come before any agent, and is in the patch or its base once the patch is written; `HonestInv` relates the result in preparation to claim and exit code; `NewInv`: without switches the repository only grows, so that what is neither an agent's, nor taken by one, nor in the base cannot be on the branch |
| `TaskRecordProofs!TypeCorrect`, `RecordTellsTheEnd`, `ViewTellsTheEnd`, `ClosingIsSeen` | TypeOK, RecordIsTrue (no run checks it), ViewIsTrue, HandledIsSeen (when Skew >= 0) | `TruthInv`: wherever a copy of the row is - about to be put, in the record, in the mail, in the requester's row or being looked at - a closed one agrees with the owner's. `SeenInv`: an open copy was written before the closing was handled |
| `NotifierProofs!TypeCorrect`, `RepeatedOnlyByDeath`, `NothingIsSkipped` | TypeOK, RepeatedByDeath, NoneSkipped | `RepeatInv`: rows past the cursor, or past the batch whose cursor is not written, were announced by dead notifiers only. `OrderInv`, `CursorInv`, `SkipInv`: a handled row has no new row before it, the cursor is where the notifier began or a handled row, and a page is a prefix of what is due (`PageIsPrefix`) |
| `AgentRunProofs!TypeCorrect`, `DoneIsStopped`, `LeftOpenByStop`, `RunsAreSettled` | TypeOK, DoneIsSettled (DoneIsDead and OpenIsLeftByStop) | `BreaksInv`: every pending cancellation and every place of _kill_group has been paid for by a break-off (`breaks`), and two when the run goes on after _execute or is interrupted while it kills; `RunnerInv`: only the runner's own task is under way. DoneIsDead alone says nothing of a run that is being killed. `LeftInv`, for OpenIsLeftByStop, the safety part of CancelLands: a CancelledError pending or raised in _execute is on record as a CANCEL, or stop() has begun, and the task of a CANCEL on record is open only while its CancelledError is pending or raised (`LeftOpen`); nothing but stop() cancels the runner (`StopInv`), and from Python 3.12 on _execute lasts as long as its run (`InlineInv`) |
| `RegistryProofs!TypeCorrect`, `PresenceTrue`, `RenameLosesNoName`, `ReceiversKeepMailboxes`, `OnlyGhostsAreRemoved` | TypeOK, PresenceIsTrue, RemovesOnlyGhosts (RenameIsSeamless and MailboxIsKept) | `RoundInv`: each publisher is at work only where start(), stop() and the heartbeat loop let it. `AgeInv`: when a heartbeat has ended, a card is at most as old as the round that stored it, perhaps that of start() over it, and a wait and a round for every failure since (`Budget`), and it ages with the time since (`Elapsed`). `OfflineInv`: what stop() has put is offline. `JobInv`, `AliasInv`: an undisturbed start() removes cards after it put all of its own, and none of those. `HandInv`: what start() has in hand between two awaits of remove_agent is not configured, and a retire or a life of the daemon that has ended has nothing in hand any more; MailboxIsKept alone does not know whose mailbox is about to go |

`AgeInv` needs `TimeAssumption`, which is the exact trade-off between period, latency of a round and failures survived:
(Misses + 1) * (Heartbeat + Latency) + 2 * Latency < 3 * Heartbeat + 2. The second Latency is there because start()'s round
can store a card over a newer one of the heartbeat, older by its own time on the way; with one, TLC finds a live
node that looks offline after one failed heartbeat (Heartbeat = 2, Latency = 1, Misses = 1).

**Only model-checked.** Liveness (EventuallyHandled, AcceptedGetsDone, RequesterLearns, EventuallyAnnounced, RunEnds,
CancelLands, StopEnds, MailArrives, ComesOnline) is beyond the prover and stays with TLC. Every other property of a run
has a theorem, but for CancelIsHonoured, which the code violates.

## 5. Not modelled

Command line parsing and rendering, the MCP server and the generated server configuration are wrappers
without state of their own. Prompts and command lines of runtimes and the choice of a result line in their output
are formatting. Which envelopes are valid is a predicate on fields; Mailbox has refused messages. Retention of
the stream (`message_retention_days`) is taken to be longer than any outage, the disk not to be full, and the
database not to fail: an exception in _receive_one other than ProtocolError would end that receiver loop.
The server's storage is taken to be durable: Registry has lost connections and lost replies, not a server that comes
back empty. Clocks of those who read cards agree with those who write them. Of artifact references, http (a download from
outside the system) and git (always refused) are left out, and so is listing, which changes nothing. Children of an
agent that hold none of its pipes are not followed: _kill_group returns when their leader has exited. Whether a session
shows its user what inbox() returned, and thereby marked as seen, is outside this code.

## 6. Where the code and its description part

Shown by a run of TLC:

- **owner_cancel** (node.py:385). _on_cancel cancels the coroutine of _execute wherever it is, but _execute catches
  CancelledError only around the run. A CANCEL that lands while the worktree is created, RUNNING is announced or the
  result is prepared ends _execute with the task ACCEPTED or RUNNING. docs/MESSAGE_PROTOCOL.md:38: "CANCELLED
  (running process is killed)".

Met while modelling; the models contain this behaviour, and the properties are stated so as to hold in spite of it:

- *Transport.* Hub.send publishes its row alone, past older ones to the same agent that are still queued because their publish failed
  (hub.py:144); the outbox loop publishes those later. docs/MESSAGE_PROTOCOL.md:141: "The order of messages from one sender to
  one agent is preserved". Delegation therefore takes messages to arrive in any order.
- *Policy.* A REQUEST is committed as PENDING before it is rejected in a second transaction (node.py:254). A daemon killed in
  between finds it in recover(), accepts and runs it without asking the policy (`KilledBeforeReject`). docs/ARCHITECTURE_V1.md:70: "check
  policy ... Then REJECT, or create the owned task". DeniedRunsOnlyAfterDeath says that nothing else lets it run.
- *stop().* The runner swallows a CancelledError of stop() that finds its _execute just ended (node.py:343), and waits for the next
  task; stop() waits for the runner. node.py:109: "Graceful stop: running tasks are interrupted and resumed by recover() next
  start." StopEnds excepts it.
- *Restart.* recover() asks for PENDING, ACCEPTED and RUNNING only (node.py:154): a task that was WAITING when the
  daemon died is not resumed; node.py:13 says recover() "re-queues every owned task that was not finished". AcceptedGetsDone
  excepts it.
- *Delivery.* An exception of artifacts.publish (node.py:436) or ArtifactRef.from_dict (node.py:516) ends _execute
  and its runner loop, and the task stays RUNNING (`LoopEnds`); docs/ARCHITECTURE_V1.md:81 says "When the process exits, the daemon sends
  the RESULT". AcceptedGetsDone is checked with deliveries that do not raise.
- *Orphans.* runtime.py:123 says "never leave orphans behind", node.py:391 tells the requester "process stopped". A second
  cancellation while _kill_group waits leaves the process to its SIGTERM; DoneIsDead says exactly when.
- *Attempts.* bump_attempts (node.py:357) and the finish that gives the task up (359) are two transactions: each death in between leaves the
  task open with one attempt more than the maximum, and one more is counted in the next life. docs/DEPLOYMENT.md:268 says "After
  `max_attempts` a task fails with an explanation". AttemptsBounded bounds the launches by max_attempts, and the attempts on record by one more and the deaths.
- *Closed and launched.* _execute looks at the state once (node.py:354) and ignores that owner_transition to RUNNING is refused (378). A
  process left over from an earlier life that closes the task in between (submit, reject) does not keep the agent from being started
  once more. NoReexecution excepts tasks that had such a process when this life began, and OpenTaskIsInHand does, because it can also report a
  WAITING or BLOCKED task RUNNING again that recover() passed over.
- *CANCEL before REQUEST.* _on_cancel forgets a task it does not know (node.py:287), and the REQUEST that arrives later is
  executed.
- *submit_result* answers "delivered": True although hub.finish refused (tools.py:176); hub.py:289 "Refuses to finish a task
  twice."
- *ACK* of an interactive agent leaves the requester's row ACCEPTED (node.py:54); docs/MESSAGE_PROTOCOL.md:31 says "ACCEPTED (or
  RUNNING when an interactive agent accepts)".
- *Base of a patch.* Worktree.create reads base anew in every attempt (worktree.py:56). When somebody took the repository to an
  older commit in between, other people's commits go into the patch; OnlyNewCommits excepts that.
- *Half-made worktree.* A directory left by a kill between git clone and git checkout is taken for a resumed worktree
  (worktree.py:59), and the agent runs off the task's branch; worktree.py:6 says it is "on branch mm/<node>-<agent>/<task_id>".
- *Patch and branch.* _attach_git asks summary() for commits, writes the patch with a log of its own, and imports the branch only if summary() had
  any (node.py:423-426). When the first commit comes in between, from a process the agent left behind or of an earlier life, the result has
  a patch with a commit that is on no branch of the repository, and if it was complete it is downgraded to partial "without any commit". PatchIsOnBranch excepts exactly that.
  The patch is read from HEAD and the branch fetched by its name (worktree.py:67-83): they differ when the agent is on another branch, or resets
  during the export; docs/MESSAGE_PROTOCOL.md:48 has one "branch + patch". PatchIsOnBranch does not speak of these.
- *Failed export.* A GitError becomes a limitation and the task ends complete without branch or patch (node.py:427);
  docs/MESSAGE_PROTOCOL.md:48 says it "returns branch + patch". PatchIsOnBranch is about results that return commits.
- *Records.* Puts of two publishers can cross and leave the record behind (hub.py:264); docs/ARCHITECTURE_V1.md:108 says anyone can
  "see where a task stands". `RecordTellsTheEnd` only says a closed record is right.
- *Views.* task_view prefers the later updated_at (hub.py:214). A requester whose clock is behind can be shown an old open record
  after it handled the RESULT; and a later message about an open row turns a view back from COMPLETED
  (docs/MESSAGE_PROTOCOL.md:121: "Terminal states are sticky"). HandledIsSeen takes the clock not to be behind.
- *Notifier.* It notifies first and writes its cursor afterwards: a death in between repeats (cli.py:262 "so nothing is announced
  twice"; RepeatedByDeath bounds it). A death while the cursor file is cut off skips mail (cli.py:260 "one desktop notification
  per new actionable message"); NoneSkipped and EventuallyAnnounced except it.
- *Empty server.* Buckets, streams and consumers are made when a client connects and when start() binds its mailboxes; nothing
  makes them again on a reconnect. docs/DEPLOYMENT.md:267 says of a server that lost its storage "Nodes re-register on their next
  heartbeat": the heartbeats fail until the daemon is restarted. Not in the model, which takes storage to be durable.
- *Retire.* agent-node retire looks at the node's card once and then removes cards and mailboxes in several steps. A daemon that was
  offline then, or any daemon with --force, can be running meanwhile: its heartbeats bring the cards back, but nothing gives
  it its mailboxes back before it is restarted (bus.py ensure_inbox is called from start() only). ComesOnline holds, MailArrives
  excepts it (`disturbed`).
- *Kept mailboxes.* remove_agent keeps a mailbox with messages in it and deletes the card first, so no later start() or retire, which go by
  the cards, looks at that mailbox again.
- *Aliases.* A sender that does not reach the registry takes an alias for an address (hub.py:116, "unknown yet"), and the message
  waits in a mailbox nobody will have; docs/ARCHITECTURE_V1.md:48 says the alias is resolved. A request resolves its name a second time
  for its answer (tools.py:54), so the address it reports can differ from the one it used.
- *Slow rounds.* A round puts one card after the other, each with a timeout of its own, and all with the time at which the round began.
  With many agents and a slow server a live node can look offline; TimeAssumption says from when on.
- *file:// references.* _fetch_file takes what is at the path on this node, whichever node the reference names; without a checksum it
  returns another node's file. docs/MESSAGE_PROTOCOL.md:107: "fetchable only where that path is visible (the same node, or a shared
  filesystem)". FetchedIsPublished speaks of references with a checksum.
- *Fetching into the owner's directory.* A file:// reference to a file that changed since, fetched into the directory it is in, fails its
  checksum, and the owner's own file is removed as if it were the copy.
- *Transfers.* A get that raises leaves a truncated file under the final name. A file rewritten between checksum and upload gives a
  reference that can never be fetched. A folder is unpacked over an older version of itself, and what that had in excess
  stays; references with the same base name fetched into one directory (cli.py:236) overwrite each other, and so do
  publications of two paths with the same base name under the default key. The model contains all but the last two;
  FetchedIsPublished holds because every one of them either raises or keeps what was published.

## 7. Plan

In order of weight:

1. A composition of Delegation's requester with OwnerNode's worker through TaskLifecycle.
2. `Registry` together with `Mailbox`: what removing a mailbox keeps of the messages in it, fetch by fetch; a server that
   comes back empty.
3. Artifacts in `CodeTask`: upload of the patch and its fetching by the requester.
4. Exceptions in the receiver loop; children that outlive their leader.
5. Proofs of what liveness rests on where that is still missing: which rows EventuallyAnnounced leaves to the notifier's
   next page.
