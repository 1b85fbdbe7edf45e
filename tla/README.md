# Verification of tosee-birder (FeiQiao-Guard)

TLA+ models of the approval gateway and the processes around it, checked with
TLC and, for the core, proved with TLAPS.  Paths below are relative to the
repository root; `gw/` stands for `src/feiqiao_guard/`.
Section 1 is the inventory of the system, section 2 says what is modelled and
how, section 3 what is checked, section 4 what is proved, section 5 what the code
does differently from its documents, section 6 what is not modelled, and
section 7 what comes next.

## 1. The system

A coding agent runs in a terminal under a *wrapper*.  When it asks for a
permission the wrapper creates an approval request at the *gateway*, which
classifies the command, stores the request, sends a card to a chat and waits
for a decision.  Decisions arrive as signed callbacks, as links in the card, or
through the *stream bridge*, which also turns chat messages into commands for a
leader session and pushes its answers back.  A watchdog and a supervisor keep
the sessions and processes alive.

| component | source | state | operations | what is hard |
|---|---|---|---|---|
| Approval gateway | `gw/main.py`, `approval_service.py`, `storage.py`, `audit.py`, `session_registry.py`, `policy.py` | SQLite tables `approvals`, `approval_votes`, `used_nonces`; audit log; writer registry | create, three decision endpoints, expiry loop, register/unregister | handlers are threads that read a row, decide, and write it back unconditionally; the loop runs beside them; the process may die between two store calls |
| Terminal wrapper | `gw/wrapper.py` | prompt in progress, poll deadline, nudge counter | detect a prompt, create, poll, press a key, nudge | its own clock against the gateway's; lost answers |
| Leader task runtime | `gw/leader_task_runtime.py`, endpoints in `gw/main.py` | in-memory task table with retention and capacity | submit, run in a thread, poll, prune, evict | eviction of running tasks, time stamps taken before the lock, restarts |
| Leader command client | `gw/chat_bridge.py` | one call in progress | submit a task, poll it, fall back to the synchronous endpoint | a fallback after the task was accepted runs the command twice |
| Chat dispatch | `gw/main.py` | one handler per request | route a message, run the control script, retry, ask the collaborator, record memory | the route file may change between two lookups; a retry after a queued run; handlers append to one memory |
| Identity router | `gw/identity_router.py` | cached route table with its time stamp | resolve, reload, find conflicts over sessions and homes | a broken file between two reloads; sharing rules over optional references |
| Identity memory | `gw/identity_memory.py` | a file of turns per identity | append with duplicate test, window, tiers | an unreadable file is begun anew; sizes that do not add up |
| Bridge policy, dedupe, approval commands | `gw/chat_bridge.py`, workers in the bridge | dedupe file | evaluate a message, mark it seen, carry out an approval command | retention and capacity; an unreadable file; approvals that name no request |
| Stream bridge | `scripts/run_dingtalk_stream_bridge.py` | per-chat message generation, background workers | dispatch in background, push snapshots, late final, final, heartbeat, idle watchdog | several senders per message, stale replies, duplicates of the final answer |
| Guarded session control | `scripts/guarded_session_control.py` | the tmux session of the agent, its log | type a text or start a session, verify progress, nudge, replace | calls are not serialised; any growth of the log is a confirmation; a text may be typed twice |
| Session watchdog | `scripts/watch_guarded_session.py` | time of the last attempt, in memory and in a file | classify a session, continue it automatically | crash between acting and saving; an unreadable process list |
| Local stack supervisor | `scripts/local_stack_supervisor.sh`, `local_dingtalk_tmux_stack.sh` | tmux sessions, failure streaks | probe, restart, warm the guard session | a restart that fails half-way; a bridge that is deaf but healthy |
| Notification clients | `gw/dingtalk_client.py`, `lark_client.py` | - | send a card | may fail: the gateway must not leave the request pending |

### How the parts meet

* wrapper -> gateway: `POST /v1/approvals`, then `GET /v1/approvals/{id}` until
  the row is no longer `PENDING`.  They share nothing but the row; each has its
  own timeout.
* chat or browser -> gateway: the signed callback
  (`POST /v1/approvals/decision`), the decision link, and the trusted decision
  of the stream bridge.  All three read the row, check it, write it.
* expiry loop -> store: every few seconds it expires overdue rows and presses
  their key through the session registry.
* stream bridge -> gateway: leader tasks (submit, poll) with the synchronous
  command endpoint as fall-back; approval commands typed in the chat.
* gateway -> leader session: the dispatch runs the control script, which
  continues a session and watches its log grow.
* watchdog -> sessions, supervisor -> processes: both act on what they last
  probed.

### What has to be right

| component | correct means |
|---|---|
| Approval gateway | `ENTER` only with the approvals the request needs; a blocked command stays refused; a verdict is audited; every request settles and its terminal is released |
| Terminal wrapper | `ENTER` in the agent's terminal only with the same approvals; a prompt never hangs |
| Leader tasks and client | the table is bounded, a task follows its life cycle, an answer is that of an execution, a command is not executed twice without a reason, a call ends |
| Chat dispatch, router | sessions and homes are shared only by those who consent; the answer says what the runs of the script have shown; one retry, of a queued message only |
| Identity memory | a memory is a window of consecutive turns ending with the latest, divided by its tiers |
| Bridge, inbound | a message is carried out once while it has to be remembered; an approval is reported as handled only if it was |
| Bridge, completion | one final answer per message, none for a superseded one, nothing after it |
| Session control, watchdog | how often a text can run is bounded, whoever interferes; queued means handed in; a stall is answered, a cooldown respected across crashes |
| Supervisor | the stack is taken down for a reason only, recovers when faults stop, and a deaf bridge is replaced |

## 2. What is modelled

| module | what it is |
|---|---|
| `ApprovalGateway` | the gateway: handlers, store, audit log, expiry loop, writers, restarts |
| `ApprovalContract` | the abstract gateway, without threads or tables |
| `ApprovalWrapper` | `ApprovalGateway` with one terminal wrapper on top of it |
| `LeaderTasks` | the task table, its threads, the synchronous endpoint and the client |
| `StreamBridge` | the stream bridge: intake, dispatch threads, final loop, late watcher, replies |
| `BridgeInbound` | intake of messages: policy, dedupe file, workers of approval commands and questions |
| `IdentityRouter` | the route table: conflicts over sessions and homes, the cached file |
| `IdentityMemory` | the memory of an identity: append, window, tiers (operators, no state) |
| `ChatDispatch` | handlers that dispatch chat messages; extends the two above |
| `GuardedSession` | the control script, its concurrent calls, tmux and the agent |
| `SessionWatch` | the watchdog of a session |
| `LocalStack` | the supervisor, the processes it keeps up, the guard session |
| `MC...` | model values, route tables and symmetry for TLC; `MCUpkeep` puts four components in one run |
| `...Proofs` | the theorems about the module of that name; `UpkeepProofs` about `SessionWatch`, `LocalStack` and their composition `MCUpkeep` |

Some definitions are marked *Fault*: they are what a plausible mistake would
make of the definition below them.  No specification uses them; putting one in
the place of its definition must break the property it is listed with in
`PROJECT.json`.

### ApprovalGateway

State.  `db` is the table `approvals`, one row per request id with the columns
decisions depend on; `votes` and `nonces` are the other two tables; `audit` holds
the finalised outcomes the audit log records; `proc` is one record per handler
thread (where it stands and the locals it keeps); `sweeper` is the expiry loop;
`writers` are the sessions with a registered terminal writer.  `keys` (keys that
reached a terminal) and `grants` (approvers whose approval was legitimate when it
was presented) are histories.

Actions.  FastAPI runs each `def` endpoint in a thread of a pool, so an endpoint
is cut at every call into the store, the audit log, the notifier or a terminal
writer, and nowhere else.

| code | actions |
|---|---|
| `POST /v1/approvals`: `create`, notification, `reject_pending`, terminal action | `Insert`, `RecordBlock`, `AuditCreated`, `Notify`, `ReadUndelivered`, `RejectUndelivered`, `AuditOutcome`, `ApplyKey`, `Reply` |
| `apply_decision` (callback) | `BeginCallback`, `CheckCallback`, `RefuseReplay`, then as below, then `Reread` |
| `apply_decision_by_link`, `apply_decision_trusted` | `BeginUnsigned`, then as below |
| row already final; row overdue | `AnswerFinalized`; `FindOverdue`, `ExpireOverdue` |
| dual approval step | `RecordVote`, `CountVotes`, `AwaitSecond` |
| `_finalize_decision` | `Finalize`, `AuditOutcome`, `ApplyKey` |
| `_expire_loop`, `expire_pending`, `expire_due` | `ExpireDue`, `AuditExpired`, `ReadExpired`, `ApplyExpired` |
| session registry | `Register`, `Unregister` |
| process restart | `Restart`: threads, loop position and writers go, tables and audit log stay |

`set_decision` is an `UPDATE ... WHERE request_id = ?` without a test of the
status, and `SetDecision` keeps that: any thread that gets this far overwrites
whatever is there.  `expire_due` compares with `<`, the handlers with `<=`; both
are kept.

Abstractions.

* A handler reads the clock next to its read of the row; both are one step.
* Calls that are refused before anything is written (wrong bridge token, approver
  outside the allowlist on the unsigned paths, unknown id) leave the state alone
  and are stutters.  A refused callback has already burnt its nonce and is a step.
* The answer `WAIT` of a first vote names the first approver from the list of
  votes; where it is given the caller's own vote is the only one counted.
* The audit log keeps final outcomes; events about requests still pending
  (created, first vote) and about keys nobody took are left out.
* Looking up a writer and calling it are one step.  In the repository only tests
  register writers; a production terminal gets its key from the wrapper.
* `keys` is a set: how often a key is pressed is not counted.
* Errors raised by SQLite are not modelled.  The risk level is a free choice
  among the levels the policy returns, and only a blocked command is tied to high
  risk.  Whether a card is delivered is a free choice (`Notify`).
* `Serialized = TRUE` restricts handlers and sweeps to one at a time, which is what
  the tests exercise; the contract of single calls is checked under it.

### ApprovalContract

Verdict, number of approvers needed, approvers behind it and keys pressed, per
request.  `AuthoritySpec` promises that approvals and `ENTER` have enough approvers
behind them, although a verdict may be replaced.  `Spec` adds `Binding`: a verdict
stays, approvers join only an open request, a key agrees with the verdict.  The
refinement mapping reads the verdict off the row's status, the approvers off
`grants`, the keys off `keys`.

### ApprovalWrapper

Extends the gateway by `prompt` (what the wrapper is busy with) and `screen` (the
key it pressed for each request).  `run_wrapped_command` handles a prompt
synchronously inside its read loop, so there is one prompt at a time:
`DetectPrompt`; `CreateApproval` and `ReceiveAnswer`, which are the gateway's
`Insert` and `Reply` with the wrapper's half joined on; `PollAgain`,
`PollAnswered`, `PollTimesOut` for `_poll_status`; `PostFails` and `PollFails` for
the errors it turns into `ESC`; `ConnectionDrops` for a reset that is not among
the errors it catches, after which the wrapper is gone; `PressInTerminal`.  A GET
sent before the deadline may be answered after it.  `GatewayStep` is every other
step of the gateway.

### LeaderTasks

State.  `table` is the task table, `submit` the POST of a call with the handler
that serves it, `thread` the thread that executes a task, `direct` a request to the
synchronous endpoint, `client` the caller in the bridge.  `runs`, `outcomes` and
`lost` are histories.

| code | actions |
|---|---|
| `submit` | `StampTask` (the clock is read before the lock), `StoreTask` (prune, insert, evict) |
| `_run_task`, `_transition` | `StampRunning`, `BeginRun`, `EndRun`, `RecordResult` |
| `get` with its pruning | `AnswerGet` |
| `send_leader_command`, `_create_leader_task`, `_wait_leader_task_result` | `Send`, `AnswerSubmit`, `Poll`, `AnswerGet`, `TimesOut`, `ConnectionFails` |
| `_send_leader_command_legacy` and its endpoint | `BeginDirect`, `EndDirect`, `AnswerDirect` |
| process restart | `Restart`: table and threads go |

Abstractions.  A call submits at most one task, so the call stands for the task
id; ids are random, so ties of the eviction order are a free choice.  What the
dispatch does is one of three outcomes.  The state `timeout` is accepted by the
client but set nowhere, so no task has it.  The list of events kept with a task is
left out.  A service without the task interface is one whose POST fails.  A
deadline never lies beyond the end of the clock.  No step is forced to happen
before a deadline, so late answers are included.

### StreamBridge

State.  `seen` is the dedupe file, `active` the newest message of each chat
(`_chat_active_msg`), `thread` one record for each thread a task can have:
the main one, started by `process`, and the late watcher it leaves behind.  A
record keeps where the thread stands, the reply it is about to give, and the locals
of the final loop: the signature of the snapshot before the dispatch (`baseline`),
the one last seen (`latest`), attempts, escalation, whether the deadline has passed
(`overdue`) and whether the minimum time between attempts has not (`cooling`).
`session` is what a snapshot shows: the leader's item, with the state of its session and
its last reply, and the rest.  `sent`, `concluded` and `after` are histories, as are the
fields `still` (the sessions have shown the baseline ever since it was read), `answer`
(the number of the leader's reply being reported) and `overtaken` (replies that arrived
although a newer message was there).

| code | actions |
|---|---|
| `process` | `Receive` |
| `_safe_reply` | `CheckReply` (the test for staleness, once), `ReplyArrives`, `GiveUpReply` |
| `_dispatch_in_background` | `ReadBaseline`, `Dispatch`, `ReportPane` |
| `_push_followup_snapshots` | `Follow`, `EndFollow` |
| `_push_final_result`, the late watcher's loop | `Look`, `LookInVain`, `SeeProgress`, `SeeWaiting`, `SeeResult`, `Report`, `SendMedia` |
| retries, escalation, settled notice | `RetryTask`, `RetryNoMore`, `Escalate`, `DeclareSettled`, `StartAgain` |
| description of an image after a refusal | `Describe`, `Resume` |
| deadlines | `DeadlinePasses`, `CoolsDown`, `WaitNoLonger`, `HandOver`, `WatchExpires` |
| watchdog or crash | `Restart`: threads and `active` go, the dedupe file stays |

Main thread and late watcher run nearly the same code twice; they share the
actions, which differ for them where the code does (`Fresh`, `Answers`, `Look`).

Abstractions.

* A thread is cut where it reads or writes something shared: the newest message,
  a snapshot, a reply.  A command to the leader takes long, but the thread looks at
  nothing until it returns, so sending and returning are one step.
* A signature stands for the content of a snapshot.  It covers every item, the
  collaborator's and the last events included (`rest`), while the result is read off
  the leader's item alone: `_snapshot_signature` and `_extract_leader_outcome`.  The
  leader's replies are numbered, so that an old one can be told from a new one with the
  same text; the number is the model's, and one that repeats its predecessor word for
  word and event for event is not covered.
* `SessionMoves` is the next reply, with any state and rest (`NextReply`), or the same
  reply with another state of the leader's session or another rest (`SameReply`):
  `watch_guarded_session.py` tells the state from the age of the log and from the process
  list, so a session comes to wait for input, or stops, without a new reply; the
  collaborator works on its own.  A snapshot may show again what it showed before.  The
  constant `Silent` says which of the two may change while the reply stays.
* An item whose session cannot be read (`SNAPSHOT_ERROR`) is the same each time, without a
  reply; either item may fail for itself (`SnapshotErrors`).  A request that fails
  altogether is a step of `LookInVain` or an unknown baseline.
* Of the text of a reply it is kept whether it is none or an echo of the message,
  unfinished, or marked as final, and whether it is a refusal (`Texts`).
* Time is two flags per thread, set while it is in its loop, where it looks at the
  clock once a round.
* Sending a reply with its retries is one of two outcomes: it arrives or is given
  up.  Consecutive progress replies with nothing in between are one, and hints that
  the code gives or withholds by its settings and counters are optional.
* Messages refused by the policy, duplicates and the threads of approval commands
  and route queries only reply; they leave the state alone except that a command is
  the newest message of its chat, which `Receive` keeps.  What those threads do, and
  the dedupe file with its limits, is `BridgeInbound`.
* The limit of 256 chats is left out.

The three settings that change the control flow are constants: what to do when the
session waits for input (`Retry`, with `MaxRetries` and `Escalates`), how many
progress pushes there may be (up to `Pushes`, chosen at each dispatch, since a bridge
may be started with another setting), whether there is a late watcher (`LateWatch`).
`CommandsFail` and `SnapshotErrors` say which failures may happen, `Silent` what a
snapshot shows anew without a reply.

### BridgeInbound

State.  `store` is the dedupe file, a set of entries with their places (`at`) and ages;
`delivery` the deliveries
being handled, each with the worker started for it; `created`, `pending` and `voted`
are what the gateway's queue shows.  `since`, `others`, `acted` and `openings` are
histories: when a message was last taken in, which others after it, how often it was
carried out, and how often it was taken in while the file need not remember it.

| code | actions |
|---|---|
| `process`, `BridgePolicy.evaluate`, `check_and_mark` | `Ignore` (a duplicate), `TakeIn`, `Spawn` |
| `_load_state`, `_prune`, `_prune_max_items` | `Read`, `Pruned`, `Kept` inside these |
| `_dispatch_route_snapshot_in_background` | `Ask` |
| `_dispatch_approval_command_in_background` | `Pick`, `Decide`, `List`, `Reply` |
| watchdog exit | `Exit`: workers go, the file stays |

`process` runs to its end before the next delivery; its workers run at once
(`CallbackFree`).  Whether a message is refused, a question, an approval or a task,
and which request an approval names, are constants: parsing depends on the text
alone.  A task leaves the module where `StreamBridge` takes it up.  The dedupe file
is not written if the disk is full; then `process` ends before anything is started,
which is the same as no delivery.

### IdentityRouter, IdentityMemory, ChatDispatch

`IdentityRouter` has the route file (`file`, `stamp`), which others edit, and the
gateway's copy (`cache`).  `RouteIssue` is `_compute_route_issues`: first conflicts
over sessions, then conflicts over homes among the routes without one of the former.
`Reloaded` is `_reload_if_needed`; a file that cannot be parsed raises an error and
leaves stamp and table alone.  `IdentityMemory` is `append_turn` and what it calls as
operators on a record of the last number and the turns; a turn's text is whatever
distinguishes it from another, its summaries are left out.

`ChatDispatch` has one record per request (`handler`): where its handler stands,
which identity and which try it is at, the outcome of the last run, and the states it
will answer with.

| code | actions |
|---|---|
| `chat_inbound`, `_run_leader_command` | `Receive`, `Result` (retry, collaborator or answer) |
| `_dispatch_chat` | `Resolve`, `Check`, `Record`, `Run`, `TimeOut`, `Snapshot`, `SnapshotCheck`, `Reply`, `Result` |
| `_dispatch_chat_with_queued_retry` | `Retries`, `Settled` inside `Result` |
| `_build_identity_snapshot_item` | `SnapshotCheck` |
| the route file | `EditRoutes` |

The handler is cut at every lookup of a route, which may reload the table, at the run
of the script and at every access to a memory.  Two lookups may see two tables:
`table` and `checked` keep which, until the script runs.  An access to a memory is
one step because the store holds its lock over reading and writing.  The outcome of
the script is a free choice here; `GuardedSession` says how it comes about.  Audit
events are left out.

### GuardedSession

State.  `tmux`, `arg`, `line`, `busy`, `log` are what tmux and the agent are at: no
session, one that boots, or one that is ready; the text it was started with; the texts
on its input line; whether the agent works; the length of its log.  `call` is where
each call of the script stands.  `handed` and `runs` are histories.

| code | actions |
|---|---|
| `_continue_once`, before anything is sent | `Refuse`, `Begin`, `FindSession` |
| `_tmux_send_keys` (two commands), `_tmux_press_enter` | `Type`, `Enter`, `SendFails` |
| `_tmux_kill_session`, `_tmux_start_resume` | `Kill`, `Start`, `StartFails` |
| warmup | `SeeMarker`, `MissMarker`, `Unready` |
| `_wait_rollout_advance`, the nudges after it | `SeeAdvance`, `SeeNoAdvance`, `AfterWait` |
| pane signal | `LookAtPane` |
| `subprocess.run(timeout=...)` of the caller | `Abandon` |
| `prewarm_guard_session` of the stack | `PrewarmKills`, `PrewarmStarts` |

Every tmux command is a step of its own, since calls are processes and take no lock.
The agent and tmux are an environment: Enter may run the line, answer a question at
start-up or do nothing; text typed into an agent that boots may be lost.  The result
of a call is what the caller makes of it (`_infer_chat_delivery_state`): a tmux action
whose last command returned zero is queued even if the script says it failed.
The wait of the watchdog's own call has no timeout (`TimedCalls`).

### SessionWatch

State.  Of the session the watchdog sees whether the agent's process is there
(`agent`), control scripts at work (`scripts`), and the log's last entry (`logged`,
`idle`, `done`).  `watch` is where its loop stands, the state it has found and the age
of its last attempt; `saved` is the file.  `tried` is a history.  Times are ages, kept
up to the longest that any comparison can tell apart.

`Sample` is `_build_snapshot` with `_state_from_snapshot`, in which the process list
may be unreadable; `ShouldContinue` is `_should_trigger_auto_continue`; `Attempt`,
`Return` and `SaveAttempt` are the call of the script and the saving of its date,
`Pass` an iteration without one.  `Rerun` is the one-shot mode, which knows of earlier
attempts only what the file says; `WatchCrash` ends the watchdog anywhere and starts
it anew.  The file is written in place, so a crash while it is being written loses it.

### LocalStack

State.  `api`, `bridge` and `guard` are each without a tmux session, with one whose
process is not up, or up; `beat` is whether the heartbeat file is fresh, `deaf` and
`old` are the bridge's stream and uptime, `routes` the route file.  `sup` is the
supervisor: the command it waits for and its counters.  `failed` is a history.

| code | actions |
|---|---|
| boot, loop of the supervisor | `BootStack`, `Probe`, `Grace` |
| `restart_stack` with `stop_stack`, `start_stack` | `StopStack`, `StartStack`, `AwaitApi`, `ResetGuard`, `Warm`..., `AwaitBridge` |
| `prewarm_guard_session` | `Warm`, `KillGuard`, `NewGuard`, `AwaitGuard` |
| bridge: heartbeat, watchdog | `BridgeBeats`, `BeatRunsOut`, `Recycle`, `IdleExit` |
| shells that start their process again | `ApiComesUp`, `BridgeComesUp` |
| launchd `KeepAlive` | `SupervisorDies`: it starts again with its counters lost |

A wait of a script fails when what it waits for cannot come, or by a fault: `faults`
counts those (something too slow, a process that dies, a stream that is lost, a
damaged route file, a killed supervisor), up to `MaxFaults`.  After them the system is
on its own.  `GuardStarted` is the control script, which may start the guard at any
time.  The probe of the bridge's settings, which no restart can change, is left out.

## 3. What is checked

| run | question | result |
|---|---|---|
| `gateway_races` | two handlers and the loop on one request, callback and link, low and high risk, dual approval, a restart at any step: does the inductive invariant hold, are approvals backed and attributed, verdicts audited, the weak contract kept? | holds |
| `gateway_reject` | is a dual-approval request that an approver rejected never open for votes again? | violated (section 5) |
| `system_serialized` | wrapper and gateway with handlers one at a time, callback and trusted endpoint, an approver outside the allowlist, a restart: is the binding contract kept, does a blocked command stay refused, does `ENTER` mean approved, and remain so? | holds |
| `system_liveness` | wrapper and gateway with lost answers, timeouts and a restart: does `ENTER` reach the agent only with the approvals it needs, is every prompt answered or the wrapper gone, does every request settle, is every attached terminal released? | holds |
| `leader_tasks` | two calls on a table of one entry, a restart or a failing connection: bound, life cycle, truth of answers, no repetition without loss | holds |
| `leader_fallback` | does a client fall back only when it has been given no task? | violated (section 5) |
| `bridge_retries` | one image task with a retry, an escalation, a late watcher and a progress push, an approval command, failing commands, a restart: are commands bounded, is a conclusion the last word, does a superseded task fall silent, is nothing reported before the sessions have moved? | holds |
| `bridge_old_reply` | is the leader's reply from before the dispatch never reported, also if its collaborator moves? | violated (section 5) |
| `bridge_approval` | is a conclusion withheld only for the sake of another task? | violated (section 5) |
| `session_calls` | two calls for one session, one with a warmup, one whose caller gives up, failing tmux commands, an agent that boots, works and quits, the supervisor's warming: how often can a text run, was a queued one handed in, does every call end? | holds |
| `chat_dispatch` | a leader command with its collaborator beside an inbound message, four route tables, one change of the file at any step, an unreliable memory: who shares a session, are answers true, is there one retry, are memories and cache consistent? | holds |
| `upkeep` | four components that share nothing, each in behaviours of its own (below) | holds |

The run `upkeep` is a union of state spaces: the initial state says which component
moves (`focus`), the others rest.  *Threads*: does every thread of the bridge end,
over retries and failing snapshots?  *Inbound*: is a message carried out once, over
expiry, eviction and loss of the dedupe file and exits of the bridge, and an approval
reported as handled only if it was?  *Watch*: is a stall answered and the cooldown
kept, over a crash and an unreadable process list?  *Stack*: is it taken down only
after a streak of failed probes, does it recover once two faults are over, is a deaf
bridge replaced?

Bounds, and why they are enough.

* *Requests*: rows interact only through the nonce table, the loop's batch and
  the thread they are served by, so one request carries the races.  The theorems
  cover any number.
* *Workers*: two threads and the loop give every pairwise race of two decisions
  with an expiry.  The properties proved hold for any number.
* *Approvers*: two are needed for dual approval; an outsider stands in
  `system_serialized`.
* *Sources*: `gateway_races` has requests of the wrapper only.  A request from
  elsewhere differs in that nobody waits for its key in a terminal, and whether a
  terminal is attached is a free choice anyway; the other runs have both.
* *Timeout 1, MaxTime 2*: `now` lies before, at and after `expires_at`, which
  covers the strict and the non-strict comparison.  A request is created only
  while its deadline still falls inside the clock, so the clock's end never
  hides an expiry.
* *Restarts 1*: any step may be the last before it; all volatile state is lost at
  once and nothing remembers how often that happened.
* *MaxItems 1 with two calls*: every submission evicts; *Retention 0, MaxTime 1*
  lets a finished task be pruned between two polls.  *MaxFaults 1* is one restart
  or one failing connection.
* *One task and one command in one chat*: tasks share only the newest message of
  their chat and the session, and the session is a free environment to each of
  them, so a second task adds nothing to the first but being newer, which the
  command is too.
* *MaxReplies 2, Rests of two*: the leader's reply from before the dispatch and the one
  that answers it, of any text, and a collaborator that changes between and comes back,
  as often as it likes; that the two rests are alike is a symmetry, since nothing asks
  more of them than whether they differ.  In `bridge_retries` only the rest changes while
  the reply stays (`Silent`), in the liveness run only the state does, over one reply
  and with the leader's item failing: threads end although the session may go to and fro
  for ever.  The two together are more states than a run has time for.  *MaxRetries 1* with the escalation gives both threads two rounds.
* *Two control calls*: calls affect each other only through the session, and a second
  one can do everything to a first that a third could: press Enter on its text, kill
  its session, start one.  *MaxLog 1* is one growth of the log, by anyone; a call
  compares the log with what it was when it last looked.
* *Two requests, four route tables, one edit*: separate routes, a shared session
  inside a shared home, a home shared by consent beside a disabled route, a session
  only one side consents to; one edit puts any of them, nothing or rubbish between any two lookups.
  `SharedByConsent` depends on the tables only, `AnswerHonest` and `RetriedOnce` on
  one request.  *WindowSize 2* with a fresh tier of 1 rolls after three turns, and a
  leader command with its retry and collaborator makes more.
* *Three messages, MaxItems 1, Ttl 1*: one message evicts another, and an age is
  below, at and above its limit; *one pending request, two workers* let a repeated
  approval find another one to decide.
* *Threshold 1, MinIdle 2, Cooldown 2*: each comparison of the watchdog goes either
  way on its own.  *One crash*: what it forgets is all there is to forget.
* *Streaks of 2, two retries, two faults*: one fault may break a restart and another
  the one after it, or kill the supervisor in the middle.
* Symmetry is used for threads, nonces, approvers (without an allowlist) and calls, in safety runs only.

Deadlock is checked in the gateway and wrapper runs, where a terminal may always
register or leave.  In the others it is not: calls, requests and threads end and
clocks, logs and edits are bounded, so the model comes to rest.

Fairness.  The gateway (`Fairness`): a started handler runs to its end, the loop
runs as long as the process does, time passes.  Nobody has to create, decide or
attach anything.  `RefuseReplay` and `CheckCallback` are alternatives of one
handler and are fair together, not each by itself.  The wrapper
(`SystemFairness`): its POST has a timeout, so an answer or a failure comes, its
polling loop goes round, and it presses the key it chose.  No GET has to fail and no
connection to drop.  The bridge (`Fairness`): a thread goes on, since every request
and every send it waits for has a timeout; and a thread that comes back to its loop
again and again finds its deadline passed some time.  The latter is strong fairness
because the thread leaves the loop in between; the clock does not.  The session need
not do anything.  The control script (`FairSpec`): a call that has begun goes on,
since its commands return and its waits have deadlines; nobody has to begin one, and
the agent and the supervisor owe nothing.  The watchdog (`WatchFairness`): its loop
runs, time passes, its script ends.  The stack (`StackFairness`): a process that is
started comes up, heartbeats are written, uptime grows, somebody repairs the route
file; and the supervisor goes on, which is strong fairness because the bridge may
exit just before each look: its watchdog grants it minutes before the first exit, and
the supervisor looks every second.

## 4. What is proved

All theorems hold for every value of the constants allowed by the assumptions:
any number of requests, approvers, threads, nonces, any timeout, dual approval or not,
interleaved or serialised; the bounds on time, restarts and failures are any numbers.
Besides types the assumptions, one `ASSUME` per module, say that

* the allowlist is a set of approvers, and `Null` neither a request id nor a key;
* calls to the leader are finitely many and the task table has room for an entry;
* to the bridge `Null` is no message and a collaborator that cannot be read shows nothing
  that one that can be read does (`Broken`), and the leader has replied once;
* to the router `None` is no time stamp; the leader is not its own collaborator;
* the text that warms a session is nobody's message;
* the watchdog's cooldown, the supervisor's streaks and its retries are not zero, and
  the dedupe file holds at least one message (the code clamps them or they are so set).

The sizes of a memory's tiers are any integers, negative ones included: the code clamps
them and so does the model.

| theorem | statement |
|---|---|
| `InductiveInvariant`, `TypeCorrect` | `Spec => []IInv`, `Spec => []TypeOK` |
| `NeverUnbacked` | no `ENTER` ordered or pressed without the approvals it needs |
| `RightfullyAttributed` | the approver named by an approved row was entitled |
| `BlockedStaysRefused` | a blocked command is never revived |
| `ImplementsAuthority` | the gateway implements `ApprovalContract!AuthoritySpec` |
| `SerialHandlersAgree`, `ImplementsContract` | handlers that run one at a time act on what the tables say, and implement `ApprovalContract!Spec` with its binding verdicts |
| `SystemInvariant`, `ScreenNeverUnbacked` | no `ENTER` without the approvals for the key the wrapper presses, either |
| `SystemImplementsContract`, `EnterIsApproval` | with handlers one at a time, wrapper and gateway keep the binding contract, and `ENTER` in the wrapper's terminal means that the request is approved and remains so |
| `LeaderInvariant` | client, table, threads and histories agree |
| `NoRerunWithoutLoss`, `AnswersAreTruthful`, `TableStaysBounded` | a command runs twice only after a loss, the client reports what happened, the table keeps its bound |
| `TasksLiveInOrder` | a task never skips or repeats a state, leaves the table unfinished only if it is full or the gateway restarts, and never comes back |
| `BridgeInvariant` | threads, newest message and histories of the bridge agree |
| `CommandsStayBounded`, `ConclusionsAreLast`, `OvertakenOnce`, `ReportsFollowChange` | a task sends at most `2 * MaxRetries + 4` commands, its conclusion is its last word, a superseded thread finishes one reply at most, and no thread reports before the sessions have left its baseline, while snapshots do not fail |
| `EveryOutcomeAudited` | while the gateway is not restarted every final status is in the audit log or owed to it by its writer |
| `FileRemembers` | the dedupe file keeps its bound, holds a message once, and every one it has to remember |
| `MessagesActOnce` | a message is carried out no more often than it was taken in while the file need not remember it |
| `HandledAlwaysDecided` | an approval is reported as handled only if the request is settled or has the bridge's vote |
| `RequestsInvariant`, `DispatchInvariant` | handlers, runs of the script and answers agree, and the router's copy with the file it was read from |
| `SharedAlwaysByConsent` | a message goes to a shared session or home by consent only, for any table of routes |
| `RetriesAlwaysOnce`, `AnswersAlwaysHonest` | at most one retry, of a queued leader command; a success says what the last run has shown |
| `MemoryAlwaysKept` | a memory is a window of consecutive turns, divided by its tiers |
| `DeliveryInvariant`, `SessionAccounted` | where a call stands accounts for the copies of its text in the session |
| `RunsAlwaysBounded`, `QueuedAlwaysSent` | how often a text can run; queued means handed in |
| `WatchInvariant`, `CooldownAlwaysKept` | the watchdog never takes its last attempt for older than it was, so attempts are a cooldown apart |
| `ReasonInvariant`, `StreakCounts`, `TakenDownAlwaysForReason` | the stack is taken down only after a streak of failed probes |
| `UpkeepInvariant` | watchdog and supervisor remember rightly in the composition of the four components, too |
| `RejectionsStick`, `RoomForAllRunsOnce`, `ChangesAreReplies`, `OnlyCommandsSilence` | what the four disagreements of section 5 need; without it the promise holds |
| `HandlersAdvance`, `CallsAdvance` | a handler of the gateway, a call of the control script never takes a step twice |

**Gateway.**  `DualAuthority` is not inductive: a thread that is about to write
`ENTER` has the facts that justify it in its locals, read from tables others
write.  `IInv` says of every thread what remains true of the tables while it waits
(`HandlerOK`), of every row what table, votes, keys and entitled approvals agree on
(`RowOK`), and the same of the loop (`SweeperOK`).  The argument rests on what never
goes backwards: `grants` and `votes` only grow, a row's risk never changes once it
exists, and no thread is in a deciding state for a blocked row.  This is stated once
as `Frame`, the relation between the tables before and after a step, and each step
is shown to keep the threads it does not move (`HandlerKept`, `OthersKept`) and the
loop (`SweeperKept`) because of it.  What a step adds is then local: one lemma for
steps that only move a thread, one for writes of a row, one for keys, one for
approvals.  Refinement uses `IInv` on both sides: every write of a row is a
`Decide`, every key a `PressKey`, every accepted approval a `Back`, every other step
is invisible.  The audit log needs `AuditInv` beside `IInv`: a thread that is about to
log or to block owes the entry of the outcome in its locals (`Owes`), the sweep those of
its batch, and only who owes the new status may have changed a row.  A second writer that
overwrites the status of the first leaves an entry too many, never one too few.

With `Serialized` the whole contract holds, and what makes it inductive is `SerialInv`:
whatever is under way is alone (`Alone`), so what a handler has read, written or chosen is
what the row says still (`Fresh`), and no row orders a key its own status does not call
for.  The assumption is used in `Alone` only; everything else follows from `IInv`.
`NextKeepsSerial` proves `SerialInv` and the contract's `Binding` from the same cases.
A restart is no exception: it leaves nobody under way, and the row of a create handler
that did not come to its end is pending or refused, without a key that disagrees.

**Wrapper.**  A step of the composed system is a step of the gateway or leaves it
alone (`SystemStepIsGatewayStep`), so `IInv` and `Frame` carry over.  `SystemInv`
adds that an `ENTER` in the wrapper's hand is backed (`PromptOK`) and that the
thread that creates a request never answers that it is approved (`CreatorOK`):
`ENTER` can only come from a row.  With `Serialized` that row keeps its status (`Bound`),
which gives `ApprovedKeys`: an `ENTER` in the wrapper's hand or on its screen is for a
row that is approved now.

**Leader tasks.**  `LeaderInv` counts executions by the positions of the two
threads that can perform one (`RunsOK`): the synchronous request exists only for a
call whose task or connection was lost.  `OutcomeOK` ties what the table, the
threads and the client say to the outcomes executions had.  The bound of the table
needs only `TypeOK` and facts on cardinalities: pruning and transitions never add
an entry, and a submission keeps one of the `Survivors`.  `TaskLifecycle` rests on
`StageInv`: a thread is never ahead of its record, which may only have left the table, so
a late transition either continues the record or finds none.

**Bridge.**  None of the four properties is inductive.  `BridgeInv` says per message
(`MessageOK`) that a late watcher exists only once the main thread has nothing more to
say than its farewell (`Leaving`), that a concluded task has both threads leaving,
and that the commands sent are covered by what the records of the two threads account
for (`Paid`); per thread (`OvertakenOK`) that a reply that has overtaken a newer
message was the last one on its way; and (`ResultOK`) that as long as
the sessions have not left a thread's baseline it has seen nothing else and is nowhere
that a new snapshot would have led it to, and that, if snapshots change with the leader's
replies only, the reply of a baseline once left is older than all that is read after.
Where a thread goes after a reply (`Heading`) stands for where it is, so that replying
first changes nothing.  Nearly every step then moves one thread to a record that
`Fits` the old one; `MoveKeeps` shows once that this keeps the invariant, and each
action needs only a few lines.  Four steps touch more and have proofs of their own:
a message comes in, the late watcher is started, a reply arrives, the bridge restarts.

**Bridge, intake.**  `RepliesInv`: what a worker says is silent until it replies, and it
reads the queue again only for a request that is carried out, which no later step undoes
(`CarriedOutStays`).  That the newest pending request exists is
`GreatestOfPending`, by well-foundedness of the numbers below a bound.
`InboundInv` says that the file holds every message it has to remember; `EntriesOK` adds
what ties the entries to the histories: an entry is as old as the message's last intake,
and whoever stands behind it came in since.  So when an entry is evicted, `MaxItems`
other messages have come since, and the file no longer has to remember it
(`KeptHolds`, `TakeInKeepsStore`).  `ActedOnce` needs to know
where a permitted execution is spent: `OpeningsInv` counts beside the executions the
deliveries that may still come to one (`ToDo`).  Only an intake that `InboundInv` allows
raises the sum; a worker's step moves one from the second part to the first or drops it.

**Chat dispatch.**  `RequestOK` says for every position of a handler how many runs its
identity and the collaborator have had, which states it has collected and that they are
those of the last runs; handlers meet only in the router's copy and the memories, so one
handler's step keeps the others' (`RequestsInv`).  The rules about sessions and homes
speak of groups of routes; `NoIssueMeansConsent` shows that together they amount to
consent between any two members, the relation `SharedByConsent` is about.  `MemoryOK`
bounds a memory by its window and numbers its turns; within the window the tiers leave
nothing out (`TiersDivide`).

**Session control.**  `RunsBounded` counts what the agent was given; `DeliveryInv` says
of each call how often it may have handed in its text where it stands (`CallOK`), and that
what was run, lies on the input line or was an argument at the start is covered by that
count (`TextOK`).  `SessionMoves` collects what every step but a handing in may do to a
text, whoever takes it: have it run or lose it, never write it again.

**Watchdog, stack.**  `WatchInv` is inductive as it stands.  `ReasonInv` strengthens
`TakenDownForReason` by the same for every position between the probe that gave the
reason and the end of the last attempt: only a probe that succeeds resets the count of
failed ones, and there is none in between.  In the composition each step is a step of
one component and leaves the variables of the others alone, so both invariants carry over.

**What the disagreements need.**  Four theorems state the promise that a run of section 5
refutes, under the condition without which the counterexample is impossible.
`RejectionsStick` follows from the contract above.  `RoomForAllRunsOnce` assumes `Roomy`:
as many places as calls, a retention as long as the clock runs, no restart, no failing
connection; then no task is pruned or evicted, and `lost` stays empty.  `OnlyCommandsSilence`
assumes that nobody sends approval commands or route queries; then the newest message of
a chat is a task (`NewestOK`).  `ChangesAreReplies` assumes that no snapshot fails and
that a snapshot changes only when the leader replies (`Silent` empty); then the second part
of `ResultOK` says that what is reported is newer than the baseline.

**Termination.**  `HandlersAdvance` and `CallsAdvance` give each position a rank and show
that every step of its own takes a handler or a call to a higher one, or to its end, and
that no step of anybody else takes it back.  A handler so takes a bounded number of steps
whatever happens around it.  That it takes them is fairness, which stays with TLC.

The invariants new to these arguments (`SerialInv`, `ApprovedKeys`, `StageInv`, `StoreInv`,
`OpeningsInv`) hold, says TLC, on the instances of the runs too; `RoomyInv` and the ranks
on smaller ones of the same kind.

Only model-checked are the liveness properties (`EventuallySettled`, `TerminalReleased`,
`PromptAnswered`, `ThreadsEnd`, `CallsEnd`, `StallAnswered`, `StackRecoversInFocus`,
`StreamReplaced`): they need fairness and `ENABLED`, out of reach of the prover.  Every
other property of a passing run is stated by a theorem.

## 5. Where the code and its documents differ

* **A rejection does not always close a request.**  `README.md:263` lists
  rejection as short-circuiting, and `tests/test_approval_flow.py:441` asserts it
  for calls made one after the other.  In `gateway_reject` one approver's thread has
  read the row as pending, stored its vote and counted it; another approver rejects; the
  first then writes `PENDING` by request id alone (`gw/approval_service.py:632`).  The request
  is open again until it is decided or expires.  `EventuallySettled` and
  `DualAuthority` hold nevertheless: it takes two approvers to press `ENTER` and
  the loop closes what stays open.  `RejectionsStick`: it takes two handlers that overlap.
* **A client that was given a task may dispatch its command again.**
  `resource/ops/leader-task-api-runbook-2026-03-09.md:69` speaks of falling back
  only if the target service has not been upgraded (404, old version).  The client
  takes any failure for that (`gw/chat_bridge.py:201`).  In `leader_fallback` its
  task is evicted by another one, the poll answers 404, and the command goes to the
  synchronous endpoint while the first execution may still be running.
  `RerunOnlyAfterLoss` bounds the damage: at most twice, and only after a loss.
  `RoomForAllRunsOnce`: it takes an evicted or pruned task, a restart or a failing connection.
* **An old answer may be reported as the result.**
  `scripts/run_dingtalk_stream_bridge.py:3104` says the final loop is seeded with
  the previous signature so that old replies are not reported.  But the signature
  covers all items of the snapshot (line 1310), and the result is the leader's (line
  1344).  In `bridge_old_reply` the leader has a finished reply before the dispatch and
  does nothing after it; its collaborator's item changes, the signature differs from the
  seed (line 3277), and the old reply is reported.  The baseline does not help: it is
  compared with the same signature (line 3230).  A change of the leader's last event or
  of its state does the same, and so does a failed snapshot among the progress pushes,
  whose signature becomes the seed.  What holds is `ResultsFollowChange`: nothing is
  reported while the sessions show what they showed before.  `ChangesAreReplies`: it
  takes a snapshot that changes without a reply, or fails.
* **An approval silences the task it approves.**
  `resource/ops/mission_lock_guixianren_e2e.md:132` promises that after an approval
  the bridge goes on waiting and returns the final result.  In `bridge_approval` the
  approval command has become the newest message of its chat (line 3852), which
  makes the task's own conclusion a stale reply.  `OnlyCommandsSilence`: nothing but such a
  command, or a route query, does so.

Read in the code while modelling it, and not the subject of a run:

* *A task may be declared settled with attempts left.*  The help texts
  (`scripts/run_dingtalk_stream_bridge.py:565`, `574`) speak of attempts before the
  escalation and of the minimum time between them.  A session that waits for input
  again before that time is up fails the test of line 3300, the escalation is not due
  either, and the code falls through to the settled notice and ends the task.  In
  `StreamBridge`: `DeclareSettled` while `cooling`.
* *Queued need not mean sent.*  `README.md:227` says that `queued` means tmux delivered
  the text.  With fail-close set, a warmup prompt that is not answered ends the script
  before the text is typed (`scripts/guarded_session_control.py:404`), with an action
  `tmux_..._warmup_timeout` and return code zero, which `gw/main.py:937` reads as
  queued.  `QueuedWasSent` therefore has `~FailClose` as its premise.
* *A missing reference is no disagreement.*  `README.md:222` allows sharing only where
  `switch_ack_ref` agrees.  Absent references are discarded before they are compared
  (`gw/identity_router.py:164`): one member with a reference speaks for those without.
  `Consent` says what the code asks for.
* *Turns without a trace are never duplicates.*  Metadata without `trace_id` or
  `task_id` are stored as null and read back as the text `None`, which is compared
  with the empty text (`gw/identity_memory.py:123`): such a turn repeats none
  (`Repeats`).

## 6. What is not modelled

Within the modelled components:

* Wrapper: byte relaying, detection of prompts by pattern, detection of session ids
  and the automatic nudge.
* Gateway: the read-only endpoints, which change nothing (but the route cache, as the
  lookups of `ChatDispatch` do); signatures and tokens as computations, which are
  valid or not; the HTTP and layout of cards; exceptions of SQLite; the event list of
  a task; summaries and cleaning of memory texts, and the names of memory files (two
  identities may have the same).
* Bridge: fetching and sending of attachments, the parsing of texts, and which message
  the session is answering.
* Session control: the contents of the pane; a marker, or words the text asks for, may
  be found in the text itself, so `SeeMarker` and `LookAtPane` may always succeed.
* Watchdog: the notification of a changed state and its cache file.
* Stack: the probe of the bridge's settings (settings below its minimum make every
  probe fail, and the stack is restarted in every loop), the choice of an interpreter,
  the status command.

Not modelled at all: settings, which are constants; the acceptance suites,
validation and deployment scripts, which drive the system from outside, one step after
the other; `scripts/runtime_watchdog.sh`, which serves a remote installation; reports,
dashboards, documentation and deployment files, which have no behaviour.

The models compose where components share state: `ApprovalWrapper` extends
`ApprovalGateway`, `ChatDispatch` the router and the memory, `GuardedSession` has the
warming of `LocalStack` among its steps, `LocalStack` the control script's starts and
`SessionWatch` the scripts at work.  Elsewhere a component meets another as a free
environment: the script's outcome in `ChatDispatch`, the dispatch's outcome in
`LeaderTasks`, the queue of the gateway in `BridgeInbound`.

Some properties reach less far than the hazard beside them.  `KeepsContract` is
checked with the gateway's handlers one at a time, so it says nothing of two
overlapping decisions or of two replays racing; `gateway_races` is the run of
overlapping handlers.  `SharedByConsent` judges the table a request was checked
against; a file edited between a check and the dispatch is outside it.
`QueuedWasSent` supposes `warmup_fail_close` is off (section 5).  `ActedOnce` bounds how often a message
is carried out; whether the user saw the request it decides is not its subject.

## 7. Plan

| step | module | composes with | what |
|---|---|---|---|
| done | `ApprovalGateway`, `ApprovalWrapper`, `LeaderTasks`, `StreamBridge` | each other where they share state | sections 3 and 4 |
| done | `BridgeInbound`, `ChatDispatch` with `IdentityRouter` and `IdentityMemory`, `GuardedSession`, `SessionWatch`, `LocalStack` | section 6 | sections 3 and 4 |
| done | all `...Proofs` | | every safety and action property of the passing runs, with what the disagreements of section 5 need |
| 1 | `StreamBridgeProofs` | | that a thread advances between two rounds of its loop and its attempts are bounded, as `CallsAdvance` does for calls |
| 2 | `UpkeepProofs` | | the same for an attempt of the supervisor to restart the stack |
| 3 | `ChatDispatchProofs` | | the same for a request; that a lookup answers from the newest file that could be parsed |
| 4 | `ApprovalWrapper` | `GuardedSession` | the automatic nudge and the detection of session ids |
| 5 | `StreamBridge` | `BridgeInbound` | attachments: fetching with a limit, sending with a retry |
| 6 | `StreamBridge` | `GuardedSession` | several tasks polling one session: whose answer is it? |

The run list is kept short: a new module's run takes the place of one whose question
a larger run can answer too, as `upkeep` did for the bridge's own liveness.
