# Verification of the second-hand negotiation agent

This directory holds TLA+ models of the agent, the TLC runs that check them on
small instances, and proofs of main properties for instances of any size. It is
written from the source under `src/` (backend: `src/backend/app`).

## 1. The system

A buyer and a seller's assistant negotiate over a product. Each buyer message is
an *input* of a *session*; inputs of one session are handled strictly in order
by a LangGraph graph that may call models, commits at most one business action
per input and publishes exactly one reply. MySQL holds the authoritative rows,
PostgreSQL the graph checkpoint of the session's thread and an advisory lock that
admits one runner per thread. Nothing may be lost or done twice when processes
crash, hang, lose a connection or are taken over.

| component | state | operations | where |
|---|---|---|---|
| run queue and ownership | input rows with `input_seq`; the task row with status, lease token and epoch, attempts; the session's cursor | `enqueue`, `claim`, `heartbeat`, `release`, `finalize`, `lock_owner` | `runtime/input_queue.py` |
| graph runner | none of its own: one process per run, checkpoint in PostgreSQL | entry selection, stages, termination, finish, `notify` | `runtime/graph_runner.py`, `runtime/recovery.py`, `graphs/negotiation/*` |
| checkpointer | checkpoint of the thread, advisory lock | `locked_saver` | `persistence/checkpointer.py` |
| activity time | `active_ms`, `active_since`, `active_until`, `closing_deadline` | `settle`, `model_timeout`, `lease_deadline` | `runtime/activity.py`, `runtime/heartbeat.py` |
| supervisor, watchdog | registrations of execution instances | `run_supervised`, `register_instance`, `attach_owner`, `cleanup_instance` | `runtime/supervisor.py`, `runtime/operations.py` |
| worker loop | none | scan of heads, due approvals and due notifications | `workers/graph_worker.py` |
| business commands | receipts, outbox events, obligations to reply | `execute`, `abort_or_query` | `services/business_command_service.py` |
| notifications | deliveries with lease and deadline, public messages, display acknowledgements | `claim`, `retry`, `publish`, `display` | `services/notification_service.py` |
| recovery desk | audit of the seller's actions | `RETRY`, `TERMINATE`, `NOTIFY` | `services/graph_recovery_service.py` |
| negotiation | session status and version, offers, approvals, display contexts | propose, counter, approve, reject, confirm, close, expire | `services/graph_business_operations.py`, `services/graph_approval_service.py` |
| approval runtime | approval executions, events, notices, a thread of its own | claim, reconcile, load, wait, apply, notice, release | `runtime/approval_runner.py`, `graphs/approval/graph.py` |
| semantic turn | quality rows, plan, reply | prepare, parse, plan, commit, compose, review, publish | `graphs/negotiation/semantic_graph.py`, `semantic/quality.py` |
| model ledger | calls with reservation and accepted answer | `call`, `resolve` | `services/model_call_ledger_service.py` |
| drafts and evidence | drafts, verifications, fact and cost values | plan, merge, assess, submit, recheck | `semantic/service.py`, `semantic/maintenance.py` |
| retention | archive marks | `archive` | `services/graph_retention_service.py` |
| legacy runtime (V2 to V4) | model tasks with leases, follow-ups of approvals | answer or queue, lease, finalize, retry, terminate | `services/chat_service.py`, `services/model_task_service.py`, `workers/approval_processor.py` |
| legacy agent | checkpoint of a task, call snapshots, event stream | model call, tool call, review, finish | `agent/runtime.py`, `services/agent_runtime_service.py` |
| P0 prototype | queue, receipts, artifacts, thread | enqueue, claim, stages, revoke | `p0/store.py`, `p0/graph.py`, `scripts/p0_*.py` |
| evaluation | environment, call tracker, journal, report files, remote datasets | episode, batch, gate, finalizer, experiment, export, replay | `evaluation/*`, `evaluation/p5/*` |
| frontend | request records in session storage, login, read cycles, tracked runs | submit, look up, resend, poll, acknowledge | `frontend/src/state/*`, `views/NegotiationView.vue` |
| pricing | none | net income, decide, concede | `services/pricing_service.py` |

Interactions: the API enqueues; the worker spawns a supervised child per run; the
child takes the thread lock, claims the run and drives the graph; every stage
checks ownership (`lock_owner`) in its own transaction; supervisor and watchdog
revoke ownership in MySQL first and only then end process and connection; the
dispatcher publishes owed replies under the same thread lock; the seller's desk
changes a run under that lock too. A committed turn may leave events for the
approval's thread, whose own runs write offers, session and notices. Pages know
the server only through requests whose answers come late or never.

Hard behaviours: two processes that both believe they own a run; a commit whose
checkpoint was never written; a lock that disappears with its connection while
the process lives; decisions taken from rows, or from a snapshot, that changed
since; a deadline that passes while a run waits; leases renewed next to the end
of a budget; liveness of obligations whose dispatcher died; budgets shared by
threads; files that a killed process leaves half written; answers that arrive
for a page that is gone.

What makes each component correct:

- queue and runner: one owner at a time, each input committed at most once and
  answered exactly once, truthfully and in order; nothing of input n+1 exists
  before input n is resolved; a finished run is final; the head always moves or
  is shown to the seller.
- checkpoint and lock: whoever runs the graph finds the thread as it left it.
- activity time: charged time is held time; leases and calls keep to their windows.
- notifications: every owed reply is published or handed to the seller.
- negotiation: one offer is open at a time; the session waits exactly for the approval
  of that offer; a decision is never rewritten and takes effect once; an agreement
  needs the seller's authority under the policy in force and a card that the
  buyer's client has shown; what lost its basis does not stay.
- approval runtime: each decision has its effect once and is announced once, in
  whatever order its events are met; an archived session is not written to.
- model ledger and semantic turn: budgets are never exceeded, unknown calls stay
  charged, one answer per step, only reviewed text is published, a plan is kept.
- drafts: an offer rests on evidence that held; a continuation continues what was
  shown and drops no condition.
- legacy runtime and agent: a settled task has its answer, a failed one a place on
  the seller's desk; spent calls are counted by whoever continues.
- evaluation: shared caps hold, charges survive a crash, only complete evidence
  passes, and the environment keeps production's rules.
- frontend: verdicts are the server's, unresolved requests are never forgotten to
  make room, what is shown is the page's own and without gaps.

## 2. Modules

| module | what it is |
|---|---|
| `TurnProtocol` | what a buyer is promised: inputs accepted, committed at most once, answered once, truthfully and in order, then resolved |
| `GraphRuntime` | queue, runner, checkpoint, lock, supervisor, watchdog, dispatcher and recovery desk of one session |
| `GraphRuntimeProofs` | theorems about `GraphRuntime`: ownership and attempts; turns, thread and order |
| `ActivityTime`, `ActivityTimeProofs` | the numeric clock of one run, and theorems about it |
| `Agreement` | what a negotiation promises: one open offer, agreement only on it, with authority and after display |
| `Negotiation`, `NegotiationProofs` | session, offers, approvals, display contexts and everything that changes them, and theorems about them |
| `ApprovalOutcome` | what an approval promises: settled and announced once per settlement |
| `ApprovalRuntime` | one approval, its executions, thread, events and notices, and the archive |
| `SemanticTurn` | the inside of a negotiation-v3 turn with its model ledger |
| `Drafts`, `DraftsProofs` | from the buyer's words to an offer with evidence, under InnoDB snapshots, and theorems about it |
| `LegacyRuntime`, `LegacyProofs` | messages, model tasks, approvals and deals of sessions without a graph, and theorems about them |
| `AgentRuntime` | a turn of the tool-calling agent over its checkpoint |
| `Prototype` | the P0 prototype: store, graph, worker and supervisor |
| `DynamicEpisode` | one evaluated conversation over the environment and its audit |
| `EvaluationBatch` | threads, budget and files of a batch of them |
| `ReleaseExperiment` | the release experiment, its exports and its replay |
| `PendingOperations` | requests of pages whose answers may be lost, and the shared login |
| `NegotiationPage` | polling, messages, tracked runs, acknowledgements and text of the page |
| `MCGraphRuntime`, `MCNegotiation`, `MCDrafts`, `MCTurns`, `MCRuntimes`, `MCEnds` | instances for TLC |
| `TurnsProofs` | theorems about `SemanticTurn` and `AgentRuntime`, and what the composition in `MCTurns` inherits from them and from `DraftsProofs` |
| `ComponentsProofs` | theorems about `ApprovalRuntime`, `Prototype`, `DynamicEpisode` and `EvaluationBatch`; `MCRuntimes` extends it |
| `RuntimesProofs` | theorems about `ReleaseExperiment`, sums, what a batch costs, and what the composition in `MCRuntimes` inherits from `ComponentsProofs` and `LegacyProofs` |

Modules that share rows meet through abstraction: `GraphRuntime` sees a turn as
"commits an action or not" and takes from `ActivityTime` that every ordinary
lease ends with the window; `SemanticTurn` opens the stages that `GraphRuntime`
names and takes ownership as an epoch from it; `Negotiation` opens the action and
lets the approval graph apply decisions at any time, which covers every schedule
of `ApprovalRuntime`; `Drafts` opens the plan and the evidence behind a command.
`Negotiation` and `DynamicEpisode` refine the same `Agreement`.

### GraphRuntime

Rows become records indexed by `input_seq`. `task[r]` is the row of
`model_execution_tasks`: `token` stands for the pair of `lease_token` and
`ownership_epoch` (both are new with each claim, so the number of the attempt
names them), `live` for `lease_expires_at > now`, `grace` for a lease granted to
a cleanup, `retryAt` for `next_retry_at IS NOT NULL`. `input[r]` keeps the closing
window, whether an attempt is being charged (`active_since`), `recovery_required`
and whether there is evidence that the run was started. `delivery[r]` is the
obligation `turn:{run}:reply`. `exec[i]` is one execution process with its
PostgreSQL connection, the registration row of the process and its supervisor
(`watch`). `checkpoint` is the latest checkpoint of the thread, `lock` the holder
of the advisory lock.

One action is one transaction or one external effect. `Run(i)` is the life of an
execution process: `Connect`, `TryLock` or `ThreadBusy`, the four outcomes of
`claim`, `Attach`, `Enter` (`choose_entry` or the seller's termination), the
stages `Parse`, `CheckBudget` and `CommitAction` or `CommitNothing`, `Compose`,
`Publish` with `SaveCheckpoint` after each, `Abort*` for a termination,
`Finalize`, `Release`. `Quality` distinguishes negotiation-v3 (supervised child,
model budget, composed replies) from the older graph. Faults: `Hang`, `Crash`,
`Orphan` (the supervisor dies), `LoseConnection`, `Raise`, and the same for a
notification attempt. `Supervise`, `Watch`, `Notify`, `Seller` and `Clock` are
the other actors.

Time is nondeterministic: a deadline is a flag that time may raise whenever it
can. The numbers behind the flags are the subject of `ActivityTime`;
`LeaseEndsInWindow` there is what allows `WindowCloses` here to end every
ordinary lease. Three simplifications follow: the closing window is one instant
for claim and supervisor (they may differ by less than 15 seconds when reply and
budget end together); the heartbeat is a delay of `LeaseExpires`; and `Overrun`
takes the full time of an unsettled attempt to have passed with its lease, which
lets the supervisor kill earlier than it may.

### ActivityTime

The columns `active_ms`, `active_since`, `active_until`, `closing_deadline`,
`lease_expires_at` and `reply_deadline` as numbers, `Null` for SQL NULL; one
operator per function of `activity.py`, one action per caller. `cleanups`, `held`
and `exhausted` are history variables that no action reads.

### Negotiation

`session`, `offers` and `approvals` are the rows of one session; an offer carries
the versions of policy, product text and facts it was judged by
(`GraphOfferEvidence`, `SemanticOfferBasis`), and whether its time is over.
`approvals[o]` is the approval of offer `o`, with `late` for `expires_at <= now`
and `timely` for a review before that. `turn` is the one input in hand (module
`GraphRuntime` shows that there is only one), later the reply owed for it;
`contexts` and `acks` are display contexts and acknowledgements, `notices` the
unpublished notices of applied approvals. A transaction is written as a function
on the `Book` of the first three: `Void`, `Kill` and `Reconciled` are the shared
functions of `approval_lifecycle.py` and `graph_approval_service.py`, which the
actions compose as the code does. Interleaved with the buyer's `Plan`,
`ReadVersion` and commit are `Review`, `Apply`, `Reconcile`, `Lifecycle`,
publication and display, the seller's edits and the clock.

A `Typed` session runs graph negotiation-v1, where the input carries its command
and an offer rests on policy and product only; otherwise the input is a chat that
`plan_turn` turns into a command, and offers rest on facts and cost rules too.

Prices are abstract: terms are named by their net income, which `Zone` puts in one
of three zones. Expiry of a display context is covered by choice: display and
confirmation never have to happen and a turn may always end `NOT_EXECUTED`. A
refreshed context names the same offer and version, so refreshing changes
nothing here. Once an approval is decided its deadline no longer matters.
`Apply` needs no event: the approval graph may apply any decided approval at any
time and any number of times, which includes every order of its events.

`Agreement` is the abstract specification. `AgreementIsKept` maps its open offer
to `current_offer_id`, its authority to "made by the agent, or accepted", and its
display to an acknowledged context of that offer.

### ApprovalRuntime

One approval: its row with the basis of its offer (`approval`), the outbox rows
(`events`), the row of `approval_executions` (`exec`), the receipts of `apply`,
the notices by `effect_revision` and the messages sent for them, the thread with
its lock. A process is a `runner` (it selects, locks, claims, reconciles, inspects
the checkpoint, runs the nodes with a checkpoint after each, releases) or a
`notifier`. `Business` has one action per transaction of the other components
that writes an event. Faults are crashes, lost connections, raised calls and leases
outrun by a slow process. `ApprovalOutcome` is the abstract specification:
`settled` maps to `effect_revision`, `announced` to the messages.

### SemanticTurn

An owner is an epoch; several may be alive, one holds the thread. `saved` is the
checkpoint, `ledger` the calls in order of reservation with key (step, round,
evidence, reply), status and value, `rows` everything the turn writes. A node
that needs a model goes through reserve, ask and accept, between which owner,
business version or time may change. `world.spent` and `world.due` are the ends
of activity budget and reply time, `world.others` versions made by others.

### Drafts

A candidate is the set of required fields it fills, the conditions it names and
the commitments it asks for; a condition stands for anything `assess` looks up.
Every buyer transaction is three steps: `Begin` is `lock_owner`, whose plain read of
the input opens the snapshot (`turn.snap` of the facts, `turn.rows` of the drafts),
`Lock` gets the session, before which rechecks may still commit, and the last step
writes, of what it loaded, the attributes that differ (`Written`). The seller's
`set_fact` is one step, and each recheck of the pages that asked is a list, a snapshot
and a write. `shown` are the cards with the candidate they display; `Display`
acknowledges one while its object is good, and a message may refer to any acknowledged
card, good or not by then. Cards of earlier versions are kept as one (`Earlier`),
because `frozen_context` gives nothing for any of them.

### LegacyRuntime

`deal` is the session with its offers and approvals, `tasks` the model tasks by
message or approval, `replies` the agent's messages under each idempotency key.
`SendText` and `SendOffer` store a message and answer it at once or queue a task; a
process takes a task by `Lease` or `Resume`, has the model called, and finalizes in a transaction that
checks the lease (`HoldsLease`) and the freshness of version, policy, offer and
input. The approval processor claims, applies and announces in the same way.
Prices are numbers next to the policy's version, so that an edit moves the zones.

### AgentRuntime

`saved` is the task's `runtime_checkpoint`, `snaps` the call snapshots, `stream`
the keys of the event stream, `run[p]` an execution with its copy of the
checkpoint. Steps, endings, reviews, repair, memory and summary calls each
reserve, ask and record; tool calls run one by one with their effect and log
entry in one transaction; the finish writes reply, act and task together.

### Prototype, DynamicEpisode, EvaluationBatch, ReleaseExperiment

`Prototype` has one action per transaction of `store.py` and per node of
`graph.py`, with the hung worker and the supervisor that takes its input away.

`DynamicEpisode` is the environment of one evaluated conversation as the seller's
tools and the buyer's driver change it; the seller's model may call any tool with
any arguments. Its audit (`dynamic_safety.py`) is modelled apart from the tools,
from the private policy alone, so that `AuditFindsNothing` compares two pieces of
code; it also runs when an exception ends the episode after a tool had its effect
(`SellerStops`).

`EvaluationBatch` is the pool of threads over `DynamicCallTracker` and the files:
journal, runs, gate and manifest, each written by an action of its own; the process
may die between any two, and the finalizer may then run. Inside an episode it keeps
whose turn it is and what a call was for, because that decides what a failed call does:
a lost step of the seller (`REACT`, which stands for the baselines' calls too) fails the
run; a lost review fails it or is made up for; a lost memory or summary is passed over;
a buyer that raises, or acts invalidly, is told and asked once more, and then its run is
a `BUYER_SIMULATOR_FAILURE` (`Misacted`). A run may end without any call: at the
validation of the scenario's first action (`Start`), or by a seller that answers by rule
to a scripted buyer (`SellerActs`). Time is not counted, so the tracker may refuse at any
request (`Refused`); a refused memory is passed over and changes nothing. A call is billed
its reservation; that the provider took more comes to light with the usage of the answer
(`Told`), and an answer that has none, or tells of less, is charged like one that used
its reservation, as the code does. The gate (`Passes`) compares the
failures of sellers and of buyers with the limit in each of `Groups`; whether the audit
found violations is a choice there, being the matter of `DynamicEpisode`.

`PassedIsComplete` says what a passed gate therefore vouches for: all runs recorded, no
call without an end, charges within the cap, no seller that asked on after a lost step,
and in no group more runs than tolerated that lost a step of the seller, or stopped at a
lost action of the buyer. It does not vouch for every answer: lost reviews and memories
and the first lost attempts of buyers are in the journal of a batch that passed, in any
number that the budget allows.

`ReleaseExperiment` follows conversations, judge, row and saved report, the
native trace journal with its remote mirror, export with readback, the release
status and the later replay. The remote service may lose a span or a row.

### PendingOperations, NegotiationPage

`PendingOperations`: per tab the operations in memory (`ops`) and in session
storage (`store`), the coroutines that wait (`tasks`), the POSTs on the wire,
which outlive their coroutine and may arrive late or never, and the one cookie
of the browser. The server accepts a request again with the same answer, and
refuses one whose expected user is not the cookie's.

`NegotiationPage`: the read cycle of `syncPage` with its parts answered in any
order, `createPolling` with timer and request, tracked runs, the view number that
invalidates what belongs to an earlier load, acknowledgements and the text box
with its draft revisions.

## 3. Runs

A run asks one kind of question; where several components share it, their
instances are checked in one run. In `turns`, `runtimes` and `ends` the variable
`scope` names the component that acts, the others rest, so that TLC explores the
sum of their state spaces and never a product. Their properties are the
components' own, collected by name in the MC module.

| run | question | bounds |
|---|---|---|
| `takeover` | may two processes, one of them crashed, cut off or raising at any step, disturb each other? | 2 processes, 1 dispatcher, 1 input, 2 attempts, 1 fault |
| `supervised` | supervisor, watchdog, hang, orphan, budget and one seller action on a v3 run | 1 process slot, 1 dispatcher, 1 input, 1 fault, 1 seller action |
| `fifo` | does anything of the second input exist before the first is resolved? | 2 inputs, queue limit 2, no fault, 1 seller action |
| `time` | do budget, leases, calls and closing window fit together? | 4 attempts, 16 ticks of 7.5 s, budget 7 ticks |
| `typed` | six safety properties over typed inputs, counters, chosen or stale receipts, policy and product edits | 2 nets and a counter in all three zones, 2 rounds, 2 policy versions, product taken off sale and back |
| `chats` | do chats keep the agreement, do waits end and stale offers fall, if only clock and lifecycle loop must act? | 2 nets, 2 rounds, 2 versions of the facts, fairness |
| `turns` | the inside of a turn: semantic graph and ledger, drafts and evidence, tool-calling agent | semantic: 2 owners, 4 calls of which 3 can be reserved at once, 1 round of composing and reviewing (the theorems cover any number; with 2 rounds the run holds too, but takes half as long again), 1 foreign version, 1 fault; drafts: 3 drafts, 2 inputs, 2 edits, 1 seller request, 1 fault, and of candidates an amount under a condition, the condition alone, an amount with an undertaking; agent: 2 processes, 2 texts, 2 steps, 3 calls, 2 tools, 1 maintenance call, 2 leases, 1 fault |
| `runtimes` | what surrounds the graph: approvals, legacy, prototype, evaluations, pages | see below |
| `ends` | what must happen in the end: queue, replies, approvals, legacy messages, the page | graph: 1 process, 1 dispatcher, 1 input, 1 fault, older graph; approvals: 1 worker, 1 fault, 1 seller action; legacy: 1 message, 2 processes, 2 leases; page: 1 load, 2 texts, 1 trouble; fairness |
| `expired`, `terminate`, `stale` | where documentation or schema and code disagree (section 5) | the smallest instances that show it |

The instances of `runtimes`: approvals with 2 workers and 1 fault; legacy with 2
messages, 2 processes, 2 prices, 2 rounds and at most two of manual action, edit
and fault; prototype with 2 requests, 2 workers, the waiting stage and 1 fault;
an episode of 3 turns with net incomes in all three zones; a batch of 2 episodes
in one group on 2 threads, 3 calls at most, a budget of two reservations, either buyer
and one tolerated failure; a release experiment of 2
cases, one of them risky and one comparable, 2 threads, 2 faults, 1 kill;
pending operations three times (two operations where one record fits, the storage
may fail once and a record may grow too old; two where both fit; one operation over
three logins, reloads or navigations); a page with 2 sessions, 1 run and at most
three of further loads, texts and troubles.

Why the bounds suffice. Ownership, entry and takeover concern one run and at most
one former and one present owner, hence two processes and one fault for the first
and one more owner for the second; order concerns neighbours, hence two inputs;
`time` keeps the ratios of lease, window, reply and call times and shortens only
the budget, so that it ends within the first, second or third attempt. The same
holds for ledger, approvals, legacy, agent and prototype: a former owner that
still acts and a present one. Shared caps need two threads and a budget that
both cannot fit in; failures need one more run than may fail; files need one kill at
any point and a second call of the finalizer; the pages need two accounts, two targets and a record more than fits.
Symmetry is used for processes, and for messages of the legacy runtime, in runs
without liveness.

For the negotiation, two rounds give every pair of an old and a new offer, with
all three zones for each, a refused one in between and a counter on top; a second
version of policy or facts, or a product that is closed and opened again, is
enough for one to be stale. The exploration is bounded by rounds and versions
only: inputs, reviews, publications and displays are unlimited. Drafts need three
identifiers for two alternatives and a continuation, and one edit before and one
after the plan.

Deadlock is checked for `Negotiation` only. Elsewhere (`CHECK_DEADLOCK FALSE`) the
system may really stop: every input is resolved, the batch is finished, the page
is closed, or the bounds on faults and seller actions are used up.

Fairness (`WeakFairness`, `Fairness` in `GraphRuntime`): time passes; a live
process goes on; the loops of worker, supervisor and watchdog poll; PostgreSQL
ends the session of a dead client. Strong fairness is assumed only for taking a
thread lock that is free again and again (the worker retries every second), and
for the claim following it, whose few bounded calls end within the 30 seconds a
registration is young. Faults, hangs, raising calls and the seller are never fair.

`Negotiation!FairSpec`: the clock runs and the worker's lifecycle loop
(`graph_worker.py:49`) visits the session; buyer, seller, approval graph and
dispatcher need not act at all. `ApprovalRuntime`: leases and waits end, a
process that began goes on, and the worker's scan, which repeats each second, in
the end meets the lock, the execution and the notice (strong, as others may take
them for a while). `LegacyRuntime`: executions go on, the two workers visit due
tasks, leases end and retry times come. `NegotiationPage`: the browser's event
loop, which fires timers and ends every read by answer, failure or abort; no read
is assumed to succeed. In `MCEnds` the strong conditions of `GraphRuntime` and
`ApprovalRuntime` are stated together: in a behaviour of one, no step of the
other is enabled, so a condition on "a step of either" is one on each.

Each property has a mutant in `PROJECT.json`: a plausible bug in one operator
under which the run finds the property violated. The mutated operators stand
before the ones they change, marked "Mutant".

## 4. Proofs

`GraphRuntimeProofs` (any number of processes, inputs, attempts, faults):

- `TypeCorrect`: one lemma per table says that updating one column keeps it well
  formed; `TypeNext` has one step per operation.
- `OwnershipIsExclusive` (`OneOwner`): two processes never both pass `lock_owner`
  for one run. `OneOwner` is not inductive: nothing in it prevents a claim from
  reusing a number that an old process still holds. The strengthening
  `OwnersDiffer` says that every process holds a number not above the task's
  attempts and that no two hold the same one. `OnlyClaimGainsOwnership` shows that
  all other operations leave owner, run and counters alone, so only `Claim`
  (`ClaimTakesFreshNumber`) and `Recover` need an argument.
- `AttemptsStayBounded` (`AttemptsAreBounded`): from `Limits`, attempts never
  exceed what was granted, and a recovery grants one more only when none is left.

`TurnInvariant` (the same module, with several inputs): the inductive invariant `IInv`
describes every row by its place relative to the head, `resolved + 1`: rows before
it are succeeded, answered and closed, rows behind it untouched (`TasksInOrder`,
`RepliesInOrder`); whoever is inside the graph holds the lock, runs the head and
stands where the checkpoint says (`LockIsHeld`, `RunsAreHeads`, `ThreadIsOrdered`,
`ThreadIsFollowed`); a head without a checkpoint has left no trace
(`StartsLeaveTraces`). None of the properties is inductive without these, as the
commit of one input is guarded by the node the process stands at, not by the rows
of its neighbours. The lemma `Steps` sorts every action into `Calm` (the rows
change by one of a few named relations, the thread by one named move) or `Final`
(`Finalize`, the only one that moves the head); the invariant is then kept once
per relation instead of once per action. From it follow

- `InputsAreHandledInOrder` (`FifoBarrier`), `CheckpointHasOneWriter`
  (`CheckpointUndisturbed`), `FinishedRunsAreLeftAlone` (`FinishedIsFinal`);
- `ConflictsAreReal` (`NoFalseConflict`), judged at the step into "conflict": a
  seller's TERMINATE that arrives afterwards changes `action` while the process
  still stands there, so the same words about every later state would be false;
- `RuntimeImplementsTurns` (`TurnsAreProcessedInOrder`): every step is a step of
  `TurnProtocol` or leaves its four variables alone.

The one assumption about constants it needs beyond the above is that `Free`, the
absent lock holder, is no process.

`ActivityTimeProofs` (all durations with `Lease <= Reply + Closing`, which the
code's 30, 45 and 15 seconds satisfy): `BudgetIsExact`, `LeasesEndInWindow`,
`ModelWorkStops`, `WindowStaysFrozen`. The invariant adds `Consistent` (a running
attempt is the one being charged, a lost one is charged in full) and
`LeaseIsShort` (a lease is never longer than one grant), needed when the reply
deadline appears while a lease is held. `HeldTimeIsBounded` (`ActivityIsBounded`)
adds up: what was held is what was charged plus one lease for each cleanup
(`BudgetIsExact`), a held attempt is still inside its window (`StillHeld`), the
charge of a window is paid for (`WindowIsPaid`), and the attempt in hand fits in
what is left (`AttemptFits`).

`NegotiationProofs` (any prices, rounds and versions, both kinds of session): a
transaction maps one `Book` to another, so the invariant `Sound(b)` is about a book:
columns fit (`Rows`), only the current offer is open (`OneOpen`), the session waits
exactly for that offer's approval (`Waits`), decisions and effects agree
(`Decided`). `Inv` adds `CardsAreTrue` (a card of the present version shows the
current offer with the seller's authority, and none is of a later version) and
`TurnIsHonest` (an input in hand carries a receipt of a shown card). Each shared
function (`Void`, `Kill`, `Reconciled`, propose, approve, close, ...) has a lemma
that it keeps a sound book sound and its decisions standing, and is one of the
relations of `Advance`; actions are compositions of these. Results: `TypeCorrect`,
`OnlyTheCurrentIsOpen` (`OneOpenOffer`), `WaitsForItsApproval`
(`WaitingIsOnApproval`), `CardsNameTheCurrentOffer` (`VersionNamesOffer`),
`DecisionsAreFinal` (`DecisionsStand`), `AgreementIsAuthorized`
(`AgreedIsAuthorized`), and `NegotiationKeepsTheAgreement` (`AgreementIsKept`), the
refinement of `Agreement`, where `CardsAreTrue` is what shows that a confirmation
is of a displayed and authorised offer.

`ComponentsProofs`, about `ApprovalRuntime` (any workers, attempts, publications and faults):
the inductive invariant `IInv` adds five parts to the types. `RowsFit` ties
status, effect, revision, events, notices and receipts of the approval together
(every settlement has one revision, one notice, at most one message, and a receipt
before its event is acknowledged); `ExecFits` and `EpochsDiffer` say that lease
numbers are fresh; `ThreadFits` that the checkpoint's result is a receipt and that
the thread is missing only before the first checkpoint or after archiving; `Sane(p)`
what a process at each place knows; `ArchiveFits` that whoever still holds the lock
or a lease of an archived session is on the way out. None of the properties is
inductive alone: a process acts on a graph it read earlier, so its promises about
receipts have to travel with it from node to node. The proof separates three
concerns, each shown per action and combined once: what the step does to the rows
(`RowStep`, one of a few named relations such as `Loses`, `Approves`, `Takes`), what
it does to the acting process (`Turn(p)`, with `Bystander` for all others), and
what it does to the checkpoint (`ThreadStep`: only `Save` and `Archive` write it).
`ArchivedStays` shows that the rows of an archived session no longer change, under
every action. Results: `TypeCorrect`, `NothingIsDeliveredEarly`
(`DeliveredIsSettled`), `CheckpointsAreBacked` (`CheckpointHasReceipt`),
`ConflictsComeFromTheArchive` (`ConflictOnlyAfterArchive`), `NoticesAreSentOnce`
(`NoticesOnce`), `ArchivesAreFinal` (`ArchiveIsFinal`), and
`RuntimeKeepsTheOutcome` (`OutcomeIsKept`), the refinement of `ApprovalOutcome`.

`LegacyProofs` (any messages, processes, prices, rounds, attempts, manual retries and
faults): the inductive invariant `LInv` says of a message and its task
(`MessagesInStep`) and of a decision, its follow-up and its task (`DecisionsInStep`)
how far each may be, of the offers and approvals of a session that they are in order
(`BookInOrder`), and that a waiting session has a decision still to come. The
properties are about pairs of rows that different transactions write: what each says
of the pair is kept because a task settles, answers and marks its follow-up in one
transaction, whoever else stalls, retries or terminates it meanwhile. Each service
(`FollowupSet`, `EventApplied`, `DecidedBook`, ...) has a lemma about the book it
returns. For the action properties most steps are `Quiet` (they make, accept and
confirm nothing); the others are argued one by one. Results: `LegacyTypes`,
`MessagesAreAnsweredOnce`, `DecisionsAreAnnouncedOnce`, `DeskShowsWhatFailed`,
`WaitsHaveDecisions`, `AcceptanceHasAuthority`, `EndsStay`, `CountersAreFresh`.

The same module about `Prototype` (any number of requests, workers, claims and faults): the inductive
invariant `PInv` says that the holder of the thread works for the head of the queue
(`HolderIsAhead`), that the checkpoint is the head's or the end of the input before it
(`ThreadInOrder`), that every stage it has passed left its rows (`StagesLeaveRows`),
and that a worker about to save has written what it saves (`WorkersInOrder`).
`InputsAreProcessedOnce` alone is not inductive: it looks at completed inputs, while
what could go wrong is a worker that was thought dead and still writes. `Moves` shows
once that a step of one worker, which lets rows only grow, keeps what the others know.

The same module about `DynamicEpisode` (any prices, policy, rounds and turns): `EpInv`
adds to the types `OffersInOrder` (only the last offer can be open), `TurnInOrder` (a
pending approval is of this turn's offer, which the buyer has not seen settled yet)
and `CommitmentsStand` (every commitment the audit will read names an offer that had
its authority). `AuditFindsNothing` is not inductive: the audit knows only the private
policy and the record of commitments, and what makes it silent is decided by the tools
turns earlier. The refinement of `Agreement` maps offers to columns, and needs
`TurnInOrder` to show that what the reviewer granted is what the buyer confirms.

The same module about `EvaluationBatch` (any runs, threads, budget and failures):
`BatchInv` says of a living process that threads work on runs of their own that have no
result (`ThreadsApart`), what each knows of its call (`CallOf`), that the journal
follows the calls by at most the one being written (`JournalFollows`), that only runs
with results are recorded (`RunsEnd`), and how a call ends (`CallsEnd`): one without an
end is some thread's and the last of its run, a lost step of the seller has failed its
run and is its last call, and a lost action of the buyer that nothing follows has ended
its run or is being repeated. Of files it says that nothing passed before all that
(`Filed`). The gate looks at the statuses of runs and the property at the journal: being
the last of their runs, the lost calls it counts map one to one into the failed runs of
each group, and with all runs recorded no thread can be at a call (`WriteGateKeeps`).

What a batch costs is proved in `RuntimesProofs`, from `SumsFit`. The sum over a sequence
of calls is the recursive function `Total`. Induction over its length is done on a set:
`NatSets` says that a set of naturals with 0 and with every successor has them all (from
the least element of its complement). From it follow what a sum is (`TotalMore`), that a
changed term changes it by as much (`TotalChanges`), and that terms which are each no
larger than a term of their own have no larger sum (`TotalOfSome`). `SumsFit` says that what is
reserved is the sum of the calls (`ReservedIsTotal`) and leaves, below cap and excess,
room for the excess of each thread that still waits for an answer (`CapLeft`); that
the journal has each call as it is, but for an answer its thread has yet to write down
(`JournalIsCalls`); that a call is billed once, after it is in the journal, and what an
answer reserves covers its bill, in memory and in the journal (`BillsAreOfCalls`, `Covers`). Neither
`CapHolds` nor `ChargesAreRecovered` is inductive: a call may be billed beyond its
reservation long after others were let through, and which bills the journal covers is
decided by what the process knew when it died. Result: `SumsSay`.

`RuntimesProofs` about `ReleaseExperiment` (any cases, repetitions, turns, threads and
kills): `RelInv` says of a living run that each conversation counts its calls and
acknowledges what it shows (`Talks`), that at most one saves at a time and no more
are busy than there are threads (`Conversing`), that the lines written, the report and the
file on disk hold the rows of the conversations that got there and no others
(`Recorded`, `Saved`); of the native trace, that the remote service knows nothing that
was not begun here (`Traceable`); and that marks for returned rows exist only where the
remote rows were read back whole, in the experiment and in its replay (`Returned`,
`Replaying`). `ReturnedIsRead` and `ReplayIsComplete` are not inductive: an export marks
rows in memory, the file is saved later, and the process may be killed between. Result:
`ReleaseSays`.

`DraftsProofs` (any identifiers, inputs, versions of the product, servers, requests of
the seller and faults): the inductive invariant `DInv` has the parts `Grounded` (where
a snapshot or an offer names the present version of a fact, it has its present value;
no version is beyond the product's), `Referring` (cards, messages and rechecks name
drafts that exist, and under the version they name the candidate they show), `Room`
(a message that arrives finds identifiers for its drafts), `Choosing`, `Notified` and
`Held` (what a transaction has loaded may have been rechecked since, but has the
candidate and version that the row still has, so that writing the attributes that
differ loses no words).
A fact may have changed since a snapshot was opened, so `OfferIsGrounded` holds
because of what `Grounded` says about versions and not because facts stand still.
`DraftsKept` says what any step does to a draft; that the one message of a turn takes
a draft on at most once (`GrowsTwice`) is what makes a shown version reliable. Results:
`DraftsStep` (`DInv` and `DraftsKept` for every step), and from it
`OfferStandsOnFacts` (`OfferIsGrounded`), `ConditionsKept` (`KeepsConditions`),
`ContinuedAsShown` (`ContinuesAsShown`) and `AgreedOnEvidence` (`AgreesOnEvidence`).

`RuntimesProofs` carries these over to the specification that `runtimes` checks. A
behaviour of the composition is one of `ApprovalRuntime` and of `DynamicEpisode` for
their rows, and in its scope one of `LegacyRuntime`, `Prototype`, `EvaluationBatch` or
`ReleaseExperiment` for theirs. Hence `EffectsSettle` (`ApprovalEffectsSettle`), `OutcomeKept`
(`ApprovalOutcomeIsKept`), `LegacyWorkSettles` (`LegacyWorkIsSettled`),
`LegacyDealsHaveAuthority` (`LegacyDealsAreAuthorized`), `PrototypeProcessesOnce`
(`PrototypeInputsOnce`), `EvaluationFinal` (`EvaluationIsFinal`: a manifest is completed
by a process that then ends, or after its end), and `EvaluationAccounted`
(`EvaluationIsAccounted`: types, cap, recovered charges and complete gates of a batch, the
audit of an episode, and the rows, exports and replay of a release experiment).

`TurnsProofs`, first part (any number of owners, calls, rounds, foreign versions and
faults, any caps): the inductive invariant `IInv` says what a process may have in
hand while others write. `LedgerFits`: an answer is of the kind of its call.
`Backed(cp)`: what a checkpoint claims (parse, plan, delivery, message) is in the
rows; this is said of the saved one and of the copy of every process, dead owners
included, because rows only go on (`Onward`, `Grows`). `Sane(e)`: a process knows
the node it asks for, and what it got is in the ledger. Only of the newest epoch:
`Newest`, that it stands at the saved checkpoint, has no accepted answer to the call
it waits for, and reviews the candidate the rows hold; `Judged`, that the checkpoint's
word on the candidate is true of it. `QualityFits` and `MessageFits` tie candidate
and message to a safe composition and a favourable review of it on the same version.
None of the properties is inductive without these: that an answer is the first of
its key is known when it is reserved and needed when it arrives. Each action shows
that it moves one process rightly (`Moved(e)`, `Placed`), and `MovedKeeps` does the
rest once; `RestKeeps` does it for what happens outside of processes. Results:
`TurnTypes`, `SpendIsCapped` (`SpendWithinCap`; a reservation fits into the cap, and
an outcome never costs more than was reserved for it), `AnswersAreUnique`
(`OneAnswerPerStep`), `NothingUnreviewedIsSaid` (`PublishedIsReviewed`),
`CheckpointsKeepEvidence` (`CheckpointHasEvidence`), `PlansAreKept` (`KeepsPlan`), and
`TurnAccount` (`TurnIsAccountedFor`) for the composition that `turns` checks. The same
module proves `OffersStandOnFacts` (`OffersAreGrounded`) for it, from `DraftsProofs`.

`TurnsProofs`, second part (any processes, candidate texts, budgets, attempts and
faults of the agent): the inductive invariant `AInv`. `Fits` says what a checkpoint
must be to be saved: within its budgets, one reserved id for each tool call, pending
the calls of the last step with different ids (`WithinBudgets`), told by the stream,
which has each event once and no result of a pending call (`Tells`, `Unsaid`), and
with its calls counted. `CallsAreCounted` is what makes `SpendIsCounted` hold: a call
that used more than it reserved is either counted, or its key is the next question of
the loop and still owed (`Unpaid`), so that nothing else of the loop or of a review can
be sent first; an execution that takes over asks that question again, finds the answer
recorded, and counts it. `LeasesDiffer` says that no two executions hold the lease, and
`Standing` that who holds it works on a copy of the saved checkpoint (`Copies`), asks
what that calls for (`Sound`) and, before a request is recorded, has one reserved call
more than there are requests. None of it is asked of an execution without the lease:
it may stand anywhere, because every transaction looks at the lease first. Each action
of the holder saves a checkpoint that `Fits` and goes on with a copy of it (`Works`,
`WorksOn`), or ends the turn (`Finishes`). Results: `AgentAccount`
(`AgentIsAccountedFor`) and, with the steps of the semantic turn and of the drafts,
`WordsKept` (`WordsAreKept`).

Assumptions are the named ASSUMEs of the modules, each about constants only. Those of
a component that is checked inside a composition are stated there, over its constants:
`LegacyConstants` in `MCRuntimes`, `PrototypeValues`, `EpisodeValues`, `BatchValues` and
`ReleaseValues` in `ComponentsProofs`, `DraftValues` and `AgentValues` in `MCTurns`.
They say that the constants are of their types (prices are positive, limits numbers,
identifiers, requests, threads, cases and repetitions finitely many), that a request is no number, as keys of tasks
are requests or numbers of approvals, that "none" is no value of a model and no thread,
that the runs of a batch are numbered from 1, and that the seller's floor is not above
the price to accept at (which `evaluation/schemas.py:79` checks).

Only model-checked: all liveness (`WaitingEnds`, `StaleOffersFall` and the five of
`ends`), which is outside the prover's reach, and of `runtimes` the pages
(`PagesTellTheTruth`). Every other property of a passing run is a theorem.

## 5. Disagreements found

1. `expired`: a claim without time left writes FAILED but keeps `next_retry_at`,
   which the table's CHECK refuses (`input_queue.py:287`, `model_task.py:97`). The
   run is retried forever and never shown as needing recovery.
2. `terminate`: a termination of an overdue run is killed by the supervisor before
   it starts (`supervisor.py:107` against `input_queue.py:285`).
3. `stale`: `execute` opens its snapshot with a plain read, in `lock_owner`
   (`business_command_service.py:50`, `input_queue.py:56`) and again for the receipt
   (`:56`), before it locks the product (`:63`). A confirmation that
   waits there while `set_fact` commits judges the offer by the old facts and the
   session becomes AGREED, although the final confirmation is documented to check
   them again. `AgreesOnEvidence`, which does hold, says how far it may be off:
   the facts were those of the transaction's beginning.

Observations made on the way, for the maintainers. They are in the models as the
code has them; none is checked by a run of its own.

- Queue. The closing window is counted from the heartbeat that notices the end of
  the budget (`activity.py:43`) and so may last up to 20 instead of 15 seconds. An
  attempt that dies between claim and `attach_owner` leaves a lease that makes the
  supervisor kill every later child at its first poll (`supervisor.py:114`).
- Negotiation. A refused low proposal counts the session's version up
  (`graph_business_operations.py:258`), after which the card of the offer that is
  still valid can be neither displayed nor refreshed (`presentation.py:83`).
- Approvals. A worker selects before it locks, so it may meet the missing
  checkpoint of an archived session. `recovery_required` of an execution is never
  reset: after three failures an approved decision stays unapplied.
- Semantic turn. After two failed parses the clarifying plan is written; a crash
  before the checkpoint may bring an accepted parse that is then ignored. A crash
  after a repair candidate's row changes the inputs of compose and causes a new call.
- Drafts. `set_fact` commits before the recheck; a crash between leaves drafts
  unchecked. An item opened after the recheck listed is missed. The recheck loads
  item and draft before the session's lock and may write READY for an older version
  or over SUBMITTED. Duplicate notices are prevented by the unique `source_id` only,
  and the IntegrityError ends the remaining rechecks.
- Legacy. A rejected approval's follow-up reopens a session that waits for a newer
  approval. An approval whose facts changed during the call is SENT as not applied
  and leaves the session waiting; so does terminating an approved follow-up. A
  second claim after changed facts raises out of the worker's loop.
- Agent. The overrun of a maintenance call is lost by a crash between answer and
  record; `started_at` begins anew if the process dies before its first save.
- Prototype. `revoke` is unconditional and may take a successor's COMPLETED row
  back to RETRY_WAIT; only the cursor keeps it from being claimed. The entry
  "conflict" is unreachable.
- Evaluation. Torn or missing files make the finalizer fail; a batch killed between
  `gate.json` and the manifest is later finalized as interrupted although it passed.
  The gate looks at reserved cost, not tokens, and at the statuses of runs, not at
  lost calls (above, `PassedIsComplete`). An exception out of `run_episode`
  leaves the remaining futures unrecorded. A rejected approval leaves the
  environment's offer current, unlike production.
- Release experiment. `frozen_runtime` and the judge's score are no inputs of
  acceptance; a crash between creating a dataset and its examples leaves it empty;
  `remote_returned` reflects the last export only; a replay without legacy rows raises.
- Pages. Logout and 401 clear records, and records older than a day vanish
  silently; unreadable storage reads as empty.

## 6. Not modelled

For good: language (parsing, prompting, the quality of replies), hashing and token
formats, serialisation, logging and audit exports, the static evaluation, reports,
data preparation, delivery and migration scripts, and pages that only show what
they read.

Left out of the modules above: the 150 second hard limit and the age rule of the
watchdog, forced cleanup, service heartbeats and readiness, the limits on
parallel children, the moment between the first checkpoint LangGraph writes and
its first node, deletion of expired technical rows, the seller desk's own request
ids, the concession formula and rounding of prices, several inputs at once inside
`SemanticTurn` (module `GraphRuntime` shows there is one), and more than one
session per product in `Drafts`.

## 7. Plan

What is left is proof: `PendingOperations` and `NegotiationPage`, whose pages read what
others write, each carried over to the composition that checks it.
