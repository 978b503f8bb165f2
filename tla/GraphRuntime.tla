----------------------------- MODULE GraphRuntime -----------------------------
(***************************************************************************)
(* The durable execution of the buyer inputs of one session: the MySQL     *)
(* task, input and notification rows, the PostgreSQL thread lock and       *)
(* checkpoint, the supervised child processes, the watchdog, the           *)
(* notification dispatcher and the seller's recovery desk.                 *)
(*                                                                         *)
(* Time.  A deadline is a flag that time may raise at any moment: a        *)
(* process may be arbitrarily slow.  Module ActivityTime keeps the         *)
(* arithmetic of these deadlines; what matters here is the order they      *)
(* impose.  The execution of a run is "open" while model work is allowed,  *)
(* "closing" for the 15 seconds after budget or reply deadline, and then   *)
(* "closed"; a lease never outlives the closing window, except the fresh   *)
(* 15 seconds that a cleanup attempt is granted.                           *)
(***************************************************************************)
EXTENDS Integers, Sequences, FiniteSets

CONSTANTS
    Instance,      \* slots for execution processes (one child each)
    Notifier,      \* slots for notification attempts
    Quality,       \* TRUE: negotiation-v3 (supervised, budgeted, composes replies)
    QueueLimit,    \* unresolved inputs allowed before one more (20 in the code)
    MaxAttempts,   \* automatic attempts of one task (3 in the code)
    MaxNotify,     \* automatic attempts of one notification (3 in the code)
    MaxInputs,     \* bound: inputs per session
    MaxFaults,     \* bound: crashes, hangs, lost connections and failed calls
    MaxManual      \* bound: seller recovery actions

Free == "free"     \* no holder of a lock or of a notification lease

ASSUME ConstantsAssumption ==
    /\ Quality \in BOOLEAN
    /\ {QueueLimit, MaxAttempts, MaxNotify, MaxInputs} \subseteq Nat \ {0}
    /\ {MaxFaults, MaxManual} \subseteq Nat
    /\ Instance \cap Notifier = {}
    /\ Free \notin Instance \cup Notifier

VARIABLES
    nextSeq,       \* session.next_input_seq
    resolved,      \* session.last_resolved_input_seq
    task,          \* model_execution_tasks, by input_seq
    input,         \* negotiation_inputs, by input_seq
    delivery,      \* notification_deliveries turn:{run}:reply, by input_seq
    receipts,      \* inputs with a business_action_receipts row
    messages,      \* public messages in public_seq order
    checkpoint,    \* latest LangGraph checkpoint of the thread
    lock,          \* holder of the PostgreSQL advisory lock of the thread
    exec,          \* execution processes and their registration rows
    notifier,      \* notification attempts in progress
    faults, manual \* counters for the bounds MaxFaults and MaxManual

queueVars == <<nextSeq, resolved>>
replyVars == <<delivery, messages>>
boundVars == <<faults, manual>>
vars == <<nextSeq, resolved, task, input, delivery, receipts, messages,
          checkpoint, lock, exec, notifier, faults, manual>>

Inputs == 1..MaxInputs
Stages == {"parse", "commit", "compose", "publish"}
Holder == Instance \cup Notifier

-------------------------------------------------------------------------------
(* Rows as first written.                                                  *)

NewTask == [status |-> "PENDING", token |-> 0, live |-> FALSE, grace |-> FALSE,
            retryAt |-> FALSE, attempts |-> 0, max |-> MaxAttempts, action |-> "NONE"]
NewInput == [window |-> "open", active |-> FALSE, recovery |-> FALSE, evidence |-> FALSE]
NoDelivery == [status |-> "NONE", outcome |-> "NOACTION", due |-> FALSE,
               token |-> Free, live |-> FALSE, attempts |-> 0]
NewDelivery(outcome) == [NoDelivery EXCEPT !.status = "PENDING", !.outcome = outcome]
NoProcess == [pc |-> "off", run |-> 1, node |-> "parse", owner |-> 0, row |-> "NONE",
              token |-> 0, young |-> FALSE, conn |-> FALSE, watch |-> "off"]

Init ==
    /\ nextSeq = 1 /\ resolved = 0
    /\ task = [r \in Inputs |-> NewTask]
    /\ input = [r \in Inputs |-> NewInput]
    /\ delivery = [r \in Inputs |-> NoDelivery]
    /\ receipts = {} /\ messages = <<>>
    /\ checkpoint = [run |-> 0, next |-> "END"]
    /\ lock = Free
    /\ exec = [i \in Instance |-> NoProcess]
    /\ notifier = [n \in Notifier |-> 0]
    /\ faults = 0 /\ manual = 0

-------------------------------------------------------------------------------
(* Helpers.                                                                *)

\* Mutant: the check that only the head may be handled is loosened.
AnyUnresolved(r) == r < nextSeq /\ r > resolved

QueueHead(r) == r < nextSeq /\ r = resolved + 1

\* Each claim draws a fresh lease_token and raises ownership_epoch; the number of
\* the attempt stands for the pair, 0 for no lease.  Revoking clears the token.

\* Mutant: the token and epoch are not compared.
OwnsByStatusOnly(i) == LET t == task[exec[i].run] IN t.status = "RUNNING" /\ t.live

\* lock_owner: the transaction of process i may touch its run.
Owns(i) == LET t == task[exec[i].run] IN
    t.status = "RUNNING" /\ t.token = exec[i].owner /\ t.live

\* The registration row of i names the current owner of its task.
SameOwner(i, t) == exec[i].token # 0 /\ exec[i].token = t.token

\* The lease columns are cleared whenever the task stops running.
Unleased(t, status) == [t EXCEPT !.status = status, !.token = 0, !.live = FALSE,
                                 !.grace = FALSE, !.retryAt = (status = "RETRY_WAIT")]

\* settle: the attempt is charged and closed.
Settle(c) == [c EXCEPT !.active = FALSE]

Goto(i, pc) == exec' = [exec EXCEPT ![i].pc = pc]

\* An exception leaves the graph.
Fail(i, pc) == exec' = [exec EXCEPT ![i].pc = pc, ![i].node = "parse"]

\* The child returns: its connection closes and the lock goes with it.  Its
\* registration row matters only while it still names the owner of the task.
Exit(i, t) ==
    /\ exec' = [exec EXCEPT ![i] = IF SameOwner(i, t)
                    THEN [@ EXCEPT !.pc = "off", !.conn = FALSE, !.watch = "off",
                                   !.owner = 0, !.node = "parse"]
                    ELSE NoProcess]
    /\ lock' = IF lock = i THEN Free ELSE lock

-------------------------------------------------------------------------------
(* API: enqueue.                                                           *)

Enqueue ==
    /\ nextSeq <= MaxInputs
    /\ nextSeq - resolved <= QueueLimit
    /\ nextSeq' = nextSeq + 1
    /\ UNCHANGED <<resolved, task, input, replyVars, receipts, checkpoint, lock, exec,
                   notifier, boundVars>>

-------------------------------------------------------------------------------
(* Worker: dispatch the head of the queue to a fresh execution process.    *)

\* Mutant: the scan leaves out runs whose owner died.
CandidateUnlessRunning(r) ==
    /\ QueueHead(r)
    /\ ~input[r].recovery
    /\ ~task[r].live
    /\ task[r].status \in {"PENDING", "RETRY_WAIT"}

Candidate(r) ==
    /\ QueueHead(r)
    /\ ~input[r].recovery
    /\ ~task[r].live
    /\ task[r].status \in {"PENDING", "RETRY_WAIT", "RUNNING"}

\* The child that run_supervised starts for a run: its registration is to come.
Child(r) == [NoProcess EXCEPT !.pc = "start", !.run = r,
                              !.watch = IF Quality THEN "watch" ELSE "off"]

\* A slot is free once its process and connection are gone and its row names no
\* owner any more: cleaning such a row changes nothing else.
Spawn(i) == \E r \in Inputs :
    /\ Candidate(r)
    /\ exec[i].pc = "off" /\ ~exec[i].conn
    /\ ~SameOwner(i, task[exec[i].run])
    /\ exec' = [exec EXCEPT ![i] = Child(r)]
    /\ UNCHANGED <<queueVars, task, input, replyVars, receipts, checkpoint, lock,
                   notifier, boundVars>>

\* locked_saver opens the connection; register_instance records its identity.
Connect(i) ==
    /\ exec[i].pc = "start"
    /\ exec' = [exec EXCEPT ![i].pc = "connected", ![i].conn = TRUE,
                            ![i].row = "REGISTERED", ![i].token = 0, ![i].young = TRUE]
    /\ UNCHANGED <<queueVars, task, input, replyVars, receipts, checkpoint, lock,
                   notifier, boundVars>>

\* pg_try_advisory_lock: ThreadBusy, or a connection lost, ends the process.
TryLock(i) ==
    /\ exec[i].pc = "connected"
    /\ exec[i].conn /\ lock = Free
    /\ lock' = i
    /\ Goto(i, "locked")
    /\ UNCHANGED <<queueVars, task, input, replyVars, receipts, checkpoint, notifier, boundVars>>

ThreadBusy(i) ==
    /\ exec[i].pc = "connected"
    /\ ~exec[i].conn \/ lock # Free
    /\ Exit(i, task[exec[i].run])
    /\ UNCHANGED <<queueVars, task, input, replyVars, receipts, checkpoint, notifier, boundVars>>

-------------------------------------------------------------------------------
(* InputQueue.claim and attach_owner.                                      *)

Claimable(r) ==
    /\ r = resolved + 1
    /\ ~input[r].recovery
    /\ task[r].status \notin {"SUCCEEDED", "FAILED"}
    /\ ~task[r].live

\* A terminated run, or one whose reply is out, is given 15 seconds to finish
\* even if its closing window has passed.
CleanupOnly(r) == task[r].action = "TERMINATE" \/ delivery[r].status = "PUBLISHED"

TimeLeft(r) == CleanupOnly(r) \/ input[r].window # "closed"

\* Both refusals mark the task FAILED and ask the seller for recovery, but the
\* first leaves next_retry_at as it found it.
ExpiredRow(r) == [Unleased(task[r], "FAILED") EXCEPT !.retryAt = task[r].retryAt]
ExhaustedRow(r) == Unleased(task[r], "FAILED")

GiveUp(r, row) ==
    /\ task' = [task EXCEPT ![r] = row]
    /\ input' = [input EXCEPT ![r] = [Settle(@) EXCEPT !.recovery = TRUE]]

\* CHECK retry_time_matches_status of the table.
Accepted(row) == row.retryAt <=> row.status = "RETRY_WAIT"

\* Not claimable: nothing is written and run() returns.
ClaimRefused(i) ==
    /\ exec[i].pc = "locked"
    /\ ~Claimable(exec[i].run)
    /\ Exit(i, task[exec[i].run])
    /\ UNCHANGED <<queueVars, task, input, replyVars, receipts, checkpoint, notifier, boundVars>>

\* No time is left.  A row the database does not accept rolls the transaction back
\* and ends the process with an error.
ClaimExpired(i) == LET r == exec[i].run IN
    /\ exec[i].pc = "locked"
    /\ Claimable(r) /\ ~TimeLeft(r)
    /\ IF Accepted(ExpiredRow(r)) THEN GiveUp(r, ExpiredRow(r)) ELSE UNCHANGED <<task, input>>
    /\ Exit(i, task'[r])
    /\ UNCHANGED <<queueVars, replyVars, receipts, checkpoint, notifier, boundVars>>

ClaimExhausted(i) == LET r == exec[i].run IN
    /\ exec[i].pc = "locked"
    /\ Claimable(r) /\ TimeLeft(r)
    /\ task[r].attempts >= task[r].max
    /\ GiveUp(r, ExhaustedRow(r))
    /\ Exit(i, task'[r])
    /\ UNCHANGED <<queueVars, replyVars, receipts, checkpoint, notifier, boundVars>>

Claim(i) == LET r == exec[i].run IN
    /\ exec[i].pc = "locked"
    /\ Claimable(r) /\ TimeLeft(r)
    /\ task[r].attempts < task[r].max
    /\ task' = [task EXCEPT ![r].status = "RUNNING", ![r].token = task[r].attempts + 1,
                    ![r].live = TRUE, ![r].grace = CleanupOnly(r), ![r].retryAt = FALSE,
                    ![r].attempts = task[r].attempts + 1]
    /\ input' = [input EXCEPT ![r].active = TRUE]
    /\ exec' = [exec EXCEPT ![i].pc = "claimed", ![i].owner = task[r].attempts + 1]
    /\ UNCHANGED <<queueVars, replyVars, receipts, checkpoint, lock, notifier, boundVars>>

\* attach_owner binds the owner to the registration, unless it was revoked.
Attach(i) ==
    /\ exec[i].pc = "claimed"
    /\ IF Owns(i) /\ exec[i].row = "REGISTERED"
       THEN exec' = [exec EXCEPT ![i].pc = "attached", ![i].token = exec[i].owner,
                                 ![i].young = FALSE]
       ELSE Fail(i, "release")
    /\ UNCHANGED <<queueVars, task, input, replyVars, receipts, checkpoint, lock,
                   notifier, boundVars>>

-------------------------------------------------------------------------------
(* GraphRunner._run: entry, nodes, termination and finish.                 *)

\* Mutant: having been claimed before counts as evidence.
StartedByClaim(r) == task[r].attempts > 1 \/ r \in receipts \/ delivery[r].status # "NONE"

\* Evidence that this run has already been started.
Started(r) == input[r].evidence \/ r \in receipts \/ delivery[r].status # "NONE"

\* choose_entry, and the seller's TERMINATE, read the checkpoint and the rows.
Enter(i) == LET r == exec[i].run
                own == checkpoint.run = r
                idle == checkpoint.next = "END"
                stop == task[r].action = "TERMINATE" IN
    /\ exec[i].pc = "attached"
    /\ \/ /\ ~exec[i].conn
          /\ Fail(i, "release") /\ UNCHANGED checkpoint
       \/ /\ exec[i].conn /\ stop /\ (idle \/ own)
          /\ Goto(i, "abort") /\ UNCHANGED checkpoint
       \/ /\ exec[i].conn /\ ~stop /\ own
          /\ exec' = [exec EXCEPT ![i].pc = IF idle THEN "finalize" ELSE "node",
                                  ![i].node = IF idle THEN exec[i].node
                                              ELSE checkpoint.next]
          /\ UNCHANGED checkpoint
       \/ /\ exec[i].conn /\ ~stop /\ checkpoint.run < r /\ idle /\ ~Started(r)
          /\ r = resolved + 1
          /\ checkpoint' = [run |-> r, next |-> "parse"]
          /\ exec' = [exec EXCEPT ![i].pc = "node", ![i].node = "parse"]
       \/ /\ exec[i].conn
          /\ \/ stop /\ ~idle /\ ~own
             \/ ~stop /\ ~own /\ (checkpoint.run > r \/ ~idle \/ Started(r) \/ r # resolved + 1)
          /\ Fail(i, "conflict") /\ UNCHANGED checkpoint
    /\ UNCHANGED <<queueVars, task, input, replyVars, receipts, lock, notifier, boundVars>>

After(node) == CASE node = "parse" -> "commit"
                 [] node = "commit" -> IF Quality THEN "compose" ELSE "publish"
                 [] node = "compose" -> "publish"
                 [] node = "publish" -> "END"

\* A stage checks ownership in its own transaction.  Losing it is an exception:
\* the run goes to release, which can no longer write either.
Stage(i, node) == exec[i].pc = "node" /\ exec[i].node = node

StageStale(i) ==
    /\ exec[i].pc \in {"node", "execute"} /\ ~Owns(i)
    /\ Fail(i, "release")
    /\ UNCHANGED <<queueVars, task, input, replyVars, receipts, checkpoint, lock,
                   notifier, boundVars>>

\* prepare_context, parse_intents and plan_intents record their artifacts, the
\* first of which is the evidence that this run was started.
Parse(i) ==
    /\ Stage(i, "parse") /\ Owns(i)
    /\ input' = [input EXCEPT ![exec[i].run].evidence = TRUE]
    /\ Goto(i, "save")
    /\ UNCHANGED <<queueVars, task, replyVars, receipts, checkpoint, lock, notifier, boundVars>>

\* abort_or_query creates a reply without an action unless one is already owed.
NoActionReply(r) ==
    delivery' = IF delivery[r].status = "NONE"
                THEN [delivery EXCEPT ![r] = NewDelivery("NOACTION")] ELSE delivery

\* The v3 commit stage first asks for model time in a transaction of its own;
\* BudgetExhausted turns the turn into one without an action.
CheckBudget(i) == LET r == exec[i].run IN
    /\ Stage(i, "commit") /\ Owns(i)
    /\ IF Quality /\ input[r].window # "open"
       THEN NoActionReply(r) /\ Goto(i, "save")
       ELSE UNCHANGED delivery /\ Goto(i, "execute")
    /\ UNCHANGED <<queueVars, task, input, messages, receipts, checkpoint, lock,
                   notifier, boundVars>>

\* execute: the receipt, the notification obligation and its outbox event commit
\* together, or the stored receipt is returned.  A delivery row without a receipt
\* (a terminated run that was retried) makes the insert fail.
CommitAction(i) == LET r == exec[i].run IN
    /\ exec[i].pc = "execute" /\ Owns(i)
    /\ \/ r \in receipts /\ Goto(i, "save") /\ UNCHANGED <<delivery, receipts>>
       \/ /\ r \notin receipts /\ delivery[r].status # "NONE"
          /\ Fail(i, "release") /\ UNCHANGED <<delivery, receipts>>
       \/ /\ r \notin receipts /\ delivery[r].status = "NONE"
          /\ receipts' = receipts \cup {r}
          /\ delivery' = [delivery EXCEPT ![r] = NewDelivery("ACTION")]
          /\ Goto(i, "save")
    /\ UNCHANGED <<queueVars, task, input, messages, checkpoint, lock, notifier, boundVars>>

\* A query, or an action refused (stale version, ended session, invalid terms).
CommitNothing(i) ==
    /\ exec[i].pc = "execute" /\ Owns(i)
    /\ NoActionReply(exec[i].run)
    /\ Goto(i, "save")
    /\ UNCHANGED <<queueVars, task, input, messages, receipts, checkpoint, lock,
                   notifier, boundVars>>

\* compose_reply and review_reply, repaired at most twice, leave only artifacts.
Compose(i) ==
    /\ Stage(i, "compose") /\ Owns(i)
    /\ Goto(i, "save")
    /\ UNCHANGED <<queueVars, task, input, replyVars, receipts, checkpoint, lock,
                   notifier, boundVars>>

\* Mutant: the unique source of the message is not looked up first.
PublishAgain(r) ==
    /\ messages' = Append(messages, [run |-> r, outcome |-> delivery[r].outcome])
    /\ delivery' = [delivery EXCEPT ![r].status = "PUBLISHED", ![r].token = Free,
                                    ![r].live = FALSE]

\* Mutant: the notification is given the final status of a task.
PublishAsSucceeded(r) ==
    /\ messages' = Append(messages, [run |-> r, outcome |-> delivery[r].outcome])
    /\ delivery' = [delivery EXCEPT ![r].status = "SUCCEEDED", ![r].token = Free,
                                    ![r].live = FALSE]

\* NotificationService.publish: an already published source returns its message.
PublishReply(r) ==
    IF delivery[r].status = "PUBLISHED" THEN UNCHANGED replyVars
    ELSE /\ messages' = Append(messages, [run |-> r, outcome |-> delivery[r].outcome])
         /\ delivery' = [delivery EXCEPT ![r].status = "PUBLISHED", ![r].token = Free,
                                         ![r].live = FALSE]

Publish(i) ==
    /\ Stage(i, "publish") /\ Owns(i)
    /\ PublishReply(exec[i].run)
    /\ Goto(i, "save")
    /\ UNCHANGED <<queueVars, task, input, receipts, checkpoint, lock, notifier, boundVars>>

\* Mutant: the saver reconnects on its own after the locked connection is gone.
SaveReconnecting(i) == LET next == After(exec[i].node) IN
    /\ exec[i].pc = "save"
    /\ checkpoint' = [run |-> exec[i].run, next |-> next]
    /\ exec' = [exec EXCEPT ![i].pc = IF next = "END" THEN "finalize" ELSE "node",
                            ![i].node = IF next = "END" THEN "parse" ELSE next]
    /\ UNCHANGED <<queueVars, task, input, replyVars, receipts, lock, notifier, boundVars>>

\* durability="sync": the next stage starts only after this checkpoint is stored
\* through the locked connection; ownership is not checked here.
SaveCheckpoint(i) == LET next == After(exec[i].node) IN
    /\ exec[i].pc = "save"
    /\ IF exec[i].conn
       THEN /\ checkpoint' = [run |-> exec[i].run, next |-> next]
            /\ exec' = [exec EXCEPT ![i].pc = IF next = "END" THEN "finalize" ELSE "node",
                                    ![i].node = IF next = "END" THEN "parse" ELSE next]
       ELSE Fail(i, "release") /\ UNCHANGED checkpoint
    /\ UNCHANGED <<queueVars, task, input, replyVars, receipts, lock, notifier, boundVars>>

\* TERMINATE: an owed reply is published without replaying a stage ...
Abort(i) ==
    /\ exec[i].pc = "abort"
    /\ IF Owns(i)
       THEN NoActionReply(exec[i].run) /\ Goto(i, "abortPublish")
       ELSE UNCHANGED delivery /\ Fail(i, "release")
    /\ UNCHANGED <<queueVars, task, input, messages, receipts, checkpoint, lock,
                   notifier, boundVars>>

AbortPublish(i) ==
    /\ exec[i].pc = "abortPublish"
    /\ IF Owns(i)
       THEN PublishReply(exec[i].run) /\ Goto(i, "abortSave")
       ELSE UNCHANGED replyVars /\ Fail(i, "release")
    /\ UNCHANGED <<queueVars, task, input, receipts, checkpoint, lock, notifier, boundVars>>

\* ... and a terminal checkpoint of this run is written as publish_reply.
AbortSave(i) ==
    /\ exec[i].pc = "abortSave"
    /\ IF exec[i].conn
       THEN /\ checkpoint' = [run |-> exec[i].run, next |-> "END"]
            /\ Goto(i, "finalize")
       ELSE Fail(i, "release") /\ UNCHANGED checkpoint
    /\ UNCHANGED <<queueVars, task, input, replyVars, receipts, lock, notifier, boundVars>>

\* InputQueue.finalize: only the END of this run, with its reply published, moves
\* the cursor to the next input.
Finalize(i) == LET r == exec[i].run IN
    /\ exec[i].pc = "finalize"
    /\ IF /\ exec[i].conn /\ Owns(i)
          /\ checkpoint = [run |-> r, next |-> "END"]
          /\ delivery[r].status = "PUBLISHED"
          /\ r = resolved + 1
       THEN /\ resolved' = r
            /\ input' = [input EXCEPT ![r] = Settle(@)]
            /\ task' = [task EXCEPT ![r] = Unleased(@, "SUCCEEDED")]
            /\ Exit(i, task'[r])
       ELSE Fail(i, "release") /\ UNCHANGED <<resolved, input, task, lock>>
    /\ UNCHANGED <<nextSeq, replyVars, receipts, checkpoint, notifier, boundVars>>

\* InputQueue.release after any exception; a lost ownership is suppressed.
Release(i) == LET r == exec[i].run IN
    /\ exec[i].pc \in {"release", "conflict"}
    /\ IF Owns(i)
       THEN /\ task' = [task EXCEPT ![r] = Unleased(@, "RETRY_WAIT")]
            /\ input' = [input EXCEPT ![r] =
                            [Settle(@) EXCEPT !.recovery = (exec[i].pc = "conflict")]]
       ELSE UNCHANGED <<task, input>>
    /\ Exit(i, task'[r])
    /\ UNCHANGED <<queueVars, replyVars, receipts, checkpoint, notifier, boundVars>>

-------------------------------------------------------------------------------
(* Faults.  An SDK call that ignores its timeout hangs the stage; a process  *)
(* dies and its connection lingers until PostgreSQL notices; a connection    *)
(* is lost under a live process; any call may raise.                         *)

Fault == faults < MaxFaults /\ faults' = faults + 1

Hang(i) ==
    /\ Fault
    /\ Quality /\ exec[i].pc = "node" /\ exec[i].node \in {"parse", "compose"}
    /\ Goto(i, "hung")
    /\ UNCHANGED <<queueVars, task, input, replyVars, receipts, checkpoint, lock,
                   notifier, manual>>

Die(i) == exec' = [exec EXCEPT ![i].pc = "off", ![i].watch = "off", ![i].owner = 0,
                               ![i].node = "parse"]

Crash(i) ==
    /\ Fault
    /\ exec[i].pc # "off"
    /\ Die(i)
    /\ UNCHANGED <<queueVars, task, input, replyVars, receipts, checkpoint, lock,
                   notifier, manual>>

\* The supervising worker dies and its child is orphaned.
Orphan(i) ==
    /\ Fault
    /\ exec[i].pc # "off" /\ exec[i].watch # "off"
    /\ exec' = [exec EXCEPT ![i].watch = "off"]
    /\ UNCHANGED <<queueVars, task, input, replyVars, receipts, checkpoint, lock,
                   notifier, manual>>

LoseConnection(i) ==
    /\ Fault
    /\ exec[i].pc # "off" /\ exec[i].conn
    /\ exec' = [exec EXCEPT ![i].conn = FALSE]
    /\ lock' = IF lock = i THEN Free ELSE lock
    /\ UNCHANGED <<queueVars, task, input, replyVars, receipts, checkpoint, notifier, manual>>

Raise(i) ==
    /\ Fault
    /\ exec[i].pc \in {"claimed", "attached", "node", "execute", "save", "abort",
                       "abortPublish", "abortSave", "finalize"}
    /\ Fail(i, "release")
    /\ UNCHANGED <<queueVars, task, input, replyVars, receipts, checkpoint, lock,
                   notifier, manual>>

\* PostgreSQL ends the session of a dead process.
ConnectionEnds(i) ==
    /\ exec[i].pc = "off" /\ exec[i].conn
    /\ Exit(i, task[exec[i].run])
    /\ UNCHANGED <<queueVars, task, input, replyVars, receipts, checkpoint, notifier, boundVars>>

-------------------------------------------------------------------------------
(* run_supervised: the parent looks, revokes the ownership its own child     *)
(* registered, and only then kills it.                                       *)

\* The deadline the parent computes is that of the run, whoever owns it now: the
\* closing window has passed, or an attempt that was never settled has outlived
\* its lease (the full time of such an attempt is taken to have passed with it).
Overrun(r) == input[r].window = "closed" \/ (input[r].active /\ ~task[r].live)

SupervisorLooks(i) ==
    /\ exec[i].pc # "off" /\ exec[i].watch = "watch"
    /\ Overrun(exec[i].run)
    /\ exec' = [exec EXCEPT ![i].watch = "expired"]
    /\ UNCHANGED <<queueVars, task, input, replyVars, receipts, checkpoint, lock,
                   notifier, boundVars>>

\* Mutant: ownership is revoked without comparing token and epoch.
RevokeAnyOwner(i) == LET r == exec[i].run IN
    /\ task' = [task EXCEPT ![r] = Unleased(@, "RETRY_WAIT")]
    /\ input' = [input EXCEPT ![r] = Settle(@)]

\* Shared by the supervisor and the watchdog.
Revoke(i) == LET r == exec[i].run IN
    IF SameOwner(i, task[r]) /\ task[r].status = "RUNNING"
    THEN /\ task' = [task EXCEPT ![r] = Unleased(@, "RETRY_WAIT")]
         /\ input' = [input EXCEPT ![r] = Settle(@)]
    ELSE UNCHANGED <<task, input>>

SupervisorFences(i) ==
    /\ exec[i].pc # "off" /\ exec[i].watch = "expired"
    /\ Revoke(i)
    /\ exec' = [exec EXCEPT ![i].watch = "fenced"]
    /\ UNCHANGED <<queueVars, replyVars, receipts, checkpoint, lock, notifier, boundVars>>

SupervisorKills(i) ==
    /\ exec[i].pc # "off" /\ exec[i].watch = "fenced"
    /\ Die(i)
    /\ UNCHANGED <<queueVars, task, input, replyVars, receipts, checkpoint, lock,
                   notifier, boundVars>>

-------------------------------------------------------------------------------
(* Watchdog: cleanup_instance revokes ownership in one transaction and ends  *)
(* the registered connection after it.                                       *)

\* A young registration may still be about to claim; a live owner is left alone
\* until its closing window has passed.
Spared(i) == LET r == exec[i].run IN
    \/ exec[i].token = 0 /\ exec[i].young
    \/ SameOwner(i, task[r]) /\ task[r].live /\ input[r].window # "closed"

WatchdogRevokes(i) ==
    /\ exec[i].row = "REGISTERED" /\ ~Spared(i)
    /\ Revoke(i)
    /\ exec' = [exec EXCEPT ![i].row = "REVOKED"]
    /\ UNCHANGED <<queueVars, replyVars, receipts, checkpoint, lock, notifier, boundVars>>

WatchdogReleases(i) ==
    /\ exec[i].row = "REVOKED"
    /\ exec' = [exec EXCEPT ![i] = IF @.pc = "off" THEN NoProcess
                    ELSE [@ EXCEPT !.conn = FALSE, !.row = "NONE", !.token = 0, !.young = FALSE]]
    /\ lock' = IF lock = i THEN Free ELSE lock
    /\ UNCHANGED <<queueVars, task, input, replyVars, receipts, checkpoint, notifier, boundVars>>

-------------------------------------------------------------------------------
(* GraphRunner.notify: publish an owed reply without running the graph.      *)

\* Mutant: a notification whose dispatcher died is not claimed again.
NotifiableUnlessRunning(r) ==
    /\ delivery[r].status \in {"PENDING", "RETRY_WAIT"}
    /\ ~delivery[r].live
    /\ delivery[r].due \/ (Quality /\ ~task[r].live)

\* Due in the dispatcher's scan, or right after a supervised child has ended.
Notifiable(r) ==
    /\ delivery[r].status \in {"PENDING", "RUNNING", "RETRY_WAIT"}
    /\ ~delivery[r].live
    /\ delivery[r].due \/ (Quality /\ ~task[r].live)

NotifyClaim(n) == \E r \in Inputs :
    /\ notifier[n] = 0 /\ lock = Free
    /\ Notifiable(r)
    /\ lock' = n
    /\ notifier' = [notifier EXCEPT ![n] = r]
    /\ delivery' = [delivery EXCEPT ![r].status = "RUNNING", ![r].token = n,
                                    ![r].live = TRUE,
                                    ![r].attempts = IF delivery[r].attempts < MaxNotify
                                                   THEN delivery[r].attempts + 1
                                                   ELSE delivery[r].attempts]
    /\ UNCHANGED <<queueVars, task, input, messages, receipts, checkpoint, exec, boundVars>>

NotifyOwns(n) == delivery[notifier[n]].token = n /\ delivery[notifier[n]].live

NotifyEnd(n) ==
    /\ notifier' = [notifier EXCEPT ![n] = 0]
    /\ lock' = IF lock = n THEN Free ELSE lock

NotifyPublish(n) ==
    /\ notifier[n] # 0 /\ NotifyOwns(n)
    /\ PublishReply(notifier[n])
    /\ NotifyEnd(n)
    /\ UNCHANGED <<queueVars, task, input, receipts, checkpoint, exec, boundVars>>

\* retry: back off, or ask the seller once the automatic attempts are used up.
NotifyRetry(n) == LET r == notifier[n] IN
    /\ delivery' = IF delivery[r].token # n THEN delivery
                   ELSE [delivery EXCEPT ![r].token = Free, ![r].live = FALSE,
                            ![r].status = IF delivery[r].attempts >= MaxNotify
                                          THEN "MANUAL_REQUIRED" ELSE "RETRY_WAIT"]
    /\ NotifyEnd(n)
    /\ UNCHANGED <<queueVars, task, input, messages, receipts, checkpoint, exec>>

\* The notification lease was lost before publishing.
NotifyStale(n) ==
    /\ notifier[n] # 0 /\ ~NotifyOwns(n)
    /\ NotifyRetry(n)
    /\ UNCHANGED boundVars

NotifyRaise(n) ==
    /\ Fault
    /\ notifier[n] # 0
    /\ NotifyRetry(n)
    /\ UNCHANGED manual

NotifyCrash(n) ==
    /\ Fault
    /\ notifier[n] # 0
    /\ NotifyEnd(n)
    /\ UNCHANGED <<queueVars, task, input, replyVars, receipts, checkpoint, exec, manual>>

NotifyLosesConnection(n) ==
    /\ Fault
    /\ notifier[n] # 0 /\ lock = n
    /\ lock' = Free
    /\ UNCHANGED <<queueVars, task, input, replyVars, receipts, checkpoint, exec,
                   notifier, manual>>

-------------------------------------------------------------------------------
(* GraphRecoveryService.act, one transaction under the thread lock.          *)

SellerActs == manual < MaxManual /\ manual' = manual + 1 /\ lock = Free

\* Mutant: a recovery grants all automatic attempts again.
RecoverAllAttempts(r, action) ==
    /\ SellerActs
    /\ QueueHead(r) /\ ~task[r].live
    /\ task[r].status # "SUCCEEDED"
    /\ task' = [task EXCEPT ![r] = [Unleased(@, "PENDING") EXCEPT !.action = action,
                    !.max = task[r].attempts + MaxAttempts]]
    /\ input' = [input EXCEPT ![r].recovery = FALSE]
    /\ UNCHANGED <<queueVars, replyVars, receipts, checkpoint, lock, exec, notifier, faults>>

Recover(r, action) ==
    /\ SellerActs
    /\ QueueHead(r) /\ ~task[r].live
    /\ task[r].status # "SUCCEEDED"
    /\ task' = [task EXCEPT ![r] = [Unleased(@, "PENDING") EXCEPT !.action = action,
                    !.max = IF task[r].max > task[r].attempts
                            THEN task[r].max ELSE task[r].attempts + 1]]
    /\ input' = [input EXCEPT ![r].recovery = FALSE]
    /\ UNCHANGED <<queueVars, replyVars, receipts, checkpoint, lock, exec, notifier, faults>>

RecoverNotification(r) ==
    /\ SellerActs
    /\ delivery[r].status = "MANUAL_REQUIRED"
    /\ delivery' = [delivery EXCEPT ![r].status = "PENDING", ![r].token = Free, ![r].live = FALSE]
    /\ UNCHANGED <<queueVars, task, input, messages, receipts, checkpoint, lock, exec,
                   notifier, faults>>

-------------------------------------------------------------------------------
(* Time.  Only the head of the queue has deadlines anything still reads.     *)

Passes == UNCHANGED <<queueVars, messages, receipts, checkpoint, lock, notifier, boundVars>>

\* The lease runs out; keep_lease merely delays this.
LeaseExpires(r) ==
    /\ task[r].live
    /\ task' = [task EXCEPT ![r].live = FALSE]
    /\ UNCHANGED <<input, delivery, exec>> /\ Passes

\* The budget is charged only while an attempt holds its lease.
BudgetEnds(r) ==
    /\ input[r].window = "open" /\ task[r].live
    /\ input' = [input EXCEPT ![r].window = "closing"]
    /\ UNCHANGED <<task, delivery, exec>> /\ Passes

ReplyDeadlinePasses(r) ==
    /\ QueueHead(r) /\ delivery[r].status # "NONE" /\ ~delivery[r].due
    /\ delivery' = [delivery EXCEPT ![r].due = TRUE]
    /\ input' = [input EXCEPT ![r].window = IF @ = "open" THEN "closing" ELSE @]
    /\ UNCHANGED <<task, exec>> /\ Passes

\* No lease but that of a cleanup attempt outlives the closing window.
WindowCloses(r) ==
    /\ QueueHead(r) /\ input[r].window = "closing"
    /\ input' = [input EXCEPT ![r].window = "closed"]
    /\ task' = [task EXCEPT ![r].live = @ /\ task[r].grace]
    /\ UNCHANGED <<delivery, exec>> /\ Passes

NotifyLeaseExpires(r) ==
    /\ delivery[r].live
    /\ delivery' = [delivery EXCEPT ![r].live = FALSE]
    /\ UNCHANGED <<task, input, exec>> /\ Passes

RegistrationAges(i) ==
    /\ exec[i].young
    /\ exec' = [exec EXCEPT ![i].young = FALSE]
    /\ UNCHANGED <<task, input, delivery>> /\ Passes

Clock(r) == LeaseExpires(r) \/ BudgetEnds(r) \/ ReplyDeadlinePasses(r) \/ WindowCloses(r)
            \/ NotifyLeaseExpires(r)

-------------------------------------------------------------------------------

ClaimAttempt(i) == ClaimRefused(i) \/ ClaimExpired(i) \/ ClaimExhausted(i) \/ Claim(i)

Run(i) ==
    \/ Connect(i) \/ TryLock(i) \/ ThreadBusy(i)
    \/ ClaimAttempt(i) \/ Attach(i) \/ Enter(i)
    \/ StageStale(i) \/ Parse(i) \/ CheckBudget(i) \/ CommitAction(i) \/ CommitNothing(i)
    \/ Compose(i) \/ Publish(i) \/ SaveCheckpoint(i)
    \/ Abort(i) \/ AbortPublish(i) \/ AbortSave(i)
    \/ Finalize(i) \/ Release(i)

Supervise(i) == SupervisorLooks(i) \/ SupervisorFences(i) \/ SupervisorKills(i)

Watch(i) == WatchdogRevokes(i) \/ WatchdogReleases(i)

Break(i) == Hang(i) \/ Crash(i) \/ Orphan(i) \/ LoseConnection(i) \/ Raise(i)

Notify(n) == NotifyClaim(n) \/ NotifyPublish(n) \/ NotifyStale(n)

BreakNotify(n) == NotifyRaise(n) \/ NotifyCrash(n) \/ NotifyLosesConnection(n)

Seller == \E r \in Inputs :
    Recover(r, "RETRY") \/ Recover(r, "TERMINATE") \/ RecoverNotification(r)

Next ==
    \/ Enqueue
    \/ \E i \in Instance : \/ Spawn(i) \/ Run(i) \/ RegistrationAges(i)
                           \/ Break(i) \/ ConnectionEnds(i)
                           \/ Supervise(i) \/ Watch(i)
    \/ \E n \in Notifier : Notify(n) \/ BreakNotify(n)
    \/ Seller
    \/ \E r \in Inputs : Clock(r)

Spec == Init /\ [][Next]_vars

\* Time passes, PostgreSQL notices dead clients, and the loops of the worker, the
\* supervisor and the watchdog keep polling; a process that is neither dead nor
\* hung goes on.  Every worker pass tries the due notifications before the runs, so
\* a lock that is free again and again is eventually taken for them.  The calls
\* between the registration of a process and its claim are bounded to a few seconds,
\* so it does not always come later than the 30 seconds a registration is young.
WeakFairness ==
    /\ \A r \in Inputs : /\ WF_vars(LeaseExpires(r)) /\ WF_vars(ReplyDeadlinePasses(r))
                         /\ WF_vars(WindowCloses(r)) /\ WF_vars(NotifyLeaseExpires(r))
    /\ WF_vars(\E i \in Instance : Spawn(i))
    /\ \A i \in Instance : /\ WF_vars(Run(i)) /\ WF_vars(ConnectionEnds(i))
                           /\ WF_vars(Supervise(i)) /\ WF_vars(Watch(i))
                           /\ WF_vars(RegistrationAges(i))
    /\ \A n \in Notifier : WF_vars(NotifyPublish(n) \/ NotifyStale(n))
Fairness ==
    /\ WeakFairness
    /\ \A i \in Instance : SF_vars(TryLock(i)) /\ SF_vars(ClaimAttempt(i))
    /\ \A n \in Notifier : SF_vars(NotifyClaim(n))

FairSpec == Spec /\ Fairness

-------------------------------------------------------------------------------
TaskStatus == {"PENDING", "RUNNING", "RETRY_WAIT", "FAILED", "SUCCEEDED"}
DeliveryStatus == {"NONE", "PENDING", "RUNNING", "RETRY_WAIT", "PUBLISHED", "MANUAL_REQUIRED"}
Step == {"off", "start", "connected", "locked", "claimed", "attached", "node", "execute",
         "save", "hung", "abort", "abortPublish", "abortSave", "finalize", "release",
         "conflict"}
Outcome == {"ACTION", "NOACTION"}
Message == [run : Inputs, outcome : Outcome]

TaskRow == [status : TaskStatus, token : Nat, live : BOOLEAN, grace : BOOLEAN,
            retryAt : BOOLEAN, attempts : Nat, max : Nat,
            action : {"NONE", "RETRY", "TERMINATE"}]
InputRow == [window : {"open", "closing", "closed"}, active : BOOLEAN,
             recovery : BOOLEAN, evidence : BOOLEAN]
DeliveryRow == [status : DeliveryStatus, outcome : Outcome, due : BOOLEAN,
                token : Notifier \cup {Free}, live : BOOLEAN, attempts : Nat]
ProcessRow == [pc : Step, run : Inputs, node : Stages, owner : Nat,
               row : {"NONE", "REGISTERED", "REVOKED"}, token : Nat, young : BOOLEAN,
               conn : BOOLEAN, watch : {"off", "watch", "expired", "fenced"}]

\* Rows, checkpoint and registry keep the values their columns and enumerations allow.
TypeOK ==
    /\ nextSeq \in 1..MaxInputs + 1
    /\ resolved \in 0..MaxInputs
    /\ task \in [Inputs -> TaskRow]
    /\ input \in [Inputs -> InputRow]
    /\ delivery \in [Inputs -> DeliveryRow]
    /\ receipts \subseteq Inputs
    /\ messages \in Seq(Message)
    /\ checkpoint \in [run : 0..MaxInputs, next : Stages \cup {"END"}]
    /\ lock \in Holder \cup {Free}
    /\ exec \in [Instance -> ProcessRow]
    /\ notifier \in [Notifier -> 0..MaxInputs]
    /\ faults \in 0..MaxFaults
    /\ manual \in 0..MaxManual

-------------------------------------------------------------------------------
(* Properties.                                                             *)

\* Each accepted input is committed at most once, answered exactly once, in order
\* and truthfully, and only then resolved, whatever the processes, the dispatcher,
\* the watchdog and the seller do (input_queue, business_command_service,
\* notification_service).
Turn == INSTANCE TurnProtocol WITH
            accepted <- nextSeq - 1, committed <- receipts, cursor <- resolved,
            replies <- [k \in DOMAIN messages |-> messages[k].outcome]

TurnsAreProcessedInOrder == Turn!Spec

\* The FIFO barrier: an input behind the head has left no trace in any table or in
\* the checkpoint, and one before it is finished and its k-th message is the k-th
\* public reply.
FifoBarrier ==
    /\ \A r \in Inputs : r > resolved + 1 =>
          /\ task[r] = NewTask /\ input[r] = NewInput /\ delivery[r] = NoDelivery
          /\ r \notin receipts
    /\ \A r \in 1..resolved : task[r].status = "SUCCEEDED" /\ delivery[r].status = "PUBLISHED"
    /\ \A k \in DOMAIN messages : messages[k].run = k
    /\ checkpoint.run \in {resolved, resolved + 1}
    /\ checkpoint.run = resolved => checkpoint.next = "END"

\* Two processes never hold the ownership that lock_owner checks at the same time,
\* even when one of them has lost its thread lock or was taken for dead.
OneOwner ==
    \A i, j \in Instance : i # j /\ exec[i].owner # 0 /\ exec[j].owner # 0 =>
        ~(exec[i].run = exec[j].run /\ Owns(i) /\ Owns(j))

\* While its connection lives, a process that runs the graph finds the thread
\* exactly where it left it: no other writer moved the shared checkpoint.
CheckpointUndisturbed ==
    \A i \in Instance : exec[i].conn /\ exec[i].pc \in {"node", "execute", "save", "hung"} =>
        lock = i /\ checkpoint = [run |-> exec[i].run, next |-> exec[i].node]

\* Crashes, lost connections and takeovers alone never make choose_entry report a
\* missing or foreign checkpoint; only a RETRY after an interrupted TERMINATE does.
NoFalseConflict ==
    [][\A i \in Instance : exec[i].pc # "conflict" /\ exec'[i].pc = "conflict" =>
          LET r == exec[i].run IN
          task[r].action = "RETRY" /\ delivery[r].outcome = "NOACTION" /\ ~input[r].evidence]_vars

\* Every attempt beyond the automatic ones was ordered by the seller.
AttemptsAreBounded == \A r \in Inputs : task[r].attempts <= MaxAttempts + manual

\* Late processes, dispatchers, supervisors and watchdogs never touch a finished run.
FinishedIsFinal ==
    [][\A r \in Inputs : task[r].status = "SUCCEEDED" =>
          UNCHANGED <<task[r], input[r], delivery[r]>> /\ (r \in receipts <=> r \in receipts')]_vars

\* Every reply that is owed is published or handed to the seller, whatever becomes
\* of the run that committed it.
RepliesAreDelivered ==
    \A r \in Inputs :
        delivery[r].status # "NONE" ~> delivery[r].status \in {"PUBLISHED", "MANUAL_REQUIRED"}

\* The head of the queue is resolved or shown to the seller, as long as its time
\* has not run out while it waited for a retry (GraphWorker, InputQueue.claim).
HeadMoves ==
    \A r \in Inputs : r < nextSeq ~>
        \/ resolved >= r
        \/ \E h \in Inputs : \/ input[h].recovery
                             \/ ~TimeLeft(h) /\ task[h].status = "RETRY_WAIT"

\* model_task.py: the row a claim is about to write satisfies the CHECK
\* retry_time_matches_status.
ClaimsWriteAcceptedRows ==
    \A i \in Instance : LET r == exec[i].run IN
        exec[i].pc = "locked" /\ Claimable(r) /\ ~TimeLeft(r) => Accepted(ExpiredRow(r))

\* P4: a safe termination needs no model, publishes the true result and lifts the
\* barrier, whatever became of the time budget.
TerminationUnblocks ==
    \A r \in Inputs :
        task[r].action = "TERMINATE" /\ task[r].status = "PENDING" ~>
            resolved >= r \/ input[r].recovery

===============================================================================
