----------------------------- MODULE ActivityTime -----------------------------
(***************************************************************************)
(* The clock of one run: how the activity budget, the reply deadline, the  *)
(* closing window and the lease of each attempt are computed from one      *)
(* another (runtime/activity.py and its callers).  GraphRuntime keeps only *)
(* the order these deadlines impose; here they are numbers.  Time advances *)
(* in ticks, the clock never shows Null, and Null is the SQL NULL.         *)
(***************************************************************************)
EXTENDS Integers

CONSTANTS
    Budget,       \* active_seconds of the configuration (120 s)
    Lease,        \* lease_seconds of a claim or heartbeat (30 s)
    Closing,      \* the window without model work (15 s)
    Reply,        \* from the first obligation to its reply_deadline (45 s)
    Call,         \* the longest model request (45 s)
    MaxTime,      \* bound: the last tick
    MaxClaims     \* bound: attempts, whoever granted them

ASSUME DurationsAssumption ==
    /\ {Budget, Lease, Closing, Reply, Call, MaxTime, MaxClaims} \subseteq Nat \ {0}
    /\ Lease <= Reply + Closing

VARIABLES
    now,          \* the database clock
    run,          \* active_ms, active_since, active_until, closing_deadline of the input
    task,         \* status, lease_expires_at and last_manual_action of the task
    reply,        \* reply_deadline of the notification, Null before there is one
    published,    \* the reply is out
    call,         \* the timeout of the model request in progress, Null if none
    claims,       \* attempts granted so far
    cleanups,     \* history: attempts that were granted the cleanup time
    held,         \* history: time during which some attempt held a live lease
    exhausted     \* history: when that time reached the budget, Null before

history == <<claims, cleanups, held, exhausted>>
vars == <<now, run, task, reply, published, call, claims, cleanups, held, exhausted>>

Null == 0

Init ==
    /\ now = 1
    /\ run = [ms |-> 0, since |-> Null, until |-> Null, closing |-> Null]
    /\ task = [status |-> "PENDING", lease |-> Null, terminate |-> FALSE]
    /\ reply = Null /\ published = FALSE /\ call = Null
    /\ claims = 0 /\ cleanups = 0 /\ held = 0 /\ exhausted = Null

-------------------------------------------------------------------------------
(* runtime/activity.py.                                                    *)

Earlier(s, t) == IF s < t THEN s ELSE t
Positive(n) == IF n > 0 THEN n ELSE 0

\* Mutant: a lost attempt is charged until it is noticed.
UsedUntilNoticed(r, t) == r.ms + IF r.since = Null THEN 0 ELSE Positive(t - r.since)

\* Mutant: the operands are swapped and the result is not clipped.
UsedSwapped(r, t) == r.ms + IF r.since = Null THEN 0 ELSE r.since - Earlier(t, r.until)

\* used_ms: a lost attempt is charged through its last granted lease.
Used(r, t) == r.ms + IF r.since = Null THEN 0 ELSE Positive(Earlier(t, r.until) - r.since)

Remaining(r, t) == Positive(Budget - Used(r, t))

BudgetEnd(r) == r.since + Positive(Budget - r.ms)

\* Mutant: the window is computed again at every settlement.
SettleAgain(r, t) ==
    [ms |-> Used(r, t), since |-> Null, until |-> Null,
     closing |-> IF r.since # Null /\ Remaining(r, t) = 0 THEN BudgetEnd(r) + Closing
                 ELSE r.closing]

Settle(r, t) ==
    [ms |-> Used(r, t), since |-> Null, until |-> Null,
     closing |-> IF r.since # Null /\ r.closing = Null /\ Remaining(r, t) = 0
                 THEN BudgetEnd(r) + Closing ELSE r.closing]

\* When model work must stop: the budget or the reply deadline, whichever is first.
WorkEnd(r, t) == IF reply = Null THEN t + Remaining(r, t)
                 ELSE Earlier(t + Remaining(r, t), reply)

\* Mutant: the end of the window moves with the clock.
NeverFrozen(r, t) == r

\* lease_deadline freezes the closing window once that time has come ...
Frozen(r, t) == IF r.closing = Null /\ WorkEnd(r, t) <= t
                THEN [r EXCEPT !.closing = WorkEnd(r, t) + Closing] ELSE r

\* Mutant: the lease is renewed in full, whatever is left.
FullLease(r, t) == t + Lease

\* ... and grants at most one lease, never past the window.
LeaseDeadline(r, t) ==
    Earlier(t + Lease, IF r.closing # Null THEN r.closing ELSE WorkEnd(r, t) + Closing)

\* Mutant: the reply deadline is not looked at.
ModelSecondsOfBudget == Earlier(Call, Remaining(run, now))

\* model_timeout; nothing is left once it is not positive.
ModelSeconds ==
    LET seconds == Earlier(Call, Remaining(run, now)) IN
    IF reply = Null THEN seconds ELSE Earlier(seconds, reply - now)

-------------------------------------------------------------------------------
(* The attempt.                                                            *)

\* lock_owner.
Owned == task.status = "RUNNING" /\ task.lease > now

CleanupOnly == task.terminate \/ published

\* InputQueue.claim: settle what the last attempt left, then grant a lease ...
ClaimedRun == Frozen(Settle(run, now), now)
Deadline == IF CleanupOnly THEN now + Closing ELSE LeaseDeadline(ClaimedRun, now)

Claim ==
    /\ task.status \notin {"SUCCEEDED", "FAILED"} /\ task.lease <= now
    /\ claims < MaxClaims
    /\ Deadline > now
    /\ run' = [ClaimedRun EXCEPT !.since = now, !.until = Deadline]
    /\ task' = [task EXCEPT !.status = "RUNNING", !.lease = Deadline]
    /\ call' = Null
    /\ claims' = claims + 1
    /\ cleanups' = IF CleanupOnly THEN cleanups + 1 ELSE cleanups
    /\ UNCHANGED <<now, reply, published, held, exhausted>>

\* ... or give up.  From RETRY_WAIT the row is refused by the table and nothing
\* is kept (see ClaimsWriteAcceptedRows of GraphRuntime).
ClaimExpired ==
    /\ task.status \in {"PENDING", "RUNNING"} /\ task.lease <= now
    /\ Deadline <= now
    /\ run' = ClaimedRun
    /\ task' = [task EXCEPT !.status = "FAILED", !.lease = Null]
    /\ UNCHANGED <<now, reply, published, call, history>>

\* InputQueue.heartbeat.  A refusal rolls back and ends the lease keeper.
Heartbeat == LET r == Frozen(run, now) IN
    /\ Owned /\ ~task.terminate
    /\ LeaseDeadline(r, now) > now
    /\ run' = [r EXCEPT !.until = LeaseDeadline(r, now)]
    /\ task' = [task EXCEPT !.lease = LeaseDeadline(r, now)]
    /\ UNCHANGED <<now, reply, published, call, history>>

\* ModelCallLedgerService.call: a request gets what is left as its timeout.
StartCall ==
    /\ Owned /\ ~task.terminate /\ call = Null
    /\ run.closing = Null /\ ModelSeconds > 0
    /\ call' = now + ModelSeconds
    /\ UNCHANGED <<now, run, task, reply, published, history>>

EndCall ==
    /\ call # Null
    /\ call' = Null
    /\ UNCHANGED <<now, run, task, reply, published, history>>

\* The first obligation to reply, with or without an action, sets the deadline.
Owe ==
    /\ Owned /\ call = Null /\ reply = Null
    /\ reply' = now + Reply
    /\ UNCHANGED <<now, run, task, published, call, history>>

\* By the attempt, or by the dispatcher once the deadline or the attempt is over.
Publish ==
    /\ reply # Null /\ ~published
    /\ call = Null \/ reply <= now \/ ~Owned
    /\ published' = TRUE
    /\ UNCHANGED <<now, run, task, reply, call, history>>

\* finalize, release, and the revocation by supervisor or watchdog: the attempt
\* is settled and the lease cleared.
End(status) ==
    /\ run' = Settle(run, now)
    /\ task' = [task EXCEPT !.status = status, !.lease = Null]
    /\ call' = Null
    /\ UNCHANGED <<now, reply, published, history>>

Finalize == Owned /\ call = Null /\ published /\ End("SUCCEEDED")

Release == Owned /\ End("RETRY_WAIT")

\* The deadline the supervisor computes; the lease is lost once it has expired.
Overdue ==
    \/ run.closing # Null /\ run.closing <= now
    \/ run.closing = Null /\ run.since # Null /\ BudgetEnd(run) + Closing <= now
    \/ reply # Null /\ reply + Closing <= now
    \/ task.lease <= now

Revoke == task.status = "RUNNING" /\ Overdue /\ End("RETRY_WAIT")

\* GraphRecoveryService.act does not settle: the next claim does.
Recover(terminate) ==
    /\ task.status # "SUCCEEDED" /\ task.lease <= now
    /\ task' = [status |-> "PENDING", lease |-> Null, terminate |-> terminate]
    /\ UNCHANGED <<now, run, reply, published, call, history>>

\* A model request ends by its timeout: the SDK keeps it, or the attempt is killed.
Tick ==
    /\ now < MaxTime
    /\ call = Null \/ now < call
    /\ now' = now + 1
    /\ held' = IF Owned THEN held + 1 ELSE held
    /\ exhausted' = IF exhausted = Null /\ held' >= Budget THEN now' ELSE exhausted
    /\ UNCHANGED <<run, task, reply, published, call, claims, cleanups>>

Next ==
    \/ Claim \/ ClaimExpired \/ Heartbeat \/ StartCall \/ EndCall \/ Owe \/ Publish
    \/ Finalize \/ Release \/ Revoke
    \/ Recover(FALSE) \/ Recover(TRUE)
    \/ Tick

Spec == Init /\ [][Next]_vars

-------------------------------------------------------------------------------
RunRow == [ms : Nat, since : Nat, until : Nat, closing : Nat]
TaskRow == [status : {"PENDING", "RUNNING", "RETRY_WAIT", "FAILED", "SUCCEEDED"},
            lease : Nat, terminate : BOOLEAN]

\* The columns keep their types; 0 stands for a time that is not set.
TypeOK ==
    /\ now \in 1..MaxTime
    /\ run \in RunRow
    /\ task \in TaskRow
    /\ {reply, call, claims, cleanups, held, exhausted} \subseteq Nat
    /\ published \in BOOLEAN

\* Retries, crashes and takeovers neither reset nor inflate the budget: the charged
\* time is exactly the time some attempt held its lease (used_ms, settle, claim).
ChargeIsHeldTime == Used(run, now) = held

\* An ordinary attempt never holds its lease past the closing window, whether that is
\* already frozen or still to come (lease_deadline).
LeaseEndsInWindow ==
    Owned /\ ~CleanupOnly =>
        IF run.closing # Null THEN task.lease <= run.closing
        ELSE /\ task.lease <= BudgetEnd(run) + Closing
             /\ reply # Null => task.lease <= reply + Closing

\* A model request in progress ends within the budget, before the reply deadline, and
\* never runs in the closing window (model_timeout).
ModelStopsInTime ==
    Owned /\ call > now =>
        /\ run.closing = Null /\ call <= BudgetEnd(run)
        /\ reply # Null => call <= reply

\* All attempts together hold the session for the budget, a window that starts at most
\* one window late, and one window for each cleanup attempt.
ActivityIsBounded == held < Budget + 2 * Closing + cleanups * Closing

\* Once the closing window is frozen nothing moves it: not a restart, not the seller.
ClosingIsFrozen == [][run.closing # Null => run'.closing = run.closing]_vars

===============================================================================
