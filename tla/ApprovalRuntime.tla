----------------------------- MODULE ApprovalRuntime -----------------------------
(* One approval and the processes that carry it out.  Business transactions      *)
(* leave events in the outbox; a worker runs the approval's own graph thread     *)
(* (load, wait for the seller, apply, publish notice) under an advisory lock and *)
(* an execution lease; notices have leases of their own and may be published by  *)
(* the dispatcher instead; in the end the session's threads are archived.        *)
(* Each action is one MySQL transaction or one checkpoint; a process may stop,   *)
(* raise or lose its PostgreSQL connection between any two of them.              *)
EXTENDS Integers, FiniteSets

CONSTANTS
    Proc,           \* worker processes
    Nobody,         \* no process
    AttemptLimit,   \* failed executions before recovery_required (3)
    NotifyLimit,    \* failed publications before MANUAL_REQUIRED (3)
    MaxFaults,      \* bound: crashes, lost connections, raised calls, outrun leases
    MaxManual       \* bound: seller's NOTIFY actions

ASSUME ConstantsAssumption ==
    /\ Nobody \notin Proc
    /\ AttemptLimit \in Nat \ {0} /\ NotifyLimit \in Nat \ {0}
    /\ MaxFaults \in Nat /\ MaxManual \in Nat

VARIABLES
    approval,   \* row of approval_requests, with its offer's basis and time
    session,    \* status "open", "agreed" or "closed", and whether archived
    events,     \* outbox rows of the approval
    exec,       \* row of approval_executions; epoch 0 is NULL token
    receipts,   \* result of apply per event, "none" before
    notice,     \* notification_deliveries by effect_revision
    messages,   \* effect_revisions published, with multiplicity
    lock,       \* holder of the thread's advisory lock
    thread,     \* latest checkpoint of the thread
    proc,       \* the processes
    faults, manual  \* counters of the bounds

rows == <<approval, session, events, exec, receipts, notice, messages>>
vars == <<approval, session, events, exec, receipts, notice, messages, lock, thread, proc, faults, manual>>

Events == {"requested", "decision", "invalidated"}
Revisions == 1..2
NoResult == [outcome |-> "none", revision |-> 0]

\* The graph's position and state as the last checkpoint holds them.
NoThread == [next |-> "none", event |-> "none", result |-> NoResult]
Fresh == [next |-> "load", event |-> "none", result |-> NoResult]
Idle == [pc |-> "idle", role |-> "none", epoch |-> 0, graph |-> NoThread,
         about |-> 0, token |-> 0, conflict |-> FALSE]

NoNotice == [status |-> "none", token |-> 0, live |-> FALSE, wait |-> FALSE, attempts |-> 0]

Init ==
    /\ approval = [status |-> "PENDING", effect |-> "NOT_APPLIED", revision |-> 0,
                   basis |-> TRUE, late |-> FALSE]
    /\ session = [status |-> "open", archived |-> FALSE]
    /\ events = [e \in Events |-> IF e = "requested" THEN "pending" ELSE "none"]
    /\ exec = [owner |-> 0, live |-> FALSE, epoch |-> 0, saved |-> FALSE,
               recovery |-> FALSE, attempts |-> 0, wait |-> FALSE]
    /\ receipts = [e \in Events |-> NoResult]
    /\ notice = [r \in Revisions |-> NoNotice]
    /\ messages = [r \in Revisions |-> 0]
    /\ lock = Nobody /\ thread = NoThread
    /\ proc = [p \in Proc |-> Idle]
    /\ faults = 0 /\ manual = 0

-------------------------------------------------------------------------------
(* What a business transaction writes.  A book holds the rows it may change.     *)

Book == [approval |-> approval, events |-> events, notice |-> notice]

Store(b) == approval' = b.approval /\ events' = b.events /\ notice' = b.notice

\* effect_notice: the first delivery of a revision stays.
Noticed(b) ==
    LET r == b.approval.revision IN
    IF r = 0 \/ b.notice[r].status # "none" THEN b ELSE [b EXCEPT !.notice[r].status = "PENDING"]

\* event_in_transaction: a second row of the same key changes nothing.
Evented(b, e) == IF b.events[e] # "none" THEN b ELSE [b EXCEPT !.events[e] = "pending"]

\* Mutant: the effect's revision is not counted up.
VoidedUncounted(b, expired) ==
    IF b.approval.effect = "INVALIDATED" THEN b
    ELSE Noticed(Evented([b EXCEPT
            !.approval.status = IF b.approval.status # "PENDING" THEN b.approval.status
                                ELSE IF expired THEN "EXPIRED" ELSE "CANCELLED",
            !.approval.effect = "INVALIDATED"], "invalidated"))

\* invalidate_approval
Voided(b, expired) ==
    IF b.approval.effect = "INVALIDATED" THEN b
    ELSE Noticed(Evented([b EXCEPT
            !.approval.status = IF b.approval.status # "PENDING" THEN b.approval.status
                                ELSE IF expired THEN "EXPIRED" ELSE "CANCELLED",
            !.approval.effect = "INVALIDATED",
            !.approval.revision = b.approval.revision + 1], "invalidated"))

\* reconcile_approval: an agreement is final; otherwise time and basis are judged.
Reconciled(b) ==
    LET expired == b.approval.status = "PENDING" /\ b.approval.late IN
    IF \/ session.status = "agreed"
       \/ b.approval.effect = "INVALIDATED" \/ b.approval.status = "REJECTED"
       \/ ~expired /\ b.approval.basis
    THEN b
    ELSE Voided(b, expired)

\* review: the seller decides on a pending approval that still has its basis.
Review(approve) ==
    /\ session.status \in {"open", "closed"} /\ approval.status = "PENDING"
    /\ LET b == Reconciled(Book)
           decided == Evented([b EXCEPT !.approval.status = IF approve THEN "APPROVED" ELSE "REJECTED"],
                              "decision")
           rejected == Noticed([decided EXCEPT !.approval.effect = "APPLIED",
                                               !.approval.revision = b.approval.revision + 1])
       IN  Store(IF b.approval.effect = "INVALIDATED" THEN b
                 ELSE IF approve THEN decided ELSE rejected)
    /\ UNCHANGED <<session, exec, receipts, messages, lock, thread, proc, faults, manual>>

\* The offer is replaced, withdrawn or reconciled elsewhere: invalidate_offer.
LoseOffer ==
    /\ session.status = "open"
    /\ approval.status # "REJECTED" /\ approval.effect # "INVALIDATED"
    /\ Store(Voided(Book, FALSE))
    /\ UNCHANGED <<session, exec, receipts, messages, lock, thread, proc, faults, manual>>

\* The buyer closes the session, which ends an open offer, or confirms an offer.
EndSession(how) ==
    /\ session.status = "open"
    /\ how = "agreed" => approval.effect # "NOT_APPLIED"
    /\ session' = [session EXCEPT !.status = how]
    /\ Store(IF how = "closed" /\ approval.status # "REJECTED" THEN Voided(Book, FALSE) ELSE Book)
    /\ UNCHANGED <<exec, receipts, messages, lock, thread, proc, faults, manual>>

\* The deadline passes, or policy, product or facts change under the offer.
Ages ==
    /\ \/ approval.status = "PENDING" /\ ~approval.late /\ approval' = [approval EXCEPT !.late = TRUE]
       \/ session.status = "open" /\ approval.basis /\ approval' = [approval EXCEPT !.basis = FALSE]
    /\ UNCHANGED <<session, events, exec, receipts, notice, messages, lock, thread, proc, faults, manual>>

-------------------------------------------------------------------------------
(* The approval runner.                                                          *)

Owns(p) == exec.owner # 0 /\ exec.owner = proc[p].epoch /\ exec.live

Step(p, pc) == proc' = [proc EXCEPT ![p].pc = pc]
Leave(p) ==
    /\ proc' = [proc EXCEPT ![p] = Idle]
    /\ lock' = IF lock = p THEN Nobody ELSE lock

\* Mutant: executions whose process died are not taken up again.
DueIfUnowned == ~exec.recovery /\ exec.owner = 0 /\ ~exec.wait /\ \E e \in Events : events[e] = "pending"

\* run_batch: executions with an undelivered event and nobody at work.
Due == ~exec.recovery /\ ~exec.live /\ ~exec.wait /\ \E e \in Events : events[e] = "pending"

\* The worker's list is read before the lock is tried.
Select(p) ==
    /\ proc[p].pc = "idle" /\ Due
    /\ proc' = [proc EXCEPT ![p].pc = "lock", ![p].role = "runner"]
    /\ UNCHANGED <<rows, lock, thread, faults, manual>>

SelectNotice(p, r) ==
    /\ proc[p].pc = "idle"
    /\ notice[r].status \in {"PENDING", "RETRY_WAIT", "RUNNING"}
    /\ ~notice[r].live /\ ~notice[r].wait
    /\ proc' = [proc EXCEPT ![p].pc = "lock", ![p].role = "notifier", ![p].about = r]
    /\ UNCHANGED <<rows, lock, thread, faults, manual>>

Lock(p) ==
    /\ proc[p].pc = "lock" /\ lock = Nobody
    /\ lock' = p
    /\ Step(p, IF proc[p].role = "runner" THEN "claim" ELSE "offerNotice")
    /\ UNCHANGED <<rows, thread, faults, manual>>

Busy(p) ==
    /\ proc[p].pc = "lock" /\ lock # Nobody
    /\ Leave(p)
    /\ UNCHANGED <<rows, thread, faults, manual>>

Claim(p) ==
    /\ proc[p].pc = "claim"
    /\ IF exec.recovery \/ exec.live \/ exec.wait
       THEN Leave(p) /\ UNCHANGED exec
       ELSE /\ exec' = [exec EXCEPT !.owner = exec.epoch + 1, !.epoch = exec.epoch + 1, !.live = TRUE]
            /\ proc' = [proc EXCEPT ![p].pc = "reconcile", ![p].epoch = exec.epoch + 1]
            /\ UNCHANGED lock
    /\ UNCHANGED <<approval, session, events, receipts, notice, messages, thread, faults, manual>>

Reconcile(p) ==
    /\ proc[p].pc = "reconcile"
    /\ Store(Reconciled(Book))
    /\ Step(p, "inspect")
    /\ UNCHANGED <<session, exec, receipts, messages, lock, thread, faults, manual>>

\* covered_events: what a result settles.
Covered(result) ==
    {"requested", "decision"} \union
    {e \in {"invalidated"} : /\ result.outcome = "APPROVAL_INVALIDATED"
                             /\ events[e] = "pending" /\ approval.revision <= result.revision}

Acknowledged(covered) ==
    [e \in Events |-> IF e \in covered /\ events[e] # "none" THEN "delivered" ELSE events[e]]

\* The checkpoint is read with the lock's connection; a missing one is a conflict.
\* A thread found at its end is only acknowledged, its effects are not repeated.
Inspect(p) ==
    /\ proc[p].pc = "inspect"
    /\ IF lock # p
       THEN Step(p, "fail") /\ UNCHANGED events
       ELSE IF thread = NoThread /\ (exec.saved \/ \E e \in Events : receipts[e] # NoResult)
       THEN proc' = [proc EXCEPT ![p].pc = "fail", ![p].conflict = TRUE] /\ UNCHANGED events
       ELSE IF thread.next = "end" /\ ~Owns(p)
       THEN Step(p, "fail") /\ UNCHANGED events
       ELSE /\ events' = IF thread.next = "end" THEN Acknowledged(Covered(thread.result)) ELSE events
            /\ proc' = [proc EXCEPT ![p].pc = "enter", ![p].graph = thread]
    /\ UNCHANGED <<approval, session, exec, receipts, notice, messages, lock, thread, faults, manual>>

\* terminal_event: an invalidation is preferred to the decision it overtook.
Terminal ==
    IF approval.status = "PENDING" THEN "none"
    ELSE IF events["invalidated"] # "none" THEN "invalidated"
    ELSE IF events["decision"] # "none" THEN "decision" ELSE "none"

\* Where the graph goes on: from the start, from the interrupt, or from the node
\* after the last checkpoint; an interrupt without an event is left alone.
Enter(p) ==
    /\ proc[p].pc = "enter"
    /\ LET g == proc[p].graph
           pending == \E e \in Events : events[e] = "pending"
       IN  proc' = [proc EXCEPT ![p] =
             IF g.next = "none" \/ (g.next = "end" /\ pending)
             THEN [proc[p] EXCEPT !.pc = "save", !.graph = Fresh]
             ELSE IF g.next = "interrupted" /\ Terminal # "none"
             THEN [proc[p] EXCEPT !.pc = "save", !.graph.next = "apply", !.graph.event = Terminal]
             ELSE IF g.next \in {"interrupted", "end"} THEN [proc[p] EXCEPT !.pc = "acknowledge"]
             ELSE [proc[p] EXCEPT !.pc = g.next]]
    /\ UNCHANGED <<rows, lock, thread, faults, manual>>

\* A checkpoint is written by the lock's own connection or not at all.
Save(p) ==
    /\ proc[p].pc = "save"
    /\ IF lock = p
       THEN /\ thread' = proc[p].graph
            /\ Step(p, IF proc[p].graph.next \in {"interrupted", "end"} THEN "acknowledge"
                       ELSE proc[p].graph.next)
       ELSE Step(p, "fail") /\ UNCHANGED thread
    /\ UNCHANGED <<rows, lock, faults, manual>>

LoadNode(p) ==
    /\ proc[p].pc = "load"
    /\ proc' = [proc EXCEPT ![p].pc = "save", ![p].graph.event = Terminal,
                            ![p].graph.next = IF Terminal # "none" THEN "apply" ELSE "wait"]
    /\ UNCHANGED <<rows, lock, thread, faults, manual>>

WaitNode(p) ==
    /\ proc[p].pc = "wait"
    /\ proc' = [proc EXCEPT ![p].pc = "save", ![p].graph.next = "interrupted"]
    /\ UNCHANGED <<rows, lock, thread, faults, manual>>

\* apply: the event's receipt, or else the effect, decided on the present rows.
ApplyNode(p) ==
    /\ proc[p].pc = "apply" /\ Owns(p)
    /\ LET e == proc[p].graph.event
           b == Reconciled(Book)
           due == b.approval.status = "APPROVED" /\ b.approval.effect = "NOT_APPLIED"
           c == IF due THEN [b EXCEPT !.approval.effect = "APPLIED",
                                      !.approval.revision = b.approval.revision + 1]
                ELSE b
           outcome == IF c.approval.effect = "INVALIDATED" THEN "APPROVAL_INVALIDATED"
                      ELSE IF c.approval.status = "APPROVED" THEN "OFFER_ACCEPTED"
                      ELSE "APPROVAL_REJECTED"
           old == receipts[e]
           result == IF old # NoResult THEN old
                     ELSE [outcome |-> outcome, revision |-> c.approval.revision]
       IN  /\ IF old # NoResult THEN Store(Book) /\ UNCHANGED receipts
              ELSE Store(Noticed(c)) /\ receipts' = [receipts EXCEPT ![e] = result]
           /\ proc' = [proc EXCEPT ![p].pc = "save", ![p].graph.next = "notice",
                                   ![p].graph.result = result]
    /\ UNCHANGED <<session, exec, messages, lock, thread, faults, manual>>

ApplyStale(p) ==
    /\ proc[p].pc = "apply" /\ ~Owns(p)
    /\ Step(p, "fail")
    /\ UNCHANGED <<rows, lock, thread, faults, manual>>

NoticeNode(p) ==
    /\ proc[p].pc = "notice"
    /\ proc' = [proc EXCEPT ![p].pc = "offerNotice", ![p].about = proc[p].graph.result.revision]
    /\ UNCHANGED <<rows, lock, thread, faults, manual>>

-------------------------------------------------------------------------------
(* Notices: by the runner's last node, or by the dispatcher.                     *)

\* Where a publication goes on: the runner's graph ends, the dispatcher leaves.
Published(p) ==
    IF proc[p].role = "runner"
    THEN /\ proc' = [proc EXCEPT ![p].pc = "save", ![p].graph.next = "end",
                                 ![p].about = 0, ![p].token = 0]
         /\ UNCHANGED lock
    ELSE Leave(p)

\* Mutant: a delivery that is published is claimed like any other.
ClaimNoticeAgain(p) ==
    /\ proc[p].pc = "offerNotice"
    /\ LET n == notice[proc[p].about] IN
       IF n.live \/ n.wait
       THEN Published(p) /\ UNCHANGED notice
       ELSE /\ notice' = [notice EXCEPT ![proc[p].about] =
                            [n EXCEPT !.status = "RUNNING", !.token = n.attempts + 1,
                                      !.live = TRUE, !.attempts = n.attempts + 1]]
            /\ proc' = [proc EXCEPT ![p].pc = "publish", ![p].token = n.attempts + 1]
            /\ UNCHANGED lock
    /\ UNCHANGED <<approval, session, events, exec, receipts, messages, thread, faults, manual>>

\* claim of NotificationService, or nothing to do.
ClaimNotice(p) ==
    /\ proc[p].pc = "offerNotice"
    /\ LET n == notice[proc[p].about] IN
       IF n.status \in {"PUBLISHED", "MANUAL_REQUIRED"} \/ n.live \/ n.wait
       THEN Published(p) /\ UNCHANGED notice
       ELSE /\ notice' = [notice EXCEPT ![proc[p].about] =
                            [n EXCEPT !.status = "RUNNING", !.token = n.attempts + 1,
                                      !.live = TRUE, !.attempts = n.attempts + 1]]
            /\ proc' = [proc EXCEPT ![p].pc = "publish", ![p].token = n.attempts + 1]
            /\ UNCHANGED lock
    /\ UNCHANGED <<approval, session, events, exec, receipts, messages, thread, faults, manual>>

Holds(p) == LET n == notice[proc[p].about] IN n.token = proc[p].token /\ n.live

Publish(p) ==
    /\ proc[p].pc = "publish" /\ Holds(p)
    /\ LET r == proc[p].about IN
       /\ messages' = [messages EXCEPT ![r] = messages[r] + (IF notice[r].status = "PUBLISHED" THEN 0 ELSE 1)]
       /\ notice' = [notice EXCEPT ![r].status = "PUBLISHED", ![r].token = 0, ![r].live = FALSE]
    /\ Published(p)
    /\ UNCHANGED <<approval, session, events, exec, receipts, thread, faults, manual>>

\* retry of NotificationService, if the token is still ours; the graph raises.
GiveUp(p) ==
    LET r == proc[p].about
        n == notice[r]
    IN  /\ notice' = IF n.token # proc[p].token THEN notice
                     ELSE [notice EXCEPT ![r] =
                            [n EXCEPT !.status = IF n.attempts >= NotifyLimit THEN "MANUAL_REQUIRED"
                                                 ELSE "RETRY_WAIT",
                                      !.wait = TRUE, !.token = 0, !.live = FALSE]]
        /\ IF proc[p].role = "runner" THEN Step(p, "fail") /\ UNCHANGED lock ELSE Leave(p)
        /\ UNCHANGED <<approval, session, events, exec, receipts, messages, thread, manual>>

\* The lease is over before the transaction, or the transaction raises.
PublishLate(p) ==
    /\ proc[p].pc = "publish" /\ ~Holds(p)
    /\ GiveUp(p) /\ UNCHANGED faults

PublishFails(p) ==
    /\ proc[p].pc = "publish" /\ Holds(p) /\ faults < MaxFaults
    /\ GiveUp(p) /\ faults' = faults + 1

\* The seller's NOTIFY, under the thread's lock.
RetryNotice(r) ==
    /\ manual < MaxManual /\ lock = Nobody /\ ~session.archived
    /\ notice[r].status = "MANUAL_REQUIRED"
    /\ notice' = [notice EXCEPT ![r].status = "PENDING", ![r].wait = FALSE,
                                ![r].token = 0, ![r].live = FALSE]
    /\ manual' = manual + 1
    /\ UNCHANGED <<approval, session, events, exec, receipts, messages, lock, thread, proc, faults>>

-------------------------------------------------------------------------------
(* The end of an execution.                                                      *)

\* At the end everything the result settles is delivered, at the interrupt only
\* the request: an event that raced it stays pending.
Acknowledge(p) ==
    /\ proc[p].pc = "acknowledge"
    /\ IF Owns(p)
       THEN /\ events' = Acknowledged(IF proc[p].graph.next = "end" THEN Covered(proc[p].graph.result)
                                      ELSE {"requested"})
            /\ Step(p, "release")
       ELSE Step(p, "fail") /\ UNCHANGED events
    /\ UNCHANGED <<approval, session, exec, receipts, notice, messages, lock, thread, faults, manual>>

Release(p) ==
    /\ proc[p].pc = "release"
    /\ IF Owns(p)
       THEN /\ exec' = [exec EXCEPT !.saved = TRUE, !.attempts = 0, !.recovery = FALSE,
                                    !.wait = FALSE, !.owner = 0, !.live = FALSE]
            /\ Leave(p)
       ELSE Step(p, "fail") /\ UNCHANGED <<exec, lock>>
    /\ UNCHANGED <<approval, session, events, receipts, notice, messages, thread, faults, manual>>

Fail(p) ==
    /\ proc[p].pc = "fail"
    /\ exec' = IF ~Owns(p) THEN exec
               ELSE [exec EXCEPT !.attempts = exec.attempts + 1, !.wait = TRUE,
                                 !.recovery = proc[p].conflict \/ exec.attempts + 1 >= AttemptLimit,
                                 !.owner = 0, !.live = FALSE]
    /\ Leave(p)
    /\ UNCHANGED <<approval, session, events, receipts, notice, messages, thread, faults, manual>>

-------------------------------------------------------------------------------
(* Retention.                                                                    *)

\* check: the session is over, nothing of it is pending, and the thread has ended.
\* Ninety days without a change are time enough for any lease and retry.
Archivable ==
    /\ session.status \in {"agreed", "closed"}
    /\ approval.status # "PENDING" /\ approval.effect # "NOT_APPLIED"
    /\ \A r \in Revisions : notice[r].status \in {"none", "PUBLISHED"}
    /\ \A e \in Events : events[e] # "pending"
    /\ ~exec.recovery /\ ~exec.live

\* archive: a tombstone under all thread locks first, then the checkpoints.  Only
\* a rerun deletes them if the process died in between.
Archive ==
    /\ lock = Nobody /\ thread.next \in {"none", "end"}
    /\ session.archived \/ Archivable
    /\ session' = [session EXCEPT !.archived = TRUE]
    /\ thread' \in {NoThread} \union (IF faults < MaxFaults THEN {thread} ELSE {})
    /\ faults' = IF thread' = thread /\ thread # NoThread THEN faults + 1 ELSE faults
    /\ UNCHANGED <<approval, events, exec, receipts, notice, messages, lock, proc, manual>>

-------------------------------------------------------------------------------
(* Faults and time.                                                              *)

\* The process dies; PostgreSQL releases its lock.
Crash(p) ==
    /\ faults < MaxFaults /\ proc[p].pc # "idle"
    /\ faults' = faults + 1
    /\ Leave(p)
    /\ UNCHANGED <<rows, thread, manual>>

\* The connection ends and with it the lock, while the process goes on.
LoseConnection(p) ==
    /\ faults < MaxFaults /\ lock = p
    /\ faults' = faults + 1 /\ lock' = Nobody
    /\ UNCHANGED <<rows, thread, proc, manual>>

\* A node of the graph raises.
Raise(p) ==
    /\ faults < MaxFaults
    /\ proc[p].pc \in {"reconcile", "inspect", "load", "apply", "save", "acknowledge", "release"}
    /\ faults' = faults + 1
    /\ Step(p, "fail")
    /\ UNCHANGED <<rows, lock, thread, manual>>

Owner(p) == Owns(p) /\ proc[p].pc # "idle"

\* A lease ends; that its owner is still at work counts as a fault.
LeaseEnds ==
    /\ exec.live
    /\ LET outrun == \E p \in Proc : Owner(p) IN
       /\ outrun => faults < MaxFaults
       /\ faults' = IF outrun THEN faults + 1 ELSE faults
    /\ exec' = [exec EXCEPT !.live = FALSE]
    /\ UNCHANGED <<approval, session, events, receipts, notice, messages, lock, thread, proc, manual>>

NoticeLeaseEnds(r) ==
    /\ notice[r].live
    /\ LET outrun == \E p \in Proc : proc[p].pc = "publish" /\ proc[p].about = r /\ Holds(p) IN
       /\ outrun => faults < MaxFaults
       /\ faults' = IF outrun THEN faults + 1 ELSE faults
    /\ notice' = [notice EXCEPT ![r].live = FALSE]
    /\ UNCHANGED <<approval, session, events, exec, receipts, messages, lock, thread, proc, manual>>

WaitEnds ==
    /\ exec.wait
    /\ exec' = [exec EXCEPT !.wait = FALSE]
    /\ UNCHANGED <<approval, session, events, receipts, notice, messages, lock, thread, proc, faults, manual>>

NoticeWaitEnds(r) ==
    /\ notice[r].wait
    /\ notice' = [notice EXCEPT ![r].wait = FALSE]
    /\ UNCHANGED <<approval, session, events, exec, receipts, messages, lock, thread, proc, faults, manual>>

-------------------------------------------------------------------------------
Runner(p) ==
    \/ Claim(p) \/ Reconcile(p) \/ Inspect(p) \/ Enter(p) \/ Save(p)
    \/ LoadNode(p) \/ WaitNode(p) \/ ApplyNode(p) \/ ApplyStale(p) \/ NoticeNode(p)
    \/ ClaimNotice(p) \/ Publish(p) \/ PublishLate(p)
    \/ Acknowledge(p) \/ Release(p) \/ Fail(p)

Pick(p) == Select(p) \/ \E r \in Revisions : SelectNotice(p, r)

Business ==
    \/ \E approve \in BOOLEAN : Review(approve)
    \/ LoseOffer \/ EndSession("agreed") \/ EndSession("closed") \/ Ages

Clock == LeaseEnds \/ WaitEnds \/ \E r \in Revisions : NoticeLeaseEnds(r) \/ NoticeWaitEnds(r)

Next ==
    \/ \E p \in Proc : Pick(p) \/ Lock(p) \/ Busy(p) \/ Runner(p) \/ PublishFails(p)
                       \/ Crash(p) \/ LoseConnection(p) \/ Raise(p)
    \/ Business \/ Clock \/ Archive
    \/ \E r \in Revisions : RetryNotice(r)

Spec == Init /\ [][Next]_vars

\* The worker loop visits what is due and goes on with what it began; a lock that
\* is free again and again is taken; time passes.  Nobody has to decide anything.
WeakFairness ==
    /\ \A p \in Proc : WF_vars(Runner(p) \/ Busy(p))
    /\ WF_vars(LeaseEnds) /\ WF_vars(WaitEnds)
    /\ \A r \in Revisions : WF_vars(NoticeLeaseEnds(r)) /\ WF_vars(NoticeWaitEnds(r))
Fairness ==
    /\ WeakFairness
    /\ \A p \in Proc : /\ SF_vars(Lock(p)) /\ SF_vars(Select(p))
                       /\ \A r \in Revisions : SF_vars(SelectNotice(p, r))

FairSpec == Spec /\ Fairness

-------------------------------------------------------------------------------
(* Properties.                                                                   *)

Results == [outcome : {"none", "OFFER_ACCEPTED", "APPROVAL_REJECTED", "APPROVAL_INVALIDATED"},
            revision : 0..2]
Graphs == [next : {"none", "load", "wait", "interrupted", "apply", "notice", "end"},
           event : Events \union {"none"}, result : Results]

\* Rows, checkpoint and processes hold values their columns allow.
TypeOK ==
    /\ approval \in [status : {"PENDING", "APPROVED", "REJECTED", "CANCELLED", "EXPIRED"},
                     effect : {"NOT_APPLIED", "APPLIED", "INVALIDATED"}, revision : 0..2,
                     basis : BOOLEAN, late : BOOLEAN]
    /\ session \in [status : {"open", "agreed", "closed"}, archived : BOOLEAN]
    /\ events \in [Events -> {"none", "pending", "delivered"}]
    /\ exec \in [owner : Nat, live : BOOLEAN, epoch : Nat, saved : BOOLEAN,
                 recovery : BOOLEAN, attempts : 0..AttemptLimit, wait : BOOLEAN]
    /\ exec.live => exec.owner # 0
    /\ receipts \in [Events -> Results]
    /\ notice \in [Revisions -> [status : {"none", "PENDING", "RUNNING", "RETRY_WAIT",
                                           "MANUAL_REQUIRED", "PUBLISHED"},
                                 token : Nat, live : BOOLEAN, wait : BOOLEAN, attempts : Nat]]
    /\ messages \in [Revisions -> Nat]
    /\ lock \in Proc \union {Nobody} /\ thread \in Graphs
    /\ proc \in [Proc -> [pc : {"idle", "lock", "claim", "reconcile", "inspect", "enter", "save",
                                "load", "wait", "apply", "notice", "offerNotice", "publish",
                                "acknowledge", "release", "fail"},
                          role : {"none", "runner", "notifier"}, epoch : Nat, graph : Graphs,
                          about : {0} \union Revisions, token : Nat, conflict : BOOLEAN]]
    /\ faults \in 0..MaxFaults /\ manual \in 0..MaxManual

\* Nothing is delivered before it is settled: a delivered decision has had its
\* effect, a delivered invalidation is in the thread's result or was overtaken by
\* no later one.  Otherwise a crash would lose it, since only pending events are
\* ever picked up.
DeliveredIsSettled ==
    /\ events["decision"] = "delivered" => approval.effect # "NOT_APPLIED"
    /\ events["invalidated"] = "delivered" =>
          \E e \in Events : receipts[e] = [outcome |-> "APPROVAL_INVALIDATED",
                                           revision |-> approval.revision]

\* The graph's memory and its rows agree: whatever the checkpoint calls applied
\* has a receipt with that very result, so no crash makes the graph announce a
\* result that the database does not hold.
CheckpointHasReceipt ==
    thread.next \in {"notice", "end"} => \E e \in Events : receipts[e] = thread.result

\* A missing checkpoint is only ever met after archiving: recovery conflicts are
\* not invented by crashes, lost connections or takeovers.
ConflictOnlyAfterArchive == \A p \in Proc : proc[p].conflict => session.archived

\* An archived session is closed for good: the business rows, events and notices
\* that audits and idempotency rely on never change again.
ArchiveIsFinal ==
    [][session.archived => UNCHANGED <<session, approval, events, notice, receipts, messages>>]_vars

\* The buyer is told of every settlement at most once, the effect of a decision
\* and its loss are counted once: module ApprovalOutcome.
Outcome == INSTANCE ApprovalOutcome WITH
    decision <- IF approval.status \in {"CANCELLED", "EXPIRED"} THEN "VOID" ELSE approval.status,
    effect <- approval.effect,
    settled <- approval.revision,
    announced <- {r \in Revisions : messages[r] > 0}

OutcomeIsKept == Outcome!Spec

\* No notice is published twice, by runner and dispatcher, before and after a crash.
NoticesOnce == \A r \in Revisions : messages[r] <= 1

\* Every event is settled and every notice reaches the buyer or the seller's desk,
\* whatever crashes: whoever takes over finds them by their rows, as long as fewer
\* executions fail than make the row need recovery.
Settled ==
    /\ \A e \in Events : events[e] # "pending"
    /\ \A r \in Revisions : notice[r].status \in {"none", "PUBLISHED", "MANUAL_REQUIRED"}

SettlesInTheEnd == <>[]Settled
================================================================================
