---------------------------- MODULE AgentRuntime ----------------------------
(***************************************************************************)
(* The agent's loop that answers one buyer message under a model task:     *)
(* SellerAgentRuntime.run over ProductionRuntimeBackend.  An execution     *)
(* holds the task's lease, works on its own copy of the checkpoint and     *)
(* saves it with every step; each model call is reserved in the checkpoint *)
(* before it is sent, recorded before and after; each tool call is         *)
(* reserved, executed and logged with its effect in one transaction.       *)
(* Processes die between any two steps and the next one continues from     *)
(* what is saved.  A call reserves one unit of tokens and may turn out to  *)
(* have used one more.                                                     *)
(* Bounds: the budgets of the run (Steps, Calls, Tools, Upkeep, Tokens),   *)
(* Attempts leases, Faults deaths or leases that end under a live process, *)
(* one overrun of tokens, one change of the business state or end of the   *)
(* time, and one other turn.                                               *)
(***************************************************************************)
EXTENDS Naturals, Sequences, FiniteSets

CONSTANTS Exec,      \* processes
          Text,      \* candidate replies the model may propose
          Banned,    \* those with words no tool can keep
          Steps, Calls, Tools, Upkeep, Tokens, Attempts, Faults

VARIABLES task,      \* the model task: [status, attempts, limit, lapsed]
          saved,     \* its runtime_checkpoint
          snaps,     \* call snapshots in the order of their reservation
          stream,    \* event keys of the session's stream
          out,       \* [replies, acts, version, covered]: messages, formal acts, context
          world,     \* [moved, late, other]: stale business versions, wall time, other turn
          run,       \* process -> its execution
          broken     \* faults so far
vars == <<task, saved, snaps, stream, out, world, run, broken>>

----------------------------------------------------------------------------
Ending == {"ENDING", "FINISH"}
Loop == {"REACT"} \cup Ending
Maintenance == {"MEMORY", "SUMMARY"}

NoCheckpoint ==
    [steps |-> 0, calls |-> 0, tools |-> 0, tokens |-> 0, upkeep |-> 0,
     reserved |-> {}, owed |-> {}, pending |-> <<>>, batch |-> FALSE,
     repair |-> FALSE, json |-> FALSE, recalled |-> FALSE, covered |-> 0,
     reviews |-> [t \in Text |-> "none"]]
Off == [at |-> "off", token |-> 0, cp |-> NoCheckpoint, key |-> <<"none", 0>>, row |-> 0,
        built |-> FALSE, answer |-> [kind |-> "none"]]

Init ==
    /\ task = [status |-> "PENDING", attempts |-> 0, limit |-> Attempts, lapsed |-> FALSE]
    /\ saved = NoCheckpoint
    /\ snaps = <<>> /\ stream = <<>>
    /\ out = [replies |-> 0, acts |-> 0, version |-> 0, covered |-> 0]
    /\ world = [moved |-> FALSE, late |-> FALSE, other |-> FALSE]
    /\ run = [p \in Exec |-> Off]
    /\ broken = 0

Holds(p) == /\ task.status = "RUNNING" /\ ~task.lapsed
            /\ run[p].token = task.attempts

(* An execution goes on at "at" with checkpoint cp; Saving also stores cp.  *)
Goes(p, at, cp) == run' = [run EXCEPT ![p].at = at, ![p].cp = cp]
Saving(p, at, cp) == Goes(p, at, cp) /\ saved' = cp

(* An event is appended under its key, once; a transaction logs two at most. *)
Noted(log, e) == IF \E i \in DOMAIN log : log[i] = e THEN log ELSE Append(log, e)
Logged(events) ==
    CASE Len(events) = 0 -> stream
      [] Len(events) = 1 -> Noted(stream, events[1])
      [] OTHER -> Noted(Noted(stream, events[1]), events[2])

----------------------------------------------------------------------------
(* The lease.                                                               *)
Take(p) ==
    /\ run[p].at = "off"
    /\ task.status \in {"PENDING", "RETRY_WAIT"} \/ (task.status = "RUNNING" /\ task.lapsed)
    /\ IF task.attempts >= task.limit
       THEN task' = [task EXCEPT !.status = "FAILED", !.lapsed = FALSE] /\ UNCHANGED run
       ELSE /\ task' = [task EXCEPT !.status = "RUNNING", !.attempts = @ + 1, !.lapsed = FALSE]
            /\ run' = [run EXCEPT ![p] = [Off EXCEPT !.at = "loop", !.cp = saved,
                                                     !.token = task.attempts + 1]]
    /\ UNCHANGED <<saved, snaps, stream, out, world, broken>>

(* Every transaction of the run checks the lease; without it the run ends.  *)
Lost(p) ==
    /\ run[p].at # "off" /\ ~Holds(p)
    /\ run' = [run EXCEPT ![p] = Off]
    /\ UNCHANGED <<task, saved, snaps, stream, out, world, broken>>

----------------------------------------------------------------------------

(* The end of the turn: reply, context, checkpoint and task in one          *)
(* transaction.  The context is written only if no other turn wrote it.     *)
Finish(p, cp, stale, formal, events) ==
    /\ task' = [task EXCEPT !.status = IF stale THEN "STALE" ELSE "SUCCEEDED"]
    /\ out' = [replies |-> out.replies + 1, acts |-> out.acts + formal,
               version |-> IF ~stale /\ out.version = 0 THEN 1 ELSE out.version,
               covered |-> IF ~stale /\ out.version = 0 THEN cp.covered ELSE out.covered]
    /\ saved' = [cp EXCEPT !.pending = <<>>]
    /\ stream' = Logged(events)
    /\ run' = [run EXCEPT ![p] = Off]
    /\ UNCHANGED <<snaps, world, broken>>

Results(calls) == [i \in DOMAIN calls |-> <<"result", calls[i].id>>]

(* A budget or the business state ends the turn: what is pending gets a     *)
(* refusing result, the buyer a safe reply.                                 *)
Stop(p, cp, stale) == Finish(p, cp, stale, 0, Results(cp.pending))

(* The top of every round: the wall clock, then lease and versions.         *)
CheckRound(p) ==
    /\ run[p].at = "loop" /\ Holds(p)
    /\ \/ (world.late \/ world.moved) /\ Stop(p, run[p].cp, ~world.late)
       \/ /\ ~world.late /\ ~world.moved
          /\ Goes(p, IF run[p].cp.pending # <<>> THEN "tool" ELSE "step", run[p].cp)
          /\ UNCHANGED <<task, saved, snaps, stream, out, world, broken>>

----------------------------------------------------------------------------
(* A model call.                                                            *)
Key(cp, purpose, text) ==
    <<purpose, IF purpose = "REVIEW" THEN text
               ELSE IF purpose \in Loop THEN cp.steps + 1 ELSE cp.calls + 1>>

Answers(key) == {i \in DOMAIN snaps : snaps[i].key = key /\ snaps[i].status = "SUCCEEDED"}

(* Only answers of the loop and of the review are looked up.                *)
Cached(key) == IF key[1] \in Maintenance THEN {} ELSE Answers(key)

Spent(cp) == cp.calls >= Calls \/ cp.tokens + 1 > Tokens

Refused(cp, key) ==
    \/ world.late
    \/ Cached(key) = {} /\ (Spent(cp) \/ (key[1] \in Maintenance /\ cp.upkeep >= Upkeep))

(* The reservation is saved before anything leaves.                         *)
Reserved(cp, key) ==
    [cp EXCEPT !.calls = @ + 1, !.tokens = @ + 1, !.owed = @ \cup {key},
               !.upkeep = IF key[1] \in Maintenance THEN @ + 1 ELSE @]

(* Mutant: the reservation is kept in memory only.                          *)
AskUnsaved(p, cp, key) ==
    /\ Holds(p)
    /\ Cached(key) = {} /\ ~Refused(cp, key)
    /\ run' = [run EXCEPT ![p] = [@ EXCEPT !.at = "send", !.cp = Reserved(cp, key), !.key = key]]
    /\ UNCHANGED <<saved, task, snaps, stream, out, world, broken>>

Ask(p, cp, key) ==
    /\ Holds(p)
    /\ \/ /\ Cached(key) = {} /\ ~Refused(cp, key)
          /\ run' = [run EXCEPT ![p] = [@ EXCEPT !.at = "send", !.cp = Reserved(cp, key),
                                                 !.key = key]]
          /\ saved' = Reserved(cp, key)
          /\ UNCHANGED <<task, snaps, stream, out, world, broken>>
       \/ /\ Cached(key) # {} /\ ~Refused(cp, key)
          /\ \E i \in Cached(key) :
                run' = [run EXCEPT ![p] = [@ EXCEPT !.at = "answered", !.cp = cp, !.key = key,
                                                    !.row = i, !.answer = snaps[i].answer]]
          /\ UNCHANGED <<task, saved, snaps, stream, out, world, broken>>
       \/ /\ Refused(cp, key) /\ key[1] \in Maintenance
          /\ run' = [run EXCEPT ![p] = [@ EXCEPT !.at = "step", !.cp = cp,
                                                 !.built = key[1] = "SUMMARY"]]
          /\ saved' = IF key[1] = "MEMORY" THEN cp ELSE saved
          /\ UNCHANGED <<task, snaps, stream, out, world, broken>>
       \/ /\ Refused(cp, key) /\ key[1] \notin Maintenance
          /\ Stop(p, cp, FALSE)

(* One transaction settles calls of dead executions and records this one.   *)
Unsettled(rows) ==
    [i \in DOMAIN rows |-> IF rows[i].status = "STARTED"
                           THEN [rows[i] EXCEPT !.status = "UNKNOWN"] ELSE rows[i]]

Send(p) ==
    /\ run[p].at = "send" /\ Holds(p)
    /\ snaps' = Append(Unsettled(snaps), [key |-> run[p].key, status |-> "STARTED",
                                          over |-> 0, answer |-> [kind |-> "none"]])
    /\ run' = [run EXCEPT ![p].at = "wait", ![p].row = Len(snaps) + 1]
    /\ UNCHANGED <<task, saved, stream, out, world, broken>>

(* What the model may answer: in the loop text, tool calls or something the *)
(* protocol refuses; the ending purposes only offer finish_turn.            *)
Proposals == [kind : {"finish"}, text : Text]
Replies(purpose) ==
    CASE purpose = "REACT" -> [kind : {"talk", "read", "act", "mixed"}] \cup Proposals
      [] purpose = "ENDING" -> [kind : {"talk", "bad"}] \cup Proposals
      [] purpose = "FINISH" -> [kind : {"bad"}] \cup Proposals
      [] purpose = "REVIEW" -> [kind : {"yes", "no"}]
      [] OTHER -> [kind : {"delta", "bad"}]

Answer(p, answer, over) ==
    /\ run[p].at = "wait" /\ Holds(p) /\ answer \in Replies(run[p].key[1])
    /\ snaps' = [snaps EXCEPT ![run[p].row] =
                    [@ EXCEPT !.status = "SUCCEEDED", !.answer = answer, !.over = over]]
    /\ run' = [run EXCEPT ![p].at = "answered", ![p].answer = answer]
    /\ UNCHANGED <<task, saved, stream, out, world, broken>>

(* Usage above the reservation is added once.                               *)
Reconcile(p) ==
    /\ run[p].at = "answered" /\ Holds(p)
    /\ LET cp == run[p].cp
           due == run[p].key \in cp.owed
       IN  Saving(p, "got", [cp EXCEPT !.tokens = IF due THEN @ + snaps[run[p].row].over ELSE @,
                                       !.owed = @ \ {run[p].key}])
    /\ UNCHANGED <<task, snaps, stream, out, world, broken>>

(* The request fails: maintenance is skipped, anything else ends the        *)
(* attempt.                                                                 *)
CallFails(p) ==
    /\ run[p].at = "wait" /\ Holds(p)
    /\ snaps' = [snaps EXCEPT ![run[p].row].status = "UNKNOWN"]
    /\ run' = IF run[p].key[1] \in Maintenance
              THEN [run EXCEPT ![p].at = "step", ![p].built = run[p].key[1] = "SUMMARY"]
              ELSE [run EXCEPT ![p].at = "raised"]
    /\ UNCHANGED <<task, saved, stream, out, world, broken>>

GiveBack(p, retryable) ==
    /\ run[p].at = "raised" /\ Holds(p)
    /\ task' = [task EXCEPT !.status = IF retryable /\ task.attempts < task.limit
                                       THEN "RETRY_WAIT" ELSE "FAILED"]
    /\ run' = [run EXCEPT ![p] = Off]
    /\ UNCHANGED <<saved, snaps, stream, out, world, broken>>

----------------------------------------------------------------------------
(* A round without pending calls: memory once if there is something to      *)
(* recall, a summary if the context is large, then the next model step.     *)
Purpose(cp) ==
    IF cp.json \/ cp.steps = Steps - 1 THEN "FINISH"
    ELSE IF cp.repair THEN "ENDING" ELSE "REACT"

Recall(p) ==
    /\ run[p].at = "step" /\ run[p].cp.steps < Steps /\ ~run[p].cp.recalled
    /\ LET cp == [run[p].cp EXCEPT !.recalled = TRUE] IN Ask(p, cp, Key(cp, "MEMORY", ""))

Compress(p) ==
    /\ run[p].at = "step" /\ run[p].cp.steps < Steps /\ ~run[p].built
    /\ LET cp == [run[p].cp EXCEPT !.recalled = TRUE] IN Ask(p, cp, Key(cp, "SUMMARY", ""))

Think(p) ==
    /\ run[p].at = "step" /\ run[p].cp.steps < Steps
    /\ LET cp == [run[p].cp EXCEPT !.recalled = TRUE] IN Ask(p, cp, Key(cp, Purpose(cp), ""))

OutOfSteps(p) ==
    /\ run[p].at = "step" /\ Holds(p) /\ run[p].cp.steps >= Steps
    /\ Stop(p, run[p].cp, FALSE)

(* The memory is refreshed, or the answer is no valid delta.                *)
Refresh(p) ==
    /\ run[p].at = "got" /\ Holds(p) /\ run[p].key[1] \in Maintenance
    /\ LET cp == IF run[p].key[1] = "MEMORY" /\ run[p].answer.kind = "delta"
                 THEN [run[p].cp EXCEPT !.covered = 1] ELSE run[p].cp
       IN  /\ run' = [run EXCEPT ![p].at = "step", ![p].cp = cp,
                                 ![p].built = run[p].key[1] = "SUMMARY"]
           /\ saved' = cp
    /\ UNCHANGED <<task, snaps, stream, out, world, broken>>

(* The calls of a model step, each with the id the provider gave it.        *)
CallsOf(step, answer) ==
    LET c(i, kind) == [id |-> <<step, i>>, kind |-> kind, text |-> ""]
    IN  CASE answer.kind = "read" -> <<c(1, "read")>>
          [] answer.kind = "act" -> <<c(1, "read"), c(2, "act")>>
          [] answer.kind = "mixed" -> <<c(1, "act"), c(2, "read")>>
          [] answer.kind = "finish" -> <<[c(1, "finish") EXCEPT !.text = answer.text]>>
          [] OTHER -> <<>>

(* The step is logged and saved with its calls; text or a refused answer    *)
(* asks for an ending.                                                      *)
SaveStep(p) ==
    /\ run[p].at = "got" /\ Holds(p) /\ run[p].key[1] \in Loop
    /\ LET cp == run[p].cp
           step == cp.steps + 1
           calls == CallsOf(step, run[p].answer)
       IN  /\ saved' = [cp EXCEPT !.steps = step, !.pending = calls,
                                  !.batch = run[p].answer.kind = "mixed",
                                  !.repair = calls = <<>>,
                                  !.json = @ \/ (cp.repair /\ run[p].answer.kind = "talk")]
           /\ run' = [run EXCEPT ![p].at = "loop", ![p].cp = saved', ![p].built = FALSE]
           /\ stream' = Logged(<<<<"step", step>>>>)
    /\ UNCHANGED <<task, snaps, out, world, broken>>

----------------------------------------------------------------------------
(* A pending tool call: reserved once per id, reviewed if it is a reply,    *)
(* then executed.                                                           *)
First(p) == Head(run[p].cp.pending)
Reviewable(p) == First(p).kind = "finish" /\ ~run[p].cp.batch

ReserveTool(p) ==
    /\ run[p].at = "tool" /\ Holds(p) /\ First(p).id \notin run[p].cp.reserved
    /\ \/ /\ run[p].cp.tools < Tools
          /\ Saving(p, "tool", [run[p].cp EXCEPT !.tools = @ + 1,
                                                 !.reserved = @ \cup {First(p).id}])
          /\ UNCHANGED <<task, snaps, stream, out, world, broken>>
       \/ /\ run[p].cp.tools >= Tools
          /\ Stop(p, run[p].cp, FALSE)

Review(p) ==
    /\ run[p].at = "tool" /\ First(p).id \in run[p].cp.reserved /\ Reviewable(p)
    /\ run[p].cp.reviews[First(p).text] = "none" /\ First(p).text \notin Banned
    /\ Ask(p, run[p].cp, Key(run[p].cp, "REVIEW", First(p).text))

(* The verdict is stored under the candidate's text; banned words are       *)
(* refused without a call.                                                  *)
StoreVerdict(p, verdict) ==
    /\ Holds(p)
    /\ \/ run[p].at = "got" /\ run[p].key[1] = "REVIEW" /\ verdict = run[p].answer.kind
       \/ /\ run[p].at = "tool" /\ First(p).id \in run[p].cp.reserved /\ Reviewable(p)
          /\ run[p].cp.reviews[First(p).text] = "none"
          /\ First(p).text \in Banned /\ verdict = "no"
    /\ Saving(p, "tool", [run[p].cp EXCEPT !.reviews[First(p).text] = verdict])
    /\ UNCHANGED <<task, snaps, stream, out, world, broken>>

Approved(p) == Reviewable(p) /\ run[p].cp.reviews[First(p).text] = "yes"

Ready(p) ==
    /\ run[p].at = "tool" /\ Holds(p) /\ First(p).id \in run[p].cp.reserved
    /\ Reviewable(p) => run[p].cp.reviews[First(p).text] # "none"

Executed(cp) == [cp EXCEPT !.pending = Tail(@)]
Result(p) == <<<<"result", First(p).id>>>>

(* The versions, the current offer or the facts are not those of the task.  *)
Overtaken == world.moved

(* Effect, result, checkpoint - and for a terminal tool reply and task -    *)
(* are one transaction under lease and versions; what the tool refuses is a *)
(* result too.                                                              *)
Execute(p, ok) ==
    /\ Ready(p)
    /\ LET c == First(p)
           cp == run[p].cp
           acts == c.kind = "act" /\ ok /\ ~cp.batch
           ends == c.kind = "finish" /\ Approved(p)
       IN  \/ /\ Overtaken
              /\ Stop(p, cp, TRUE)
           \/ /\ ~Overtaken /\ acts
              /\ Finish(p, Executed(cp), FALSE, 1, Result(p))
           \/ /\ ~Overtaken /\ ends
              /\ Finish(p, [Executed(cp) EXCEPT !.covered = IF ok THEN 2 ELSE @], FALSE, 0,
                        Result(p))
           \/ /\ ~Overtaken /\ ~acts /\ ~ends
              /\ Saving(p, "loop", [Executed(cp) EXCEPT !.repair = @ \/ c.kind = "finish"])
              /\ stream' = Logged(Result(p))
              /\ UNCHANGED <<task, snaps, out, world, broken>>

----------------------------------------------------------------------------
(* The world: versions move, time runs out, the seller retries a failed     *)
(* task, and while it is failed another turn of the session may end.        *)
Move ==
    /\ ~world.moved /\ ~world.late /\ world' = [world EXCEPT !.moved = TRUE]
    /\ UNCHANGED <<task, saved, snaps, stream, out, run, broken>>
TimeIsUp ==
    /\ ~world.moved /\ ~world.late /\ saved.calls > 0 /\ world' = [world EXCEPT !.late = TRUE]
    /\ UNCHANGED <<task, saved, snaps, stream, out, run, broken>>
RetryFailed ==
    /\ task.status = "FAILED" /\ task.limit = Attempts
    /\ task' = [task EXCEPT !.status = "PENDING", !.limit = @ + 1]
    /\ UNCHANGED <<saved, snaps, stream, out, world, run, broken>>
OtherTurn ==
    /\ task.status = "FAILED" /\ ~world.other
    /\ world' = [world EXCEPT !.other = TRUE]
    /\ out' = [out EXCEPT !.version = 1, !.covered = 3]
    /\ UNCHANGED <<task, saved, snaps, stream, run, broken>>

Die(p) ==
    /\ run[p].at # "off" /\ broken < Faults
    /\ run' = [run EXCEPT ![p] = Off]
    /\ broken' = broken + 1
    /\ UNCHANGED <<task, saved, snaps, stream, out, world>>

LeaseEnds ==
    /\ task.status = "RUNNING" /\ ~task.lapsed
    /\ LET held == \E p \in Exec : run[p].at # "off" /\ Holds(p)
       IN  /\ held => broken < Faults
           /\ broken' = IF held THEN broken + 1 ELSE broken
    /\ task' = [task EXCEPT !.lapsed = TRUE]
    /\ UNCHANGED <<saved, snaps, stream, out, world, run>>

(* Calls that used more than they reserved: one model step at most.         *)
Overrun == {i \in DOMAIN snaps : snaps[i].over = 1}

Work(p) ==
    \/ Take(p) \/ Lost(p) \/ CheckRound(p)
    \/ Send(p) \/ Reconcile(p) \/ CallFails(p)
    \/ \E over \in 0..1, answer \in Replies(run[p].key[1]) :
          /\ over = 0 \/ (Overrun = {} /\ run[p].key[1] \in Loop)
          /\ Answer(p, answer, over)
    \/ \E retryable \in BOOLEAN : GiveBack(p, retryable)
    \/ Recall(p) \/ Compress(p) \/ Think(p) \/ OutOfSteps(p)
    \/ Refresh(p) \/ SaveStep(p)
    \/ ReserveTool(p) \/ Review(p)
    \/ \E verdict \in {"yes", "no"} : StoreVerdict(p, verdict)
    \/ \E ok \in BOOLEAN : Execute(p, ok)

Next == \/ \E p \in Exec : Work(p) \/ Die(p)
        \/ Move \/ TimeIsUp \/ RetryFailed \/ OtherTurn \/ LeaseEnds

Spec == Init /\ [][Next]_vars

(* Executions run on, callers and the worker lease what is open, leases end.*)
Fairness == (\A p \in Exec : WF_vars(Work(p))) /\ WF_vars(LeaseEnds)

----------------------------------------------------------------------------
(* The rows are well-formed, and no budget of the run is exceeded whichever *)
(* executions shared it.                                                    *)
TypeOK ==
    /\ task.status \in {"PENDING", "RUNNING", "RETRY_WAIT", "FAILED", "SUCCEEDED", "STALE"}
    /\ task.attempts \in 0..task.limit /\ task.limit \in Attempts..(Attempts + 1)
    /\ saved.steps \in 0..Steps /\ saved.calls \in 0..Calls /\ saved.tools \in 0..Tools
    /\ saved.upkeep \in 0..Upkeep /\ saved.tokens \in 0..(2 * Tokens)
    /\ Cardinality(saved.reserved) = saved.tools
    /\ out.replies \in 0..1 /\ out.acts \in 0..out.replies

(* What was ever sent to the provider was reserved and saved before, so a   *)
(* crash never buys a request the budget does not know.                     *)
RequestsAreReserved == Len(snaps) <= saved.calls

(* A completed answer is never bought twice: at most one snapshot of a step *)
(* or of a reply's review succeeds, whoever died after it.                  *)
OneAnswerPerStep ==
    \A i, j \in DOMAIN snaps :
        i # j /\ snaps[i].key[1] \notin Maintenance
        /\ snaps[i].status = "SUCCEEDED" /\ snaps[j].status = "SUCCEEDED"
            => snaps[i].key # snaps[j].key

(* Stream and checkpoint tell one story: the steps are logged in order, and *)
(* every call the model issued is pending or has its one result.            *)
Issued(key) == key[1] = "result" /\ key[2][1] <= saved.steps
StreamMatchesCheckpoint ==
    /\ Cardinality({stream[i] : i \in DOMAIN stream}) = Len(stream)
    /\ {n \in 1..Steps : \E i \in DOMAIN stream : stream[i] = <<"step", n>>} = 1..saved.steps
    /\ \A i \in DOMAIN stream : stream[i][1] = "result" => Issued(stream[i])
    /\ \A c \in DOMAIN saved.pending :
          \A i \in DOMAIN stream : stream[i] # <<"result", saved.pending[c].id>>

(* The turn ends once: its reply, its formal act and its task go together.  *)
EndsOnce == out.replies = 1 <=> task.status \in {"SUCCEEDED", "STALE"}

(* While a step or a review is asked for, everything earlier executions     *)
(* spent is counted against the budget.  (The overrun of a maintenance call *)
(* may be missing after a crash: nobody reads its answer again.  The model  *)
(* lets a step overrun.)                                                    *)
SpendIsCounted ==
    (\E p \in Exec : run[p].at = "wait" /\ run[p].key[1] \notin Maintenance /\ Holds(p))
        => Len(snaps) + Cardinality(Overrun) <= saved.tokens

(* A formal act is made only on the business state its model was shown.     *)
ActsOnFreshFacts ==
  out'.acts > out.acts => ~world.moved

(* The shared context never loses what a later turn has understood.         *)
CoversMore ==
  out'.covered >= out.covered

=============================================================================
