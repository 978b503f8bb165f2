---------------------------- MODULE SemanticTurn ----------------------------
(***************************************************************************)
(* One input of a negotiation-v3 session inside the semantic graph: the    *)
(* context is frozen, the buyer's text parsed by a model, the intents      *)
(* planned, the command committed, a natural reply composed and reviewed   *)
(* by models, the result published.  Each node is one or more transactions *)
(* followed by its checkpoint; model calls go through the ledger, which    *)
(* reserves, asks and accepts in three steps.  A process may die or lose   *)
(* its lease or its connection anywhere; the next owner resumes at the     *)
(* checkpoint while the old one may still wait for an answer.              *)
(* Queue, leases and the thread's lock are the subject of GraphRuntime;    *)
(* here an owner is an epoch, and whoever holds the lock saves.            *)
(* Bounds: Owners epochs, Faults faults, Versions business versions by     *)
(* others; a call reserves Reserve tokens and uses one.                    *)
(***************************************************************************)
EXTENDS Naturals, Sequences, FiniteSets

CONSTANTS Owners, MaxCalls, MaxTokens, Reserve, Rounds, Versions, Faults

ASSUME TurnAssumption ==
    /\ {Owners, MaxCalls, MaxTokens, Versions, Faults} \subseteq Nat
    /\ {Reserve, Rounds} \subseteq Nat \ {0}

VARIABLES owner,    \* the task: [epoch, live, stopped]
          lock,     \* the epoch whose process holds the thread, 0 for none
          saved,    \* the checkpoint
          proc,     \* epoch -> its process
          ledger,   \* model_call_ledger in the order of reservation
          rows,     \* [button, quality, turn, receipt, delivery, message, resolved]
          world     \* [version, others, spent, due, faults]
vars == <<owner, lock, saved, proc, ledger, rows, world>>

Epoch == 1..Owners
None == 0
----------------------------------------------------------------------------
NoQuality == [kept |-> FALSE, reply |-> None, evidence |-> None, approved |-> FALSE]
NoTurn == [kind |-> "none", answer |-> None]
NoMessage == [sent |-> FALSE, acted |-> FALSE, natural |-> None, version |-> None]
Start == [next |-> "prepare", context |-> FALSE, limit |-> FALSE, answer |-> None,
          expected |-> None, round |-> 0, valid |-> FALSE, approved |-> FALSE]
NoKey == [kind |-> "none", round |-> 0, evidence |-> None, reply |-> None]
Off == [at |-> "off", cp |-> Start, try |-> 1, key |-> NoKey, row |-> None, got |-> "none"]

Init ==
    /\ owner = [epoch |-> 0, live |-> FALSE, stopped |-> FALSE]
    /\ lock = None
    /\ saved = Start
    /\ proc = [e \in Epoch |-> Off]
    /\ ledger = <<>>
    /\ \E b \in BOOLEAN :
         rows = [button |-> b, quality |-> NoQuality, turn |-> NoTurn, receipt |-> None,
                 delivery |-> None, message |-> NoMessage, resolved |-> FALSE]
    /\ world = [version |-> 1, others |-> 0, spent |-> FALSE, due |-> FALSE, faults |-> 0]

Holds(e) == owner.live /\ owner.epoch = e
InTime == ~world.spent /\ ~world.due
In(e, node) == proc[e].at = "node" /\ proc[e].cp.next = node

(* The node is over; its state goes to the checkpoint next.                 *)
Ends(e, cp) == proc' = [proc EXCEPT ![e].at = "save", ![e].cp = cp]
Moves(e, at) == proc' = [proc EXCEPT ![e].at = at]

(* An exception leaves the graph: the process ends and gives up its lease.  *)
Leave(e) ==
    /\ proc' = [proc EXCEPT ![e] = Off]
    /\ lock' = IF lock = e THEN None ELSE lock
    /\ owner' = IF owner.epoch = e THEN [owner EXCEPT !.live = FALSE] ELSE owner

----------------------------------------------------------------------------
(* Owners come and go.                                                      *)
Claim ==
    /\ ~owner.live /\ lock = None /\ owner.epoch < Owners /\ ~rows.resolved
    /\ owner' = [owner EXCEPT !.epoch = @ + 1, !.live = TRUE]
    /\ lock' = owner.epoch + 1
    /\ proc' = [proc EXCEPT ![owner.epoch + 1] =
                  [Off EXCEPT !.at = IF owner.stopped THEN "stop" ELSE "node", !.cp = saved]]
    /\ UNCHANGED <<saved, ledger, rows, world>>

Fault == world.faults < Faults /\ world' = [world EXCEPT !.faults = @ + 1]

Crash(e) ==
    /\ proc[e].at # "off" /\ Fault
    /\ Leave(e)
    /\ UNCHANGED <<saved, ledger, rows>>

LeaseEnds ==
    /\ owner.live /\ Fault
    /\ owner' = [owner EXCEPT !.live = FALSE]
    /\ UNCHANGED <<lock, saved, proc, ledger, rows>>

ConnectionEnds(e) ==
    /\ lock = e /\ Fault
    /\ lock' = None
    /\ UNCHANGED <<owner, saved, proc, ledger, rows>>

(* The watchdog takes the run from a process that it cannot end.            *)
WatchdogRevokes ==
    /\ owner.live /\ Fault
    /\ owner' = [owner EXCEPT !.live = FALSE]
    /\ lock' = None
    /\ UNCHANGED <<saved, proc, ledger, rows>>

(* The seller stops the run from the recovery desk, when nobody owns it.    *)
Terminate ==
    /\ ~owner.live /\ lock = None /\ owner.epoch > 0 /\ ~owner.stopped /\ ~rows.resolved
    /\ owner' = [owner EXCEPT !.stopped = TRUE]
    /\ UNCHANGED <<lock, saved, proc, ledger, rows, world>>

(* Another business action of the session, or an edit of the product.       *)
OtherActs ==
    /\ world.others < Versions
    /\ world' = [world EXCEPT !.version = @ + 1, !.others = @ + 1]
    /\ UNCHANGED <<owner, lock, saved, proc, ledger, rows>>

TimeEnds ==
    /\ \/ world' = [world EXCEPT !.spent = TRUE]
       \/ rows.delivery # None /\ world' = [world EXCEPT !.due = TRUE]
    /\ world' # world
    /\ UNCHANGED <<owner, lock, saved, proc, ledger, rows>>

(* Every transaction of a node starts with lock_owner.                      *)
Stale(e) ==
    /\ proc[e].at \in {"node", "ask", "got", "stop"} /\ ~Holds(e)
    /\ Leave(e)
    /\ UNCHANGED <<saved, ledger, rows, world>>

(* The saver writes as long as the connection with the lock lives.          *)
SaveCheckpoint(e) ==
    /\ proc[e].at = "save"
    /\ IF lock = e
       THEN /\ saved' = proc[e].cp
            /\ proc' = [proc EXCEPT ![e] = [Off EXCEPT !.at = "node", !.cp = proc[e].cp]]
            /\ UNCHANGED <<owner, lock>>
       ELSE Leave(e) /\ UNCHANGED saved
    /\ UNCHANGED <<ledger, rows, world>>

----------------------------------------------------------------------------
(* The ledger.  Calls without a known use stay charged as reserved.         *)
Unsettled == {i \in DOMAIN ledger : ledger[i].used = None}
Charged == Reserve * Cardinality(Unsettled) + Cardinality(DOMAIN ledger \ Unsettled)
Accepted(key) == {i \in DOMAIN ledger : ledger[i].key = key /\ ledger[i].status = "ACCEPTED"}

Affordable(e) == Len(ledger) < MaxCalls /\ Charged + Reserve <= MaxTokens

NewCall(e) == [key |-> proc[e].key, by |-> e, status |-> "RESERVED", used |-> None,
               value |-> "none"]

(* Replay what was accepted, refuse what cannot be paid, or reserve.        *)
ReserveCall(e) ==
    /\ proc[e].at = "ask" /\ Holds(e)
    /\ LET old == Accepted(proc[e].key) IN
       IF old # {} /\ ~owner.stopped
       THEN LET i == CHOOSE i \in old : TRUE IN
            /\ proc' = [proc EXCEPT ![e].at = "got", ![e].row = i, ![e].got = ledger[i].value]
            /\ UNCHANGED ledger
       ELSE IF owner.stopped \/ ~InTime \/ ~Affordable(e)
       THEN /\ proc' = [proc EXCEPT ![e].at = "got", ![e].row = None, ![e].got = "refused"]
            /\ UNCHANGED ledger
       ELSE /\ ledger' = Append(ledger, NewCall(e))
            /\ proc' = [proc EXCEPT ![e].at = "wait", ![e].row = Len(ledger) + 1]
    /\ UNCHANGED <<owner, lock, saved, rows, world>>

Written(e, status, used, value) ==
    ledger' = [ledger EXCEPT ![proc[e].row].status = status, ![proc[e].row].used = used,
                             ![proc[e].row].value = value]

(* No answer, or one without the demanded structure.  A use that the failed *)
(* call reports could only lower its charge.                                *)
CallFails(e) ==
    /\ proc[e].at = "wait"
    /\ Written(e, "UNKNOWN", None, "none")
    /\ proc' = [proc EXCEPT ![e].at = "got", ![e].row = None, ![e].got = "failed"]
    /\ UNCHANGED <<owner, lock, saved, rows, world>>

Values(kind) == CASE kind = "parse"   -> {"act", "query"}
                  [] kind = "compose" -> {"safe", "unsafe"}
                  [] kind = "review"  -> {"yes", "no"}

(* Mutant: a late answer is accepted without a look at the owner.           *)
CallAnsweredLate(e) ==
    /\ proc[e].at = "wait"
    /\ \E value \in Values(proc[e].key.kind) :
         /\ Written(e, "ACCEPTED", 1, value)
         /\ proc' = [proc EXCEPT ![e].at = "got", ![e].got = value]
    /\ UNCHANGED <<owner, lock, saved, rows, world>>

CallAnswered(e) ==
    /\ proc[e].at = "wait"
    /\ \E value \in Values(proc[e].key.kind) :
         IF Holds(e)
         THEN /\ Written(e, "ACCEPTED", 1, value)
              /\ proc' = [proc EXCEPT ![e].at = "got", ![e].got = value]
              /\ UNCHANGED <<owner, lock>>
         ELSE Written(e, "STALE", 1, "none") /\ Leave(e)
    /\ UNCHANGED <<saved, rows, world>>

Asks(e, key) ==
    proc' = [proc EXCEPT ![e].at = "ask", ![e].key = key]

----------------------------------------------------------------------------
(* prepare_context: history and display receipts frozen once per input; too *)
(* long a context ends all calls of the turn.                               *)
Prepare(e) == \E fits \in BOOLEAN : LET ok == fits \/ rows.quality.kept IN
    /\ In(e, "prepare") /\ Holds(e)
    /\ rows' = [rows EXCEPT !.quality.kept = ok]
    /\ Ends(e, [proc[e].cp EXCEPT !.next = "parse", !.context = ok, !.limit = ~ok])
    /\ UNCHANGED <<owner, lock, saved, ledger, world>>

(* plan_turn: the plan of an input is written once.                         *)
Planned(kind, answer) ==
    IF rows.turn # NoTurn THEN rows
    ELSE [rows EXCEPT !.turn = [kind |-> kind, answer |-> answer]]

(* Buttons need no model; without one the text is answered, not acted on.   *)
Parse(e) ==
    /\ In(e, "parse") /\ Holds(e)
    /\ IF rows.button \/ proc[e].cp.limit
       THEN /\ rows' = Planned(IF rows.button THEN "act" ELSE "query", None)
            /\ Ends(e, [proc[e].cp EXCEPT !.next = "plan"])
       ELSE Asks(e, [NoKey EXCEPT !.kind = "parse"]) /\ UNCHANGED rows
    /\ UNCHANGED <<owner, lock, saved, ledger, world>>

(* One repeated attempt; then a clarification instead of a guess.           *)
Parsed(e) ==
    /\ proc[e].at = "got" /\ proc[e].key.kind = "parse"
    /\ \/ /\ proc[e].got \in Values("parse")
          /\ Ends(e, [proc[e].cp EXCEPT !.next = "plan", !.answer = proc[e].row])
          /\ UNCHANGED rows
       \/ /\ proc[e].got = "failed" /\ proc[e].try = 1
          /\ proc' = [proc EXCEPT ![e].at = "ask", ![e].try = 2]
          /\ UNCHANGED rows
       \/ /\ proc[e].got = "refused" \/ (proc[e].got = "failed" /\ proc[e].try = 2)
          /\ Holds(e)
          /\ rows' = Planned("query", None)
          /\ Ends(e, [proc[e].cp EXCEPT !.next = "plan"])
    /\ UNCHANGED <<owner, lock, saved, ledger, world>>

Plan(e) == LET answer == proc[e].cp.answer IN
    /\ In(e, "plan") /\ Holds(e)
    /\ rows' = IF answer = None THEN rows ELSE Planned(ledger[answer].value, answer)
    /\ Moves(e, "version")
    /\ UNCHANGED <<owner, lock, saved, ledger, world>>

ReadVersion(e) ==
    /\ proc[e].at = "version"
    /\ IF Holds(e)
       THEN /\ Ends(e, [proc[e].cp EXCEPT !.next = "commit", !.expected = world.version])
            /\ UNCHANGED <<owner, lock>>
       ELSE Leave(e)
    /\ UNCHANGED <<saved, ledger, rows, world>>

----------------------------------------------------------------------------
(* execute, or abort_or_query for a query and after a refusal.              *)
MayExecute(e) ==
    /\ rows.turn.kind = "act" /\ InTime
    /\ rows.receipt # None \/ world.version = proc[e].cp.expected

Commit(e) == \E refused \in BOOLEAN :   \* by the rules of the negotiation
    LET cp == [proc[e].cp EXCEPT !.next = "compose"] IN
    /\ In(e, "commit") /\ Holds(e)
    /\ Ends(e, cp)
    /\ \/ /\ MayExecute(e) /\ rows.receipt = None /\ ~refused
          /\ world' = [world EXCEPT !.version = @ + 1]
          /\ rows' = [rows EXCEPT !.receipt = world.version + 1, !.delivery = world.version + 1]
       \/ /\ ~MayExecute(e) \/ rows.receipt # None \/ refused
          /\ rows' = [rows EXCEPT !.delivery = IF @ = None THEN world.version ELSE @]
          /\ UNCHANGED world
    /\ UNCHANGED <<owner, lock, saved, ledger>>

----------------------------------------------------------------------------
(* GraphReplyService.compose: evidence is read outside the transaction that *)
(* stores the candidate.  A repair depends on the candidate before.         *)
Compose(e) == LET cp == proc[e].cp IN
    /\ In(e, "compose")
    /\ IF cp.context
       THEN Asks(e, [kind |-> "compose", round |-> cp.round, evidence |-> world.version,
                     reply |-> IF cp.round = 0 THEN None ELSE rows.quality.reply])
       ELSE Ends(e, [cp EXCEPT !.next = "review", !.valid = FALSE])
    /\ UNCHANGED <<owner, lock, saved, ledger, rows, world>>

Candidate(e) ==
    [rows.quality EXCEPT !.reply = IF proc[e].got \in Values("compose") THEN proc[e].row ELSE None,
                         !.evidence = proc[e].key.evidence, !.approved = FALSE]

Composed(e) ==
    /\ proc[e].at = "got" /\ proc[e].key.kind = "compose" /\ Holds(e)
    /\ rows' = [rows EXCEPT !.quality = Candidate(e)]
    /\ Ends(e, [proc[e].cp EXCEPT !.next = "review", !.valid = proc[e].got = "safe"])
    /\ UNCHANGED <<owner, lock, saved, ledger, world>>

(* after_review: repair while rounds, lease and time last.                  *)
Route(e, approved) == LET cp == proc[e].cp
                          round == cp.round + 1 IN
    [cp EXCEPT !.approved = approved, !.round = round,
               !.next = IF approved \/ round >= Rounds \/ ~InTime THEN "publish" ELSE "compose"]

Review(e) == LET q == rows.quality IN
    /\ In(e, "review")
    /\ Holds(e) \/ (~proc[e].cp.valid /\ proc[e].cp.round + 1 >= Rounds)
    /\ \/ /\ ~proc[e].cp.valid
          /\ Ends(e, Route(e, FALSE))
          /\ UNCHANGED rows
       \/ /\ proc[e].cp.valid /\ q.reply # None /\ q.evidence = world.version
          /\ Asks(e, [kind |-> "review", round |-> proc[e].cp.round,
                      evidence |-> world.version, reply |-> q.reply])
          /\ UNCHANGED rows
       \/ /\ proc[e].cp.valid /\ (q.reply = None \/ q.evidence # world.version)
          /\ rows' = [rows EXCEPT !.quality.approved = FALSE]
          /\ Ends(e, Route(e, FALSE))
    /\ UNCHANGED <<owner, lock, saved, ledger, world>>

Reviewed(e) == LET approved == proc[e].got = "yes" IN
    /\ proc[e].at = "got" /\ proc[e].key.kind = "review" /\ Holds(e)
    /\ rows' = [rows EXCEPT !.quality.approved = approved]
    /\ Ends(e, Route(e, approved))
    /\ UNCHANGED <<owner, lock, saved, ledger, world>>

----------------------------------------------------------------------------

(* reviewed_reply: approved, in time, and on the evidence of this moment.   *)
Natural ==
    /\ rows.quality.approved /\ ~world.due
    /\ rows.quality.evidence = world.version
    /\ rows.receipt # None => rows.receipt = world.version     \* not historical

Published ==
    IF rows.message.sent THEN rows
    ELSE [rows EXCEPT !.message =
            [sent |-> TRUE, acted |-> rows.receipt # None, version |-> world.version,
             natural |-> IF Natural THEN rows.quality.reply ELSE None]]

Publish(e) ==
    /\ In(e, "publish") /\ Holds(e)
    /\ rows' = Published
    /\ Ends(e, [proc[e].cp EXCEPT !.next = "end"])
    /\ UNCHANGED <<owner, lock, saved, ledger, world>>

(* A stopped run: no node is run again, what was committed stays.           *)
Stop(e) ==
    /\ proc[e].at = "stop" /\ Holds(e)
    /\ IF rows.delivery = None
       THEN /\ rows' = [rows EXCEPT !.delivery = world.version]
            /\ UNCHANGED proc
       ELSE /\ rows' = Published
            /\ Ends(e, [Start EXCEPT !.next = "end"])
    /\ UNCHANGED <<owner, lock, saved, ledger, world>>

(* The run is resolved once its last checkpoint is written.                 *)
Finalize(e) ==
    /\ In(e, "end") /\ Holds(e)
    /\ rows' = [rows EXCEPT !.resolved = TRUE]
    /\ Leave(e)
    /\ UNCHANGED <<saved, ledger, world>>

(* The dispatcher publishes what is owed when no owner does.                *)
NotifierPublishes ==
    /\ rows.delivery # None /\ ~rows.message.sent
    /\ lock = None /\ (~owner.live \/ world.due)
    /\ rows' = Published
    /\ UNCHANGED <<owner, lock, saved, proc, ledger, world>>

----------------------------------------------------------------------------
Nodes(e) ==
    \/ Prepare(e) \/ Parse(e) \/ Parsed(e) \/ Plan(e) \/ ReadVersion(e) \/ Commit(e)
    \/ Compose(e) \/ Composed(e) \/ Review(e) \/ Reviewed(e)
    \/ Publish(e) \/ Stop(e) \/ Finalize(e)
LedgerStep(e) == ReserveCall(e) \/ CallFails(e) \/ CallAnswered(e)

Next ==
    \/ Claim \/ LeaseEnds \/ WatchdogRevokes \/ Terminate \/ OtherActs \/ TimeEnds \/ NotifierPublishes
    \/ \E e \in Epoch : Nodes(e) \/ LedgerStep(e) \/ SaveCheckpoint(e) \/ Stale(e)
                        \/ Crash(e) \/ ConnectionEnds(e)

Spec == Init /\ [][Next]_vars
----------------------------------------------------------------------------
(* Every row has the shape the code gives it; an owner that has its lease   *)
(* is the newest one.                                                       *)
TypeOK ==
    /\ owner.epoch \in 0..Owners /\ lock \in 0..owner.epoch
    /\ saved.round \in 0..Rounds /\ saved.answer \in 0..Len(ledger)
    /\ \A i \in DOMAIN ledger :
         /\ ledger[i].status \in {"RESERVED", "ACCEPTED", "UNKNOWN", "STALE"}
         /\ ledger[i].status = "ACCEPTED" <=> ledger[i].value # "none"
    /\ rows.turn.kind \in {"none", "act", "query"}
    /\ rows.quality.reply \in 0..Len(ledger)

(* ModelCallLedgerService.call: however many owners, dead processes and     *)
(* unanswered requests a run has had, the calls and tokens charged to it    *)
(* keep to its budget.                                                      *)
SpendWithinCap == Len(ledger) <= MaxCalls /\ Charged <= MaxTokens

(* At most one answer of a logical step is accepted: an owner that lost the *)
(* run while its request was out cannot add a second one.                   *)
OneAnswerPerStep == \A i, j \in DOMAIN ledger :
    (i # j /\ ledger[i].key = ledger[j].key) =>
        ~(ledger[i].status = "ACCEPTED" /\ ledger[j].status = "ACCEPTED")

(* A natural text reaches the buyer only if the ledger holds it as a safe   *)
(* candidate and a favourable review of that text on the very state of      *)
(* business it is published in.                                             *)
PublishedIsReviewed == LET m == rows.message IN
    m.natural # None =>
        /\ ledger[m.natural].key.kind = "compose" /\ ledger[m.natural].value = "safe"
        /\ \E i \in DOMAIN ledger :
             /\ ledger[i].key.kind = "review" /\ ledger[i].value = "yes"
             /\ ledger[i].key.reply = m.natural /\ ledger[i].key.evidence = m.version

(* What a checkpoint claims is in the database, whoever wrote there since:  *)
(* the accepted parse, the plan, the owed reply, the verdict, the message.  *)
CheckpointHasEvidence ==
    /\ saved.answer # None => ledger[saved.answer].status = "ACCEPTED"
    /\ saved.next \in {"commit", "compose", "review", "publish"} => rows.turn # NoTurn
    /\ saved.next \in {"compose", "review", "publish"} => rows.delivery # None
    /\ saved.next = "publish" /\ saved.approved => rows.quality.approved
    /\ saved.next = "end" => rows.message.sent

(* plan_turn: what the input was understood to ask stays as it is, although *)
(* a node that runs again after a crash may get a different answer.         *)
KeepsPlan ==
  rows.turn # NoTurn => rows'.turn = rows.turn
=============================================================================
