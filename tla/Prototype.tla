------------------------------ MODULE Prototype ------------------------------
(***************************************************************************)
(* The P0 prototype: the inputs of one session in MySQL with leases and    *)
(* epochs, a graph of five stages whose checkpoint lies in PostgreSQL under*)
(* an advisory lock, a worker process that runs one input, and a supervisor*)
(* that takes an input away from a worker that hangs                       *)
(* (src/backend/app/p0/store.py, graph.py, scripts/p0_worker.py,           *)
(* p0_supervisor.py, p0_hung_worker.py).                                   *)
(*                                                                         *)
(* A worker may die at any step and may lose its connection, and with it   *)
(* the lock, without noticing before its next write; its lease may end.    *)
(***************************************************************************)
EXTENDS Naturals, Sequences, FiniteSets

CONSTANTS Requests,   \* ids of the requests of the session
          Proc,       \* worker processes
          Values,     \* what the model may answer
          Approval,   \* the graph waits for an approval
          Epochs,     \* claims and revocations of an input
          Faults      \* deaths, lost connections and hangs

VARIABLES
  queue,      \* inputs by sequence number: [request, status, epoch, live]
  cursor,     \* sessions.cursor
  rounds,     \* sessions.rounds
  artifact,   \* accepted model answer of an input
  attempts,   \* accepted attempts of an input
  receipts, messages,  \* inputs with a receipt, with a public result
  lock,       \* who holds the advisory lock of the thread
  cp,         \* the thread's checkpoint: [run, next, value]
  proc,       \* per process: [pc, run, epoch, value]
  faults

base == <<queue, cursor, rounds, artifact, attempts, receipts, messages>>
vars == <<base, lock, cp, proc, faults>>

None == "none"
Free == {}
Seqs == 1 .. Cardinality(Requests)
Away == [pc |-> "away", run |-> 0, epoch |-> 0, value |-> None]
Stages == IF Approval THEN <<"query", "semantic", "commit", "approval", "publish", "end">>
          ELSE <<"query", "semantic", "commit", "publish", "end">>
After(stage) == Stages[1 + CHOOSE n \in DOMAIN Stages : Stages[n] = stage]

Init ==
  /\ queue = <<>> /\ cursor = 0 /\ rounds = 0
  /\ artifact = [r \in Seqs |-> None] /\ attempts = [r \in Seqs |-> 0]
  /\ receipts = {} /\ messages = {}
  /\ lock = Free /\ cp = [run |-> 0, next |-> "end", value |-> None]
  /\ proc = [p \in Proc |-> Away] /\ faults = 0

\* enqueue: a request that is repeated finds its input.
Enqueue(q) ==
  /\ \A r \in DOMAIN queue : queue[r].request # q
  /\ queue' = Append(queue, [request |-> q, status |-> "PENDING", epoch |-> 0, live |-> FALSE])
  /\ UNCHANGED <<cursor, rounds, artifact, attempts, receipts, messages, lock, cp, proc, faults>>

-----------------------------------------------------------------------------
(* Ownership                                                               *)

Claimable(r) == cursor + 1 = r /\ ~queue[r].live

\* The row of an input under a new owner, and without one.
Owned(q) == [q EXCEPT !.status = "RUNNING", !.epoch = @ + 1, !.live = TRUE]
Unowned(q) == [q EXCEPT !.status = "RETRY_WAIT", !.epoch = @ + 1, !.live = FALSE]

Claimed(r) == [queue EXCEPT ![r] = Owned(@)]
Revoked(r) == [queue EXCEPT ![r] = Unowned(@)]

\* owner: the token and the epoch of the claim, while its lease lasts.
Owns(p) == LET q == queue[proc[p].run] IN q.live /\ q.epoch = proc[p].epoch

Holds(p) == lock = {p}
Unlock(p) == lock' = lock \ {p}

\* The process ends; its connection, and the lock with it, are released.
Exits(p) == proc' = [proc EXCEPT ![p] = Away] /\ Unlock(p)

Goes(p, pc) == proc' = [proc EXCEPT ![p].pc = pc] /\ UNCHANGED lock

\* The lock of the thread first, then the input; whoever gets only the lock gives up.
Takes(p, r, pc) ==
  /\ proc[p].pc = "away" /\ r \in DOMAIN queue /\ lock = Free
  /\ Claimable(r) /\ queue[r].epoch < Epochs
  /\ lock' = {p} /\ queue' = Claimed(r)
  /\ proc' = [proc EXCEPT ![p] = [pc |-> pc, run |-> r, epoch |-> queue[r].epoch + 1, value |-> None]]
  /\ UNCHANGED <<cursor, rounds, artifact, attempts, receipts, messages, cp>>

Begin(p, r) == Takes(p, r, "entry") /\ UNCHANGED faults

\* A worker whose thread stalls keeps its connection, and the lock with it.
Hang(p, r) == Takes(p, r, "hung") /\ faults < Faults /\ faults' = faults + 1

-----------------------------------------------------------------------------
(* The run of a graph                                                      *)

Evidence(r) == artifact[r] # None \/ r \in receipts \/ r \in messages

\* choose_entry, for the head of the queue.
Entry(r) ==
  IF cp.run > r THEN "HISTORY"
  ELSE IF cp.run = r THEN IF cp.next = "end" THEN "FINALIZE" ELSE "RESUME"
  ELSE IF Evidence(r) \/ cp.next # "end" THEN "CONFLICT" ELSE "START"

\* The worker asks where the thread stands; it reads and writes it only with its connection.
Choose(p) ==
  LET r == proc[p].run IN
  /\ proc[p].pc = "entry"
  /\ IF ~Holds(p) \/ Entry(r) = "HISTORY" THEN Exits(p) /\ UNCHANGED cp
     ELSE IF Entry(r) = "CONFLICT" THEN Goes(p, "conflict") /\ UNCHANGED cp
     ELSE IF Entry(r) = "FINALIZE" THEN Goes(p, "ended") /\ UNCHANGED cp
     ELSE /\ cp' = IF Entry(r) = "START" THEN [run |-> r, next |-> "query", value |-> None] ELSE cp
          /\ Goes(p, "node")
  /\ UNCHANGED <<base, faults>>

At(p, stage) == proc[p].pc = "node" /\ cp.run = proc[p].run /\ cp.next = stage

\* A worker without its connection fails at the next use of it.
Fails(p) ==
  /\ proc[p].pc = "node" /\ ~Holds(p)
  /\ Exits(p)
  /\ UNCHANGED <<base, cp, faults>>

\* query_product reads only; it has checked that the turn's first checkpoint is stored.
Query(p) ==
  /\ At(p, "query") /\ Holds(p) /\ Goes(p, "save")
  /\ UNCHANGED <<base, cp, faults>>

\* model_artifact: the accepted answer is reused; otherwise the model is called outside a
\* transaction.
Semantic(p) ==
  LET r == proc[p].run IN
  /\ At(p, "semantic")
  /\ IF ~Owns(p) THEN Exits(p)
     ELSE /\ \/ artifact[r] # None /\ proc' = [proc EXCEPT ![p].pc = "save", ![p].value = artifact[r]]
             \/ artifact[r] = None /\ \E v \in Values : proc' = [proc EXCEPT ![p].pc = "called", ![p].value = v]
          /\ UNCHANGED lock
  /\ UNCHANGED <<base, cp, faults>>

\* Its answer is accepted only from the owner, and the attempt is noted either way.
Accept(p) ==
  LET r == proc[p].run IN
  /\ proc[p].pc = "called"
  /\ IF Owns(p) /\ artifact[r] = None
     THEN /\ artifact' = [artifact EXCEPT ![r] = proc[p].value]
          /\ Goes(p, "noted")
          /\ UNCHANGED attempts
     ELSE UNCHANGED <<artifact, attempts>> /\ Exits(p)
  /\ UNCHANGED <<queue, cursor, rounds, receipts, messages, cp, faults>>

Noted(p) ==
  /\ proc[p].pc = "noted"
  /\ attempts' = [attempts EXCEPT ![proc[p].run] = @ + 1]
  /\ Goes(p, "save")
  /\ UNCHANGED <<queue, cursor, rounds, artifact, receipts, messages, cp, faults>>

CommandAgain(r) == rounds' = rounds + 1 /\ receipts' = receipts \cup {r}

\* command_in_transaction: all six writes or none; a receipt answers the repetition.
Command(r) == rounds' = (IF r \in receipts THEN rounds ELSE rounds + 1) /\ receipts' = receipts \cup {r}

Commit(p) ==
  /\ At(p, "commit")
  /\ IF Owns(p) THEN Command(proc[p].run) /\ Goes(p, "save")
     ELSE UNCHANGED <<rounds, receipts>> /\ Exits(p)
  /\ UNCHANGED <<queue, cursor, artifact, attempts, messages, cp, faults>>

\* wait: without a decision the graph stops here, and the worker gives the input back.
Wait(p) ==
  LET r == proc[p].run IN
  /\ At(p, "approval") /\ Holds(p)
  /\ \/ Goes(p, "save") /\ UNCHANGED queue
     \/ queue' = Revoked(r) /\ Exits(p)
  /\ UNCHANGED <<cursor, rounds, artifact, attempts, receipts, messages, cp, faults>>

Publish(p) ==
  /\ At(p, "publish")
  /\ IF Owns(p) THEN messages' = messages \cup {proc[p].run} /\ Goes(p, "save")
     ELSE UNCHANGED messages /\ Exits(p)
  /\ UNCHANGED <<queue, cursor, rounds, artifact, attempts, receipts, cp, faults>>

\* The node's checkpoint, synchronously; without the connection the worker ends here.
Save(p) ==
  /\ proc[p].pc = "save"
  /\ IF Holds(p)
     THEN /\ cp' = [cp EXCEPT !.next = After(@), !.value = IF cp.next = "semantic" THEN proc[p].value ELSE @]
          /\ Goes(p, IF After(cp.next) = "end" THEN "ended" ELSE "node")
     ELSE UNCHANGED cp /\ Exits(p)
  /\ UNCHANGED <<base, faults>>

Finalizable(p) == LET r == proc[p].run IN Owns(p) /\ r \in messages /\ cursor + 1 = r

\* finalize: the owner moves the cursor of the session over its input.
Finalize(p) ==
  LET r == proc[p].run IN
  /\ proc[p].pc = "ended"
  /\ IF Holds(p) /\ Finalizable(p)
     THEN cursor' = r /\ queue' = [queue EXCEPT ![r].status = "COMPLETED"]
     ELSE UNCHANGED <<cursor, queue>>
  /\ Exits(p)
  /\ UNCHANGED <<rounds, artifact, attempts, receipts, messages, cp, faults>>

-----------------------------------------------------------------------------
(* Supervisor, faults and time                                             *)

\* The supervisor commits the revocation before it ends the process; a lease that is over,
\* or a child that is gone, is reason enough.
Revoke(p) ==
  /\ proc[p].pc = "hung"
  /\ queue' = Revoked(proc[p].run)
  /\ proc' = [proc EXCEPT ![p].pc = "revoked"]
  /\ \/ ~Owns(p) /\ UNCHANGED lock
     \/ Unlock(p)
  /\ UNCHANGED <<cursor, rounds, artifact, attempts, receipts, messages, cp, faults>>

\* The child is terminated, the release of its connection verified, the input taken over.
Terminate(p) ==
  LET r == proc[p].run IN
  /\ proc[p].pc = "revoked" /\ lock \in {Free, {p}}
  /\ Exits(p)
  /\ queue' = IF Claimable(r) THEN Claimed(r) ELSE queue
  /\ UNCHANGED <<cursor, rounds, artifact, attempts, receipts, messages, cp, faults>>

Die(p) ==
  /\ proc[p].pc \notin {"away", "hung", "revoked"} /\ faults < Faults /\ faults' = faults + 1
  /\ Exits(p)
  /\ UNCHANGED <<base, cp>>

Disconnect(p) ==
  /\ Holds(p) /\ faults < Faults /\ faults' = faults + 1
  /\ lock' = Free
  /\ UNCHANGED <<base, cp, proc>>

LeaseEnds(r) ==
  /\ r \in DOMAIN queue /\ queue[r].live
  /\ queue' = [queue EXCEPT ![r].live = FALSE]
  /\ UNCHANGED <<cursor, rounds, artifact, attempts, receipts, messages, lock, cp, proc, faults>>

Next ==
  \/ \E q \in Requests : Enqueue(q)
  \/ \E p \in Proc, r \in Seqs : Begin(p, r) \/ Hang(p, r)
  \/ \E p \in Proc : Choose(p) \/ Fails(p) \/ Query(p) \/ Semantic(p) \/ Accept(p) \/ Noted(p) \/ Commit(p)
                     \/ Wait(p) \/ Publish(p) \/ Save(p) \/ Finalize(p)
                     \/ Revoke(p) \/ Terminate(p) \/ Die(p) \/ Disconnect(p)
  \/ \E r \in Seqs : LeaseEnds(r)

Spec == Init /\ [][Next]_vars

-----------------------------------------------------------------------------
(* Properties                                                              *)

\* The rows keep their types; the thread has at most one holder, and its checkpoint is
\* that of an input in the queue.
TypeOK ==
  /\ cursor \in 0 .. Len(queue) /\ Cardinality(lock) <= 1
  /\ \A r \in DOMAIN queue : queue[r].status \in {"PENDING", "RUNNING", "RETRY_WAIT", "COMPLETED"}
  /\ \A r \in Seqs : artifact[r] \in Values \cup {None}
  /\ cp.run \in 0 .. Len(queue)

\* The prototype's promise, whatever dies or stalls: the command of an input happens once,
\* its answer of the model is accepted once and is the one the checkpoint goes on with,
\* nothing of an input exists before its predecessors are completed, a completed one lacks
\* nothing, and the entry of a restarted worker is never a conflict.
InputsAreProcessedOnce ==
  /\ rounds = Cardinality(receipts)
  /\ \A r \in Seqs : attempts[r] <= 1 /\ (attempts[r] = 1 => artifact[r] # None)
  /\ cp.value # None => cp.value = artifact[cp.run]
  /\ \A r \in Seqs : Evidence(r) => r <= cursor + 1
  /\ \A r \in 1 .. cursor : r \in receipts /\ r \in messages /\ artifact[r] # None
  /\ cp.run <= cursor + 1
  /\ \A p \in Proc : proc[p].pc # "conflict"

=============================================================================
