--------------------------- MODULE EvaluationBatch ---------------------------
(***************************************************************************)
(* A batch of the dynamic evaluation: worker threads run the episodes, all *)
(* their model calls pass one tracker with one budget, and what happened   *)
(* is kept in files that outlive the process: the journal of calls, the    *)
(* recorded runs, the gate and the manifest                                *)
(* (src/backend/evaluation/dynamic_runner.py, dynamic_metrics.py,          *)
(* src/backend/scripts/finalize_interrupted_dynamic_batch.py).  Inside an  *)
(* episode (module DynamicEpisode) only its calls and its status matter.   *)
(***************************************************************************)
EXTENDS Naturals, Sequences, FiniteSets

CONSTANTS Episodes,    \* the requested runs, 1 .. n, in the order of submission
          Workers,     \* threads of the pool
          MaxCalls,    \* --max-calls
          MaxTokens,   \* --max-tokens, also standing for --max-cost
          Reserve,     \* what a call may cost by its own contract
          Excess,      \* what the provider may bill beyond it
          Failures,    \* failed runs that --failure-rate-limit tolerates in each group
          Groups       \* the runs of each of --groups

VARIABLES
  buyer,      \* --buyer-model: scripted, or qwen, which asks a model too
  next,       \* the next episode of the pool's queue
  work,       \* what each thread is doing
  calls,      \* tracker.calls
  reserved,   \* tracker.reserved_tokens (and cost)
  locked,     \* the thread inside tracker.lock, or None
  billed,     \* what the provider charged, by call: not known to the program
  journal,    \* call_events.jsonl: the last complete line of every call
  results,    \* futures that are done, by episode
  runs,       \* runs.jsonl
  torn,       \* the run whose line in runs.jsonl is incomplete, or 0
  main,       \* the main thread
  gate,       \* gate.json
  completed,  \* manifest.completed_at
  charge      \* manifest.reserved_cost

memory == <<next, work, calls, reserved, locked, results>>
files == <<journal, runs, torn, gate, completed, charge>>
vars == <<memory, billed, files, main, buyer>>

None == "none"
Free == [pc |-> "free", run |-> 0, call |-> 0, phase |-> "seller", tries |-> 0]
NoGate == [written |-> FALSE, passed |-> FALSE, interrupted |-> FALSE]

\* The sum of f[1] to f[n], and what the records of a sequence of calls cost together.
Total(f, n) ==
  LET t[k \in 0 .. n] == IF k = 0 THEN 0 ELSE f[k] + t[k - 1] IN t[n]
TokensOf(s) == Total([i \in 1 .. Len(s) |-> s[i].tokens], Len(s))

Init ==
  /\ buyer \in {"scripted", "qwen"}
  /\ next = 1
  /\ work = [w \in Workers |-> Free]
  /\ calls = <<>> /\ reserved = 0 /\ locked = None
  /\ billed = <<>>
  /\ journal = <<>>
  /\ results = [e \in Episodes |-> None]
  /\ runs = {} /\ torn = 0
  /\ main = "collecting"
  /\ gate = NoGate /\ completed = FALSE /\ charge = 0

Alive == main \notin {"dead", "exited"}

-----------------------------------------------------------------------------
(* The threads                                                             *)

\* An episode goes on with its seller or with the (first or second) action of its buyer ...
Goes(w, phase, tries) ==
  /\ work' = [work EXCEPT ![w] = [Free EXCEPT !.pc = "running", !.run = work[w].run,
                                          !.phase = phase, !.tries = tries]]
  /\ UNCHANGED results

\* ... or ends and frees its thread.
Leaves(w, status) ==
  /\ results' = [results EXCEPT ![work[w].run] = status]
  /\ work' = [work EXCEPT ![w] = Free]

\* The buyer asks or offers, or confirms, closes or has had the last turn.
Acted(w) == Goes(w, "seller", 0) \/ Leaves(w, "ENDED")

\* The buyer raises or acts invalidly: it is told and asked once more, then its run fails.
Misacted(w) ==
  IF work[w].tries = 0 THEN Goes(w, "buyer", 1) ELSE Leaves(w, "BUYER_SIMULATOR_FAILURE")

\* run_batch: the pool gives its next episode to a free thread, whichever of them.  It begins
\* with the buyer's action of the scenario; an invalid one ends the run before any call.
Start(w) ==
  /\ Alive /\ next \in Episodes
  /\ work[w].pc = "free" /\ w = CHOOSE v \in Workers : work[v].pc = "free"
  /\ next' = next + 1
  /\ \/ /\ work' = [work EXCEPT ![w] = [Free EXCEPT !.pc = "running", !.run = next]]
        /\ UNCHANGED results
     \/ /\ results' = [results EXCEPT ![next] = "BUYER_SIMULATOR_FAILURE"]
        /\ UNCHANGED work
  /\ UNCHANGED <<calls, reserved, locked, billed, files, main, buyer>>

\* The seller's turn ends, with calls or without one: in a model error, a stop of the run or
\* an exception, or in a reply, to which the scripted buyer reacts on the spot.
SellerActs(w) ==
  /\ Alive /\ work[w].pc = "running" /\ work[w].phase = "seller"
  /\ \/ Leaves(w, "SELLER_FAILURE")
     \/ buyer = "qwen" /\ Goes(w, "buyer", 0)
     \/ buyer = "scripted" /\ (Acted(w) \/ Leaves(w, "BUYER_SIMULATOR_FAILURE"))
  /\ UNCHANGED <<next, calls, reserved, locked, billed, files, main, buyer>>

\* The buyer that asks a model fails before it has asked.
BuyerFails(w) ==
  /\ Alive /\ work[w].pc = "running" /\ work[w].phase = "buyer"
  /\ Misacted(w)
  /\ UNCHANGED <<next, calls, reserved, locked, billed, files, main, buyer>>

WithinBudgetSoFar ==
  /\ Len(calls) < MaxCalls
  /\ TokensOf(SelectSeq(calls, LAMBDA c : c.status = "SUCCEEDED")) + Reserve <= MaxTokens

\* The condition on which a call is let through.
WithinBudget == Len(calls) < MaxCalls /\ reserved + Reserve <= MaxTokens

\* What a model is asked for: a step of the seller (or a candidate of the baselines), the
\* review of its reply, its memory (or a summary), or an action of the buyer.
Asked(phase) ==
  IF phase = "seller" THEN {"REACT", "REPLY_REVIEW", "MEMORY"} ELSE {"BUYER_SIMULATION"}

\* __call__: under the lock the reservation is made and the call recorded ...
Reserving(w) ==
  /\ Alive /\ work[w].pc = "running" /\ locked = None
  /\ WithinBudget
  /\ locked' = w
  /\ reserved' = reserved + Reserve
  /\ \E purpose \in Asked(work[w].phase) :
       calls' = Append(calls, [run |-> work[w].run, purpose |-> purpose, status |-> "STARTED",
                               tokens |-> Reserve])
  /\ work' = [work EXCEPT ![w].pc = "journal", ![w].call = Len(calls')]
  /\ UNCHANGED <<next, results, billed, files, main, buyer>>

\* ... and written to the journal, before the provider hears of it.
Journal(w) ==
  /\ Alive /\ work[w].pc = "journal"
  /\ journal' = Append(journal, calls[work[w].call])
  /\ locked' = None
  /\ work' = [work EXCEPT ![w].pc = "invoke"]
  /\ UNCHANGED <<next, calls, reserved, results, billed, runs, torn, gate, completed, charge, main, buyer>>

\* The provider takes the request; it bills it, whatever becomes of the answer.  That the
\* bill exceeds the reservation comes to light with the usage of the answer only.
Invoke(w) ==
  /\ Alive /\ work[w].pc = "invoke"
  /\ billed' = Append(billed, [call |-> work[w].call, cost |-> Reserve])
  /\ work' = [work EXCEPT ![w].pc = "waiting"]
  /\ UNCHANGED <<next, calls, reserved, locked, results, files, main, buyer>>

Larger(a, b) == IF a > b THEN a ELSE b

\* The bills once the one of call c is known.
Told(c, usage) ==
  [i \in 1 .. Len(billed) |-> IF billed[i].call = c THEN [call |-> c, cost |-> usage] ELSE billed[i]]

\* An answer with its usage: what exceeds the reservation is added to it.
Settled(call, usage) == [call EXCEPT !.status = "SUCCEEDED", !.tokens = Larger(@, usage)]

\* An answer (one without its usage, or with less, is charged like one that used its
\* reservation), or an exception: a call of unknown outcome.
Answered(w) ==
  /\ Alive /\ work[w].pc = "waiting" /\ locked = None
  /\ LET c == work[w].call IN
     \/ \E usage \in {Reserve, Reserve + Excess} :
          /\ calls' = [calls EXCEPT ![c] = Settled(@, usage)]
          /\ reserved' = reserved + Larger(usage, Reserve) - Reserve
          /\ billed' = Told(c, usage)
     \/ /\ calls' = [calls EXCEPT ![c].status = "UNKNOWN"]
        /\ UNCHANGED <<reserved, billed>>
  /\ work' = [work EXCEPT ![w].pc = "answered"]
  /\ UNCHANGED <<next, locked, results, files, main, buyer>>

\* finally: the record as it is goes to the journal.  What a failed call does to the episode
\* depends on who made it: the loss of a memory is passed over, that of a review may be,
\* a buyer that raised is asked once more, and everything else fails the seller.
JournalAnswer(w) ==
  /\ Alive /\ work[w].pc = "answered" /\ locked = None
  /\ LET call == calls[work[w].call] IN
     /\ journal' = [journal EXCEPT ![work[w].call] = call]
     /\ \/ /\ work[w].phase = "seller"
           /\ call.status = "SUCCEEDED" \/ call.purpose # "REACT"
           /\ Goes(w, "seller", 0)
        \/ /\ work[w].phase = "seller"
           /\ call.status = "UNKNOWN" /\ call.purpose # "MEMORY"
           /\ Leaves(w, "SELLER_FAILURE")
        \/ /\ work[w].phase = "buyer"
           /\ (call.status = "SUCCEEDED" /\ Acted(w)) \/ Misacted(w)
  /\ UNCHANGED <<next, calls, reserved, locked, billed, runs, torn, gate, completed, charge, main,
                 buyer>>

\* BATCH_BUDGET: the tracker refuses and the episode ends with that status, as it does in the
\* baselines when the run's own budget is spent.  Its time is not counted here, so it may
\* refuse whenever it is asked.  A refused memory or summary is passed over.
Refused(w) ==
  /\ Alive /\ work[w].pc = "running"
  /\ Leaves(w, "BATCH_BUDGET_EXHAUSTED")
  /\ UNCHANGED <<next, calls, reserved, locked, billed, files, main, buyer>>

-----------------------------------------------------------------------------
(* The main thread                                                         *)

\* as_completed and progress: a finished run is appended to the file as a line.
Recorded(e) ==
  /\ main = "collecting"
  /\ results[e] # None /\ e \notin runs
  /\ runs' = runs \cup {e}
  /\ UNCHANGED <<memory, billed, journal, torn, gate, completed, charge, main, buyer>>

\* In no group does a seller, or a buyer, fail in more runs than the limit allows.
Tolerable(G) == \A status \in {"SELLER_FAILURE", "BUYER_SIMULATOR_FAILURE"} :
                  Cardinality({e \in G : results[e] = status}) <= Failures

\* The gate asks for every run, no exhausted budget, the cap, and few failures.
Passes ==
  /\ runs = Episodes
  /\ reserved <= MaxTokens
  /\ \A e \in Episodes : results[e] # "BATCH_BUDGET_EXHAUSTED"
  /\ \A G \in Groups : Tolerable(G)

\* calls.jsonl and summary.json, then the gate, then the manifest: files of their own.  The
\* gate asks as well that the audit of the episodes found no violation.
WriteGate ==
  /\ main = "collecting" /\ runs = Episodes
  /\ main' = "gated"
  /\ \E violations \in BOOLEAN :
       gate' = [written |-> TRUE, passed |-> Passes /\ ~violations, interrupted |-> FALSE]
  /\ UNCHANGED <<memory, billed, journal, runs, torn, completed, charge, buyer>>

WriteManifest ==
  /\ main = "gated"
  /\ main' = "exited"
  /\ completed' = TRUE /\ charge' = reserved
  /\ UNCHANGED <<memory, billed, journal, runs, torn, gate, buyer>>

\* The process ends at any point, and with it everything that is not in a file; the line of
\* a run that it was just writing is left incomplete.
Killed ==
  /\ Alive
  /\ main' = "dead"
  /\ torn' \in {0} \cup {e \in Episodes \ runs : main = "collecting" /\ results[e] # None}
  /\ next' = 0
  /\ work' = [w \in Workers |-> Free]
  /\ calls' = <<>> /\ reserved' = 0 /\ locked' = None
  /\ results' = [e \in Episodes |-> None]
  /\ UNCHANGED <<billed, journal, runs, gate, completed, charge, buyer>>

-----------------------------------------------------------------------------
(* Recovery                                                                *)

\* What the journal charges: a call without an end keeps its reservation.
Recoverable == TokensOf(journal)

\* A torn line among the calls is skipped; a torn line among the runs, and a batch that
\* recorded no call or no run (the file is missing), is an error of the finalizer.
Readable == torn = 0 /\ runs # {} /\ journal # <<>>

\* finalize_interrupted_dynamic_batch: never over a completed batch.
Finalize ==
  /\ ~Alive /\ ~completed
  /\ Readable
  /\ gate' = [written |-> TRUE, passed |-> FALSE, interrupted |-> TRUE]
  /\ completed' = TRUE /\ charge' = Recoverable
  /\ UNCHANGED <<memory, billed, journal, runs, torn, main, buyer>>

Next ==
  \/ \E w \in Workers : \/ Start(w) \/ SellerActs(w) \/ BuyerFails(w) \/ Reserving(w) \/ Journal(w)
                        \/ Invoke(w) \/ Answered(w) \/ JournalAnswer(w) \/ Refused(w)
  \/ \E e \in Episodes : Recorded(e)
  \/ WriteGate \/ WriteManifest \/ Killed \/ Finalize

Spec == Init /\ [][Next]_vars

-----------------------------------------------------------------------------
(* Properties                                                              *)

Statuses ==
  {None, "ENDED", "SELLER_FAILURE", "BUYER_SIMULATOR_FAILURE", "BATCH_BUDGET_EXHAUSTED"}
Purposes == {"REACT", "REPLY_REVIEW", "MEMORY", "BUYER_SIMULATION"}
Records ==
  [run : Episodes, purpose : Purposes, status : {"STARTED", "SUCCEEDED", "UNKNOWN"}, tokens : Nat]

\* The state of a batch has its type; a call that is being written to the journal is
\* the one whose thread holds the lock; a run is recorded once it is done.
TypeOK ==
  /\ next \in 0 .. Cardinality(Episodes) + 1
  /\ \A w \in Workers : work[w].pc \in {"free", "running", "journal", "invoke", "waiting", "answered"}
                        /\ (work[w].pc = "journal" <=> locked = w)
  /\ \A i \in 1 .. Len(calls) : calls[i] \in Records
  /\ \A i \in 1 .. Len(journal) : journal[i] \in Records
  /\ Len(journal) <= MaxCalls
  /\ \A e \in Episodes : results[e] \in Statuses
  /\ runs \subseteq Episodes /\ torn \in Episodes \cup {0}
  /\ main \in {"collecting", "gated", "exited", "dead"}
  /\ gate.passed => gate.written

\* Threads that ask at the same time share one cap: what all calls may cost is reserved
\* before any is let through, so the spending never passes the cap by more than what the
\* calls already under way are billed beyond their reservation (DynamicCallTracker).
CapHolds ==
  /\ Len(calls) <= MaxCalls
  /\ reserved <= MaxTokens + Cardinality(Workers) * Excess
  /\ Alive => reserved = TokensOf(calls)

\* "without discarding uncertain charged calls": every request the provider got is in the
\* journal, whenever the process dies; the cost recovered from the journal covers the
\* whole reservation of each, and the bill of each whose answer was written down.
ChargesAreRecovered ==
  /\ \A i \in 1 .. Len(billed) : billed[i].call <= Len(journal)
  /\ completed =>
       charge >= Total([i \in 1 .. Len(billed) |->
                          IF journal[billed[i].call].status = "SUCCEEDED"
                            THEN Larger(Reserve, billed[i].cost) ELSE Reserve],
                       Len(billed))

\* The calls for this purpose whose answers the runs of G lost, and that a call was the
\* last of its run.
Lost(purpose, G) ==
  {i \in 1 .. Len(journal) : /\ journal[i].run \in G
                             /\ journal[i].purpose = purpose /\ journal[i].status = "UNKNOWN"}
LastOfRun(i) == \A j \in i + 1 .. Len(journal) : journal[j].run # journal[i].run

\* A batch that passed has recorded every run it was asked for, has no call without an end,
\* kept to the cap and was not finished by the recovery script, wherever the process
\* stopped.  No seller asked on after a step was lost, and in each group no more runs than
\* tolerated lost a step of the seller, or stopped at a lost action of the buyer.  (Lost
\* memories and reviews, and first attempts of the buyer, are not counted by the code.)
PassedIsComplete ==
  gate.passed =>
    /\ runs = Episodes /\ torn = 0
    /\ \A i \in 1 .. Len(journal) : journal[i].status # "STARTED"
    /\ \A i \in Lost("REACT", Episodes) : LastOfRun(i)
    /\ \A G \in Groups :
         /\ Cardinality(Lost("REACT", G)) <= Failures
         /\ Cardinality({i \in Lost("BUYER_SIMULATION", G) : LastOfRun(i)}) <= Failures
    /\ charge <= MaxTokens

\* Neither a second recovery nor anything else changes a batch whose manifest is complete.
KeepsCompleted ==
    completed => UNCHANGED files

=============================================================================
