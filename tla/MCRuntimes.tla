------------------------------ MODULE MCRuntimes ------------------------------
(* The instances that TLC checks in one run of the components around the graph:  *)
(* approvals, the legacy and the prototype runtime, the evaluations and the       *)
(* pages of the frontend.  A behaviour is one of a single component, the others   *)
(* rest.                                                                          *)
EXTENDS ComponentsProofs, TLC

\* ComponentsProofs declares what ApprovalRuntime, Prototype, DynamicEpisode,
\* EvaluationBatch and ReleaseExperiment need and instantiates the last four.
CONSTANTS Req, Price, MaxAttempts, MaxEdits,                          \* LegacyRuntime
          Accounts, Tabs, Targets, MaxPosts,                          \* PendingOperations
          Sessions, Runs, History, Batch, MaxLoads, MaxAcks, MaxTroubles, \* NegotiationPage
          Troubles                                                    \* bound of the runs

\* LegacyAssumption of LegacyRuntime, over the names it has here.
ASSUME LegacyConstants ==
  /\ Price \subseteq Nat \ {0}
  /\ {MaxRounds, MaxAttempts, MaxManual, MaxEdits, MaxFaults} \subseteq Nat
  /\ Req \cap Nat = {}

VARIABLES scope,
          product, deal, asked, tasks, replies, l_proc, l_manual, l_edits, l_faults, \* LegacyRuntime
          cookie, tab, told, ops, store, op_tasks, wire, made, accepted, old, dropped, posts,
          entries, op_faults,   \* PendingOperations
          published, input, sid, view, mounted, pg_messages, tracked, pg_receipts, acks, text,
          pg_edits, sends, poll, cycle, troubles   \* NegotiationPage

\* LegacyProofs is LegacyRuntime with its theorems, so that they hold of this instance too.
Legacy == INSTANCE LegacyProofs WITH proc <- l_proc, manual <- l_manual, edits <- l_edits,
                                     faults <- l_faults
Pending(limit, begun, visits, failures) == INSTANCE PendingOperations WITH
  Limit <- limit, MaxOps <- begun, Entries <- visits, Ages <- failures, Faults <- failures,
  tasks <- op_tasks, faults <- op_faults
Page == INSTANCE NegotiationPage WITH messages <- pg_messages, receipts <- pg_receipts,
                                      edits <- pg_edits, MaxEdits <- 2

approvals == vars
prototype == <<queue, cursor, rounds, artifact, attempts, p0_receipts, p0_messages, p0_lock,
               cp, p0_proc, p0_faults>>
episode == <<pc, turns, offers, current, turnOffer, status, ep_rounds, confirmed, ep_approval,
             commitments, audited, findings, viewed, outcome>>
batch == <<buyer, next, work, calls, reserved, locked, billed, journal, results, runs, torn,
           main, gate, completed, charge>>
release == <<conv, rel_lock, report, disk, jsonl, rel_journal, remote, rel_main, replay,
             rel_faults, kills>>
pending == <<cookie, tab, told, ops, store, op_tasks, wire, made, accepted, old, dropped,
             posts, entries, op_faults>>
page == <<published, input, sid, view, mounted, pg_messages, tracked, pg_receipts, acks, text,
          pg_edits, sends, poll, cycle, troubles>>
legacy == <<product, deal, asked, tasks, replies, l_proc, l_manual, l_edits, l_faults>>

NoLegacy == /\ product = 0 /\ deal = 0 /\ asked = 0 /\ tasks = 0 /\ replies = 0 /\ l_proc = 0
            /\ l_manual = 0 /\ l_edits = 0 /\ l_faults = 0
NoPrototype == /\ queue = 0 /\ cursor = 0 /\ rounds = 0 /\ artifact = 0 /\ attempts = 0
           /\ p0_receipts = 0 /\ p0_messages = 0 /\ p0_lock = 0 /\ cp = 0 /\ p0_proc = 0
           /\ p0_faults = 0
NoBatch == /\ buyer = 0 /\ next = 0 /\ work = 0 /\ calls = 0 /\ reserved = 0 /\ locked = 0
           /\ billed = 0 /\ journal = 0 /\ results = 0 /\ runs = 0 /\ torn = 0 /\ main = 0
           /\ gate = 0 /\ completed = 0 /\ charge = 0
NoRelease == /\ conv = 0 /\ rel_lock = 0 /\ report = 0 /\ disk = 0 /\ jsonl = 0
             /\ rel_journal = 0 /\ remote = 0 /\ rel_main = 0 /\ replay = 0 /\ rel_faults = 0
             /\ kills = 0
NoPending == /\ cookie = 0 /\ tab = 0 /\ told = 0 /\ ops = 0 /\ store = 0 /\ op_tasks = 0
             /\ wire = 0 /\ made = 0 /\ accepted = 0 /\ old = 0 /\ dropped = 0 /\ posts = 0
             /\ entries = 0 /\ op_faults = 0
NoPage == /\ published = 0 /\ input = 0 /\ sid = 0 /\ view = 0 /\ mounted = 0
          /\ pg_messages = 0 /\ tracked = 0 /\ pg_receipts = 0 /\ acks = 0 /\ text = 0
          /\ pg_edits = 0 /\ sends = 0 /\ poll = 0 /\ cycle = 0 /\ troubles = 0

RunInit ==
  /\ Init /\ Episode!Init
  /\ \/ scope = "legacy" /\ Legacy!Init /\ NoPrototype /\ NoBatch /\ NoRelease /\ NoPending /\ NoPage
     \/ scope = "approvals" /\ NoLegacy /\ NoPrototype /\ NoBatch /\ NoRelease /\ NoPending
                            /\ NoPage
     \/ scope = "prototype" /\ NoLegacy /\ Prototype!Init /\ NoBatch /\ NoRelease /\ NoPending
                            /\ NoPage
     \/ scope = "episode" /\ NoLegacy /\ NoPrototype /\ NoBatch /\ NoRelease /\ NoPending
                          /\ NoPage
     \/ scope = "batch" /\ NoLegacy /\ NoPrototype /\ Batches!Init /\ NoRelease /\ NoPending
                        /\ NoPage
     \/ scope = "release" /\ NoLegacy /\ NoPrototype /\ NoBatch /\ Experiment!Init /\ NoPending
                          /\ NoPage
     \/ /\ \/ scope = "pending" /\ Pending(1, 2, 2, 1)!Init
           \/ scope = "room" /\ Pending(2, 2, 2, 0)!Init
           \/ scope = "visits" /\ Pending(1, 1, 3, 0)!Init
        /\ NoLegacy /\ NoPrototype /\ NoBatch /\ NoRelease /\ NoPage
     \/ scope = "page" /\ NoLegacy /\ NoPrototype /\ NoBatch /\ NoRelease /\ NoPending
                       /\ Page!Init

RunNext ==
  /\ UNCHANGED scope
  /\ \/ /\ scope = "legacy" /\ Legacy!Next
        /\ l_manual' + l_edits' + l_faults' <= Troubles
        /\ UNCHANGED <<approvals, prototype, episode, batch, release, pending, page>>
     \/ /\ scope = "approvals" /\ Next
        /\ UNCHANGED <<legacy, prototype, episode, batch, release, pending, page>>
     \/ /\ scope = "prototype" /\ Prototype!Next
        /\ UNCHANGED <<legacy, approvals, episode, batch, release, pending, page>>
     \/ /\ scope = "episode" /\ Episode!Next
        /\ UNCHANGED <<legacy, approvals, prototype, batch, release, pending, page>>
     \/ /\ scope = "batch" /\ Batches!Next
        /\ UNCHANGED <<legacy, approvals, prototype, episode, release, pending, page>>
     \/ /\ scope = "release" /\ Experiment!Next
        /\ UNCHANGED <<legacy, approvals, prototype, episode, batch, pending, page>>
     \/ /\ \/ scope = "pending" /\ Pending(1, 2, 2, 1)!Next
           \/ scope = "room" /\ Pending(2, 2, 2, 0)!Next
           \/ scope = "visits" /\ Pending(1, 1, 3, 0)!Next
        /\ UNCHANGED <<legacy, approvals, prototype, episode, batch, release, page>>
     \/ /\ scope = "page" /\ Page!Next
        /\ view' + pg_edits' + troubles' <= Troubles + 2
        /\ UNCHANGED <<legacy, approvals, prototype, episode, batch, release, pending>>

run == <<scope, approvals, legacy, prototype, episode, batch, release, pending, page>>
RunSpec == RunInit /\ [][RunNext]_run

Symmetry == Permutations(Req) \cup Permutations(Proc)

-------------------------------------------------------------------------------
\* What the graph of an approval delivers is settled in the rows first, its checkpoint
\* has a receipt, every notice is sent once, and only an archived session makes it stop
\* with a conflict (approval_runner.py, graph_approval_service.py).
ApprovalEffectsSettle == scope = "approvals" =>
  /\ TypeOK /\ DeliveredIsSettled /\ CheckpointHasReceipt
  /\ ConflictOnlyAfterArchive /\ NoticesOnce

\* Whatever crashes, is repeated or comes late, an approval is decided once, its effect is
\* counted once and announced once (module ApprovalOutcome), and the archive of a session
\* is not written to (graph_retention_service.py).
ApprovalOutcomeIsKept == OutcomeIsKept /\ ArchiveIsFinal

\* In the legacy runtime a settled task has its answer, a sent follow-up its announcement,
\* a failed one a place on the seller's desk, and a waiting session a decision to wait for
\* (model_task_service.py, approval_processor.py).
LegacyWorkIsSettled == scope = "legacy" =>
  /\ Legacy!TypeOK /\ Legacy!AnsweredWhenSettled /\ Legacy!AnnouncedWhenSent
  /\ Legacy!DeskHoldsFailedTasks /\ Legacy!WaitingHasDecision

\* Its offers are made, accepted and confirmed with the authority of the rules in force,
\* and an ended session stays as it ended (chat_service.py, intent_service.py).
LegacyDealsAreAuthorized ==
  [][scope = "legacy" => /\ Legacy!AcceptsWithAuthority /\ Legacy!KeepsEnds
                         /\ Legacy!CountersFreshly]_run

\* The prototype processes every input once, whatever dies or stalls (p0/store.py).
PrototypeInputsOnce == scope = "prototype" => Prototype!TypeOK /\ Prototype!InputsAreProcessedOnce

\* An evaluation counts what its calls cost, journals what it ran, passes or releases only
\* on complete evidence, and its audit finds no offer the tools should have refused
\* (dynamic_runner.py, p5/runner.py, environment.py).
EvaluationIsAccounted ==
  /\ scope = "episode" => Episode!TypeOK /\ Episode!OpenIsCurrent /\ Episode!AuditFindsNothing
  /\ scope = "batch" => /\ Batches!TypeOK /\ Batches!CapHolds
                        /\ Batches!ChargesAreRecovered /\ Batches!PassedIsComplete
  /\ scope = "release" => /\ Experiment!TypeOK /\ Experiment!RowsAreJournaled /\ Experiment!CallsAreAccounted
                          /\ Experiment!ReleaseIsEarned /\ Experiment!ReturnedIsRead
                          /\ Experiment!ReplayIsComplete /\ Experiment!ConfirmsWhatWasShown

\* An evaluated negotiation keeps the rules of Agreement that production keeps, and the
\* files of a completed batch are not written again (scripts/finalize_interrupted_...).
EvaluationIsFinal ==
  /\ Episode!AgreementIsKept
  /\ [][scope = "batch" => Batches!KeepsCompleted]_run

\* The operations of a page, with room for one record, for two, and over three visits.
OperationsAreTrue(limit, begun, visits, failures) ==
  /\ Pending(limit, begun, visits, failures)!TypeOK
  /\ Pending(limit, begun, visits, failures)!VerdictsAreTrue
  /\ Pending(limit, begun, visits, failures)!SentIsRecorded
  /\ Pending(limit, begun, visits, failures)!AcceptedForItsAuthor
  /\ Pending(limit, begun, visits, failures)!PageKnowsItsStorage

\* A page shows its own session without gaps, a verdict on a request only when the server
\* gave it, and a request is accepted for the account that made it
\* (usePendingOperations.ts, NegotiationView.vue).
PagesTellTheTruth ==
  /\ scope = "pending" => OperationsAreTrue(1, 2, 2, 1)
  /\ scope = "room" => OperationsAreTrue(2, 2, 2, 0)
  /\ scope = "visits" => OperationsAreTrue(1, 1, 3, 0)
  /\ scope = "page" => /\ Page!TypeOK /\ Page!ShownIsThisPage /\ Page!NoGaps
                       /\ Page!ReceiptsAreOfThisView
===============================================================================
