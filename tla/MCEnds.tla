--------------------------------- MODULE MCEnds ---------------------------------
(* The instances that TLC checks in one run for what must happen in the end: the  *)
(* queue of a session and its replies, an approval, the tasks of the legacy       *)
(* runtime, and the page.  A behaviour is one of a single component; the others   *)
(* rest where they have nothing to do, so that their fairness asks for nothing.   *)
EXTENDS LegacyRuntime

CONSTANTS Instance, Notifier, Nobody, Quality, QueueLimit, MaxNotify, MaxInputs,      \* GraphRuntime
          Carrier, AttemptLimit, NotifyLimit,                                         \* ApprovalRuntime
          Sessions, Runs, History, Batch, MaxTexts, MaxTroubles                       \* NegotiationPage

VARIABLES scope,
          nextSeq, resolved, task, input, delivery, g_receipts, g_messages, checkpoint, g_lock,
          g_exec, notifier, g_faults, g_manual,   \* GraphRuntime
          approval, session, events, exec, receipts, notice, messages, lock, thread,
          a_proc, a_faults, a_manual,   \* ApprovalRuntime
          published, p_input, sid, view, mounted, p_messages, tracked, p_receipts, acks, text,
          p_edits, sends, poll, cycle, troubles   \* NegotiationPage

Graph == INSTANCE GraphRuntime WITH receipts <- g_receipts, messages <- g_messages, lock <- g_lock,
                                    exec <- g_exec, faults <- g_faults, manual <- g_manual,
                                    MaxManual <- 0
Approval == INSTANCE ApprovalRuntime WITH proc <- a_proc, faults <- a_faults,
                                          manual <- a_manual, Proc <- Carrier
Page == INSTANCE NegotiationPage WITH input <- p_input, messages <- p_messages, edits <- p_edits,
                                      receipts <- p_receipts, MaxLoads <- 1, MaxEdits <- MaxTexts,
                                      MaxAcks <- 0

graph == <<nextSeq, resolved, task, input, delivery, g_receipts, g_messages, checkpoint, g_lock,
           g_exec, notifier, g_faults, g_manual>>
decided == <<approval, session, events, exec, receipts, notice, messages, lock, thread,
             a_proc, a_faults, a_manual>>
page == <<published, p_input, sid, view, mounted, p_messages, tracked, p_receipts, acks, text,
          p_edits, sends, poll, cycle, troubles>>
run == <<scope, graph, decided, vars, page>>

\* There is no approval.
NoApproval ==
  /\ approval = [status |-> "CANCELLED", effect |-> "INVALIDATED", revision |-> 0,
                 basis |-> FALSE, late |-> FALSE]
  /\ session = [status |-> "open", archived |-> FALSE]
  /\ events = [e \in Approval!Events |-> "none"]
  /\ exec = [owner |-> 0, live |-> FALSE, epoch |-> 0, saved |-> FALSE,
             recovery |-> FALSE, attempts |-> 0, wait |-> FALSE]
  /\ receipts = [e \in Approval!Events |-> Approval!NoResult]
  /\ notice = [r \in Approval!Revisions |-> Approval!NoNotice]
  /\ messages = [r \in Approval!Revisions |-> 0]
  /\ lock = Nobody /\ thread = Approval!NoThread /\ a_proc = [p \in Carrier |-> Approval!Idle]
  /\ a_faults = 0 /\ a_manual = 0

\* No page is open.
NoPage ==
  /\ published = [s \in Sessions |-> History]
  /\ p_input = [r \in Runs |-> [session |-> 0, status |-> "none"]]
  /\ sid = 0 /\ view = 1 /\ mounted = FALSE
  /\ p_messages = {} /\ tracked = [r \in Runs |-> "none"]
  /\ p_receipts = [c \in {} |-> 0] /\ acks = {} /\ text = 0 /\ p_edits = 0 /\ sends = {}
  /\ poll = [enabled |-> FALSE, timer |-> FALSE, requested |-> FALSE]
  /\ cycle = {} /\ troubles = 0

\* A session without inputs and a legacy runtime without messages have nothing to do.
EndsInit ==
  /\ Graph!Init /\ Init
  /\ \/ scope \in {"graph", "legacy"} /\ NoApproval /\ NoPage
     \/ scope = "approval" /\ Approval!Init /\ NoPage
     \/ scope = "page" /\ NoApproval /\ Page!Init

EndsNext ==
  /\ UNCHANGED scope
  /\ \/ scope = "graph" /\ Graph!Next /\ UNCHANGED <<decided, vars, page>>
     \/ scope = "approval" /\ Approval!Next /\ UNCHANGED <<graph, vars, page>>
     \/ scope = "legacy" /\ Next /\ UNCHANGED <<graph, decided, page>>
     \/ scope = "page" /\ Page!Next /\ UNCHANGED <<graph, decided, vars>>

\* The fairness of GraphRuntime and ApprovalRuntime where a step may be taken away again
\* and again.  In a behaviour of the one, the steps of the other are never enabled: a
\* condition on a step of either is one on a step of each.
either == <<graph, decided>>
Locks(i, p) == \/ Graph!TryLock(i) /\ UNCHANGED decided
               \/ Approval!Lock(p) /\ UNCHANGED graph
Claims(i, p) == \/ Graph!ClaimAttempt(i) /\ UNCHANGED decided
                \/ Approval!Select(p) /\ UNCHANGED graph
Notifies(n, p) == \/ Graph!NotifyClaim(n) /\ UNCHANGED decided
                  \/ Approval!SelectNotice(p, 1) /\ UNCHANGED graph
StrongFairness ==
  /\ \A i \in Instance, p \in Carrier : SF_either(Locks(i, p)) /\ SF_either(Claims(i, p))
  /\ \A n \in Notifier, p \in Carrier : SF_either(Notifies(n, p))
  /\ \A p \in Carrier : SF_decided(Approval!SelectNotice(p, 2))

EndsSpec == /\ EndsInit /\ [][EndsNext]_run
            /\ StrongFairness
            /\ Graph!WeakFairness /\ Approval!WeakFairness /\ Fairness /\ Page!Fairness

-------------------------------------------------------------------------------
\* The head of the queue is resolved, or the seller is asked, unless its time ran out
\* while it waited for a retry (graph_worker.py, graph_queue_service.py).
HeadMoves == Graph!HeadMoves

\* A reply that is owed is published or handed to the seller, whoever dies
\* (notification_service.py).
RepliesAreDelivered == Graph!RepliesAreDelivered

\* Every event of an approval is settled and its notices reach the buyer or the seller's
\* desk, whatever crashes (approval_runner.py, notification_dispatcher.py).
SettlesInTheEnd == Approval!SettlesInTheEnd

\* A message of the legacy runtime is answered or fails for good, a decision is announced
\* or reaches the seller's desk (model_task_service.py, approval_processor.py).
LegacyEnds == MessagesEnd /\ FollowupsEnd

\* A finished run is shown finished, and the text box is emptied only for what was
\* accepted (runTracking.ts, NegotiationView.vue).
PageKeepsUp == Page!DisplayEventually /\ Page!TextIsKept
===============================================================================
