--------------------------- MODULE NegotiationPage ---------------------------
(***************************************************************************)
(* The page of a negotiation: one read cycle at a time keeps messages, the *)
(* state of the session and the tracked runs up to date, cards that were   *)
(* visible are acknowledged, and an accepted message leaves the text box   *)
(* (src/frontend/src/views/NegotiationView.vue, state/polling.ts,          *)
(* state/runTracking.ts, api/negotiations.ts).  How a lost answer to a POST*)
(* is recovered is the matter of PendingOperations; here every POST is     *)
(* answered at some time.  The server publishes the messages of a session  *)
(* in the order of their identifiers (the session is locked).              *)
(***************************************************************************)
EXTENDS Naturals, FiniteSets

CONSTANTS Sessions,   \* sessions the user opens
          Runs,       \* inputs, by identifier, each accepted once
          History,    \* messages a session begins with
          Batch,      \* messages one answer holds at most
          MaxLoads,   \* times a page is loaded
          MaxEdits,   \* edits of the text box
          MaxAcks,    \* acknowledgements on their way at once
          MaxTroubles \* times the page is hidden or offline, a read fails, a card is refreshed

VARIABLES
  published,  \* per session: messages published
  input,      \* per run: session and status at the server
  sid,        \* the session shown
  view,       \* viewId, renewed by every load
  mounted,    \* the page is there, visible and online
  messages,   \* messages shown, as [session, id]
  tracked,    \* runs.value: per run the status last read, or None
  receipts,   \* receipts.value: per context (a message) the view it was acknowledged in
  acks,       \* acknowledgements on their way
  text,       \* draftRevision of the text in the box, 0 when it is empty
  edits,      \* draftRevision
  sends,      \* messages on their way, with the draft they took along
  poll,       \* createPolling: enabled, timer set, requested
  cycle,      \* the read cycles that have not settled
  troubles

server == <<published, input>>
shown == <<messages, tracked>>
vars == <<server, sid, view, mounted, shown, receipts, acks, text, edits, sends, poll, cycle, troubles>>

None == "none"
Off == [enabled |-> FALSE, timer |-> FALSE, requested |-> FALSE]

ShouldPollActive(status) == status \notin {"DONE", "MANUAL"}

\* shouldPollRun; a run that needs a seller is still polled, only less often.
ShouldPoll(status) == status # "DONE"

Count(s) == Cardinality({m \in messages : m.session = s})
Tracked == {r \in Runs : tracked[r] # None}

\* syncPage: what a cycle reads, of the page it began on (the detail of the session
\* is read and applied in the same way as the messages and left out).
Cycle ==
  [alive |-> TRUE, session |-> sid, after |-> Count(sid),
   waiting |-> {"messages"} \cup {r \in Tracked : ShouldPoll(tracked[r])},
   got |-> {}, failed |-> FALSE]

\* Aborted, the reads under way fail at once; an answer already there is still delivered.
Aborted == {[c EXCEPT !.alive = FALSE, !.waiting = {}] : c \in {c \in cycle : c.got # {}}}

Init ==
  /\ published = [s \in Sessions |-> History]
  /\ input = [r \in Runs |-> [session |-> 0, status |-> None]]
  /\ sid = CHOOSE s \in Sessions : TRUE
  /\ view = 1 /\ mounted = TRUE
  /\ messages = {} /\ tracked = [r \in Runs |-> None]
  /\ receipts = [c \in {} |-> 0] /\ acks = {}
  /\ text = 0 /\ edits = 0 /\ sends = {}
  /\ poll = [Off EXCEPT !.enabled = TRUE] /\ cycle = {Cycle}
  /\ troubles = 0

-----------------------------------------------------------------------------
(* The server                                                              *)

\* A run is worked on; it may wait for the seller; its reply is published with its end.
Work(r) ==
  /\ \/ /\ input[r].status = "PENDING"
        /\ input' = [input EXCEPT ![r].status = "MANUAL"]
        /\ UNCHANGED published
     \/ /\ input[r].status \in {"PENDING", "MANUAL"}
        /\ input' = [input EXCEPT ![r].status = "DONE"]
        /\ published' = [published EXCEPT ![input[r].session] = @ + 1]
  /\ UNCHANGED <<sid, view, mounted, shown, receipts, acks, text, edits, sends, poll, cycle, troubles>>

-----------------------------------------------------------------------------
(* createPolling                                                           *)

\* The timer fires.
Tick ==
  /\ poll.enabled /\ poll.timer
  /\ poll' = [poll EXCEPT !.timer = FALSE]
  /\ cycle' = cycle \cup {Cycle}
  /\ UNCHANGED <<server, sid, view, mounted, shown, receipts, acks, text, edits, sends, troubles>>

\* The server answers one read of a cycle.
Serve(c, part) ==
  /\ part \in c.waiting
  /\ LET read == IF part = "messages" THEN {} ELSE {input[part].status}
         fresh == IF part # "messages" THEN {} ELSE
                  {[session |-> c.session, id |-> i] : i \in {i \in 1 .. published[c.session] :
                      i > c.after /\ i <= c.after + Batch}}
     IN cycle' = (cycle \ {c}) \cup
          {[c EXCEPT !.waiting = @ \ {part},
                     !.got = @ \cup {[part |-> part, messages |-> fresh, status |-> read]}]}
  /\ UNCHANGED <<server, sid, view, mounted, shown, receipts, acks, text, edits, sends, poll, troubles>>

\* A read fails, or the cycle is aborted after fifteen seconds.
Fail(c, part) ==
  /\ part \in c.waiting /\ troubles < MaxTroubles
  /\ troubles' = troubles + 1
  /\ cycle' = (cycle \ {c}) \cup {[c EXCEPT !.waiting = @ \ {part}, !.failed = TRUE]}
  /\ UNCHANGED <<server, sid, view, mounted, shown, receipts, acks, text, edits, sends, poll>>

\* alive(): the page and the read cycle are still the ones the read was made for.
Applies(c) == c.alive

\* The answer reaches the page: applied while the page and the cycle are the same.
Apply(c, g) ==
  /\ g \in c.got
  /\ cycle' = (cycle \ {c}) \cup {[c EXCEPT !.got = @ \ {g}]}
  /\ IF Applies(c)
     THEN /\ messages' = messages \cup g.messages
          /\ tracked' = [r \in Runs |-> IF g.part = r THEN CHOOSE v \in g.status : TRUE ELSE tracked[r]]
     ELSE UNCHANGED shown
  /\ UNCHANGED <<server, sid, view, mounted, receipts, acks, text, edits, sends, poll, troubles>>

\* All reads are settled: the next cycle is set, at once when a refresh was asked for.
Settle(c) ==
  /\ c.waiting = {} /\ c.got = {}
  /\ cycle' = cycle \ {c}
  /\ poll' = IF c.alive THEN [poll EXCEPT !.timer = TRUE, !.requested = FALSE] ELSE poll
  /\ UNCHANGED <<server, sid, view, mounted, shown, receipts, acks, text, edits, sends, troubles>>

Active == \E c \in cycle : c.alive

-----------------------------------------------------------------------------
(* The page                                                                *)

\* load, of another session: nothing of the old page remains but what is on its way.
Load(s) ==
  /\ s # sid /\ view < MaxLoads
  /\ sid' = s /\ view' = view + 1
  /\ messages' = {} /\ tracked' = [r \in Runs |-> None]
  /\ receipts' = [c \in {} |-> 0]
  /\ text' = 0
  /\ acks' = {[a EXCEPT !.alive = FALSE] : a \in acks}
  /\ sends' = {[m EXCEPT !.alive = FALSE] : m \in sends}
  /\ IF mounted
     THEN /\ poll' = [enabled |-> TRUE, timer |-> FALSE, requested |-> FALSE]
          /\ cycle' = Aborted \cup
               {[alive |-> TRUE, session |-> s, after |-> 0, waiting |-> {"messages"}, got |-> {}, failed |-> FALSE]}
     ELSE poll' = Off /\ cycle' = Aborted
  /\ edits' = IF text = 0 THEN edits ELSE edits + 1
  /\ UNCHANGED <<server, mounted, troubles>>

\* resumeSync: hidden or offline, the polling stops; visible again, it starts anew.
Hide ==
  /\ mounted /\ troubles < MaxTroubles
  /\ mounted' = FALSE /\ troubles' = troubles + 1
  /\ poll' = Off /\ cycle' = Aborted
  /\ UNCHANGED <<server, sid, view, shown, receipts, acks, text, edits, sends>>

Show ==
  /\ ~mounted
  /\ mounted' = TRUE
  /\ poll' = [enabled |-> TRUE, timer |-> FALSE, requested |-> FALSE]
  /\ cycle' = Aborted \cup {Cycle}
  /\ UNCHANGED <<server, sid, view, shown, receipts, acks, text, edits, sends, troubles>>

\* The user types: editing and restoring the same text is a new draft.
Type ==
  /\ edits < MaxEdits
  /\ edits' = edits + 1 /\ text' = edits'
  /\ UNCHANGED <<server, sid, view, mounted, shown, receipts, acks, sends, poll, cycle, troubles>>

\* submit: the draft that goes along is remembered by its revision.
Submit(r) ==
  /\ text # 0 /\ input[r].status = None
  /\ \A m \in sends : m.run # r /\ ~m.alive
  /\ sends' = sends \cup {[run |-> r, session |-> sid, draft |-> text, revision |-> edits, alive |-> TRUE, accepted |-> FALSE]}
  /\ UNCHANGED <<server, sid, view, mounted, shown, receipts, acks, text, edits, poll, cycle, troubles>>

\* The server accepts the input ...
Accept(m) ==
  /\ ~m.accepted
  /\ input' = [input EXCEPT ![m.run] = [session |-> m.session, status |-> "PENDING"]]
  /\ sends' = (sends \ {m}) \cup {[m EXCEPT !.accepted = TRUE]}
  /\ UNCHANGED <<published, sid, view, mounted, shown, receipts, acks, text, edits, poll, cycle, troubles>>

\* submittedDrafts: the draft sent is still the draft in the box.
Unchanged(m) == m.revision = edits

\* ... and the answer arrives: the run is tracked, the draft goes unless it was edited
\* meanwhile, and a refresh is asked for.
Answered(m) ==
  /\ m.accepted
  /\ sends' = sends \ {m}
  /\ IF m.alive
     THEN /\ tracked' = [tracked EXCEPT ![m.run] = "PENDING"]
          /\ IF Unchanged(m) THEN text' = 0 /\ edits' = edits + 1 ELSE UNCHANGED <<text, edits>>
          /\ IF ~poll.enabled THEN UNCHANGED <<poll, cycle>>
             ELSE IF Active THEN poll' = [poll EXCEPT !.requested = TRUE] /\ UNCHANGED cycle
             ELSE /\ poll' = [poll EXCEPT !.timer = FALSE]
                  /\ cycle' = cycle \cup {[Cycle EXCEPT !.waiting = @ \cup {m.run}]}
     ELSE UNCHANGED <<tracked, text, edits, poll, cycle>>
  /\ UNCHANGED <<server, sid, view, mounted, messages, receipts, acks, troubles>>

\* markDisplayed: a card that is visible is acknowledged, once for a view.
Acknowledge(c) ==
  /\ c \in messages /\ mounted
  /\ Cardinality(acks) < MaxAcks
  /\ c \notin DOMAIN receipts /\ \A a \in acks : ~(a.alive /\ a.context = c)
  /\ acks' = acks \cup {[context |-> c, view |-> view, alive |-> TRUE]}
  /\ UNCHANGED <<server, sid, view, mounted, shown, receipts, text, edits, sends, poll, cycle, troubles>>

\* pageGuard: the page is still the one the card was acknowledged on.
Grants(a) == a.alive

\* The receipt arrives, or the acknowledgement is refused.
Acknowledged(a) ==
  /\ acks' = acks \ {a}
  /\ \/ Grants(a) /\ receipts' = [c \in DOMAIN receipts \cup {a.context} |-> IF c = a.context THEN a.view ELSE receipts[c]]
     \/ UNCHANGED receipts
  /\ UNCHANGED <<server, sid, view, mounted, shown, text, edits, sends, poll, cycle, troubles>>

\* refresh of a card takes its receipt away: the new context is to be acknowledged anew.
Refresh(c) ==
  /\ c \in DOMAIN receipts /\ troubles < MaxTroubles
  /\ troubles' = troubles + 1
  /\ receipts' = [d \in DOMAIN receipts \ {c} |-> receipts[d]]
  /\ UNCHANGED <<server, sid, view, mounted, shown, acks, text, edits, sends, poll, cycle>>

Next ==
  \/ \E r \in Runs : Work(r) \/ Submit(r)
  \/ Tick \/ Hide \/ Show \/ Type
  \/ \E c \in cycle : \/ \E part \in c.waiting : Serve(c, part) \/ Fail(c, part)
                      \/ \E g \in c.got : Apply(c, g)
                      \/ Settle(c)
  \/ \E s \in Sessions : Load(s)
  \/ \E m \in sends : Accept(m) \/ Answered(m)
  \/ \E c \in messages : Acknowledge(c)
  \/ \E a \in acks : Acknowledged(a)
  \/ \E c \in DOMAIN receipts : Refresh(c)

Spec == Init /\ [][Next]_vars

-----------------------------------------------------------------------------
(* Properties                                                              *)

\* Types, and the polling discipline: an enabled page has exactly one of a live read
\* cycle and a timer, a disabled one neither (createPolling: "One cancellable read
\* cycle per page generation").
TypeOK ==
  /\ published \in [Sessions -> Nat] /\ sid \in Sessions
  /\ tracked \in [Runs -> {None, "PENDING", "MANUAL", "DONE"}]
  /\ Cardinality({c \in cycle : c.alive}) + (IF poll.timer THEN 1 ELSE 0) = (IF poll.enabled THEN 1 ELSE 0)
  /\ poll.enabled = mounted /\ (poll.requested => Active)

\* What is shown belongs to the session of the page: an answer read for another
\* session, or on an earlier visit, is never applied (pageGuard, alive()).
ShownIsThisPage ==
  /\ \A m \in messages : m.session = sid
  /\ \A r \in Tracked : input[r].session = sid

\* The messages shown have no gap: reading on from the last identifier misses none
\* (getMessages after Math.max of the messages shown).
NoGaps == {m.id : m \in messages} = 1 .. Cardinality(messages)

\* A receipt that will go along with a confirmation was given for the view it names;
\* one of an earlier visit would keep the card from ever being acknowledged again
\* (markDisplayed).
ReceiptsAreOfThisView == \A c \in DOMAIN receipts : c \in messages /\ receipts[c] = view

\* The text box is emptied only by leaving the page, or because the very draft in it was
\* accepted (submittedDrafts: "editing and restoring the same text is a new draft").
TextIsKept ==
  [][text # 0 /\ text' = 0 => view' # view \/ \E m \in sends : m.accepted /\ m.draft = text]_vars

\* A run the page tracks and that is finished is shown finished, unless the page is
\* left or stays hidden: also one that waited for the seller on the way (shouldPollRun).
DisplayEventually ==
  \A r \in Runs : (tracked[r] # None /\ input[r].status = "DONE") ~> (tracked[r] \in {None, "DONE"} \/ ~mounted)

\* The browser's event loop: timers fire, and reads are answered, fail or are aborted.
Fairness ==
  /\ WF_vars(Tick)
  /\ WF_vars(\E c \in cycle : c.alive /\ \E part \in c.waiting : Serve(c, part))
  /\ WF_vars(\E c \in cycle : \E g \in c.got : Apply(c, g))
  /\ WF_vars(\E c \in cycle : Settle(c))

FairSpec == Spec /\ Fairness
=============================================================================
