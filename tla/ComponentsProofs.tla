--------------------------- MODULE ComponentsProofs ---------------------------
(* Proofs about components that MCRuntimes composes, for all values of their   *)
(* constants: approvals and their runtime (ApprovalRuntime), the P0 prototype  *)
(* (Prototype), the evaluated negotiation (DynamicEpisode) and a batch of them *)
(* (EvaluationBatch), each under its own name here.  The release experiment,   *)
(* what a batch costs and what the composition keeps are in RuntimesProofs.    *)
EXTENDS ApprovalRuntime, SequenceTheorems, FiniteSetTheorems, TLAPS

\* What the rows of one approval say about each other.
ApprovalFits ==
    /\ approval.status = "PENDING" => approval.effect = "NOT_APPLIED"
    /\ approval.status = "REJECTED" => approval.effect = "APPLIED"
    /\ approval.status \in {"CANCELLED", "EXPIRED"} => approval.effect = "INVALIDATED"
    /\ approval.effect = "NOT_APPLIED" <=> approval.revision = 0
    /\ approval.effect = "APPLIED" => approval.revision = 1

\* Every decision and every loss has its event, every revision its notice.
EventsFit ==
    /\ events["decision"] # "none" <=> approval.status \in {"APPROVED", "REJECTED"}
    /\ events["invalidated"] # "none" <=> approval.effect = "INVALIDATED"

NoticeFits(r) ==
    /\ notice[r].status # "none" <=> r <= approval.revision
    /\ messages[r] = IF notice[r].status = "PUBLISHED" THEN 1 ELSE 0
    /\ notice[r].status # "RUNNING" => notice[r].token = 0 /\ ~notice[r].live
    /\ notice[r].status \in {"none", "RUNNING", "PUBLISHED"} => ~notice[r].wait
NoticesFit == \A r \in Revisions : NoticeFits(r)

\* A result names a settlement that happened, and what is delivered has a result.
Resulted == \E e \in Events : receipts[e] # NoResult
ReceiptsFit ==
    /\ \A e \in Events : receipts[e] # NoResult => receipts[e].revision \in 1..approval.revision
    /\ events["decision"] = "delivered" => Resulted
    /\ events["invalidated"] = "delivered" =>
          \E e \in Events : receipts[e] = [outcome |-> "APPROVAL_INVALIDATED",
                                           revision |-> approval.revision]

SessionFits ==
    /\ session.status = "closed" => approval.status = "REJECTED" \/ approval.effect = "INVALIDATED"
    /\ session.status = "agreed" => approval.effect # "NOT_APPLIED"
    /\ session.archived => session.status # "open"

RowsFit == ApprovalFits /\ EventsFit /\ NoticesFit /\ ReceiptsFit /\ SessionFits

\* Leases: numbers are fresh, and an execution that is out of attempts is not leased.
ExecFits ==
    /\ exec.owner <= exec.epoch
    /\ exec.live => exec.owner # 0 /\ ~exec.recovery
    /\ ~exec.recovery => exec.attempts < AttemptLimit
EpochsDiffer == \A p, q \in Proc : p # q /\ proc[p].epoch # 0 => proc[p].epoch # proc[q].epoch

\* What a graph holds of a run.
GraphFits(g) ==
    /\ g.next \in {"notice", "end"} => g.result # NoResult /\ \E e \in Events : receipts[e] = g.result
    /\ g.next = "apply" => g.event # "none" /\ approval.status # "PENDING"

\* The thread is only ever missing before the first checkpoint and after archiving.
ThreadFits ==
    /\ GraphFits(thread)
    /\ thread.next = "none" => thread = NoThread
    /\ exec.saved \/ Resulted => session.archived \/ thread.next # "none"

\* Process p runs the graph, so there has been a checkpoint.
Begun(p) ==
    \/ proc[p].pc \in {"load", "wait", "apply", "notice", "acknowledge", "release"}
    \/ proc[p].pc \in {"offerNotice", "publish"} /\ proc[p].role = "runner"
    \/ proc[p].pc = "enter" /\ proc[p].graph.next # "none"

Sane(p) ==
    /\ proc[p].epoch <= exec.epoch
    /\ proc[p].pc \in {"idle", "lock", "claim"} => proc[p].epoch = 0
    /\ GraphFits(proc[p].graph)
    /\ proc[p].pc \in {"load", "wait", "apply", "notice"} => proc[p].graph.next = proc[p].pc
    /\ proc[p].pc = "acknowledge" => proc[p].graph.next \in {"interrupted", "end"}
    /\ proc[p].pc = "save" => proc[p].graph.next # "none"
    /\ proc[p].pc \in {"offerNotice", "publish"} /\ proc[p].role = "runner" =>
          proc[p].graph.next = "notice"
    /\ \/ proc[p].pc \in {"offerNotice", "publish"}
       \/ proc[p].pc = "lock" /\ proc[p].role # "runner"
       => proc[p].about \in 1..approval.revision
    /\ proc[p].pc = "publish" => proc[p].token # 0
    /\ proc[p].conflict => session.archived
    /\ Begun(p) => session.archived \/ thread.next # "none"

\* After archiving: nothing is left to write, and whoever still holds the lock or a
\* lease only finds the end of the thread, or none.
Ending(p) ==
    \/ proc[p].pc \in {"claim", "reconcile", "inspect", "release", "fail"}
    \/ proc[p].pc = "offerNotice" /\ proc[p].role # "runner"
    \/ proc[p].pc \in {"enter", "acknowledge"} /\ proc[p].graph.next = "end"
ArchiveFits ==
    session.archived =>
        /\ approval.effect # "NOT_APPLIED" /\ Resulted
        /\ \A r \in Revisions : notice[r].status \in {"none", "PUBLISHED"}
        /\ \A e \in Events : events[e] # "pending"
        /\ thread.next \in {"none", "end"}
        /\ \A p \in Proc : lock = p \/ Owns(p) => Ending(p)

Processes == EpochsDiffer /\ \A p \in Proc : Sane(p)
IInv == TypeOK /\ RowsFit /\ ExecFits /\ ThreadFits /\ Processes /\ ArchiveFits

-------------------------------------------------------------------------------
(* The columns.                                                                *)

ApprovalRow == [status : {"PENDING", "APPROVED", "REJECTED", "CANCELLED", "EXPIRED"},
                effect : {"NOT_APPLIED", "APPLIED", "INVALIDATED"}, revision : 0..2,
                basis : BOOLEAN, late : BOOLEAN]
EventStatus == {"none", "pending", "delivered"}
ExecRow == [owner : Nat, live : BOOLEAN, epoch : Nat, saved : BOOLEAN,
            recovery : BOOLEAN, attempts : 0..AttemptLimit, wait : BOOLEAN]
NoticeRow == [status : {"none", "PENDING", "RUNNING", "RETRY_WAIT", "MANUAL_REQUIRED", "PUBLISHED"},
              token : Nat, live : BOOLEAN, wait : BOOLEAN, attempts : Nat]
ProcRow == [pc : {"idle", "lock", "claim", "reconcile", "inspect", "enter", "save",
                  "load", "wait", "apply", "notice", "offerNotice", "publish",
                  "acknowledge", "release", "fail"},
            role : {"none", "runner", "notifier"}, epoch : Nat, graph : Graphs,
            about : {0} \union Revisions, token : Nat, conflict : BOOLEAN]

\* The columns of every table.
LEMMA Types ==
    ASSUME TypeOK
    PROVE  /\ approval \in ApprovalRow /\ events \in [Events -> EventStatus] /\ exec \in ExecRow
           /\ session \in [status : {"open", "agreed", "closed"}, archived : BOOLEAN]
           /\ notice \in [Revisions -> NoticeRow] /\ proc \in [Proc -> ProcRow]
           /\ receipts \in [Events -> Results] /\ messages \in [Revisions -> Nat]
           /\ thread \in Graphs /\ approval.revision \in {0, 1, 2}
           /\ \A r \in Revisions : notice[r] \in NoticeRow
           /\ \A p \in Proc : proc[p] \in ProcRow
<1>1. /\ approval \in ApprovalRow /\ events \in [Events -> EventStatus] /\ exec \in ExecRow
      /\ session \in [status : {"open", "agreed", "closed"}, archived : BOOLEAN]
  BY DEF TypeOK, ApprovalRow, EventStatus, ExecRow
<1>2. notice \in [Revisions -> NoticeRow] /\ proc \in [Proc -> ProcRow]
  BY DEF TypeOK, NoticeRow, ProcRow
<1>3. receipts \in [Events -> Results] /\ messages \in [Revisions -> Nat] /\ thread \in Graphs
  BY DEF TypeOK
<1>4. approval.revision \in {0, 1, 2}
  BY <1>1 DEF ApprovalRow
<1> QED BY <1>1, <1>2, <1>3, <1>4

-------------------------------------------------------------------------------
(* What business transactions do to the rows.                                  *)

\* The book after an invalidation.
LostBook(b) ==
    /\ \E s \in {"CANCELLED", "EXPIRED"} :
          b.approval = [approval EXCEPT
                          !.status = IF approval.status = "PENDING" THEN s ELSE approval.status,
                          !.effect = "INVALIDATED", !.revision = approval.revision + 1]
    /\ b.events = [events EXCEPT !["invalidated"] = "pending"]
    /\ b.notice = [notice EXCEPT ![approval.revision + 1].status = "PENDING"]

Kept == UNCHANGED <<approval, events, notice>>
Loses ==
    /\ approval.status # "REJECTED" /\ approval.effect # "INVALIDATED"
    /\ LostBook([approval |-> approval', events |-> events', notice |-> notice'])
Approves ==
    /\ approval.status = "PENDING" /\ approval' = [approval EXCEPT !.status = "APPROVED"]
    /\ events' = [events EXCEPT !["decision"] = "pending"] /\ UNCHANGED notice
Rejects ==
    /\ approval.status = "PENDING"
    /\ approval' = [approval EXCEPT !.status = "REJECTED", !.effect = "APPLIED", !.revision = 1]
    /\ events' = [events EXCEPT !["decision"] = "pending"]
    /\ notice' = [notice EXCEPT ![1].status = "PENDING"]
Takes ==
    /\ approval.status = "APPROVED" /\ approval.effect = "NOT_APPLIED"
    /\ approval' = [approval EXCEPT !.effect = "APPLIED", !.revision = 1]
    /\ UNCHANGED events /\ notice' = [notice EXCEPT ![1].status = "PENDING"]

\* A delivery is written for a revision that has none.
LEMMA Noticing ==
    ASSUME NEW b, NEW n, b.notice = n, NEW r, b.approval.revision = r, r \in Revisions
    PROVE  /\ n[r].status # "none" => Noticed(b) = b
           /\ n[r].status = "none" => /\ Noticed(b).notice = [n EXCEPT ![r].status = "PENDING"]
                                     /\ Noticed(b).approval = b.approval
                                     /\ Noticed(b).events = b.events
BY DEF Noticed, Revisions

\* Columns of the approval in a book.
LEMMA Writing ==
    ASSUME NEW a, NEW e, NEW n, NEW b, b = [approval |-> a, events |-> e, notice |-> n], NEW v
    PROVE  /\ [b EXCEPT !.approval.status = v] =
                   [approval |-> [a EXCEPT !.status = v], events |-> e, notice |-> n]
           /\ [b EXCEPT !.approval.effect = v] =
                   [approval |-> [a EXCEPT !.effect = v], events |-> e, notice |-> n]
           /\ [b EXCEPT !.approval.revision = v] =
                   [approval |-> [a EXCEPT !.revision = v], events |-> e, notice |-> n]
OBVIOUS

\* VoidedUncounted with its count: what a lost offer leaves in the book.
LEMMA Voiding ==
    ASSUME TypeOK, ApprovalFits, EventsFit, NoticesFit,
           approval.status # "REJECTED", approval.effect # "INVALIDATED",
           NEW expired \in BOOLEAN, NEW b, b = Voided(Book, expired)
    PROVE  LostBook(b)
<1>1. PICK s : s = IF approval.status # "PENDING" THEN approval.status
                   ELSE IF expired THEN "EXPIRED" ELSE "CANCELLED"
  OBVIOUS
<1>2. PICK a : a = [approval EXCEPT !.status = s, !.effect = "INVALIDATED",
                                    !.revision = approval.revision + 1]
  OBVIOUS
<1>3. PICK c : c = [approval |-> a, events |-> events, notice |-> notice]
  OBVIOUS
<1>4. c = [Book EXCEPT !.approval.status = s, !.approval.effect = "INVALIDATED",
                       !.approval.revision = approval.revision + 1]
  <2>1. PICK b0 : b0 = Book
    OBVIOUS
  <2>2. PICK b1 : b1 = [b0 EXCEPT !.approval.status = s]
    OBVIOUS
  <2>3. PICK b2 : b2 = [b1 EXCEPT !.approval.effect = "INVALIDATED"]
    OBVIOUS
  <2>4. b0 = [approval |-> approval, events |-> events, notice |-> notice]
    BY <2>1 DEF Book
  <2>5. PICK a1 : a1 = [approval EXCEPT !.status = s]
    OBVIOUS
  <2>6. b1 = [approval |-> a1, events |-> events, notice |-> notice]
    BY <2>2, <2>4, <2>5, Writing
  <2>7. PICK a2 : a2 = [a1 EXCEPT !.effect = "INVALIDATED"]
    OBVIOUS
  <2>8. b2 = [approval |-> a2, events |-> events, notice |-> notice]
    BY <2>3, <2>6, <2>7, Writing
  <2>9. [b2 EXCEPT !.approval.revision = approval.revision + 1] = c
    BY <1>2, <1>3, <2>5, <2>7, <2>8, Writing
  <2> QED BY <2>1, <2>2, <2>3, <2>9
<1>5. PICK d : d = Evented(c, "invalidated")
  OBVIOUS
<1>6. b = Noticed(d)
  BY <1>1, <1>4, <1>5 DEF Voided, Book
<1>7. events["invalidated"] = "none" /\ approval.revision + 1 \in Revisions
  BY Types DEF EventsFit, ApprovalFits, Revisions, ApprovalRow
<1>8. d = [approval |-> a, events |-> [events EXCEPT !["invalidated"] = "pending"], notice |-> notice]
  BY <1>3, <1>5, <1>7 DEF Evented
<1>9. notice[approval.revision + 1].status = "none"
  BY <1>7, Types DEF NoticesFit, NoticeFits, Revisions
<1>10. a.revision = approval.revision + 1
  BY <1>2, Types DEF ApprovalRow
<1>11. PICK r : r = approval.revision + 1
  OBVIOUS
<1>14. d.notice = notice /\ d.approval = a /\ d.events = [events EXCEPT !["invalidated"] = "pending"]
  BY <1>8
<1>15. d.approval.revision = r /\ r \in Revisions /\ notice[r].status = "none"
  BY <1>7, <1>9, <1>10, <1>11, <1>14
<1>16. /\ b.notice = [notice EXCEPT ![r].status = "PENDING"]
       /\ b.approval = d.approval /\ b.events = d.events
  BY <1>6, <1>14, <1>15, Noticing
<1>17. /\ b.notice = [notice EXCEPT ![approval.revision + 1].status = "PENDING"]
       /\ b.approval = a /\ b.events = [events EXCEPT !["invalidated"] = "pending"]
  BY <1>11, <1>14, <1>16
<1>12. CASE approval.status = "PENDING"
  BY <1>1, <1>2, <1>17, <1>12 DEF LostBook
<1>13. CASE approval.status # "PENDING"
  BY <1>1, <1>2, <1>17, <1>13 DEF LostBook
<1> QED BY <1>12, <1>13

\* reconcile_approval leaves the book or invalidates it, as long as there is no agreement.
LEMMA Reconciling ==
    ASSUME TypeOK, RowsFit, NEW b, b = Reconciled(Book)
    PROVE  \/ b = Book
           \/ /\ session.status # "agreed" /\ approval.status # "REJECTED"
              /\ approval.effect # "INVALIDATED" /\ LostBook(b)
<1>1. Book.approval = approval
  BY DEF Book
<1> QED BY <1>1, Voiding DEF Reconciled, RowsFit

\* The clock and the edits of policy, product or facts.
Aged ==
    /\ UNCHANGED <<events, notice>>
    /\ \/ approval.status = "PENDING" /\ approval' = [approval EXCEPT !.late = TRUE]
       \/ approval' = [approval EXCEPT !.basis = FALSE]

\* What a transaction may do to an approval, its events and its notices.
Settles == Kept \/ Aged \/ Loses \/ Approves \/ Rejects \/ Takes

\* A stored book that lost its offer is the relation Loses.
LEMMA StoredLoss ==
    ASSUME NEW b, Store(b), LostBook(b), approval.status # "REJECTED",
           approval.effect # "INVALIDATED"
    PROVE  Loses
BY DEF Loses, Store, LostBook

\* Storing the book as it was changes nothing.
LEMMA StoredBook ==
    ASSUME Store(Book) PROVE Kept
BY DEF Store, Book, Kept

\* The seller's decision.
LEMMA Reviewing ==
    ASSUME TypeOK, RowsFit, NEW approve \in BOOLEAN, Review(approve)
    PROVE  Loses \/ Approves \/ Rejects
<1>1. PICK b : b = Reconciled(Book)
  OBVIOUS
<1>2. CASE b # Book
  <2>1. /\ approval.status # "REJECTED" /\ approval.effect # "INVALIDATED" /\ LostBook(b)
    BY <1>1, <1>2, Reconciling
  <2>2. b.approval.effect = "INVALIDATED"
    BY <2>1, Types DEF LostBook, ApprovalRow
  <2>3. Store(b)
    BY <1>1, <2>2 DEF Review
  <2> QED BY <2>1, <2>3, StoredLoss
<1>3. CASE b = Book
  <2>1. PICK s : s = IF approve THEN "APPROVED" ELSE "REJECTED"
    OBVIOUS
  <2>2. PICK a : a = [approval EXCEPT !.status = s]
    OBVIOUS
  <2>3. PICK c : c = [approval |-> a, events |-> [events EXCEPT !["decision"] = "pending"],
                      notice |-> notice]
    OBVIOUS
  <2>4. /\ approval.status = "PENDING" /\ approval.effect = "NOT_APPLIED" /\ approval.revision = 0
        /\ events["decision"] = "none" /\ notice[1].status = "none"
    BY Types DEF Review, RowsFit, ApprovalFits, EventsFit, NoticesFit, NoticeFits, Revisions,
                 EventStatus, Events
  <2>5. PICK b1 : b1 = [b EXCEPT !.approval.status = s]
    OBVIOUS
  <2>6. b1 = [approval |-> a, events |-> events, notice |-> notice]
    BY <1>3, <2>2, <2>5, Writing DEF Book
  <2>7. Evented(b1, "decision") = c
    BY <2>3, <2>4, <2>6 DEF Evented
  <2>8. Evented([b EXCEPT !.approval.status = IF approve THEN "APPROVED" ELSE "REJECTED"],
                "decision") = c
    BY <2>1, <2>5, <2>7
  <2>9. b.approval.effect # "INVALIDATED" /\ b.approval.revision + 1 = 1
    BY <1>3, <2>4 DEF Book
  <2>10. CASE approve
    <3>1. Store(c)
      BY <1>1, <2>8, <2>9, <2>10 DEF Review
    <3> QED BY <2>1, <2>2, <2>3, <2>4, <2>10, <3>1 DEF Store, Approves
  <2>11. CASE ~approve
    <3>1. PICK a1 : a1 = [a EXCEPT !.effect = "APPLIED"]
      OBVIOUS
    <3>2. PICK a2 : a2 = [a1 EXCEPT !.revision = 1]
      OBVIOUS
    <3>3. PICK c1 : c1 = [c EXCEPT !.approval.effect = "APPLIED"]
      OBVIOUS
    <3>4. PICK c2 : c2 = [c1 EXCEPT !.approval.revision = 1]
      OBVIOUS
    <3>5. c1 = [approval |-> a1, events |-> [events EXCEPT !["decision"] = "pending"],
                notice |-> notice]
      BY <2>3, <3>1, <3>3, Writing
    <3>6. c2 = [approval |-> a2, events |-> [events EXCEPT !["decision"] = "pending"],
                notice |-> notice]
      BY <3>2, <3>4, <3>5, Writing
    <3>7. c2 = [c EXCEPT !.approval.effect = "APPLIED", !.approval.revision = 1]
      BY <3>3, <3>4
    <3>8. Store(Noticed(c2))
      BY <1>1, <2>8, <2>9, <2>11, <3>7 DEF Review
    <3>9. a2 = [approval EXCEPT !.status = "REJECTED", !.effect = "APPLIED", !.revision = 1]
      BY <2>1, <2>2, <2>11, <3>1, <3>2
    <3>10. a2.revision = 1
      BY <3>9, Types DEF ApprovalRow
    <3>11. PICK d : d = Noticed(c2)
      OBVIOUS
    <3>12. c2.notice = notice /\ c2.approval.revision = 1 /\ c2.approval = a2
           /\ c2.events = [events EXCEPT !["decision"] = "pending"]
      BY <3>6, <3>10
    <3>13. /\ d.notice = [notice EXCEPT ![1].status = "PENDING"]
           /\ d.approval = a2 /\ d.events = [events EXCEPT !["decision"] = "pending"]
      BY <2>4, <3>11, <3>12, Noticing DEF Revisions
    <3> QED BY <2>4, <3>8, <3>9, <3>11, <3>13 DEF Store, Rejects
  <2> QED BY <2>10, <2>11
<1> QED BY <1>2, <1>3

\* The result that apply writes for its event names the settlement in force.
Receives(e) ==
    /\ receipts[e] = NoResult
    /\ \E o \in {"OFFER_ACCEPTED", "APPROVAL_REJECTED", "APPROVAL_INVALIDATED"} :
          receipts' = [receipts EXCEPT ![e] = [outcome |-> o, revision |-> approval'.revision]]
    /\ approval'.revision \in Revisions
Applies(e) ==
    \/ Kept /\ UNCHANGED receipts
    \/ (Kept \/ Loses \/ Takes) /\ Receives(e)

\* apply writes the result of the settlement in force for the event it was given.
LEMMA Applying ==
    ASSUME TypeOK, RowsFit, NEW p \in Proc, ApplyNode(p), GraphFits(proc[p].graph),
           proc[p].graph.next = "apply"
    PROVE  /\ Applies(proc[p].graph.event)
           /\ proc[p].graph.event \in Events
           /\ LET e == proc[p].graph.event IN receipts'[e] # NoResult
           /\ proc' = [proc EXCEPT ![p].pc = "save", ![p].graph.next = "notice",
                                   ![p].graph.result = receipts'[proc[p].graph.event]]
<1>1. PICK e : e = proc[p].graph.event
  OBVIOUS
<1>2. e \in Events /\ approval.status # "PENDING"
  BY <1>1, Types DEF GraphFits, ProcRow, Graphs
<1>3. PICK b : b = Reconciled(Book)
  OBVIOUS
<1>4. PICK c : c = IF b.approval.status = "APPROVED" /\ b.approval.effect = "NOT_APPLIED"
                   THEN [b EXCEPT !.approval.effect = "APPLIED",
                                  !.approval.revision = b.approval.revision + 1]
                   ELSE b
  OBVIOUS
<1>5. PICK o : o = IF c.approval.effect = "INVALIDATED" THEN "APPROVAL_INVALIDATED"
                   ELSE IF c.approval.status = "APPROVED" THEN "OFFER_ACCEPTED"
                   ELSE "APPROVAL_REJECTED"
  OBVIOUS
<1>6. PICK result : result = IF receipts[e] # NoResult THEN receipts[e]
                             ELSE [outcome |-> o, revision |-> c.approval.revision]
  OBVIOUS
<1>7. /\ IF receipts[e] # NoResult THEN Store(Book) /\ UNCHANGED receipts
         ELSE Store(Noticed(c)) /\ receipts' = [receipts EXCEPT ![e] = result]
      /\ proc' = [proc EXCEPT ![p].pc = "save", ![p].graph.next = "notice",
                              ![p].graph.result = result]
  BY <1>1, <1>3, <1>4, <1>5, <1>6 DEF ApplyNode
<1>8. o \in {"OFFER_ACCEPTED", "APPROVAL_REJECTED", "APPROVAL_INVALIDATED"}
  BY <1>5
<1>9. receipts'[e] = result
  BY <1>2, <1>6, <1>7, Types
<1>10. ASSUME receipts[e] = NoResult
       PROVE  (Kept \/ Loses \/ Takes) /\ approval'.revision = c.approval.revision
              /\ approval'.revision \in Revisions
  <2>1. Store(Noticed(c))
    BY <1>7, <1>10
  <2>2. CASE b # Book
    <3>1. /\ approval.status # "REJECTED" /\ approval.effect # "INVALIDATED" /\ LostBook(b)
      BY <1>3, <2>2, Reconciling
    <3>2. b.approval.effect = "INVALIDATED" /\ b.approval.revision = approval.revision + 1
      BY <3>1, Types DEF LostBook, ApprovalRow
    <3>3. c = b
      BY <1>4, <3>2
    <3>4. PICK r : r = approval.revision + 1
      OBVIOUS
    <3>5. r \in Revisions
      BY <3>1, <3>4, Types DEF RowsFit, ApprovalFits, Revisions, ApprovalRow
    <3>6. b.notice[r].status = "PENDING"
      BY <3>1, <3>4, <3>5, Types DEF LostBook, NoticeRow
    <3>7. Noticed(c) = b
      BY <3>2, <3>3, <3>4, <3>5, <3>6, Noticing
    <3>8. Loses
      BY <2>1, <3>1, <3>7, StoredLoss
    <3> QED BY <2>1, <3>2, <3>3, <3>4, <3>5, <3>7, <3>8 DEF Store
  <2>3. CASE b = Book /\ approval.status = "APPROVED" /\ approval.effect = "NOT_APPLIED"
    <3>1. approval.revision = 0 /\ notice[1].status = "none"
      BY <2>3, Types DEF RowsFit, ApprovalFits, NoticesFit, NoticeFits, Revisions
    <3>2. PICK a1 : a1 = [approval EXCEPT !.effect = "APPLIED"]
      OBVIOUS
    <3>3. PICK a2 : a2 = [a1 EXCEPT !.revision = 1]
      OBVIOUS
    <3>4. PICK c1 : c1 = [b EXCEPT !.approval.effect = "APPLIED"]
      OBVIOUS
    <3>5. b.approval = approval
      BY <2>3 DEF Book
    <3>15. b.approval.revision + 1 = 1
      BY <3>1, <3>5
    <3>16. c = [b EXCEPT !.approval.effect = "APPLIED", !.approval.revision = 1]
      BY <1>4, <2>3, <3>5, <3>15
    <3>6. c = [c1 EXCEPT !.approval.revision = 1]
      BY <3>4, <3>16
    <3>7. c1 = [approval |-> a1, events |-> events, notice |-> notice]
      BY <2>3, <3>2, <3>4, Writing DEF Book
    <3>8. c = [approval |-> a2, events |-> events, notice |-> notice]
      BY <3>3, <3>6, <3>7, Writing
    <3>9. a2 = [approval EXCEPT !.effect = "APPLIED", !.revision = 1]
      BY <3>2, <3>3
    <3>10. a2.revision = 1
      BY <3>9, Types DEF ApprovalRow
    <3>11. PICK d : d = Noticed(c)
      OBVIOUS
    <3>12. c.notice = notice /\ c.approval.revision = 1 /\ c.approval = a2 /\ c.events = events
      BY <3>8, <3>10
    <3>13. d.notice = [notice EXCEPT ![1].status = "PENDING"] /\ d.approval = a2 /\ d.events = events
      BY <3>1, <3>11, <3>12, Noticing DEF Revisions
    <3>14. Takes
      BY <2>1, <2>3, <3>9, <3>11, <3>13 DEF Store, Takes
    <3> QED BY <2>1, <3>10, <3>11, <3>12, <3>13, <3>14 DEF Store, Revisions
  <2>4. CASE b = Book /\ ~(approval.status = "APPROVED" /\ approval.effect = "NOT_APPLIED")
    <3>1. c = Book
      BY <1>4, <2>4 DEF Book
    <3>2. approval.revision \in Revisions
      BY <1>2, <2>4, Types DEF RowsFit, ApprovalFits, Revisions, ApprovalRow
    <3>3. PICK r : r = approval.revision
      OBVIOUS
    <3>4. notice[r].status # "none"
      BY <3>2, <3>3, Types DEF RowsFit, NoticesFit, NoticeFits, Revisions
    <3>5. c.notice = notice /\ c.approval.revision = r /\ c.approval = approval
      BY <3>1, <3>3 DEF Book
    <3>8. r \in Revisions /\ notice[r].status # "none"
      BY <3>2, <3>3, <3>4
    <3>9. c.notice = notice /\ c.approval.revision = r
      BY <3>5
    <3>6. Noticed(c) = c
      BY <3>8, <3>9, Noticing
    <3>7. Kept
      BY <2>1, <3>1, <3>6, StoredBook
    <3> QED BY <3>2, <3>5, <3>7 DEF Kept
  <2> QED BY <2>2, <2>3, <2>4
<1>11. CASE receipts[e] # NoResult
  <2>1. Kept /\ UNCHANGED receipts
    BY <1>7, <1>11, StoredBook
  <2>2. result # NoResult /\ receipts'[e] = result
    BY <1>6, <1>9, <1>11
  <2> QED BY <1>1, <1>2, <1>7, <2>1, <2>2 DEF Applies
<1>12. CASE receipts[e] = NoResult
  <2>1. result = [outcome |-> o, revision |-> approval'.revision]
    BY <1>6, <1>10, <1>12
  <2>2. Receives(e)
    BY <1>7, <1>8, <1>10, <1>12, <2>1 DEF Receives
  <2>3. result # NoResult
    BY <1>8, <2>1 DEF NoResult
  <2> QED BY <1>1, <1>2, <1>7, <1>9, <1>10, <1>12, <2>2, <2>3 DEF Applies
<1> QED BY <1>11, <1>12

-------------------------------------------------------------------------------
(* The rows stay true.                                                         *)

\* Decisions, losses and revisions are never taken back.
Onward ==
    /\ approval.status # "PENDING" => approval'.status # "PENDING"
    /\ approval.status = "REJECTED" => approval'.status = "REJECTED"
    /\ approval.effect = "INVALIDATED" => approval'.effect = "INVALIDATED"
    /\ approval.effect # "NOT_APPLIED" => approval'.effect # "NOT_APPLIED"
    /\ approval'.revision \in Int /\ approval.revision <= approval'.revision

BookTypes == approval \in ApprovalRow /\ events \in [Events -> EventStatus] /\ notice \in [Revisions -> NoticeRow]

\* Writing one column.
LEMMA ApprovalColumns ==
    ASSUME NEW a \in ApprovalRow
    PROVE  /\ \A v \in {"PENDING", "APPROVED", "REJECTED", "CANCELLED", "EXPIRED"} :
                 [a EXCEPT !.status = v] \in ApprovalRow
           /\ \A v \in {"NOT_APPLIED", "APPLIED", "INVALIDATED"} : [a EXCEPT !.effect = v] \in ApprovalRow
           /\ \A v \in 0..2 : [a EXCEPT !.revision = v] \in ApprovalRow
BY DEF ApprovalRow

\* The columns after a loss, a rejection and an effect.
LEMMA LossColumns ==
    ASSUME TypeOK, ApprovalFits, Loses
    PROVE  /\ approval' \in ApprovalRow /\ approval'.effect = "INVALIDATED"
           /\ approval.revision + 1 \in Revisions /\ approval'.revision = approval.revision + 1
           /\ approval.status = "PENDING" => approval'.status \in {"CANCELLED", "EXPIRED"}
           /\ approval.status # "PENDING" => approval'.status = approval.status
<1>1. approval \in ApprovalRow
  BY Types
<1>2. PICK s \in {"CANCELLED", "EXPIRED"} :
         approval' = [approval EXCEPT
                        !.status = IF approval.status = "PENDING" THEN s ELSE approval.status,
                        !.effect = "INVALIDATED", !.revision = approval.revision + 1]
  BY DEF Loses, LostBook
<1>3. PICK v : v = IF approval.status = "PENDING" THEN s ELSE approval.status
  OBVIOUS
<1>4. PICK r : r = approval.revision + 1
  OBVIOUS
<1>5. approval' = [approval EXCEPT !.status = v, !.effect = "INVALIDATED", !.revision = r]
  BY <1>2, <1>3, <1>4
<1>6. v \in {"PENDING", "APPROVED", "REJECTED", "CANCELLED", "EXPIRED"}
  BY <1>1, <1>2, <1>3 DEF ApprovalRow
<1>7. r \in Revisions
  BY <1>1, <1>4 DEF Loses, ApprovalFits, ApprovalRow, Revisions
<1>8. approval' \in ApprovalRow
  <2>1. PICK a : a = [approval EXCEPT !.status = v]
    OBVIOUS
  <2>2. PICK b : b = [a EXCEPT !.effect = "INVALIDATED"]
    OBVIOUS
  <2>3. approval' = [b EXCEPT !.revision = r]
    BY <1>5, <2>1, <2>2
  <2>4. a \in ApprovalRow
    BY <1>1, <1>6, <2>1, ApprovalColumns
  <2>5. b \in ApprovalRow
    BY <2>2, <2>4, ApprovalColumns
  <2>6. r \in 0..2
    BY <1>7 DEF Revisions
  <2> QED BY <2>3, <2>5, <2>6, ApprovalColumns
<1>9. approval'.status = v /\ approval'.effect = "INVALIDATED" /\ approval'.revision = r
  BY <1>1, <1>5 DEF ApprovalRow
<1> QED BY <1>2, <1>3, <1>4, <1>7, <1>8, <1>9

\* A rejection and an effect settle the approval for the first time.
LEMMA DecisionColumns ==
    ASSUME TypeOK, Rejects \/ Takes
    PROVE  /\ approval' \in ApprovalRow /\ approval'.effect = "APPLIED" /\ approval'.revision = 1
           /\ Rejects => approval'.status = "REJECTED"
           /\ Takes => approval'.status = "APPROVED"
<1>1. approval \in ApprovalRow
  BY Types
<1>2. CASE Rejects
  <2>1. approval' = [approval EXCEPT !.status = "REJECTED", !.effect = "APPLIED", !.revision = 1]
    BY <1>2 DEF Rejects
  <2>2. approval' \in ApprovalRow
    <3>1. PICK a : a = [approval EXCEPT !.status = "REJECTED"]
      OBVIOUS
    <3>2. PICK b : b = [a EXCEPT !.effect = "APPLIED"]
      OBVIOUS
    <3>3. approval' = [b EXCEPT !.revision = 1]
      BY <2>1, <3>1, <3>2
    <3>4. a \in ApprovalRow
      BY <1>1, <3>1, ApprovalColumns
    <3>5. b \in ApprovalRow
      BY <3>2, <3>4, ApprovalColumns
    <3>6. 1 \in 0..2
      OBVIOUS
    <3> QED BY <3>3, <3>5, <3>6, ApprovalColumns
  <2>3. ~Takes
    BY <1>2 DEF Rejects, Takes
  <2> QED BY <1>1, <2>1, <2>2, <2>3 DEF ApprovalRow
<1>3. CASE Takes
  <2>1. approval' = [approval EXCEPT !.effect = "APPLIED", !.revision = 1]
    BY <1>3 DEF Takes
  <2>2. approval' \in ApprovalRow
    <3>1. PICK b : b = [approval EXCEPT !.effect = "APPLIED"]
      OBVIOUS
    <3>2. approval' = [b EXCEPT !.revision = 1]
      BY <2>1, <3>1
    <3>3. b \in ApprovalRow
      BY <1>1, <3>1, ApprovalColumns
    <3>4. 1 \in 0..2
      OBVIOUS
    <3> QED BY <3>2, <3>3, <3>4, ApprovalColumns
  <2>3. ~Rejects /\ approval.status = "APPROVED"
    BY <1>3 DEF Rejects, Takes
  <2> QED BY <1>1, <2>1, <2>2, <2>3 DEF ApprovalRow
<1> QED BY <1>2, <1>3

\* Settlements write values that the columns allow.
LEMMA SettlingTypes ==
    ASSUME TypeOK, ApprovalFits, Settles
    PROVE  BookTypes'
<1>1. approval \in ApprovalRow /\ events \in [Events -> EventStatus] /\ notice \in [Revisions -> NoticeRow]
  BY Types
<1>2. CASE Kept
  BY <1>1, <1>2 DEF Kept, BookTypes
<1>3. CASE Aged
  BY <1>1, <1>3 DEF Aged, BookTypes, ApprovalRow
<1>4. CASE Loses
  <2>1. approval.revision + 1 \in Revisions
    BY <1>4, LossColumns
  <2>2. notice' \in [Revisions -> NoticeRow]
    BY <1>1, <1>4, <2>1 DEF Loses, LostBook, NoticeRow
  <2>3. events' \in [Events -> EventStatus]
    BY <1>1, <1>4 DEF Loses, LostBook, Events, EventStatus
  <2>4. approval' \in ApprovalRow
    BY <1>4, LossColumns
  <2> QED BY <2>2, <2>3, <2>4 DEF BookTypes
<1>5. CASE Approves
  BY <1>1, <1>5 DEF Approves, BookTypes, ApprovalRow, Events, EventStatus
<1>6. CASE Rejects
  <2>1. notice' \in [Revisions -> NoticeRow]
    BY <1>1, <1>6 DEF Rejects, NoticeRow, Revisions
  <2>2. events' \in [Events -> EventStatus]
    BY <1>1, <1>6 DEF Rejects, Events, EventStatus
  <2>3. approval' \in ApprovalRow
    BY <1>6, DecisionColumns
  <2> QED BY <2>1, <2>2, <2>3 DEF BookTypes
<1>7. CASE Takes
  <2>1. notice' \in [Revisions -> NoticeRow]
    BY <1>1, <1>7 DEF Takes, NoticeRow, Revisions
  <2>2. events' \in [Events -> EventStatus]
    BY <1>1, <1>7 DEF Takes, Events, EventStatus
  <2>3. approval' \in ApprovalRow
    BY <1>7, DecisionColumns
  <2> QED BY <2>1, <2>2, <2>3 DEF BookTypes
<1> QED BY <1>2, <1>3, <1>4, <1>5, <1>6, <1>7 DEF Settles

\* Status, effect, revision and events change together.
LEMMA SettlingApproval ==
    ASSUME TypeOK, ApprovalFits, EventsFit, Settles
    PROVE  ApprovalFits' /\ EventsFit' /\ Onward
<1>1. approval \in ApprovalRow /\ events \in [Events -> EventStatus]
  BY Types
<1>2. CASE Kept
  BY <1>1, <1>2 DEF Kept, ApprovalFits, EventsFit, Onward, ApprovalRow
<1>3. CASE Aged
  BY <1>1, <1>3 DEF Aged, ApprovalFits, EventsFit, Onward, ApprovalRow
<1>4. CASE Loses
  <2>1. /\ events'["invalidated"] = "pending" /\ events'["decision"] = events["decision"]
        /\ approval.status # "REJECTED"
    BY <1>1, <1>4 DEF Loses, LostBook, Events
  <2>2. ApprovalFits'
    BY <1>1, <1>4, <2>1, LossColumns DEF ApprovalFits, ApprovalRow
  <2>3. EventsFit'
    BY <1>1, <1>4, <2>1, LossColumns DEF EventsFit, ApprovalRow
  <2>4. Onward
    BY <1>1, <1>4, <2>1, LossColumns DEF Onward, ApprovalRow
  <2> QED BY <2>2, <2>3, <2>4
<1>5. CASE Approves
  BY <1>1, <1>5 DEF Approves, ApprovalFits, EventsFit, Onward, ApprovalRow, Events
<1>6. CASE Rejects
  BY <1>1, <1>6 DEF Rejects, ApprovalFits, EventsFit, Onward, ApprovalRow, Events
<1>7. CASE Takes
  BY <1>1, <1>7 DEF Takes, ApprovalFits, EventsFit, Onward, ApprovalRow, Events
<1> QED BY <1>2, <1>3, <1>4, <1>5, <1>6, <1>7 DEF Settles

\* The notice of the next revision is new, so the others keep their state.
LEMMA NewNotice ==
    ASSUME TypeOK, NoticesFit, NEW r \in Revisions, approval'.revision = r,
           r = approval.revision + 1, UNCHANGED messages,
           notice' = [notice EXCEPT ![r].status = "PENDING"]
    PROVE  NoticesFit'
<1>1. notice \in [Revisions -> NoticeRow] /\ approval.revision \in {0, 1, 2}
  BY Types
<1>2. r \in {1, 2} /\ \A s \in Revisions : s \in {1, 2}
  BY DEF Revisions
<1>3. ASSUME NEW s \in Revisions PROVE NoticeFits(s)'
  <2>1. NoticeFits(s) /\ notice[s] \in NoticeRow
    BY <1>1 DEF NoticesFit
  <2>2. CASE s = r
    <3>1. notice[s].status = "none"
      BY <1>1, <1>2, <2>1, <2>2 DEF NoticeFits
    <3>2. notice'[s] = [notice[s] EXCEPT !.status = "PENDING"]
      BY <1>1, <2>2
    <3> QED BY <1>1, <1>2, <2>1, <2>2, <3>1, <3>2 DEF NoticeFits, NoticeRow
  <2>3. CASE s # r
    <3>1. notice'[s] = notice[s]
      BY <1>1, <2>3
    <3> QED BY <1>1, <1>2, <2>1, <2>3, <3>1 DEF NoticeFits
  <2> QED BY <2>2, <2>3
<1> QED BY <1>3 DEF NoticesFit

\* Each settlement writes the notice of its revision.
LEMMA SettlingNotices ==
    ASSUME TypeOK, ApprovalFits, NoticesFit, Settles, UNCHANGED messages
    PROVE  NoticesFit'
<1>1. approval \in ApprovalRow
  BY Types
<1>2. CASE Kept
  BY <1>2 DEF Kept, NoticesFit, NoticeFits
<1>3. CASE Aged
  <2>1. approval'.revision = approval.revision
    BY <1>1, <1>3 DEF Aged, ApprovalRow
  <2> QED BY <1>3, <2>1 DEF Aged, NoticesFit, NoticeFits
<1>4. CASE Loses
  <2>1. approval.revision + 1 \in Revisions /\ approval'.revision = approval.revision + 1
    BY <1>4, LossColumns
  <2>2. notice' = [notice EXCEPT ![approval.revision + 1].status = "PENDING"]
    BY <1>4 DEF Loses, LostBook
  <2>3. PICK r : r = approval.revision + 1
    OBVIOUS
  <2>4. r \in Revisions /\ approval'.revision = r /\ notice' = [notice EXCEPT ![r].status = "PENDING"]
    BY <2>1, <2>2, <2>3
  <2> QED BY <2>3, <2>4, NewNotice
<1>5. CASE Approves
  <2>1. approval'.revision = approval.revision
    BY <1>1, <1>5 DEF Approves, ApprovalRow
  <2> QED BY <1>5, <2>1 DEF Approves, NoticesFit, NoticeFits
<1>6. CASE Rejects
  <2>1. 1 \in Revisions /\ approval'.revision = 1 /\ 1 = approval.revision + 1
    BY <1>1, <1>6 DEF Rejects, ApprovalFits, ApprovalRow, Revisions
  <2>2. notice' = [notice EXCEPT ![1].status = "PENDING"]
    BY <1>6 DEF Rejects
  <2> QED BY <2>1, <2>2, NewNotice
<1>7. CASE Takes
  <2>1. 1 \in Revisions /\ approval'.revision = 1 /\ 1 = approval.revision + 1
    BY <1>1, <1>7 DEF Takes, ApprovalFits, ApprovalRow, Revisions
  <2>2. notice' = [notice EXCEPT ![1].status = "PENDING"]
    BY <1>7 DEF Takes
  <2> QED BY <2>1, <2>2, NewNotice
<1> QED BY <1>2, <1>3, <1>4, <1>5, <1>6, <1>7 DEF Settles

\* A settled event stays settled: what settled it is a receipt of the revision in force.
LEMMA SettlingReceipts ==
    ASSUME TypeOK, ApprovalFits, EventsFit, ReceiptsFit, Settles,
           UNCHANGED receipts
    PROVE  ReceiptsFit'
<1>1. approval \in ApprovalRow /\ events \in [Events -> EventStatus] /\ receipts \in [Events -> Results]
  BY Types
<1>2. Onward
  BY SettlingApproval
<1>3. ASSUME NEW e \in Events, receipts'[e] # NoResult
      PROVE  receipts'[e].revision \in 1..approval'.revision
  BY <1>1, <1>2, <1>3 DEF ReceiptsFit, Onward, ApprovalRow
<1>4. ASSUME events'["decision"] = "delivered" PROVE Resulted'
  <2>1. events["decision"] = "delivered"
    BY <1>1, <1>4 DEF Settles, Kept, Aged, Loses, LostBook, Approves, Rejects, Takes, Events
  <2> QED BY <2>1 DEF ReceiptsFit, Resulted
<1>5. ASSUME events'["invalidated"] = "delivered"
      PROVE  \E e \in Events : receipts'[e] = [outcome |-> "APPROVAL_INVALIDATED",
                                              revision |-> approval'.revision]
  <2>1. events["invalidated"] = "delivered" /\ ~Loses
    BY <1>1, <1>5 DEF Settles, Kept, Aged, Loses, LostBook, Approves, Rejects, Takes, Events
  <2>2. approval.effect = "INVALIDATED" /\ approval.status # "PENDING"
    BY <2>1 DEF EventsFit, ApprovalFits
  <2>3. approval'.revision = approval.revision
    BY <1>1, <2>1, <2>2 DEF Settles, Kept, Aged, Approves, Rejects, Takes, ApprovalRow
  <2> QED BY <2>1, <2>3 DEF ReceiptsFit
<1> QED BY <1>3, <1>4, <1>5 DEF ReceiptsFit

\* The receipt that apply writes names the revision in force.
LEMMA ApplyingReceipts ==
    ASSUME TypeOK, ApprovalFits, EventsFit, ReceiptsFit, Kept \/ Loses \/ Takes,
           NEW e \in Events, Receives(e)
    PROVE  ReceiptsFit' /\ receipts' \in [Events -> Results] /\ Resulted'
<1>1. approval \in ApprovalRow /\ events \in [Events -> EventStatus] /\ receipts \in [Events -> Results]
  BY Types
<1>2. Onward
  BY SettlingApproval DEF Settles
<1>3. PICK o \in {"OFFER_ACCEPTED", "APPROVAL_REJECTED", "APPROVAL_INVALIDATED"} :
         receipts' = [receipts EXCEPT ![e] = [outcome |-> o, revision |-> approval'.revision]]
  BY DEF Receives
<1>4. receipts' \in [Events -> Results] /\ receipts'[e] # NoResult
  BY <1>1, <1>3 DEF Receives, Results, Revisions, NoResult
<1>5. \A d \in Events : d # e => receipts'[d] = receipts[d]
  BY <1>1, <1>3
<1>6. ASSUME NEW d \in Events, receipts'[d] # NoResult
      PROVE  receipts'[d].revision \in 1..approval'.revision
  <2>1. CASE d = e
    BY <1>1, <1>3, <2>1 DEF Receives, Revisions
  <2>2. CASE d # e
    BY <1>1, <1>2, <1>5, <1>6, <2>2 DEF ReceiptsFit, Onward, ApprovalRow
  <2> QED BY <2>1, <2>2
<1>7. ASSUME events'["invalidated"] = "delivered"
      PROVE  \E d \in Events : receipts'[d] = [outcome |-> "APPROVAL_INVALIDATED",
                                              revision |-> approval'.revision]
  <2>1. events["invalidated"] = "delivered" /\ ~Loses
    BY <1>1, <1>7 DEF Kept, Loses, LostBook, Takes, Events
  <2>2. approval.effect = "INVALIDATED"
    BY <2>1 DEF EventsFit
  <2>3. approval' = approval
    BY <2>1, <2>2 DEF Kept, Takes
  <2>4. PICK d \in Events : receipts[d] = [outcome |-> "APPROVAL_INVALIDATED",
                                           revision |-> approval.revision]
    BY <2>1 DEF ReceiptsFit
  <2>5. d # e
    BY <2>4 DEF Receives, NoResult
  <2> QED BY <1>5, <2>3, <2>4, <2>5
<1>8. Resulted'
  BY <1>4 DEF Resulted
<1> QED BY <1>4, <1>6, <1>7, <1>8 DEF ReceiptsFit

\* A session that ended stays settled.
LEMMA SettlingSession ==
    ASSUME Onward, SessionFits, UNCHANGED session
    PROVE  SessionFits'
BY DEF Onward, SessionFits

\* Events are acknowledged when a receipt settles them.
Acks ==
    \A e \in Events :
        \/ events'[e] = events[e]
        \/ /\ events[e] = "pending" /\ events'[e] = "delivered"
           /\ e = "decision" => Resulted
           /\ e = "invalidated" =>
                 \E d \in Events : receipts[d] = [outcome |-> "APPROVAL_INVALIDATED",
                                                  revision |-> approval.revision]

\* acknowledge marks what a receipt covers and nothing else.
LEMMA Acknowledging ==
    ASSUME EventsFit, ReceiptsFit, Acks, UNCHANGED <<approval, receipts>>
    PROVE  EventsFit' /\ ReceiptsFit'
<1>1. "decision" \in Events /\ "invalidated" \in Events
  BY DEF Events
<1>2. EventsFit'
  BY <1>1 DEF EventsFit, Acks
<1>3. events'["decision"] = "delivered" => Resulted'
  BY <1>1 DEF Acks, ReceiptsFit, Resulted
<1>4. events'["invalidated"] = "delivered" =>
          \E d \in Events : receipts'[d] = [outcome |-> "APPROVAL_INVALIDATED",
                                            revision |-> approval'.revision]
  BY <1>1 DEF Acks, ReceiptsFit
<1> QED BY <1>2, <1>3, <1>4 DEF ReceiptsFit

\* The rows of business and notices have their types, and a step keeps what is settled.
RowTypes ==
    /\ approval \in ApprovalRow
    /\ session \in [status : {"open", "agreed", "closed"}, archived : BOOLEAN]
    /\ events \in [Events -> EventStatus] /\ receipts \in [Events -> Results]
    /\ notice \in [Revisions -> NoticeRow] /\ messages \in [Revisions -> Nat]
RowStep ==
    /\ RowTypes' /\ RowsFit' /\ Onward
    /\ \A e \in Events : receipts[e] # NoResult => receipts'[e] = receipts[e]
    /\ session.archived => session'.archived

RowsStay == UNCHANGED <<approval, session, events, receipts, notice, messages>>

\* A step that leaves the rows alone is one of them.
LEMMA Staying ==
    ASSUME TypeOK, RowsFit, RowsStay
    PROVE  RowStep
<1>1. RowTypes
  BY Types DEF RowTypes
<1>2. RowTypes'
  BY <1>1 DEF RowsStay, RowTypes
<1>3. RowsFit'
  BY DEF RowsStay, RowsFit, ApprovalFits, EventsFit, NoticesFit, NoticeFits, ReceiptsFit,
         SessionFits, Resulted
<1>4. Onward
  BY <1>1 DEF RowsStay, Onward, RowTypes, ApprovalRow
<1> QED BY <1>2, <1>3, <1>4 DEF RowStep, RowsStay

\* A settlement in a transaction of business.
LEMMA SettlingRows ==
    ASSUME TypeOK, RowsFit, Settles, UNCHANGED <<session, receipts, messages>>
    PROVE  RowStep
<1>1. ApprovalFits' /\ EventsFit' /\ Onward /\ BookTypes'
  BY SettlingTypes, SettlingApproval DEF RowsFit
<1>2. NoticesFit' /\ ReceiptsFit' /\ SessionFits'
  BY <1>1, SettlingNotices, SettlingReceipts, SettlingSession DEF RowsFit
<1>3. RowTypes'
  BY <1>1, Types DEF RowTypes, BookTypes
<1> QED BY <1>1, <1>2, <1>3 DEF RowStep, RowsFit

\* A settlement, or none, with the receipt of the graph's event.
LEMMA ApplyingRows ==
    ASSUME TypeOK, RowsFit, NEW e \in Events, Applies(e), UNCHANGED <<session, messages>>
    PROVE  RowStep
<1>1. CASE UNCHANGED receipts /\ Kept
  BY <1>1, SettlingRows DEF Settles
<1>2. CASE (Kept \/ Loses \/ Takes) /\ Receives(e)
  <2>1. ApprovalFits' /\ EventsFit' /\ Onward /\ BookTypes'
    BY <1>2, SettlingTypes, SettlingApproval DEF RowsFit, Settles
  <2>2. NoticesFit' /\ SessionFits'
    BY <1>2, <2>1, SettlingNotices, SettlingSession DEF RowsFit, Settles
  <2>3. ReceiptsFit' /\ receipts' \in [Events -> Results]
    BY <1>2, ApplyingReceipts DEF RowsFit
  <2>4. RowTypes'
    BY <2>1, <2>3, Types DEF RowTypes, BookTypes
  <2>5. \A d \in Events : receipts[d] # NoResult => receipts'[d] = receipts[d]
    BY <1>2, Types DEF Receives
  <2> QED BY <2>1, <2>2, <2>3, <2>4, <2>5 DEF RowStep, RowsFit
<1> QED BY <1>1, <1>2 DEF Applies

\* The marks of acknowledge.
LEMMA AcknowledgingRows ==
    ASSUME TypeOK, RowsFit, Acks, events' \in [Events -> EventStatus],
           UNCHANGED <<approval, session, receipts, notice, messages>>
    PROVE  RowStep
<1>1. EventsFit' /\ ReceiptsFit'
  BY Acknowledging DEF RowsFit
<1>2. ApprovalFits' /\ NoticesFit' /\ SessionFits'
  BY DEF RowsFit, ApprovalFits, NoticesFit, NoticeFits, SessionFits
<1>3. RowTypes'
  BY Types DEF RowTypes
<1>4. Onward
  BY Types DEF Onward, ApprovalRow
<1> QED BY <1>1, <1>2, <1>3, <1>4 DEF RowStep, RowsFit

\* A delivery, where settlements are left alone.
LEMMA NotifyingRows ==
    ASSUME TypeOK, RowsFit, NoticesFit', UNCHANGED <<approval, session, events, receipts>>,
           notice' \in [Revisions -> NoticeRow], messages' \in [Revisions -> Nat]
    PROVE  RowStep
<1>1. ApprovalFits' /\ EventsFit' /\ SessionFits'
  BY DEF RowsFit, ApprovalFits, EventsFit, SessionFits
<1>2. ReceiptsFit'
  BY DEF RowsFit, ReceiptsFit, Resulted
<1>3. RowTypes'
  BY Types DEF RowTypes
<1>4. Onward
  BY Types DEF Onward, ApprovalRow
<1> QED BY <1>1, <1>2, <1>3, <1>4 DEF RowStep, RowsFit

\* The buyer ends the session.
LEMMA EndingRows ==
    ASSUME TypeOK, RowsFit, NEW how \in {"agreed", "closed"}, EndSession(how)
    PROVE  RowStep
<1>1. PICK b : b = IF how = "closed" /\ approval.status # "REJECTED" THEN Voided(Book, FALSE) ELSE Book
  OBVIOUS
<1>2. Store(b) /\ session' = [session EXCEPT !.status = how] /\ UNCHANGED <<receipts, messages>>
      /\ session.status = "open" /\ (how = "agreed" => approval.effect # "NOT_APPLIED")
  BY <1>1 DEF EndSession
<1>3. \/ Loses
      \/ Kept /\ (how = "closed" => approval.status = "REJECTED" \/ approval.effect = "INVALIDATED")
  <2>1. CASE how = "closed" /\ approval.status # "REJECTED" /\ approval.effect # "INVALIDATED"
    <3>1. b = Voided(Book, FALSE)
      BY <1>1, <2>1
    <3>2. LostBook(b)
      BY <2>1, <3>1, Voiding DEF RowsFit
    <3> QED BY <1>2, <2>1, <3>2, StoredLoss
  <2>2. CASE ~(how = "closed" /\ approval.status # "REJECTED" /\ approval.effect # "INVALIDATED")
    <3>1. Book.approval = approval
      BY DEF Book
    <3>2. b = Book
      BY <1>1, <2>2, <3>1 DEF Voided
    <3> QED BY <1>2, <2>2, <3>2, StoredBook
  <2> QED BY <2>1, <2>2
<1>4. ApprovalFits' /\ EventsFit' /\ Onward /\ BookTypes'
  BY <1>3, SettlingTypes, SettlingApproval DEF RowsFit, Settles
<1>5. NoticesFit' /\ ReceiptsFit'
  BY <1>2, <1>3, SettlingNotices, SettlingReceipts DEF RowsFit, Settles
<1>6. session'.status = how /\ session'.archived = session.archived
      /\ session' \in [status : {"open", "agreed", "closed"}, archived : BOOLEAN]
  BY <1>2, Types
<1>7. how = "closed" => approval'.status = "REJECTED" \/ approval'.effect = "INVALIDATED"
  BY <1>3, <1>4, LossColumns DEF Onward, RowsFit
<1>8. how = "agreed" => approval'.effect # "NOT_APPLIED"
  BY <1>2, <1>4 DEF Onward
<1>9. SessionFits'
  BY <1>6, <1>7, <1>8 DEF SessionFits
<1>10. RowTypes'
  BY <1>2, <1>4, <1>6, Types DEF RowTypes, BookTypes
<1> QED BY <1>2, <1>4, <1>5, <1>6, <1>9, <1>10 DEF RowStep, RowsFit

\* Decision, withdrawal, expiry, confirmation and closing.
LEMMA BusinessRows ==
    ASSUME TypeOK, RowsFit, Business
    PROVE  RowStep
<1>1. ASSUME NEW approve \in BOOLEAN, Review(approve) PROVE RowStep
  <2>1. Settles
    BY <1>1, Reviewing DEF Settles
  <2> QED BY <1>1, <2>1, SettlingRows DEF Review
<1>2. CASE LoseOffer
  <2>1. PICK b : b = Voided(Book, FALSE)
    OBVIOUS
  <2>2. LostBook(b) /\ Store(b)
    BY <1>2, <2>1, Voiding DEF RowsFit, LoseOffer
  <2>3. Settles
    BY <1>2, <2>2, StoredLoss DEF Settles, LoseOffer
  <2> QED BY <1>2, <2>3, SettlingRows DEF LoseOffer
<1>3. ASSUME NEW how \in {"agreed", "closed"}, EndSession(how) PROVE RowStep
  BY <1>3, EndingRows
<1>4. CASE Ages
  <2>1. Settles
    BY <1>4 DEF Ages, Settles, Aged
  <2> QED BY <1>4, <2>1, SettlingRows DEF Ages
<1> QED BY <1>1, <1>2, <1>3, <1>4 DEF Business

\* reconcile_approval of a runner that took its lease.
LEMMA ReconcileRows ==
    ASSUME TypeOK, RowsFit, NEW p \in Proc, Reconcile(p)
    PROVE  RowStep
<1>1. PICK b : b = Reconciled(Book)
  OBVIOUS
<1>2. Store(b) /\ UNCHANGED <<session, receipts, messages>>
  BY <1>1 DEF Reconcile
<1>3. Settles
  BY <1>1, <1>2, Reconciling, StoredLoss, StoredBook DEF Settles
<1> QED BY <1>2, <1>3, SettlingRows

\* What a result settles is what the graph may acknowledge.
LEMMA CoveredIsSettled ==
    ASSUME TypeOK, RowsFit, NEW result, result # NoResult, \E e \in Events : receipts[e] = result,
           \/ events' = Acknowledged(Covered(result))
           \/ events' = Acknowledged({"requested"})
    PROVE  Acks /\ events' \in [Events -> EventStatus]
<1>1. events \in [Events -> EventStatus] /\ receipts \in [Events -> Results] /\ approval \in ApprovalRow
  BY Types
<1>2. PICK d \in Events : receipts[d] = result
  OBVIOUS
<1>3. Resulted
  BY <1>2 DEF Resulted
<1>4. events' \in [Events -> EventStatus]
  BY <1>1 DEF Acknowledged, EventStatus
<1>5. ASSUME NEW e \in Events, events'[e] # events[e]
      PROVE  /\ events[e] = "pending" /\ events'[e] = "delivered"
             /\ e \in Covered(result)
  BY <1>1, <1>5 DEF Acknowledged, EventStatus, Covered
<1>6. ASSUME NEW e \in Events, events'[e] # events[e], e = "invalidated"
      PROVE  receipts[d] = [outcome |-> "APPROVAL_INVALIDATED", revision |-> approval.revision]
  <2>1. result.outcome = "APPROVAL_INVALIDATED" /\ approval.revision <= result.revision
    BY <1>5, <1>6 DEF Covered
  <2>2. result.revision \in 1..approval.revision
    BY <1>2 DEF RowsFit, ReceiptsFit
  <2>3. result.revision = approval.revision
    BY <1>1, <2>1, <2>2 DEF ApprovalRow
  <2>4. result \in Results
    BY <1>1, <1>2
  <2> QED BY <1>2, <2>1, <2>3, <2>4 DEF Results
<1> QED BY <1>3, <1>4, <1>5, <1>6 DEF Acks

\* One delivery is written.
LEMMA NoticeWritten ==
    ASSUME TypeOK, RowsFit, NEW r \in Revisions, NEW n \in NoticeRow, NEW m \in Nat,
           UNCHANGED <<approval, session, events, receipts>>,
           notice' = [notice EXCEPT ![r] = n], messages' = [messages EXCEPT ![r] = m],
           n.status # "none" <=> notice[r].status # "none",
           m = IF n.status = "PUBLISHED" THEN 1 ELSE 0,
           n.status # "RUNNING" => n.token = 0 /\ ~n.live,
           n.status \in {"none", "RUNNING", "PUBLISHED"} => ~n.wait
    PROVE  RowStep
<1>1. /\ notice \in [Revisions -> NoticeRow] /\ messages \in [Revisions -> Nat]
      /\ approval.revision \in {0, 1, 2}
  BY Types
<1>2. notice' \in [Revisions -> NoticeRow] /\ messages' \in [Revisions -> Nat]
  BY <1>1
<1>3. ASSUME NEW s \in Revisions PROVE NoticeFits(s)'
  <2>1. NoticeFits(s)
    BY DEF RowsFit, NoticesFit
  <2>2. CASE s = r
    <3>1. notice'[s] = n /\ messages'[s] = m
      BY <1>1, <2>2
    <3> QED BY <2>1, <2>2, <3>1 DEF NoticeFits
  <2>3. CASE s # r
    <3>1. notice'[s] = notice[s] /\ messages'[s] = messages[s]
      BY <1>1, <2>3
    <3> QED BY <2>1, <3>1 DEF NoticeFits
  <2> QED BY <2>2, <2>3
<1> QED BY <1>2, <1>3, NotifyingRows DEF NoticesFit

\* The same, where no message is sent.
LEMMA NoticeMoved ==
    ASSUME TypeOK, RowsFit, NEW r \in Revisions, NEW n \in NoticeRow,
           UNCHANGED <<approval, session, events, receipts, messages>>,
           notice' = [notice EXCEPT ![r] = n],
           n.status # "none" <=> notice[r].status # "none",
           n.status = "PUBLISHED" <=> notice[r].status = "PUBLISHED",
           n.status # "RUNNING" => n.token = 0 /\ ~n.live,
           n.status \in {"none", "RUNNING", "PUBLISHED"} => ~n.wait
    PROVE  RowStep
<1>1. PICK m : m = messages[r]
  OBVIOUS
<1>2. m \in Nat /\ messages' = [messages EXCEPT ![r] = m]
  BY <1>1, Types
<1>3. m = IF n.status = "PUBLISHED" THEN 1 ELSE 0
  BY <1>1 DEF RowsFit, NoticesFit, NoticeFits
<1> QED BY <1>2, <1>3, NoticeWritten

\* Whoever delivers a notice holds one that was written.
LEMMA NoticeFacts ==
    ASSUME TypeOK, RowsFit, NEW p \in Proc, Sane(p), proc[p].pc \in {"offerNotice", "publish"}
    PROVE  /\ proc[p].about \in Revisions /\ notice[proc[p].about] \in NoticeRow
           /\ notice[proc[p].about].status # "none"
           /\ NoticeFits(proc[p].about)
           /\ proc[p].about \in 1..approval.revision
<1>1. proc[p].about \in 1..approval.revision
  BY DEF Sane
<1>2. approval.revision \in {0, 1, 2}
  BY Types
<1>3. proc[p].about \in Revisions
  BY <1>1, <1>2 DEF Revisions
<1> QED BY <1>1, <1>2, <1>3, Types DEF RowsFit, NoticesFit, NoticeFits

\* NotificationService.claim leases a notice that is due.
LEMMA ClaimNoticeRows ==
    ASSUME TypeOK, RowsFit, NEW p \in Proc, Sane(p), ClaimNotice(p)
    PROVE  RowStep
<1>1. PICK r : r = proc[p].about
  OBVIOUS
<1>2. PICK n : n = notice[r]
  OBVIOUS
<1>3. r \in Revisions /\ n \in NoticeRow /\ n.status # "none"
  BY <1>1, <1>2, NoticeFacts DEF ClaimNotice
<1>4. CASE n.status \in {"PUBLISHED", "MANUAL_REQUIRED"} \/ n.live \/ n.wait
  BY <1>1, <1>2, <1>4, Staying DEF ClaimNotice, RowsStay
<1>5. CASE ~(n.status \in {"PUBLISHED", "MANUAL_REQUIRED"} \/ n.live \/ n.wait)
  <2>1. PICK m : m = [n EXCEPT !.status = "RUNNING", !.token = n.attempts + 1,
                               !.live = TRUE, !.attempts = n.attempts + 1]
    OBVIOUS
  <2>2. notice' = [notice EXCEPT ![r] = m] /\ UNCHANGED <<approval, session, events, receipts, messages>>
    BY <1>1, <1>2, <1>5, <2>1 DEF ClaimNotice
  <2>5. PICK k : k = n.attempts + 1
    OBVIOUS
  <2>6. k \in Nat
    BY <1>3, <2>5 DEF NoticeRow
  <2>7. m = [n EXCEPT !.status = "RUNNING", !.token = k, !.live = TRUE, !.attempts = k]
    BY <2>1, <2>5
  <2>8. m \in NoticeRow
    BY <1>3, <2>6, <2>7 DEF NoticeRow
  <2>3. m \in NoticeRow /\ m.status = "RUNNING" /\ ~m.wait
    BY <1>3, <1>5, <2>7, <2>8 DEF NoticeRow
  <2>4. n.status # "PUBLISHED"
    BY <1>5
  <2> QED BY <1>2, <1>3, <2>2, <2>3, <2>4, NoticeMoved
<1> QED BY <1>4, <1>5

\* publish sends the message of a held notice that was not sent.
LEMMA PublishRows ==
    ASSUME TypeOK, RowsFit, NEW p \in Proc, Sane(p), Publish(p)
    PROVE  RowStep
<1>1. PICK r : r = proc[p].about
  OBVIOUS
<1>2. PICK n : n = notice[r]
  OBVIOUS
<1>3. r \in Revisions /\ n \in NoticeRow /\ n.live /\ NoticeFits(r)
  BY <1>1, <1>2, NoticeFacts DEF Publish, Holds
<1>4. n.status = "RUNNING" /\ messages[r] = 0 /\ ~n.wait
  BY <1>2, <1>3 DEF NoticeFits
<1>5. PICK m : m = [n EXCEPT !.status = "PUBLISHED", !.token = 0, !.live = FALSE]
  OBVIOUS
<1>6. m \in NoticeRow /\ m.status = "PUBLISHED" /\ m.token = 0 /\ ~m.live /\ ~m.wait
  BY <1>3, <1>4, <1>5 DEF NoticeRow
<1>7. /\ messages' = [messages EXCEPT ![r] = messages[r] + (IF notice[r].status = "PUBLISHED" THEN 0 ELSE 1)]
      /\ notice' = [notice EXCEPT ![r].status = "PUBLISHED", ![r].token = 0, ![r].live = FALSE]
      /\ UNCHANGED <<approval, session, events, receipts>>
  BY <1>1 DEF Publish
<1>8. notice' = [notice EXCEPT ![r] = m]
  <2>1. notice' = [notice EXCEPT ![r] = [notice[r] EXCEPT !.status = "PUBLISHED", !.token = 0, !.live = FALSE]]
    BY <1>3, <1>7, Types
  <2> QED BY <1>2, <1>5, <2>1
<1>9. messages[r] + (IF notice[r].status = "PUBLISHED" THEN 0 ELSE 1) = 1
  BY <1>2, <1>4
<1>10. messages' = [messages EXCEPT ![r] = 1]
  BY <1>7, <1>9
<1>11. 1 \in Nat /\ 1 = IF m.status = "PUBLISHED" THEN 1 ELSE 0
  BY <1>6
<1>12. m.status # "none" <=> notice[r].status # "none"
  BY <1>2, <1>4, <1>6
<1>13. UNCHANGED <<approval, session, events, receipts>>
  BY <1>7
<1>14. m.status # "RUNNING" => m.token = 0 /\ ~m.live
  BY <1>6
<1>15. m.status \in {"none", "RUNNING", "PUBLISHED"} => ~m.wait
  BY <1>6
<1>16. PICK one \in Nat : one = 1
  BY <1>11
<1>17. messages' = [messages EXCEPT ![r] = one] /\ one = IF m.status = "PUBLISHED" THEN 1 ELSE 0
  BY <1>10, <1>11, <1>16
<1>18. r \in Revisions /\ m \in NoticeRow
  BY <1>3, <1>6
<1> QED BY <1>8, <1>12, <1>13, <1>14, <1>15, <1>16, <1>17, <1>18, NoticeWritten

\* A publication that raised waits for its next attempt or the seller.
LEMMA GiveUpRows ==
    ASSUME TypeOK, RowsFit, NEW p \in Proc, Sane(p), GiveUp(p), proc[p].pc = "publish"
    PROVE  RowStep
<1>1. PICK r : r = proc[p].about
  OBVIOUS
<1>2. PICK n : n = notice[r]
  OBVIOUS
<1>3. r \in Revisions /\ n \in NoticeRow /\ NoticeFits(r) /\ proc[p].token # 0
  BY <1>1, <1>2, NoticeFacts DEF Sane
<1>4. CASE n.token # proc[p].token
  BY <1>1, <1>2, <1>4, Staying DEF GiveUp, RowsStay
<1>5. CASE n.token = proc[p].token
  <2>1. n.status = "RUNNING"
    BY <1>2, <1>3, <1>5 DEF NoticeFits
  <2>2. PICK s : s = IF n.attempts >= NotifyLimit THEN "MANUAL_REQUIRED" ELSE "RETRY_WAIT"
    OBVIOUS
  <2>3. PICK m : m = [n EXCEPT !.status = s, !.wait = TRUE, !.token = 0, !.live = FALSE]
    OBVIOUS
  <2>4. notice' = [notice EXCEPT ![r] = m] /\ UNCHANGED <<approval, session, events, receipts, messages>>
    BY <1>1, <1>2, <1>5, <2>2, <2>3 DEF GiveUp
  <2>5. s \in {"MANUAL_REQUIRED", "RETRY_WAIT"}
    BY <2>2
  <2>6. m \in NoticeRow /\ m.status = s /\ m.token = 0 /\ ~m.live
    BY <1>3, <2>3, <2>5 DEF NoticeRow
  <2>7. m.status # "none" /\ m.status # "PUBLISHED" /\ m.status # "RUNNING"
    BY <2>5, <2>6
  <2> QED BY <1>2, <1>3, <2>1, <2>4, <2>6, <2>7, NoticeMoved
<1> QED BY <1>4, <1>5

\* The seller's NOTIFY makes a stuck notice due again.
LEMMA RetryNoticeRows ==
    ASSUME TypeOK, RowsFit, NEW r \in Revisions, RetryNotice(r)
    PROVE  RowStep
<1>1. PICK n : n = notice[r]
  OBVIOUS
<1>2. PICK m : m = [n EXCEPT !.status = "PENDING", !.wait = FALSE, !.token = 0, !.live = FALSE]
  OBVIOUS
<1>3. n \in NoticeRow /\ n.status = "MANUAL_REQUIRED"
  BY <1>1, Types DEF RetryNotice
<1>4. /\ notice' = [notice EXCEPT ![r].status = "PENDING", ![r].wait = FALSE,
                                  ![r].token = 0, ![r].live = FALSE]
      /\ UNCHANGED <<approval, session, events, receipts, messages>>
  BY DEF RetryNotice
<1>5. notice' = [notice EXCEPT ![r] = m]
  <2>1. notice' = [notice EXCEPT ![r] = [notice[r] EXCEPT !.status = "PENDING", !.wait = FALSE,
                                                         !.token = 0, !.live = FALSE]]
    BY <1>4, Types
  <2> QED BY <1>1, <1>2, <2>1
<1>6. m \in NoticeRow /\ m.status = "PENDING" /\ m.token = 0 /\ ~m.live
  BY <1>2, <1>3 DEF NoticeRow
<1> QED BY <1>1, <1>3, <1>4, <1>5, <1>6, NoticeMoved

\* A lease or a wait of a notice runs out.
LEMMA NoticeClockRows ==
    ASSUME TypeOK, RowsFit, NEW r \in Revisions, NoticeLeaseEnds(r) \/ NoticeWaitEnds(r)
    PROVE  RowStep
<1>1. PICK n : n = notice[r]
  OBVIOUS
<1>2. n \in NoticeRow /\ NoticeFits(r)
  BY <1>1, Types DEF RowsFit, NoticesFit
<1>3. CASE NoticeLeaseEnds(r)
  <2>1. PICK m : m = [n EXCEPT !.live = FALSE]
    OBVIOUS
  <2>2. notice' = [notice EXCEPT ![r] = m] /\ UNCHANGED <<approval, session, events, receipts, messages>>
    <3>1. notice' = [notice EXCEPT ![r].live = FALSE]
          /\ UNCHANGED <<approval, session, events, receipts, messages>>
      BY <1>3 DEF NoticeLeaseEnds
    <3>2. [notice EXCEPT ![r].live = FALSE] = [notice EXCEPT ![r] = [notice[r] EXCEPT !.live = FALSE]]
      BY Types
    <3> QED BY <1>1, <2>1, <3>1, <3>2
  <2>3. m \in NoticeRow /\ m.status = n.status /\ m.token = n.token /\ m.wait = n.wait /\ ~m.live
    BY <1>2, <2>1 DEF NoticeRow
  <2>4. n.status # "RUNNING" => n.token = 0
    BY <1>1, <1>2 DEF NoticeFits
  <2>5. n.status \in {"none", "RUNNING", "PUBLISHED"} => ~n.wait
    BY <1>1, <1>2 DEF NoticeFits
  <2> QED BY <1>1, <2>2, <2>3, <2>4, <2>5, NoticeMoved
<1>4. CASE NoticeWaitEnds(r)
  <2>1. PICK m : m = [n EXCEPT !.wait = FALSE]
    OBVIOUS
  <2>2. notice' = [notice EXCEPT ![r] = m] /\ UNCHANGED <<approval, session, events, receipts, messages>>
    <3>1. notice' = [notice EXCEPT ![r].wait = FALSE]
          /\ UNCHANGED <<approval, session, events, receipts, messages>>
      BY <1>4 DEF NoticeWaitEnds
    <3>2. [notice EXCEPT ![r].wait = FALSE] = [notice EXCEPT ![r] = [notice[r] EXCEPT !.wait = FALSE]]
      BY Types
    <3> QED BY <1>1, <2>1, <3>1, <3>2
  <2>3. m \in NoticeRow /\ m.status = n.status /\ m.token = n.token /\ ~m.wait /\ m.live = n.live
    BY <1>2, <2>1 DEF NoticeRow
  <2>4. n.status # "RUNNING" => n.token = 0 /\ ~n.live
    BY <1>1, <1>2 DEF NoticeFits
  <2> QED BY <1>1, <2>2, <2>3, <2>4, NoticeMoved
<1> QED BY <1>3, <1>4

\* A runner that finds its thread at the end acknowledges before it goes on.
LEMMA InspectRows ==
    ASSUME TypeOK, RowsFit, GraphFits(thread), NEW p \in Proc, Inspect(p)
    PROVE  RowStep
<1>1. PICK result : result = thread.result
  OBVIOUS
<1>2. UNCHANGED <<approval, session, receipts, notice, messages>>
  BY DEF Inspect
<1>3. CASE events' = events
  BY <1>2, <1>3, Staying DEF RowsStay
<1>4. CASE events' # events
  <2>1. thread.next = "end" /\ events' = Acknowledged(Covered(result))
    BY <1>1, <1>4 DEF Inspect
  <2>2. result # NoResult /\ \E e \in Events : receipts[e] = result
    BY <1>1, <2>1 DEF GraphFits
  <2>3. Acks /\ events' \in [Events -> EventStatus]
    BY <2>1, <2>2, CoveredIsSettled
  <2> QED BY <1>2, <2>3, AcknowledgingRows
<1> QED BY <1>3, <1>4

\* A runner that stopped at an interrupt or the end acknowledges what it covered.
LEMMA AcknowledgeRows ==
    ASSUME TypeOK, RowsFit, NEW p \in Proc, Sane(p), Acknowledge(p)
    PROVE  RowStep
<1>1. PICK result : result = proc[p].graph.result
  OBVIOUS
<1>2. UNCHANGED <<approval, session, receipts, notice, messages>>
  BY DEF Acknowledge
<1>3. CASE events' = events
  BY <1>2, <1>3, Staying DEF RowsStay
<1>4. CASE events' # events /\ proc[p].graph.next = "end"
  <2>1. events' = Acknowledged(Covered(result))
    BY <1>1, <1>4 DEF Acknowledge
  <2>2. result # NoResult /\ \E e \in Events : receipts[e] = result
    BY <1>1, <1>4 DEF Sane, GraphFits
  <2>3. Acks /\ events' \in [Events -> EventStatus]
    BY <2>1, <2>2, CoveredIsSettled
  <2> QED BY <1>2, <2>3, AcknowledgingRows
<1>5. CASE events' # events /\ proc[p].graph.next # "end"
  <2>1. events' = Acknowledged({"requested"})
    BY <1>5 DEF Acknowledge
  <2>2. events \in [Events -> EventStatus]
    BY Types
  <2>3. events' \in [Events -> EventStatus]
    BY <2>1, <2>2 DEF Acknowledged, EventStatus
  <2>4. Acks
    BY <2>1, <2>2 DEF Acks, Acknowledged, EventStatus
  <2> QED BY <1>2, <2>3, <2>4, AcknowledgingRows
<1> QED BY <1>3, <1>4, <1>5

\* archive marks the session and touches no settlement.
LEMMA ArchiveRows ==
    ASSUME TypeOK, RowsFit, Archive
    PROVE  RowStep
<1>1. UNCHANGED <<approval, events, receipts, notice, messages>>
  BY DEF Archive
<1>2. session' = [session EXCEPT !.archived = TRUE] /\ session.status # "open"
  BY Types DEF Archive, Archivable, RowsFit, SessionFits
<1>3. /\ session' \in [status : {"open", "agreed", "closed"}, archived : BOOLEAN]
      /\ session'.status = session.status /\ session'.archived
  BY <1>2, Types
<1>4. ApprovalFits' /\ EventsFit' /\ NoticesFit'
  BY <1>1 DEF RowsFit, ApprovalFits, EventsFit, NoticesFit, NoticeFits
<1>5. ReceiptsFit'
  BY <1>1 DEF RowsFit, ReceiptsFit, Resulted
<1>6. SessionFits'
  BY <1>1, <1>2, <1>3 DEF RowsFit, SessionFits
<1>7. RowTypes'
  BY <1>1, <1>3, Types DEF RowTypes
<1>8. Onward
  BY <1>1, Types DEF Onward, ApprovalRow
<1> QED BY <1>1, <1>3, <1>4, <1>5, <1>6, <1>7, <1>8 DEF RowStep, RowsFit

\* Everything that processes, the clock and retention do besides.
LEMMA OtherRows ==
    ASSUME NEW p \in Proc,
           \/ Pick(p) \/ Lock(p) \/ Busy(p) \/ Claim(p) \/ Enter(p) \/ Save(p) \/ LoadNode(p)
           \/ WaitNode(p) \/ ApplyStale(p) \/ NoticeNode(p) \/ Release(p) \/ Fail(p)
           \/ Crash(p) \/ LoseConnection(p) \/ Raise(p) \/ LeaseEnds \/ WaitEnds
    PROVE  RowsStay
<1>1. CASE Pick(p) \/ Lock(p) \/ Busy(p)
  BY <1>1 DEF Pick, Select, SelectNotice, Lock, Busy, rows, RowsStay
<1>2. CASE Claim(p) \/ Enter(p) \/ Save(p) \/ LoadNode(p)
  BY <1>2 DEF Claim, Enter, Save, LoadNode, rows, RowsStay
<1>3. CASE WaitNode(p) \/ ApplyStale(p) \/ NoticeNode(p)
  BY <1>3 DEF WaitNode, ApplyStale, NoticeNode, rows, RowsStay
<1>4. CASE Release(p) \/ Fail(p)
  BY <1>4 DEF Release, Fail, RowsStay
<1>5. CASE Crash(p) \/ LoseConnection(p) \/ Raise(p)
  BY <1>5 DEF Crash, LoseConnection, Raise, rows, RowsStay
<1>6. CASE LeaseEnds \/ WaitEnds
  BY <1>6 DEF LeaseEnds, WaitEnds, RowsStay
<1> QED BY <1>1, <1>2, <1>3, <1>4, <1>5, <1>6

\* The actions, and what each does to the rows.
LEMMA RunnerRows ==
    ASSUME TypeOK, RowsFit, GraphFits(thread), NEW p \in Proc, Sane(p), Runner(p) \/ PublishFails(p)
    PROVE  RowStep
<1>1. CASE Claim(p) \/ Enter(p) \/ Save(p) \/ LoadNode(p) \/ WaitNode(p) \/ ApplyStale(p)
           \/ NoticeNode(p) \/ Release(p) \/ Fail(p)
  BY <1>1, OtherRows, Staying
<1>2. CASE ApplyNode(p)
  <2>1. GraphFits(proc[p].graph) /\ proc[p].graph.next = "apply"
    BY <1>2 DEF Sane, ApplyNode
  <2>2. PICK e : e = proc[p].graph.event
    OBVIOUS
  <2>3. Applies(e) /\ e \in Events
    BY <1>2, <2>1, <2>2, Applying
  <2>4. UNCHANGED <<session, messages>>
    BY <1>2 DEF ApplyNode
  <2> QED BY <2>3, <2>4, ApplyingRows
<1>3. CASE PublishLate(p) \/ PublishFails(p)
  <2>1. GiveUp(p) /\ proc[p].pc = "publish"
    BY <1>3 DEF PublishLate, PublishFails
  <2> QED BY <2>1, GiveUpRows
<1> QED BY <1>1, <1>2, <1>3, InspectRows, ReconcileRows, AcknowledgeRows, ClaimNoticeRows,
           PublishRows DEF Runner

\* Every action of the runtime does one of these things to the rows.
LEMMA RowsNext ==
    ASSUME IInv, [Next]_vars
    PROVE  RowStep
<1>1. TypeOK /\ RowsFit /\ GraphFits(thread) /\ \A p \in Proc : Sane(p)
  BY DEF IInv, ThreadFits, Processes
<1>2. ASSUME NEW p \in Proc, Pick(p) \/ Lock(p) \/ Busy(p) \/ Crash(p) \/ LoseConnection(p) \/ Raise(p)
      PROVE  RowStep
  BY <1>1, <1>2, OtherRows, Staying
<1>3. ASSUME NEW p \in Proc, Runner(p) \/ PublishFails(p) PROVE RowStep
  BY <1>1, <1>3, RunnerRows
<1>4. CASE Clock
  <2>1. CASE LeaseEnds \/ WaitEnds
    BY <1>1, <2>1, Staying DEF LeaseEnds, WaitEnds, RowsStay
  <2>2. ASSUME NEW r \in Revisions, NoticeLeaseEnds(r) \/ NoticeWaitEnds(r) PROVE RowStep
    BY <1>1, <2>2, NoticeClockRows
  <2> QED BY <1>4, <2>1, <2>2 DEF Clock
<1>5. CASE UNCHANGED vars
  BY <1>1, <1>5, Staying DEF vars, RowsStay
<1> QED BY <1>1, <1>2, <1>3, <1>4, <1>5, BusinessRows, ArchiveRows, RetryNoticeRows DEF Next

-------------------------------------------------------------------------------
(* The process that acts.                                                      *)

PCs == {"idle", "lock", "claim", "reconcile", "inspect", "enter", "save", "load", "wait", "apply",
        "notice", "offerNotice", "publish", "acknowledge", "release", "fail"}

\* Only process p moves, and nobody else comes to the lock.
Alone(p) ==
    /\ proc' \in [Proc -> ProcRow] /\ \A q \in Proc \ {p} : proc'[q] = proc[q]
    /\ lock' \in Proc \union {Nobody} /\ \A q \in Proc \ {p} : lock' = q => lock = q

\* A process that holds the lock or the lease of an archived thread is about to leave it.
Leaves(p) == session.archived /\ (lock' = p \/ Owns(p)') => Ending(p)'

Acts(p) == Alone(p) /\ Sane(p)' /\ Leaves(p)

\* What the checkpoint promises to those who have begun.
ThreadStays == thread.next # "none" => session'.archived \/ thread'.next # "none"

\* Writing the record of one process leaves the others.
LEMMA Turning ==
    ASSUME TypeOK, NEW p \in Proc, NEW x \in ProcRow, proc' = [proc EXCEPT ![p] = x]
    PROVE  /\ proc' \in [Proc -> ProcRow] /\ \A q \in Proc \ {p} : proc'[q] = proc[q]
           /\ proc'[p] = x
BY Types

\* Step moves the program counter alone.
LEMMA Stepping ==
    ASSUME TypeOK, NEW p \in Proc, NEW c \in PCs, Step(p, c)
    PROVE  /\ proc' \in [Proc -> ProcRow] /\ \A q \in Proc \ {p} : proc'[q] = proc[q]
           /\ proc'[p].pc = c /\ proc'[p].role = proc[p].role /\ proc'[p].epoch = proc[p].epoch
           /\ proc'[p].graph = proc[p].graph /\ proc'[p].about = proc[p].about
           /\ proc'[p].token = proc[p].token /\ proc'[p].conflict = proc[p].conflict
<1>1. proc \in [Proc -> ProcRow] /\ proc[p] \in ProcRow
  BY Types
<1>2. PICK x : x = [proc[p] EXCEPT !.pc = c]
  OBVIOUS
<1>3. proc' = [proc EXCEPT ![p] = x]
  BY <1>1, <1>2 DEF Step
<1>4. x \in ProcRow
  BY <1>1, <1>2 DEF ProcRow, PCs
<1>5. /\ x.pc = c /\ x.role = proc[p].role /\ x.epoch = proc[p].epoch
      /\ x.graph = proc[p].graph /\ x.about = proc[p].about
      /\ x.token = proc[p].token /\ x.conflict = proc[p].conflict
  BY <1>1, <1>2 DEF ProcRow
<1> QED BY <1>3, <1>4, <1>5, Turning

\* What a graph holds stays true, because receipts are never taken back.
LEMMA GraphKept ==
    ASSUME RowStep, NEW p \in Proc, GraphFits(proc[p].graph), proc'[p].graph = proc[p].graph
    PROVE  GraphFits(proc[p].graph)'
BY DEF RowStep, Onward, GraphFits

\* A step to a place where nothing is promised.
LEMMA PlainStep ==
    ASSUME IInv, RowStep, NEW p \in Proc, NEW c \in {"inspect", "fail"}, Step(p, c),
           proc[p].pc # "idle", UNCHANGED <<exec, lock>>
    PROVE  Acts(p)
<1>1. Sane(p)
  BY DEF IInv, Processes
<1>2. c \in PCs
  BY DEF PCs
<1>3. /\ proc' \in [Proc -> ProcRow] /\ \A q \in Proc \ {p} : proc'[q] = proc[q]
      /\ proc'[p].pc = c /\ proc'[p].epoch = proc[p].epoch
      /\ proc'[p].graph = proc[p].graph /\ proc'[p].conflict = proc[p].conflict
  BY <1>2, Stepping DEF IInv
<1>4. GraphFits(proc[p].graph)'
  BY <1>1, <1>3, GraphKept DEF Sane
<1>5. Alone(p)
  BY <1>3 DEF Alone, IInv, TypeOK
<1>6. Sane(p)'
  BY <1>1, <1>3, <1>4 DEF Sane, Begun, RowStep
<1>7. Ending(p)'
  BY <1>3 DEF Ending
<1> QED BY <1>5, <1>6, <1>7 DEF Acts, Leaves

\* A process that leaves drops its number, its lock and its place.
LEMMA Leaving ==
    ASSUME IInv, NEW p \in Proc, Leave(p), exec'.epoch \in Nat
    PROVE  Acts(p) /\ proc'[p].epoch = 0
<1>1. Idle \in ProcRow
  BY DEF Idle, ProcRow, NoThread, NoResult, Graphs, Results
<1>2. proc' = [proc EXCEPT ![p] = Idle] /\ lock' = IF lock = p THEN Nobody ELSE lock
  BY DEF Leave
<1>3. /\ proc' \in [Proc -> ProcRow] /\ \A q \in Proc \ {p} : proc'[q] = proc[q]
      /\ proc'[p] = Idle
  BY <1>1, <1>2, Turning DEF IInv
<1>4. p # Nobody /\ lock \in Proc \union {Nobody}
  BY ConstantsAssumption DEF IInv, TypeOK
<1>5. lock' # p /\ lock' \in Proc \union {Nobody} /\ \A q \in Proc \ {p} : lock' = q => lock = q
  BY <1>2, <1>4, ConstantsAssumption
<1>8. Alone(p)
  BY <1>3, <1>5 DEF Alone
<1>9. proc'[p].epoch = 0
  BY <1>3 DEF Idle
<1>6. Sane(p)'
  BY <1>3 DEF Sane, Idle, Begun, GraphFits, NoThread
<1>7. ~Owns(p)'
  BY <1>3 DEF Owns, Idle
<1> QED BY <1>5, <1>6, <1>7, <1>8, <1>9 DEF Acts, Leaves

\* Who keeps lock and lease of an archived thread is on the way out as before.
LEMMA Holding ==
    ASSUME IInv, NEW p \in Proc, UNCHANGED <<exec, lock>>, proc'[p].epoch = proc[p].epoch,
           session.archived /\ Ending(p) => Ending(p)'
    PROVE  Leaves(p)
BY DEF IInv, ArchiveFits, Leaves, Owns

\* A step that leaves the lock alone lets nobody in.
LEMMA Unlocked ==
    ASSUME IInv, NEW p \in Proc, UNCHANGED lock,
           proc' \in [Proc -> ProcRow], \A q \in Proc \ {p} : proc'[q] = proc[q]
    PROVE  Alone(p)
BY DEF Alone, IInv, TypeOK

\* The worker picks an approval or a notice that is due.
LEMMA PickActs ==
    ASSUME IInv, RowStep, NEW p \in Proc, Pick(p)
    PROVE  Acts(p) /\ proc'[p].epoch = proc[p].epoch
<1>1. Sane(p) /\ proc[p] \in ProcRow /\ TypeOK
  BY Types DEF IInv, Processes
<1>2. proc[p].pc = "idle" /\ UNCHANGED <<rows, lock, thread>>
  BY DEF Pick, Select, SelectNotice
<1>3. CASE Select(p)
  <2>1. PICK x : x = [proc[p] EXCEPT !.pc = "lock", !.role = "runner"]
    OBVIOUS
  <2>2. proc' = [proc EXCEPT ![p] = x]
    BY <1>3, <2>1, Types DEF Select, IInv
  <2>3. x \in ProcRow /\ x.pc = "lock" /\ x.role = "runner" /\ x.epoch = proc[p].epoch
        /\ x.graph = proc[p].graph /\ x.conflict = proc[p].conflict
    BY <1>1, <2>1 DEF ProcRow
  <2>4. proc'[p] = x /\ proc' \in [Proc -> ProcRow] /\ \A q \in Proc \ {p} : proc'[q] = proc[q]
    BY <1>1, <2>2, <2>3, Turning
  <2>5. GraphFits(proc[p].graph)'
    BY <1>1, <2>3, <2>4, GraphKept DEF Sane
  <2>6. Sane(p)'
    BY <1>1, <1>2, <2>3, <2>4, <2>5 DEF Sane, Begun, rows
  <2>7. Leaves(p)
    BY <1>2, <2>3, <2>4, Holding DEF Ending, rows
  <2> QED BY <1>2, <2>3, <2>4, <2>6, <2>7, Unlocked DEF Acts
<1>4. CASE \E r \in Revisions : SelectNotice(p, r)
  <2>0. PICK r \in Revisions : SelectNotice(p, r)
    BY <1>4
  <2>1. PICK x : x = [proc[p] EXCEPT !.pc = "lock", !.role = "notifier", !.about = r]
    OBVIOUS
  <2>2. proc' = [proc EXCEPT ![p] = x]
    BY <2>0, <2>1, Types DEF SelectNotice, IInv
  <2>3. x \in ProcRow /\ x.pc = "lock" /\ x.role = "notifier" /\ x.epoch = proc[p].epoch
        /\ x.graph = proc[p].graph /\ x.conflict = proc[p].conflict /\ x.about = r
    BY <1>1, <2>1 DEF ProcRow
  <2>4. proc'[p] = x /\ proc' \in [Proc -> ProcRow] /\ \A q \in Proc \ {p} : proc'[q] = proc[q]
    BY <1>1, <2>2, <2>3, Turning
  <2>5. GraphFits(proc[p].graph)'
    BY <1>1, <2>3, <2>4, GraphKept DEF Sane
  <2>6. r \in 1..approval.revision
    <3>1. NoticeFits(r) /\ notice[r].status # "none"
      BY <2>0 DEF SelectNotice, IInv, RowsFit, NoticesFit
    <3> QED BY <1>1, <3>1, Types DEF NoticeFits, Revisions
  <2>7. Sane(p)'
    BY <1>1, <1>2, <2>3, <2>4, <2>5, <2>6 DEF Sane, Begun, rows
  <2>8. Leaves(p)
    BY <1>2, <2>3, <2>4, Holding DEF Ending, rows
  <2> QED BY <1>2, <2>3, <2>4, <2>7, <2>8, Unlocked DEF Acts
<1> QED BY <1>3, <1>4 DEF Pick

\* The thread's advisory lock is taken by one process.
LEMMA LockActs ==
    ASSUME IInv, RowStep, NEW p \in Proc, Lock(p)
    PROVE  Acts(p) /\ proc'[p].epoch = proc[p].epoch
<1>1. Sane(p) /\ proc[p] \in ProcRow /\ TypeOK
  BY Types DEF IInv, Processes
<1>2. PICK c : c = IF proc[p].role = "runner" THEN "claim" ELSE "offerNotice"
  OBVIOUS
<1>3. c \in PCs /\ Step(p, c) /\ proc[p].pc = "lock" /\ lock = Nobody /\ lock' = p
      /\ UNCHANGED <<rows, thread>>
  BY <1>2 DEF Lock, PCs
<1>4. /\ proc' \in [Proc -> ProcRow] /\ \A q \in Proc \ {p} : proc'[q] = proc[q]
      /\ proc'[p].pc = c /\ proc'[p].role = proc[p].role /\ proc'[p].epoch = proc[p].epoch
      /\ proc'[p].graph = proc[p].graph /\ proc'[p].about = proc[p].about
      /\ proc'[p].conflict = proc[p].conflict
  BY <1>1, <1>3, Stepping
<1>5. GraphFits(proc[p].graph)'
  BY <1>1, <1>4, GraphKept DEF Sane
<1>6. Sane(p)'
  BY <1>1, <1>2, <1>3, <1>4, <1>5 DEF Sane, Begun, rows
<1>7. Ending(p)'
  BY <1>2, <1>4 DEF Ending
<1>8. Alone(p)
  BY <1>3, <1>4 DEF Alone
<1> QED BY <1>4, <1>6, <1>7, <1>8 DEF Acts, Leaves

\* claim draws the next number, or leaves the row alone and ends.
LEMMA ClaimActs ==
    ASSUME IInv, RowStep, NEW p \in Proc, Claim(p)
    PROVE  /\ Acts(p)
           /\ \/ exec' = exec /\ proc'[p].epoch = 0
              \/ /\ exec' = [exec EXCEPT !.owner = exec.epoch + 1, !.epoch = exec.epoch + 1, !.live = TRUE]
                 /\ ~exec.recovery /\ proc'[p].epoch = exec.epoch + 1
<1>1. Sane(p) /\ proc[p] \in ProcRow /\ TypeOK /\ exec \in ExecRow
  BY Types DEF IInv, Processes
<1>2. proc[p].pc = "claim" /\ UNCHANGED thread
  BY DEF Claim
<1>3. CASE exec.recovery \/ exec.live \/ exec.wait
  BY <1>1, <1>3, Leaving DEF Claim, ExecRow
<1>4. CASE ~(exec.recovery \/ exec.live \/ exec.wait)
  <2>0. PICK k : k = exec.epoch + 1
    OBVIOUS
  <2>1. PICK x : x = [proc[p] EXCEPT !.pc = "reconcile", !.epoch = k]
    OBVIOUS
  <2>2. /\ exec' = [exec EXCEPT !.owner = k, !.epoch = k, !.live = TRUE]
        /\ proc' = [proc EXCEPT ![p].pc = "reconcile", ![p].epoch = k] /\ UNCHANGED lock
    BY <1>4, <2>0 DEF Claim
  <2>3. proc' = [proc EXCEPT ![p] = x]
    BY <2>1, <2>2, Types DEF IInv
  <2>4. k \in Nat /\ exec'.epoch = k
    BY <1>1, <2>0, <2>2 DEF ExecRow
  <2>5. x \in ProcRow
    BY <1>1, <2>1, <2>4 DEF ProcRow
  <2>6. x.pc = "reconcile" /\ x.epoch = k /\ x.graph = proc[p].graph /\ x.conflict = proc[p].conflict
    BY <1>1, <2>1 DEF ProcRow
  <2>7. proc'[p] = x /\ proc' \in [Proc -> ProcRow] /\ \A q \in Proc \ {p} : proc'[q] = proc[q]
    BY <1>1, <2>3, <2>5, Turning
  <2>8. GraphFits(proc[p].graph)'
    BY <1>1, <2>6, <2>7, GraphKept DEF Sane
  <2>9. Sane(p)'
    BY <1>1, <2>4, <2>6, <2>7, <2>8 DEF Sane, Begun, RowStep
  <2>10. Ending(p)'
    BY <2>6, <2>7 DEF Ending
  <2> QED BY <1>4, <2>0, <2>2, <2>6, <2>7, <2>9, <2>10, Unlocked DEF Acts, Leaves
<1> QED BY <1>3, <1>4

\* Inspection ends in a failure, a conflict, or with the graph that the checkpoint holds.
LEMMA InspectActs ==
    ASSUME IInv, RowStep, NEW p \in Proc, Inspect(p)
    PROVE  Acts(p) /\ proc'[p].epoch = proc[p].epoch
<1>1. Sane(p) /\ proc[p] \in ProcRow /\ TypeOK /\ ThreadFits
  BY Types DEF IInv, Processes
<1>2. proc[p].pc = "inspect" /\ UNCHANGED <<approval, session, exec, receipts, lock, thread>>
  BY DEF Inspect
<1>3. ASSUME Step(p, "fail") PROVE Acts(p) /\ proc'[p].epoch = proc[p].epoch
  BY <1>1, <1>2, <1>3, PlainStep, Stepping DEF PCs
<1>4. ASSUME proc' = [proc EXCEPT ![p].pc = "fail", ![p].conflict = TRUE],
             thread = NoThread, exec.saved \/ \E e \in Events : receipts[e] # NoResult
      PROVE  Acts(p) /\ proc'[p].epoch = proc[p].epoch
  <2>1. PICK x : x = [proc[p] EXCEPT !.pc = "fail", !.conflict = TRUE]
    OBVIOUS
  <2>2. proc' = [proc EXCEPT ![p] = x]
    BY <1>4, <2>1, Types DEF IInv
  <2>3. x \in ProcRow /\ x.pc = "fail" /\ x.epoch = proc[p].epoch /\ x.graph = proc[p].graph
    BY <1>1, <2>1 DEF ProcRow
  <2>4. proc'[p] = x /\ proc' \in [Proc -> ProcRow] /\ \A q \in Proc \ {p} : proc'[q] = proc[q]
    BY <1>1, <2>2, <2>3, Turning
  <2>5. session.archived
    BY <1>1, <1>4 DEF ThreadFits, NoThread, Resulted
  <2>6. GraphFits(proc[p].graph)'
    BY <1>1, <2>3, <2>4, GraphKept DEF Sane
  <2>7. Sane(p)'
    BY <1>1, <1>2, <2>3, <2>4, <2>5, <2>6 DEF Sane, Begun
  <2>8. Ending(p)'
    BY <2>3, <2>4 DEF Ending
  <2> QED BY <1>2, <2>3, <2>4, <2>7, <2>8, Unlocked DEF Acts, Leaves
<1>5. ASSUME proc' = [proc EXCEPT ![p].pc = "enter", ![p].graph = thread],
             ~(thread = NoThread /\ (exec.saved \/ \E e \in Events : receipts[e] # NoResult))
      PROVE  Acts(p) /\ proc'[p].epoch = proc[p].epoch
  <2>1. PICK x : x = [proc[p] EXCEPT !.pc = "enter", !.graph = thread]
    OBVIOUS
  <2>2. proc' = [proc EXCEPT ![p] = x]
    BY <1>5, <2>1, Types DEF IInv
  <2>3. x \in ProcRow /\ x.pc = "enter" /\ x.epoch = proc[p].epoch /\ x.graph = thread
        /\ x.conflict = proc[p].conflict
    BY <1>1, <2>1, Types DEF ProcRow
  <2>4. proc'[p] = x /\ proc' \in [Proc -> ProcRow] /\ \A q \in Proc \ {p} : proc'[q] = proc[q]
    BY <1>1, <2>2, <2>3, Turning
  <2>5. GraphFits(proc[p].graph)'
    BY <1>1, <1>2, <2>3, <2>4 DEF ThreadFits, GraphFits
  <2>6. Sane(p)'
    BY <1>1, <1>2, <2>3, <2>4, <2>5 DEF Sane, Begun
  <2>7. session.archived => thread.next = "end"
    BY <1>1, <1>5 DEF IInv, ArchiveFits, ThreadFits, Resulted
  <2>8. session.archived => Ending(p)'
    BY <2>3, <2>4, <2>7 DEF Ending
  <2> QED BY <1>2, <2>3, <2>4, <2>6, <2>8, Unlocked DEF Acts, Leaves
<1> QED BY <1>3, <1>4, <1>5 DEF Inspect

\* The graph enters at the node its checkpoint names.
LEMMA EnterActs ==
    ASSUME IInv, RowStep, NEW p \in Proc, Enter(p)
    PROVE  Acts(p) /\ proc'[p].epoch = proc[p].epoch
<1>1. Sane(p) /\ proc[p] \in ProcRow /\ TypeOK /\ proc[p].graph \in Graphs
  BY Types DEF IInv, Processes, ProcRow
<1>2. proc[p].pc = "enter" /\ UNCHANGED <<rows, lock, thread>>
  BY DEF Enter
<1>3. PICK g : g = proc[p].graph
  OBVIOUS
<1>4. session.archived => ~(\E e \in Events : events[e] = "pending")
  BY DEF IInv, ArchiveFits
<1>5. CASE g.next = "none" \/ (g.next = "end" /\ \E e \in Events : events[e] = "pending")
  <2>1. PICK x : x = [proc[p] EXCEPT !.pc = "save", !.graph = Fresh]
    OBVIOUS
  <2>2. proc' = [proc EXCEPT ![p] = x]
    BY <1>3, <1>5, <2>1 DEF Enter
  <2>3. Fresh \in Graphs
    BY DEF Fresh, Graphs, NoResult, Results
  <2>4. x \in ProcRow /\ x.pc = "save" /\ x.epoch = proc[p].epoch /\ x.graph = Fresh
        /\ x.conflict = proc[p].conflict
    BY <1>1, <2>1, <2>3 DEF ProcRow
  <2>5. proc'[p] = x /\ proc' \in [Proc -> ProcRow] /\ \A q \in Proc \ {p} : proc'[q] = proc[q]
    BY <1>1, <2>2, <2>4, Turning
  <2>6. Sane(p)'
    BY <1>1, <1>2, <2>4, <2>5 DEF Sane, Begun, GraphFits, Fresh, rows
  <2>7. ~(session.archived /\ Ending(p))
    BY <1>2, <1>3, <1>4, <1>5 DEF Ending
  <2> QED BY <1>2, <2>4, <2>5, <2>6, <2>7, Holding, Unlocked DEF Acts, rows
<1>6. CASE g.next = "interrupted" /\ Terminal # "none"
  <2>0. PICK t : t = Terminal
    OBVIOUS
  <2>1. PICK h : h = [g EXCEPT !.next = "apply", !.event = t]
    OBVIOUS
  <2>2. PICK x : x = [proc[p] EXCEPT !.pc = "save", !.graph = h]
    OBVIOUS
  <2>3. proc' = [proc EXCEPT ![p] = x]
    <3>1. proc' = [proc EXCEPT ![p] = [proc[p] EXCEPT !.pc = "save", !.graph.next = "apply",
                                                      !.graph.event = t]]
      BY <1>3, <1>6, <2>0 DEF Enter
    <3>2. [proc[p] EXCEPT !.pc = "save", !.graph.next = "apply", !.graph.event = t] = x
      BY <1>1, <1>3, <2>1, <2>2 DEF ProcRow
    <3> QED BY <3>1, <3>2
  <2>4. t \in Events /\ approval.status # "PENDING"
    BY <1>6, <2>0 DEF Terminal, Events
  <2>5. h \in Graphs /\ h.next = "apply" /\ h.event = t
    BY <1>1, <1>3, <2>1, <2>4 DEF Graphs
  <2>6. x \in ProcRow /\ x.pc = "save" /\ x.epoch = proc[p].epoch /\ x.graph = h
        /\ x.conflict = proc[p].conflict
    BY <1>1, <2>2, <2>5 DEF ProcRow
  <2>7. proc'[p] = x /\ proc' \in [Proc -> ProcRow] /\ \A q \in Proc \ {p} : proc'[q] = proc[q]
    BY <1>1, <2>3, <2>6, Turning
  <2>8. Sane(p)'
    BY <1>1, <1>2, <2>4, <2>5, <2>6, <2>7 DEF Sane, Begun, GraphFits, Events, rows
  <2>9. ~Ending(p)
    BY <1>2, <1>3, <1>6 DEF Ending
  <2> QED BY <1>2, <2>6, <2>7, <2>8, <2>9, Holding, Unlocked DEF Acts, rows
<1>7. ASSUME NEW c \in {"acknowledge", "load", "wait", "apply", "notice"},
             proc' = [proc EXCEPT ![p] = [proc[p] EXCEPT !.pc = c]],
             c = "acknowledge" => g.next \in {"interrupted", "end"},
             c # "acknowledge" => g.next = c
      PROVE  Acts(p) /\ proc'[p].epoch = proc[p].epoch
  <2>1. PICK x : x = [proc[p] EXCEPT !.pc = c]
    OBVIOUS
  <2>2. x \in ProcRow /\ x.pc = c /\ x.epoch = proc[p].epoch /\ x.graph = g
        /\ x.conflict = proc[p].conflict
    BY <1>1, <1>3, <2>1 DEF ProcRow
  <2>3. proc'[p] = x /\ proc' \in [Proc -> ProcRow] /\ \A q \in Proc \ {p} : proc'[q] = proc[q]
    BY <1>1, <1>7, <2>1, <2>2, Turning
  <2>4. GraphFits(proc[p].graph)'
    BY <1>1, <1>3, <2>2, <2>3, GraphKept DEF Sane
  <2>5. Begun(p)
    BY <1>2, <1>3, <1>7 DEF Begun
  <2>6. Sane(p)'
    BY <1>1, <1>2, <1>3, <1>7, <2>2, <2>3, <2>4, <2>5 DEF Sane, rows
  <2>7. session.archived /\ Ending(p) => Ending(p)'
    BY <1>2, <1>3, <1>7, <2>2, <2>3 DEF Ending
  <2> QED BY <1>2, <2>2, <2>3, <2>6, <2>7, Holding, Unlocked DEF Acts, rows
<1>8. CASE /\ ~(g.next = "none" \/ (g.next = "end" /\ \E e \in Events : events[e] = "pending"))
           /\ ~(g.next = "interrupted" /\ Terminal # "none")
  <2>1. CASE g.next \in {"interrupted", "end"}
    <3>1. proc' = [proc EXCEPT ![p] = [proc[p] EXCEPT !.pc = "acknowledge"]]
      BY <1>3, <1>8, <2>1 DEF Enter
    <3> QED BY <1>7, <2>1, <3>1
  <2>2. CASE g.next \notin {"interrupted", "end"}
    <3>1. proc' = [proc EXCEPT ![p] = [proc[p] EXCEPT !.pc = g.next]]
      BY <1>3, <1>8, <2>2 DEF Enter
    <3>2. PICK c : c = g.next
      OBVIOUS
    <3>3. c \in {"load", "wait", "apply", "notice"}
      BY <1>1, <1>3, <1>8, <2>2, <3>2 DEF Graphs
    <3> QED BY <1>7, <3>1, <3>2, <3>3
  <2> QED BY <2>1, <2>2
<1> QED BY <1>5, <1>6, <1>8

\* A checkpoint is written before the next node runs.
LEMMA SaveActs ==
    ASSUME IInv, RowStep, NEW p \in Proc, Save(p)
    PROVE  Acts(p) /\ proc'[p].epoch = proc[p].epoch
<1>1. Sane(p) /\ proc[p] \in ProcRow /\ TypeOK /\ proc[p].graph \in Graphs
  BY Types DEF IInv, Processes, ProcRow
<1>2. proc[p].pc = "save" /\ UNCHANGED <<rows, lock>> /\ UNCHANGED exec
  BY DEF Save, rows
<1>3. CASE lock # p
  BY <1>1, <1>2, <1>3, PlainStep, Stepping DEF Save, PCs
<1>4. CASE lock = p
  <2>1. PICK g : g = proc[p].graph
    OBVIOUS
  <2>2. PICK c : c = IF g.next \in {"interrupted", "end"} THEN "acknowledge" ELSE g.next
    OBVIOUS
  <2>3. thread' = g /\ Step(p, c) /\ g.next # "none"
    BY <1>1, <1>2, <1>4, <2>1, <2>2 DEF Save, Sane
  <2>4. c \in {"acknowledge", "load", "wait", "apply", "notice"} /\ c \in PCs
    BY <1>1, <2>1, <2>2, <2>3 DEF Graphs, PCs
  <2>5. /\ proc' \in [Proc -> ProcRow] /\ \A q \in Proc \ {p} : proc'[q] = proc[q]
        /\ proc'[p].pc = c /\ proc'[p].epoch = proc[p].epoch
        /\ proc'[p].graph = g /\ proc'[p].conflict = proc[p].conflict
    BY <1>1, <2>1, <2>3, <2>4, Stepping
  <2>6. GraphFits(proc[p].graph)'
    BY <1>1, <2>1, <2>5, GraphKept DEF Sane
  <2>9. (c = "acknowledge" => g.next \in {"interrupted", "end"}) /\ (c # "acknowledge" => g.next = c)
    BY <1>1, <2>1, <2>2, <2>4 DEF Graphs
  <2>10. thread'.next # "none"
    BY <2>3
  <2>11. proc[p].epoch <= exec'.epoch /\ (proc[p].conflict => session'.archived)
    BY <1>1, <1>2 DEF Sane, rows
  <2>7. Sane(p)'
    BY <2>4, <2>5, <2>6, <2>9, <2>10, <2>11 DEF Sane
  <2>8. ~Ending(p)
    BY <1>2 DEF Ending
  <2> QED BY <1>2, <2>5, <2>7, <2>8, Holding, Unlocked DEF Acts
<1> QED BY <1>3, <1>4

\* The nodes load and wait, which may interrupt.
LEMMA LoadActs ==
    ASSUME IInv, RowStep, NEW p \in Proc, LoadNode(p) \/ WaitNode(p)
    PROVE  Acts(p) /\ proc'[p].epoch = proc[p].epoch
<1>1. Sane(p) /\ proc[p] \in ProcRow /\ TypeOK /\ proc[p].graph \in Graphs
  BY Types DEF IInv, Processes, ProcRow
<1>2. proc[p].pc \in {"load", "wait"} /\ UNCHANGED <<rows, lock, thread>>
  BY DEF LoadNode, WaitNode
<1>3. PICK g : g = proc[p].graph
  OBVIOUS
<1>4. ASSUME NEW h \in Graphs, proc' = [proc EXCEPT ![p] = [proc[p] EXCEPT !.pc = "save", !.graph = h]],
             h.next \in {"wait", "apply", "interrupted"},
             h.next = "apply" => h.event # "none" /\ approval.status # "PENDING"
      PROVE  Acts(p) /\ proc'[p].epoch = proc[p].epoch
  <2>1. PICK x : x = [proc[p] EXCEPT !.pc = "save", !.graph = h]
    OBVIOUS
  <2>2. x \in ProcRow /\ x.pc = "save" /\ x.epoch = proc[p].epoch /\ x.graph = h
        /\ x.conflict = proc[p].conflict
    BY <1>1, <2>1 DEF ProcRow
  <2>3. proc'[p] = x /\ proc' \in [Proc -> ProcRow] /\ \A q \in Proc \ {p} : proc'[q] = proc[q]
    BY <1>1, <1>4, <2>1, <2>2, Turning
  <2>4. Sane(p)'
    BY <1>1, <1>2, <1>4, <2>2, <2>3 DEF Sane, Begun, GraphFits, rows
  <2>5. ~Ending(p)
    BY <1>2 DEF Ending
  <2> QED BY <1>2, <2>2, <2>3, <2>4, <2>5, Holding, Unlocked DEF Acts, rows
<1>5. CASE LoadNode(p)
  <2>1. PICK t : t = Terminal
    OBVIOUS
  <2>2. PICK c : c = IF t # "none" THEN "apply" ELSE "wait"
    OBVIOUS
  <2>3. PICK h : h = [g EXCEPT !.event = t, !.next = c]
    OBVIOUS
  <2>4. t \in Events \union {"none"} /\ (t # "none" => approval.status # "PENDING")
    BY <2>1 DEF Terminal, Events
  <2>5. h \in Graphs /\ h.next = c /\ h.event = t
    BY <1>1, <1>3, <2>2, <2>3, <2>4 DEF Graphs
  <2>6. proc' = [proc EXCEPT ![p] = [proc[p] EXCEPT !.pc = "save", !.graph = h]]
    <3>1. proc' = [proc EXCEPT ![p].pc = "save", ![p].graph.event = t, ![p].graph.next = c]
      BY <1>5, <2>1, <2>2 DEF LoadNode
    <3> QED BY <1>1, <1>3, <2>3, <3>1, Types DEF ProcRow
  <2> QED BY <1>4, <2>2, <2>4, <2>5, <2>6
<1>6. CASE WaitNode(p)
  <2>3. PICK h : h = [g EXCEPT !.next = "interrupted"]
    OBVIOUS
  <2>5. h \in Graphs /\ h.next = "interrupted"
    BY <1>1, <1>3, <2>3 DEF Graphs
  <2>6. proc' = [proc EXCEPT ![p] = [proc[p] EXCEPT !.pc = "save", !.graph = h]]
    <3>1. proc' = [proc EXCEPT ![p].pc = "save", ![p].graph.next = "interrupted"]
      BY <1>6 DEF WaitNode
    <3> QED BY <1>1, <1>3, <2>3, <3>1, Types DEF ProcRow
  <2> QED BY <1>4, <2>5, <2>6
<1> QED BY <1>5, <1>6

\* The node apply, with a receipt in its hands afterwards.
LEMMA ApplyActs ==
    ASSUME IInv, RowStep, NEW p \in Proc, ApplyNode(p)
    PROVE  Acts(p) /\ proc'[p].epoch = proc[p].epoch
<1>1. Sane(p) /\ proc[p] \in ProcRow /\ TypeOK /\ proc[p].graph \in Graphs
  BY Types DEF IInv, Processes, ProcRow
<1>2. proc[p].pc = "apply" /\ UNCHANGED <<session, exec, lock, thread>>
  BY DEF ApplyNode
<1>3. PICK g : g = proc[p].graph
  OBVIOUS
<1>4. PICK e : e = proc[p].graph.event
  OBVIOUS
<1>5. /\ e \in Events /\ receipts'[e] # NoResult
      /\ proc' = [proc EXCEPT ![p].pc = "save", ![p].graph.next = "notice",
                              ![p].graph.result = receipts'[e]]
  <2>1. GraphFits(proc[p].graph) /\ proc[p].graph.next = "apply"
    BY <1>1, <1>2 DEF Sane
  <2> QED BY <1>4, <2>1, Applying DEF IInv
<1>6. PICK r : r = receipts'[e]
  OBVIOUS
<1>7. r \in Results /\ r # NoResult
  BY <1>5, <1>6 DEF RowStep, RowTypes
<1>8. PICK h : h = [g EXCEPT !.next = "notice", !.result = r]
  OBVIOUS
<1>9. h \in Graphs /\ h.next = "notice" /\ h.result = r
  BY <1>1, <1>3, <1>7, <1>8 DEF Graphs
<1>10. PICK x : x = [proc[p] EXCEPT !.pc = "save", !.graph = h]
  OBVIOUS
<1>11. proc' = [proc EXCEPT ![p] = x]
  <2>1. proc' = [proc EXCEPT ![p].pc = "save", ![p].graph.next = "notice", ![p].graph.result = r]
    BY <1>5, <1>6
  <2> QED BY <1>1, <1>3, <1>8, <1>10, <2>1, Types DEF ProcRow
<1>12. x \in ProcRow /\ x.pc = "save" /\ x.epoch = proc[p].epoch /\ x.graph = h
       /\ x.conflict = proc[p].conflict
  BY <1>1, <1>9, <1>10 DEF ProcRow
<1>13. proc'[p] = x /\ proc' \in [Proc -> ProcRow] /\ \A q \in Proc \ {p} : proc'[q] = proc[q]
  BY <1>1, <1>11, <1>12, Turning
<1>14. GraphFits(proc[p].graph)'
  BY <1>5, <1>6, <1>7, <1>9, <1>12, <1>13 DEF GraphFits
<1>15. Sane(p)'
  BY <1>1, <1>2, <1>9, <1>12, <1>13, <1>14 DEF Sane, Begun
<1>16. ~Ending(p)
  BY <1>2 DEF Ending
<1> QED BY <1>2, <1>12, <1>13, <1>15, <1>16, Holding, Unlocked DEF Acts

\* The node notice goes on to deliver its own revision.
LEMMA NoticeActs ==
    ASSUME IInv, RowStep, NEW p \in Proc, NoticeNode(p)
    PROVE  Acts(p) /\ proc'[p].epoch = proc[p].epoch
<1>1. Sane(p) /\ proc[p] \in ProcRow /\ TypeOK /\ proc[p].graph \in Graphs
  BY Types DEF IInv, Processes, ProcRow
<1>2. proc[p].pc = "notice" /\ UNCHANGED <<rows, lock, thread>>
  BY DEF NoticeNode
<1>3. PICK r : r = proc[p].graph.result.revision
  OBVIOUS
<1>4. proc[p].graph.next = "notice" /\ r \in 1..approval.revision
  BY <1>1, <1>2, <1>3 DEF Sane, GraphFits, IInv, RowsFit, ReceiptsFit
<1>5. r \in Revisions
  BY <1>4, Types DEF IInv, Revisions
<1>6. PICK x : x = [proc[p] EXCEPT !.pc = "offerNotice", !.about = r]
  OBVIOUS
<1>7. proc' = [proc EXCEPT ![p] = x]
  <2>1. proc' = [proc EXCEPT ![p].pc = "offerNotice", ![p].about = r]
    BY <1>3 DEF NoticeNode
  <2> QED BY <1>1, <1>6, <2>1, Types
<1>8. x \in ProcRow /\ x.pc = "offerNotice" /\ x.epoch = proc[p].epoch /\ x.graph = proc[p].graph
      /\ x.conflict = proc[p].conflict /\ x.about = r /\ x.role = proc[p].role
  BY <1>1, <1>5, <1>6 DEF ProcRow
<1>9. proc'[p] = x /\ proc' \in [Proc -> ProcRow] /\ \A q \in Proc \ {p} : proc'[q] = proc[q]
  BY <1>1, <1>7, <1>8, Turning
<1>10. GraphFits(proc[p].graph)'
  BY <1>1, <1>8, <1>9, GraphKept DEF Sane
<1>11. Begun(p)
  BY <1>2 DEF Begun
<1>12. Sane(p)'
  BY <1>1, <1>2, <1>4, <1>8, <1>9, <1>10, <1>11 DEF Sane, rows
<1>13. ~Ending(p)
  BY <1>2 DEF Ending
<1> QED BY <1>2, <1>8, <1>9, <1>12, <1>13, Holding, Unlocked DEF Acts, rows

\* After a delivery the runner saves, the dispatcher leaves.
LEMMA PublishedActs ==
    ASSUME IInv, RowStep, NEW p \in Proc, Published(p), UNCHANGED exec,
           proc[p].pc \in {"offerNotice", "publish"}
    PROVE  Acts(p) /\ proc'[p].epoch \in {0, proc[p].epoch}
<1>1. Sane(p) /\ proc[p] \in ProcRow /\ TypeOK /\ proc[p].graph \in Graphs /\ exec \in ExecRow
  BY Types DEF IInv, Processes, ProcRow
<1>2. CASE proc[p].role # "runner"
  <2>1. Leave(p) /\ exec'.epoch \in Nat
    BY <1>1, <1>2 DEF Published, ExecRow
  <2> QED BY <2>1, Leaving
<1>3. CASE proc[p].role = "runner"
  <2>1. PICK g : g = proc[p].graph
    OBVIOUS
  <2>2. PICK h : h = [g EXCEPT !.next = "end"]
    OBVIOUS
  <2>3. g.next = "notice"
    BY <1>1, <1>3, <2>1 DEF Sane
  <2>4. h \in Graphs /\ h.next = "end" /\ h.result = g.result
    BY <1>1, <2>1, <2>2 DEF Graphs
  <2>5. PICK x : x = [proc[p] EXCEPT !.pc = "save", !.graph = h, !.about = 0, !.token = 0]
    OBVIOUS
  <2>6. proc' = [proc EXCEPT ![p] = x] /\ UNCHANGED lock
    <3>1. proc' = [proc EXCEPT ![p].pc = "save", ![p].graph.next = "end",
                               ![p].about = 0, ![p].token = 0] /\ UNCHANGED lock
      BY <1>3 DEF Published
    <3> QED BY <1>1, <2>1, <2>2, <2>5, <3>1, Types DEF ProcRow
  <2>7. x \in ProcRow /\ x.pc = "save" /\ x.epoch = proc[p].epoch /\ x.graph = h
        /\ x.conflict = proc[p].conflict
    BY <1>1, <2>4, <2>5 DEF ProcRow
  <2>8. proc'[p] = x /\ proc' \in [Proc -> ProcRow] /\ \A q \in Proc \ {p} : proc'[q] = proc[q]
    BY <1>1, <2>6, <2>7, Turning
  <2>9. GraphFits(proc[p].graph)'
    BY <1>1, <2>1, <2>3, <2>4, <2>7, <2>8 DEF Sane, GraphFits, RowStep
  <2>10. Sane(p)'
    BY <1>1, <2>4, <2>7, <2>8, <2>9 DEF Sane, Begun, RowStep
  <2>11. ~Ending(p)
    BY <1>3 DEF Ending
  <2> QED BY <2>6, <2>7, <2>8, <2>10, <2>11, Holding, Unlocked DEF Acts
<1> QED BY <1>2, <1>3

\* A notice is leased, found published, or left to another.
LEMMA ClaimNoticeActs ==
    ASSUME IInv, RowStep, NEW p \in Proc, ClaimNotice(p)
    PROVE  Acts(p) /\ proc'[p].epoch \in {0, proc[p].epoch}
<1>1. Sane(p) /\ proc[p] \in ProcRow /\ TypeOK /\ RowsFit
  BY Types DEF IInv, Processes
<1>2. PICK r : r = proc[p].about
  OBVIOUS
<1>3. PICK n : n = notice[r]
  OBVIOUS
<1>4. proc[p].pc = "offerNotice" /\ UNCHANGED <<approval, session, exec, thread>>
  BY DEF ClaimNotice
<1>5. r \in Revisions /\ n \in NoticeRow /\ n.status # "none" /\ r \in 1..approval.revision
  BY <1>1, <1>2, <1>3, <1>4, NoticeFacts
<1>6. CASE n.status \in {"PUBLISHED", "MANUAL_REQUIRED"} \/ n.live \/ n.wait
  BY <1>2, <1>3, <1>4, <1>6, PublishedActs DEF ClaimNotice
<1>7. CASE ~(n.status \in {"PUBLISHED", "MANUAL_REQUIRED"} \/ n.live \/ n.wait)
  <2>1. PICK k : k = n.attempts + 1
    OBVIOUS
  <2>2. k \in Nat /\ k # 0
    BY <1>5, <2>1 DEF NoticeRow
  <2>3. PICK x : x = [proc[p] EXCEPT !.pc = "publish", !.token = k]
    OBVIOUS
  <2>4. proc' = [proc EXCEPT ![p] = x] /\ UNCHANGED lock
    <3>1. proc' = [proc EXCEPT ![p].pc = "publish", ![p].token = k] /\ UNCHANGED lock
      BY <1>2, <1>3, <1>7, <2>1 DEF ClaimNotice
    <3> QED BY <1>1, <2>3, <3>1, Types
  <2>5. x \in ProcRow /\ x.pc = "publish" /\ x.epoch = proc[p].epoch /\ x.graph = proc[p].graph
        /\ x.conflict = proc[p].conflict /\ x.about = r /\ x.role = proc[p].role /\ x.token = k
    BY <1>1, <1>2, <2>2, <2>3 DEF ProcRow
  <2>6. proc'[p] = x /\ proc' \in [Proc -> ProcRow] /\ \A q \in Proc \ {p} : proc'[q] = proc[q]
    BY <1>1, <2>4, <2>5, Turning
  <2>7. GraphFits(proc[p].graph)'
    BY <1>1, <2>5, <2>6, GraphKept DEF Sane
  <2>8. proc[p].role = "runner" => Begun(p) /\ proc[p].graph.next = "notice"
    BY <1>1, <1>4 DEF Begun, Sane
  <2>9. Begun(p)' => Begun(p)
    BY <1>4, <2>5, <2>6 DEF Begun
  <2>10. Sane(p)'
    BY <1>1, <1>4, <1>5, <2>2, <2>5, <2>6, <2>7, <2>8, <2>9 DEF Sane
  <2>11. ~session.archived
    BY <1>3, <1>5, <1>7 DEF IInv, ArchiveFits
  <2> QED BY <1>4, <2>4, <2>5, <2>6, <2>10, <2>11, Unlocked DEF Acts, Leaves
<1> QED BY <1>6, <1>7

\* A notice is sent or given up.
LEMMA PublishActs ==
    ASSUME IInv, RowStep, NEW p \in Proc, Publish(p) \/ (GiveUp(p) /\ proc[p].pc = "publish")
    PROVE  Acts(p) /\ proc'[p].epoch \in {0, proc[p].epoch}
<1>1. CASE Publish(p)
  <2>1. proc[p].pc = "publish" /\ Published(p) /\ UNCHANGED exec
    BY <1>1 DEF Publish
  <2> QED BY <2>1, PublishedActs
<1>2. CASE GiveUp(p) /\ proc[p].pc = "publish"
  <2>1. UNCHANGED exec /\ exec.epoch \in Nat
    BY <1>2, Types DEF GiveUp, IInv, ExecRow
  <2>2. CASE proc[p].role = "runner"
    BY <1>2, <2>1, <2>2, PlainStep, Stepping DEF GiveUp, PCs, IInv
  <2>3. CASE proc[p].role # "runner"
    BY <1>2, <2>1, <2>3, Leaving DEF GiveUp
  <2> QED BY <2>2, <2>3
<1> QED BY <1>1, <1>2

\* A runner that acknowledged releases its execution.
LEMMA AcknowledgeActs ==
    ASSUME IInv, RowStep, NEW p \in Proc, Acknowledge(p)
    PROVE  Acts(p) /\ proc'[p].epoch \in {0, proc[p].epoch}
<1>1. Sane(p) /\ proc[p] \in ProcRow /\ TypeOK
  BY Types DEF IInv, Processes
<1>2. proc[p].pc = "acknowledge" /\ UNCHANGED <<approval, session, exec, lock, thread>>
  BY DEF Acknowledge
<1>3. CASE ~Owns(p)
  BY <1>1, <1>2, <1>3, PlainStep, Stepping DEF Acknowledge, PCs
<1>4. CASE Owns(p)
  <2>1. Step(p, "release") /\ "release" \in PCs
    BY <1>4 DEF Acknowledge, PCs
  <2>2. /\ proc' \in [Proc -> ProcRow] /\ \A q \in Proc \ {p} : proc'[q] = proc[q]
        /\ proc'[p].pc = "release" /\ proc'[p].epoch = proc[p].epoch
        /\ proc'[p].graph = proc[p].graph /\ proc'[p].conflict = proc[p].conflict
    BY <1>1, <2>1, Stepping
  <2>3. GraphFits(proc[p].graph)'
    BY <1>1, <2>2, GraphKept DEF Sane
  <2>4. Begun(p)
    BY <1>2 DEF Begun
  <2>5. Sane(p)'
    BY <1>1, <1>2, <2>2, <2>3, <2>4 DEF Sane
  <2>6. Ending(p)'
    BY <2>2 DEF Ending
  <2> QED BY <1>2, <2>2, <2>5, <2>6, Unlocked DEF Acts, Leaves
<1> QED BY <1>3, <1>4

\* The execution row as Release and Fail leave it.
LEMMA EndActs ==
    ASSUME IInv, RowStep, NEW p \in Proc, Release(p) \/ Fail(p) \/ Busy(p) \/ Crash(p)
    PROVE  Acts(p) /\ proc'[p].epoch \in {0, proc[p].epoch}
<1>1. Sane(p) /\ proc[p] \in ProcRow /\ TypeOK /\ exec \in ExecRow
  BY Types DEF IInv, Processes
<1>2. CASE Release(p)
  <2>1. CASE Owns(p)
    <3>1. Leave(p) /\ exec'.epoch \in Nat
      BY <1>1, <1>2, <2>1 DEF Release, ExecRow
    <3> QED BY <3>1, Leaving
  <2>2. CASE ~Owns(p)
    BY <1>1, <1>2, <2>2, PlainStep, Stepping DEF Release, PCs
  <2> QED BY <2>1, <2>2
<1>3. CASE Fail(p)
  <2>1. exec'.epoch \in Nat
    BY <1>1, <1>3 DEF Fail, ExecRow
  <2> QED BY <1>3, <2>1, Leaving DEF Fail
<1>4. CASE Busy(p) \/ Crash(p)
  <2>1. exec'.epoch \in Nat /\ Leave(p)
    BY <1>1, <1>4 DEF Busy, Crash, rows, ExecRow
  <2> QED BY <2>1, Leaving
<1> QED BY <1>2, <1>3, <1>4

\* Reconciliation, a stale epoch and a raised call only move the process on.
LEMMA PlainActs ==
    ASSUME IInv, RowStep, NEW p \in Proc, Reconcile(p) \/ ApplyStale(p) \/ Raise(p)
    PROVE  Acts(p) /\ proc'[p].epoch \in {0, proc[p].epoch}
<1>1. \E c \in {"inspect", "fail"} : Step(p, c) /\ proc[p].pc # "idle" /\ UNCHANGED <<exec, lock>>
  BY DEF Reconcile, ApplyStale, Raise, rows
<1>2. PICK c \in {"inspect", "fail"} : Step(p, c) /\ proc[p].pc # "idle" /\ UNCHANGED <<exec, lock>>
  BY <1>1
<1>3. Acts(p)
  BY <1>2, PlainStep
<1>4. c \in PCs
  BY DEF PCs
<1> QED BY <1>2, <1>3, <1>4, Stepping DEF IInv

\* A lost connection frees the lock under a process that goes on.
LEMMA LoseConnectionActs ==
    ASSUME IInv, RowStep, NEW p \in Proc, LoseConnection(p)
    PROVE  Acts(p) /\ proc'[p].epoch \in {0, proc[p].epoch}
<1>1. Sane(p) /\ proc \in [Proc -> ProcRow] /\ p # Nobody
  BY ConstantsAssumption, Types DEF IInv, Processes
<1>2. UNCHANGED <<rows, thread, proc>> /\ lock' = Nobody
  BY DEF LoseConnection
<1>3. Alone(p)
  BY <1>1, <1>2, ConstantsAssumption DEF Alone
<1>4. Sane(p)'
  BY <1>1, <1>2 DEF Sane, Begun, GraphFits, rows
<1>5. Leaves(p)
  BY <1>1, <1>2 DEF Leaves, Owns, IInv, ArchiveFits, Ending, rows
<1> QED BY <1>2, <1>3, <1>4, <1>5 DEF Acts

-------------------------------------------------------------------------------
(* After archiving nothing is written.                                         *)

\* Where nothing is pending, acknowledging changes nothing.
LEMMA NothingToAcknowledge ==
    ASSUME TypeOK, \A e \in Events : events[e] # "pending", NEW covered,
           events' = Acknowledged(covered)
    PROVE  events' = events
<1>1. events \in [Events -> EventStatus]
  BY Types
<1>2. \A e \in Events : events'[e] = events[e]
  BY <1>1 DEF Acknowledged, EventStatus
<1>3. events' \in [Events -> EventStatus]
  BY <1>1 DEF Acknowledged, EventStatus
<1> QED BY <1>1, <1>2, <1>3

\* No process of an archived session finds anything to write.
LEMMA ArchivedRunner ==
    ASSUME IInv, session.archived, NEW p \in Proc, Runner(p) \/ PublishFails(p)
    PROVE  RowsStay
<1>1. /\ TypeOK /\ RowsFit /\ Sane(p)
      /\ \A r \in Revisions : notice[r].status \in {"none", "PUBLISHED"}
      /\ \A e \in Events : events[e] # "pending"
      /\ (lock = p \/ Owns(p) => Ending(p))
  BY DEF IInv, ArchiveFits, Processes
<1>2. CASE Claim(p) \/ Enter(p) \/ Save(p) \/ LoadNode(p) \/ WaitNode(p) \/ ApplyStale(p)
           \/ NoticeNode(p) \/ Release(p) \/ Fail(p)
  BY <1>2, OtherRows
<1>3. CASE Reconcile(p)
  <2>1. session.status = "agreed" \/ approval.status = "REJECTED" \/ approval.effect = "INVALIDATED"
    BY <1>1, Types DEF RowsFit, SessionFits
  <2>2. Book.approval = approval
    BY DEF Book
  <2>3. Reconciled(Book) = Book
    BY <2>1, <2>2 DEF Reconciled
  <2>4. Kept
    BY <1>3, <2>3, StoredBook DEF Reconcile
  <2> QED BY <1>3, <2>4 DEF Reconcile, Kept, RowsStay
<1>4. CASE Inspect(p)
  <2>1. events' = events
    BY <1>1, <1>4, NothingToAcknowledge DEF Inspect
  <2> QED BY <1>4, <2>1 DEF Inspect, RowsStay
<1>5. CASE ApplyNode(p)
  BY <1>1, <1>5 DEF ApplyNode, Ending
<1>6. CASE ClaimNotice(p)
  <2>1. notice[proc[p].about].status = "PUBLISHED"
    BY <1>1, <1>6, NoticeFacts DEF ClaimNotice
  <2> QED BY <1>6, <2>1 DEF ClaimNotice, RowsStay
<1>7. CASE Publish(p)
  BY <1>1, <1>7, NoticeFacts DEF Publish, Holds, NoticeFits
<1>8. CASE PublishLate(p) \/ PublishFails(p)
  <2>1. GiveUp(p) /\ proc[p].pc = "publish"
    BY <1>8 DEF PublishLate, PublishFails
  <2>2. notice[proc[p].about].token = 0 /\ proc[p].token # 0
    BY <1>1, <2>1, NoticeFacts DEF NoticeFits, Sane
  <2> QED BY <2>1, <2>2 DEF GiveUp, RowsStay
<1>9. CASE Acknowledge(p)
  <2>1. events' = events
    BY <1>1, <1>9, NothingToAcknowledge DEF Acknowledge
  <2> QED BY <1>9, <2>1 DEF Acknowledge, RowsStay
<1> QED BY <1>2, <1>3, <1>4, <1>5, <1>6, <1>7, <1>8, <1>9 DEF Runner

\* The rows of an archived session do not change.
LEMMA ArchivedStays ==
    ASSUME IInv, session.archived, [Next]_vars
    PROVE  RowsStay
<1>1. /\ TypeOK /\ RowsFit
      /\ \A r \in Revisions : notice[r].status \in {"none", "PUBLISHED"}
      /\ approval.effect # "NOT_APPLIED"
  BY DEF IInv, ArchiveFits
<1>2. ASSUME NEW p \in Proc, Pick(p) \/ Lock(p) \/ Busy(p) \/ Crash(p) \/ LoseConnection(p) \/ Raise(p)
      PROVE  RowsStay
  BY <1>2, OtherRows
<1>3. ASSUME NEW p \in Proc, Runner(p) \/ PublishFails(p) PROVE RowsStay
  BY <1>3, ArchivedRunner
<1>4. ~Business
  <2>1. session.status # "open" /\ approval.status # "PENDING"
    BY <1>1 DEF RowsFit, SessionFits, ApprovalFits
  <2> QED BY <2>1 DEF Business, Review, LoseOffer, EndSession, Ages
<1>5. CASE Clock
  <2>1. CASE LeaseEnds \/ WaitEnds
    BY <2>1 DEF LeaseEnds, WaitEnds, RowsStay
  <2>2. ASSUME NEW r \in Revisions PROVE ~(NoticeLeaseEnds(r) \/ NoticeWaitEnds(r))
    <3>1. NoticeFits(r) /\ notice[r].status \in {"none", "PUBLISHED"}
      BY <1>1 DEF RowsFit, NoticesFit
    <3> QED BY <3>1 DEF NoticeFits, NoticeLeaseEnds, NoticeWaitEnds
  <2> QED BY <1>5, <2>1, <2>2 DEF Clock
<1>6. CASE Archive
  BY <1>6, Types, <1>1 DEF Archive, RowsStay
<1>7. ~\E r \in Revisions : RetryNotice(r)
  BY DEF RetryNotice
<1>8. CASE UNCHANGED vars
  BY <1>8 DEF vars, RowsStay
<1> QED BY <1>2, <1>3, <1>4, <1>5, <1>6, <1>7, <1>8 DEF Next

-------------------------------------------------------------------------------
(* The lease, the checkpoint and the counters.                                 *)

\* A step leaves the execution's row well formed; who holds a lease afterwards held it
\* before or has drawn a number that nobody has.
Leased ==
    /\ exec' \in ExecRow /\ ExecFits'
    /\ \/ exec'.epoch = exec.epoch
          /\ (exec'.live => exec.live /\ exec'.owner = exec.owner)
       \/ exec'.epoch = exec.epoch + 1 /\ exec'.owner = exec'.epoch

\* A row that is left alone stays well formed.
LEMMA ExecStays ==
    ASSUME IInv, UNCHANGED exec
    PROVE  Leased
BY Types DEF IInv, ExecFits, Leased

\* claim gives the lease to a number that nobody has.
LEMMA ClaimLeases ==
    ASSUME IInv, ~exec.recovery,
           exec' = [exec EXCEPT !.owner = exec.epoch + 1, !.epoch = exec.epoch + 1, !.live = TRUE]
    PROVE  Leased /\ exec'.epoch = exec.epoch + 1
<1>1. exec \in ExecRow
  BY Types DEF IInv
<1>2. PICK k : k = exec.epoch + 1
  OBVIOUS
<1>3. k \in Nat /\ k # 0 /\ exec' = [exec EXCEPT !.owner = k, !.epoch = k, !.live = TRUE]
  BY <1>1, <1>2 DEF ExecRow
<1>4. exec' \in ExecRow
  BY <1>1, <1>3 DEF ExecRow
<1>5. exec'.owner = k /\ exec'.epoch = k /\ exec'.recovery = exec.recovery
      /\ exec'.attempts = exec.attempts
  BY <1>1, <1>3 DEF ExecRow
<1>6. ExecFits'
  BY <1>3, <1>5 DEF IInv, ExecFits
<1> QED BY <1>2, <1>4, <1>5, <1>6 DEF Leased

\* Release and Fail give the lease up and count the attempt.
LEMMA EndLeases ==
    ASSUME IInv, NEW p \in Proc, Release(p) \/ Fail(p)
    PROVE  Leased
<1>1. exec \in ExecRow /\ ExecFits /\ AttemptLimit \in Nat \ {0}
  BY Types, ConstantsAssumption DEF IInv
<1>2. CASE exec' = exec
  BY <1>2, ExecStays
<1>3. CASE Release(p) /\ exec' # exec
  <2>1. exec' = [exec EXCEPT !.saved = TRUE, !.attempts = 0, !.recovery = FALSE,
                             !.wait = FALSE, !.owner = 0, !.live = FALSE]
    BY <1>3 DEF Release
  <2>2. exec' \in ExecRow
    <3>1. PICK z \in 0..AttemptLimit : z = 0
      BY <1>1
    <3>2. PICK o \in Nat : o = 0
      OBVIOUS
    <3>3. exec' = [exec EXCEPT !.saved = TRUE, !.attempts = z, !.recovery = FALSE,
                               !.wait = FALSE, !.owner = o, !.live = FALSE]
      BY <2>1, <3>1, <3>2
    <3>4. z \in 0..AttemptLimit /\ o \in Nat
      OBVIOUS
    <3> HIDE <3>1, <3>2
    <3> QED BY <1>1, <3>3, <3>4 DEF ExecRow
  <2>3. exec'.owner = 0 /\ ~exec'.live /\ exec'.epoch = exec.epoch /\ exec'.attempts = 0
    BY <1>1, <2>1 DEF ExecRow
  <2>4. ExecFits'
    BY <1>1, <2>3 DEF ExecFits, ExecRow
  <2> QED BY <2>2, <2>3, <2>4 DEF Leased
<1>4. CASE Fail(p) /\ exec' # exec
  <2>1. PICK c : c = (proc[p].conflict \/ exec.attempts + 1 >= AttemptLimit)
    OBVIOUS
  <2>2. PICK k : k = exec.attempts + 1
    OBVIOUS
  <2>3. Owns(p) /\ exec' = [exec EXCEPT !.attempts = k, !.wait = TRUE, !.recovery = c,
                                        !.owner = 0, !.live = FALSE]
    BY <1>4, <2>1, <2>2 DEF Fail
  <2>4. exec.attempts < AttemptLimit /\ exec.attempts \in 0..AttemptLimit
    BY <1>1, <2>3 DEF ExecFits, Owns, ExecRow
  <2>5. k \in 0..AttemptLimit /\ c \in BOOLEAN /\ (~c => k < AttemptLimit)
    <3>1. k \in 0..AttemptLimit
      BY <1>1, <2>2, <2>4
    <3>2. c \in BOOLEAN
      BY <2>1
    <3>3. ~c => ~(exec.attempts + 1 >= AttemptLimit)
      BY <2>1
    <3> QED BY <1>1, <2>2, <2>4, <3>1, <3>2, <3>3
  <2>6. exec' \in ExecRow
    BY <1>1, <2>3, <2>5 DEF ExecRow
  <2>7. exec'.owner = 0 /\ ~exec'.live /\ exec'.epoch = exec.epoch /\ exec'.attempts = k
        /\ exec'.recovery = c
    BY <1>1, <2>3 DEF ExecRow
  <2>8. ExecFits'
    BY <1>1, <2>5, <2>7 DEF ExecFits, ExecRow
  <2> QED BY <2>6, <2>7, <2>8 DEF Leased
<1> QED BY <1>2, <1>3, <1>4

\* A lease or a wait of the execution runs out.
LEMMA ClockLeases ==
    ASSUME IInv, LeaseEnds \/ WaitEnds
    PROVE  Leased
<1>1. exec \in ExecRow /\ ExecFits
  BY Types DEF IInv
<1>2. exec' = [exec EXCEPT !.live = FALSE] \/ exec' = [exec EXCEPT !.wait = FALSE]
  BY DEF LeaseEnds, WaitEnds
<1>3. exec' \in ExecRow
  BY <1>1, <1>2 DEF ExecRow
<1>4. exec'.owner = exec.owner /\ exec'.epoch = exec.epoch /\ (exec'.live => exec.live)
      /\ exec'.recovery = exec.recovery /\ exec'.attempts = exec.attempts
  BY <1>1, <1>2 DEF ExecRow
<1>5. ExecFits'
  BY <1>1, <1>4 DEF ExecFits
<1> QED BY <1>3, <1>4, <1>5 DEF Leased

\* One process acts, keeping, dropping or freshly drawing its number.
Numbered(p) ==
    \/ exec'.epoch = exec.epoch /\ proc'[p].epoch \in {0, proc[p].epoch}
    \/ exec'.epoch = exec.epoch + 1 /\ proc'[p].epoch = exec'.epoch
Turn(p) == Acts(p) /\ Leased /\ Numbered(p)

\* Each action of a process is a turn of that process.
LEMMA RunnerTurns ==
    ASSUME IInv, RowStep, NEW p \in Proc,
           \/ Pick(p) \/ Lock(p) \/ Busy(p) \/ Runner(p) \/ PublishFails(p)
           \/ Crash(p) \/ LoseConnection(p) \/ Raise(p)
    PROVE  Turn(p)
<1>1. ASSUME Acts(p), proc'[p].epoch \in {0, proc[p].epoch}, exec' = exec PROVE Turn(p)
  BY <1>1, ExecStays DEF Turn, Numbered
<1>2. CASE Pick(p)
  BY <1>1, <1>2, PickActs DEF Pick, Select, SelectNotice, rows
<1>3. CASE Lock(p)
  BY <1>1, <1>3, LockActs DEF Lock, rows
<1>4. CASE Claim(p)
  <2>1. CASE exec' = exec /\ proc'[p].epoch = 0
    BY <1>1, <1>4, <2>1, ClaimActs
  <2>2. CASE /\ exec' = [exec EXCEPT !.owner = exec.epoch + 1, !.epoch = exec.epoch + 1, !.live = TRUE]
             /\ ~exec.recovery /\ proc'[p].epoch = exec.epoch + 1
    BY <1>4, <2>2, ClaimActs, ClaimLeases DEF Turn, Numbered
  <2> QED BY <1>4, <2>1, <2>2, ClaimActs
<1>5. CASE Reconcile(p) \/ ApplyStale(p) \/ Raise(p)
  BY <1>1, <1>5, PlainActs DEF Reconcile, ApplyStale, Raise, rows
<1>6. CASE Inspect(p)
  BY <1>1, <1>6, InspectActs DEF Inspect
<1>7. CASE Enter(p)
  BY <1>1, <1>7, EnterActs DEF Enter, rows
<1>8. CASE Save(p)
  BY <1>1, <1>8, SaveActs DEF Save, rows
<1>9. CASE LoadNode(p) \/ WaitNode(p)
  BY <1>1, <1>9, LoadActs DEF LoadNode, WaitNode, rows
<1>10. CASE ApplyNode(p)
  BY <1>1, <1>10, ApplyActs DEF ApplyNode
<1>11. CASE NoticeNode(p)
  BY <1>1, <1>11, NoticeActs DEF NoticeNode, rows
<1>12. CASE ClaimNotice(p)
  BY <1>1, <1>12, ClaimNoticeActs DEF ClaimNotice
<1>13. CASE Publish(p) \/ PublishLate(p) \/ PublishFails(p)
  <2>1. (Publish(p) \/ (GiveUp(p) /\ proc[p].pc = "publish")) /\ exec' = exec
    BY <1>13 DEF Publish, PublishLate, PublishFails, GiveUp
  <2> QED BY <1>1, <2>1, PublishActs
<1>14. CASE Acknowledge(p)
  BY <1>1, <1>14, AcknowledgeActs DEF Acknowledge
<1>15. CASE Release(p) \/ Fail(p)
  <2>1. Acts(p) /\ proc'[p].epoch \in {0, proc[p].epoch} /\ Leased
    BY <1>15, EndActs, EndLeases
  <2>2. exec'.epoch = exec.epoch
    <3>1. exec \in ExecRow
      BY Types DEF IInv
    <3> QED BY <1>15, <3>1 DEF Release, Fail, ExecRow
  <2> QED BY <2>1, <2>2 DEF Turn, Numbered
<1>16. CASE Busy(p) \/ Crash(p)
  BY <1>1, <1>16, EndActs DEF Busy, Crash, rows
<1>17. CASE LoseConnection(p)
  BY <1>1, <1>17, LoseConnectionActs DEF LoseConnection, rows
<1> QED BY <1>2, <1>3, <1>4, <1>5, <1>6, <1>7, <1>8, <1>9, <1>10, <1>11, <1>12, <1>13, <1>14,
           <1>15, <1>16, <1>17 DEF Runner

\* The others look on.
LEMMA Bystander ==
    ASSUME IInv, RowStep, ThreadStays, Leased, NEW q \in Proc, proc'[q] = proc[q]
    PROVE  Sane(q)' /\ (Owns(q)' => Owns(q)) /\ (Ending(q) <=> Ending(q)')
<1>1. Sane(q) /\ exec \in ExecRow /\ proc[q] \in ProcRow /\ approval \in ApprovalRow
  BY Types DEF IInv, Processes
<1>2. exec'.epoch \in Nat /\ exec.epoch <= exec'.epoch
  BY <1>1 DEF Leased, ExecRow
<1>3. proc'[q].epoch <= exec'.epoch
  BY <1>1, <1>2 DEF Sane, ExecRow, ProcRow
<1>4. GraphFits(proc[q].graph)'
  BY <1>1, GraphKept DEF Sane
<1>5. proc[q].about \in 1..approval.revision => proc'[q].about \in 1..approval'.revision
  BY <1>1 DEF RowStep, Onward, ApprovalRow
<1>6. (proc[q].conflict => session.archived) /\ (session.archived => session'.archived)
  BY <1>1 DEF Sane, RowStep
<1>7. Begun(q)' => session'.archived \/ thread'.next # "none"
  <2>1. Begun(q)' => Begun(q)
    BY DEF Begun
  <2> QED BY <1>1, <1>6, <2>1 DEF Sane, ThreadStays
<1>8. Sane(q)'
  BY <1>1, <1>3, <1>4, <1>5, <1>6, <1>7 DEF Sane
<1>9. Owns(q)' => Owns(q)
  <2>1. exec'.epoch = exec.epoch + 1 /\ exec'.owner = exec'.epoch => exec'.owner # proc'[q].epoch
    BY <1>1 DEF Sane, ExecRow, ProcRow
  <2> QED BY <2>1 DEF Leased, Owns
<1>10. Ending(q) <=> Ending(q)'
  BY DEF Ending
<1> QED BY <1>8, <1>9, <1>10

\* Numbers of processes stay different, as only fresh ones are drawn.
LEMMA EpochsStayDifferent ==
    ASSUME IInv, NEW p \in Proc, Turn(p)
    PROVE  EpochsDiffer'
<1>1. EpochsDiffer /\ exec \in ExecRow /\ \A q \in Proc : proc[q] \in ProcRow /\ proc[q].epoch <= exec.epoch
  BY Types DEF IInv, Processes, Sane
<1>2. \A q \in Proc \ {p} : proc'[q] = proc[q]
  BY DEF Turn, Acts, Alone
<1>3. CASE exec'.epoch = exec.epoch /\ proc'[p].epoch \in {0, proc[p].epoch}
  <2>1. ASSUME NEW q \in Proc, NEW s \in Proc, q # s, proc'[q].epoch # 0
        PROVE  proc'[q].epoch # proc'[s].epoch
    <3>1. proc'[q].epoch = proc[q].epoch /\ proc'[s].epoch \in {0, proc[s].epoch}
      BY <1>2, <1>3, <2>1
    <3>2. proc[q].epoch # proc[s].epoch
      BY <1>1, <2>1, <3>1 DEF EpochsDiffer
    <3> QED BY <2>1, <3>1, <3>2
  <2> QED BY <2>1 DEF EpochsDiffer
<1>4. CASE exec'.epoch = exec.epoch + 1 /\ proc'[p].epoch = exec'.epoch
  <2>1. \A q \in Proc \ {p} : proc'[q].epoch # proc'[p].epoch
    BY <1>1, <1>2, <1>4 DEF ExecRow, ProcRow
  <2> QED BY <1>1, <1>2, <2>1 DEF EpochsDiffer
<1> QED BY <1>3, <1>4 DEF Turn, Numbered

\* The checkpoint: only Save and Archive write it.
ThreadStep == thread' \in Graphs /\ ThreadFits' /\ ThreadStays

\* A thread that is not written is still there for those who begin.
LEMMA ThreadKept ==
    ASSUME IInv, RowStep, UNCHANGED thread,
           exec'.saved \/ Resulted' =>
              exec.saved \/ Resulted \/ \E p \in Proc : Begun(p)
    PROVE  ThreadStep
<1>1. ThreadFits /\ thread \in Graphs /\ \A p \in Proc : Sane(p)
  BY Types DEF IInv, Processes
<1>2. GraphFits(thread)'
  BY <1>1 DEF ThreadFits, GraphFits, RowStep, Onward
<1>3. session.archived => session'.archived
  BY DEF RowStep
<1>4. exec'.saved \/ Resulted' => session'.archived \/ thread'.next # "none"
  <2>1. (\E p \in Proc : Begun(p)) => session.archived \/ thread.next # "none"
    BY <1>1 DEF Sane
  <2> QED BY <1>1, <1>3, <2>1 DEF ThreadFits
<1> QED BY <1>1, <1>2, <1>4 DEF ThreadStep, ThreadFits, ThreadStays

\* Among the actions of a process only Save writes the thread.
LEMMA RunnerThread ==
    ASSUME IInv, RowStep, NEW p \in Proc,
           \/ Pick(p) \/ Lock(p) \/ Busy(p) \/ Runner(p) \/ PublishFails(p)
           \/ Crash(p) \/ LoseConnection(p) \/ Raise(p)
    PROVE  ThreadStep
<1>1. Sane(p) /\ ThreadFits /\ exec \in ExecRow /\ proc[p] \in ProcRow
  BY Types DEF IInv, Processes
<1>2. CASE Save(p) /\ lock = p
  <2>1. PICK g : g = proc[p].graph
    OBVIOUS
  <2>2. thread' = g /\ g.next # "none" /\ g \in Graphs /\ UNCHANGED rows
    BY <1>1, <1>2, <2>1 DEF Save, Sane, ProcRow
  <2>3. GraphFits(thread)'
    BY <1>1, <2>1, <2>2 DEF Sane, GraphFits, rows
  <2> QED BY <2>2, <2>3 DEF ThreadStep, ThreadFits, ThreadStays
<1>3. CASE Save(p) /\ lock # p
  <2>1. UNCHANGED <<rows, thread>>
    BY <1>3 DEF Save
  <2> QED BY <2>1, ThreadKept DEF rows, Resulted
<1>4. CASE ApplyNode(p)
  <2>1. Begun(p) /\ UNCHANGED thread
    BY <1>4 DEF ApplyNode, Begun
  <2> QED BY <2>1, ThreadKept
<1>5. CASE Release(p)
  <2>1. Begun(p) /\ UNCHANGED thread
    BY <1>5 DEF Release, Begun
  <2> QED BY <2>1, ThreadKept
<1>6. CASE Claim(p) \/ Fail(p)
  <2>1. exec'.saved = exec.saved /\ UNCHANGED <<thread, receipts>>
    BY <1>1, <1>6 DEF Claim, Fail, ExecRow
  <2> QED BY <2>1, ThreadKept DEF Resulted
<1>7. CASE Reconcile(p) \/ Inspect(p) \/ Enter(p) \/ LoadNode(p) \/ WaitNode(p)
           \/ ApplyStale(p) \/ NoticeNode(p)
  <2>1. UNCHANGED <<thread, receipts, exec>>
    BY <1>7 DEF Reconcile, Inspect, Enter, LoadNode, WaitNode, ApplyStale, NoticeNode, rows
  <2> QED BY <2>1, ThreadKept DEF Resulted
<1>8. CASE ClaimNotice(p) \/ Publish(p) \/ PublishLate(p) \/ Acknowledge(p) \/ PublishFails(p)
  <2>1. UNCHANGED <<thread, receipts, exec>>
    BY <1>8 DEF ClaimNotice, Publish, PublishLate, PublishFails, GiveUp, Acknowledge
  <2> QED BY <2>1, ThreadKept DEF Resulted
<1>9. CASE Pick(p) \/ Lock(p) \/ Busy(p) \/ Crash(p) \/ LoseConnection(p) \/ Raise(p)
  <2>1. UNCHANGED <<thread, receipts, exec>>
    BY <1>9 DEF Pick, Select, SelectNotice, Lock, Busy, Crash, LoseConnection, Raise, rows
  <2> QED BY <2>1, ThreadKept DEF Resulted
<1> QED BY <1>2, <1>3, <1>4, <1>5, <1>6, <1>7, <1>8, <1>9 DEF Runner

\* The bounds of the instance hold.
LEMMA Counters ==
    ASSUME TypeOK, [Next]_vars
    PROVE  faults' \in 0..MaxFaults /\ manual' \in 0..MaxManual
<1>1. faults \in 0..MaxFaults /\ manual \in 0..MaxManual /\ MaxFaults \in Nat /\ MaxManual \in Nat
  BY ConstantsAssumption DEF TypeOK
<1>2. \/ UNCHANGED <<faults, manual>>
      \/ faults < MaxFaults /\ faults' = faults + 1 /\ UNCHANGED manual
      \/ manual < MaxManual /\ manual' = manual + 1 /\ UNCHANGED faults
  <2>1. ASSUME NEW p \in Proc, Pick(p) \/ Lock(p) \/ Busy(p) PROVE UNCHANGED <<faults, manual>>
    BY <2>1 DEF Pick, Select, SelectNotice, Lock, Busy
  <2>2. ASSUME NEW p \in Proc, Runner(p) PROVE UNCHANGED <<faults, manual>>
    <3>1. CASE Claim(p) \/ Reconcile(p) \/ Inspect(p) \/ Enter(p) \/ Save(p) \/ LoadNode(p)
      BY <3>1 DEF Claim, Reconcile, Inspect, Enter, Save, LoadNode
    <3>2. CASE WaitNode(p) \/ ApplyNode(p) \/ ApplyStale(p) \/ NoticeNode(p) \/ ClaimNotice(p)
      BY <3>2 DEF WaitNode, ApplyNode, ApplyStale, NoticeNode, ClaimNotice
    <3>3. CASE Publish(p) \/ PublishLate(p) \/ Acknowledge(p) \/ Release(p) \/ Fail(p)
      BY <3>3 DEF Publish, PublishLate, GiveUp, Acknowledge, Release, Fail
    <3> QED BY <2>2, <3>1, <3>2, <3>3 DEF Runner
  <2>3. ASSUME NEW p \in Proc, PublishFails(p) \/ Crash(p) \/ LoseConnection(p) \/ Raise(p)
        PROVE  faults < MaxFaults /\ faults' = faults + 1 /\ UNCHANGED manual
    BY <2>3 DEF PublishFails, GiveUp, Crash, LoseConnection, Raise
  <2>4. CASE Business
    BY <2>4 DEF Business, Review, LoseOffer, EndSession, Ages
  <2>5. CASE Clock
    BY <2>5, <1>1 DEF Clock, LeaseEnds, WaitEnds, NoticeLeaseEnds, NoticeWaitEnds
  <2>6. CASE Archive
    BY <2>6, <1>1 DEF Archive
  <2>7. CASE \E r \in Revisions : RetryNotice(r)
    BY <2>7 DEF RetryNotice
  <2>8. CASE UNCHANGED vars
    BY <2>8 DEF vars
  <2> QED BY <2>1, <2>2, <2>3, <2>4, <2>5, <2>6, <2>7, <2>8 DEF Next
<1> QED BY <1>1, <1>2

-------------------------------------------------------------------------------
(* The inductive invariant.                                                    *)

\* The columns after a step, from those of its parts.
LEMMA AllTypes ==
    ASSUME TypeOK, RowTypes', Leased, thread' \in Graphs, proc' \in [Proc -> ProcRow],
           lock' \in Proc \union {Nobody},
           faults' \in 0..MaxFaults, manual' \in 0..MaxManual
    PROVE  TypeOK'
<1>1. exec' \in ExecRow /\ (exec'.live => exec'.owner # 0)
  BY DEF Leased, ExecFits
<1> QED BY <1>1 DEF TypeOK, RowTypes, ApprovalRow, EventStatus, ExecRow, NoticeRow, ProcRow

\* A step of a process keeps the invariant.
LEMMA ProcInv ==
    ASSUME IInv, [Next]_vars, NEW p \in Proc,
           \/ Pick(p) \/ Lock(p) \/ Busy(p) \/ Runner(p) \/ PublishFails(p)
           \/ Crash(p) \/ LoseConnection(p) \/ Raise(p)
    PROVE  IInv'
<1>1. RowStep
  BY RowsNext
<1>2. Turn(p) /\ ThreadStep
  BY <1>1, RunnerTurns, RunnerThread
<1>3. /\ proc' \in [Proc -> ProcRow] /\ lock' \in Proc \union {Nobody} /\ Leased
      /\ \A q \in Proc \ {p} : proc'[q] = proc[q] /\ (lock' = q => lock = q)
      /\ Sane(p)' /\ Leaves(p)
  BY <1>2 DEF Turn, Acts, Alone
<1>4. TypeOK'
  BY <1>1, <1>2, <1>3, Counters, AllTypes DEF IInv, RowStep, ThreadStep
<1>5. ASSUME NEW q \in Proc \ {p}
      PROVE  Sane(q)' /\ (Owns(q)' => Owns(q)) /\ (Ending(q) <=> Ending(q)')
  BY <1>1, <1>2, <1>3, Bystander DEF ThreadStep
<1>6. Processes'
  BY <1>2, <1>3, <1>5, EpochsStayDifferent DEF Processes
<1>7. ArchiveFits'
  <2>1. SUFFICES ASSUME session'.archived PROVE ArchiveFits'
    BY DEF ArchiveFits
  <2>2. session.archived
    <3>1. session'.archived = session.archived
      <4>1. CASE Runner(p) \/ PublishFails(p)
        BY <4>1 DEF Runner, PublishFails, GiveUp, PublishLate, Claim, Reconcile, Inspect,
           Enter, Save, LoadNode,
                    WaitNode, ApplyNode, ApplyStale, NoticeNode, ClaimNotice, Publish, Acknowledge,
                    Release, Fail, rows
      <4>2. CASE ~(Runner(p) \/ PublishFails(p))
        BY <4>2, OtherRows DEF RowsStay
      <4> QED BY <4>1, <4>2
    <3> QED BY <2>1, <3>1
  <2>3. RowsStay
    BY <2>2, ArchivedStays
  <2>4. thread' = thread
    <3>1. ~(Save(p) /\ lock = p)
      BY <2>2 DEF IInv, ArchiveFits, Ending, Save
    <3>2. CASE Runner(p) \/ PublishFails(p)
      BY <3>1, <3>2 DEF Runner, PublishFails, GiveUp, PublishLate, Claim, Reconcile, Inspect,
         Enter,
                  Save, LoadNode, WaitNode, ApplyNode, ApplyStale, NoticeNode, ClaimNotice, Publish,
                  Acknowledge, Release, Fail
    <3>3. CASE Pick(p) \/ Lock(p) \/ Busy(p) \/ Crash(p) \/ LoseConnection(p) \/ Raise(p)
      BY <3>3 DEF Pick, Select, SelectNotice, Lock, Busy, Crash, LoseConnection, Raise
    <3> QED BY <3>2, <3>3
  <2>5. ASSUME NEW q \in Proc, lock' = q \/ Owns(q)' PROVE Ending(q)'
    <3>1. CASE q = p
      BY <1>3, <2>2, <2>5, <3>1 DEF Leaves
    <3>2. CASE q # p
      BY <1>3, <1>5, <2>2, <2>5, <3>2 DEF IInv, ArchiveFits
    <3> QED BY <3>1, <3>2
  <2> QED BY <2>2, <2>3, <2>4, <2>5 DEF IInv, ArchiveFits, RowsStay, Resulted
<1> QED BY <1>1, <1>2, <1>3, <1>4, <1>6, <1>7 DEF IInv, RowStep, ThreadStep, Leased

\* A step of nobody: business, the clock, the seller's desk.
LEMMA OutsideInv ==
    ASSUME IInv, [Next]_vars, UNCHANGED <<proc, lock, thread>>, Leased,
           exec'.epoch = exec.epoch, exec'.saved = exec.saved, UNCHANGED receipts,
           session'.archived => session.archived
    PROVE  IInv'
<1>1. RowStep
  BY RowsNext
<1>2. ThreadStep
  BY <1>1, ThreadKept DEF Resulted
<1>3. ASSUME NEW q \in Proc PROVE Sane(q)' /\ (Owns(q)' => Owns(q)) /\ (Ending(q) <=> Ending(q)')
  BY <1>1, <1>2, Bystander DEF ThreadStep
<1>4. TypeOK'
  <2>1. proc' \in [Proc -> ProcRow] /\ lock' \in Proc \union {Nobody} /\ thread' \in Graphs
    BY Types DEF IInv, TypeOK
  <2> QED BY <1>1, <2>1, Counters, AllTypes DEF IInv, RowStep
<1>5. Processes'
  BY <1>3 DEF IInv, Processes, EpochsDiffer
<1>6. ArchiveFits'
  <2>1. SUFFICES ASSUME session'.archived, session.archived PROVE ArchiveFits'
    BY DEF ArchiveFits
  <2>2. RowsStay
    BY <2>1, ArchivedStays
  <2> QED BY <1>3, <2>1, <2>2 DEF IInv, ArchiveFits, RowsStay, Resulted
<1> QED BY <1>1, <1>2, <1>4, <1>5, <1>6 DEF IInv, RowStep, ThreadStep, Leased

\* archive: nothing is pending, and nobody is inside.
LEMMA ArchiveInv ==
    ASSUME IInv, Archive
    PROVE  IInv'
<1>1. RowStep
  BY RowsNext DEF Next
<1>2. /\ UNCHANGED <<approval, events, exec, receipts, notice, messages, lock, proc>>
      /\ thread' \in {NoThread, thread} /\ lock = Nobody
      /\ session' = [session EXCEPT !.archived = TRUE]
  BY DEF Archive
<1>3. session'.archived
  BY <1>2, Types DEF IInv
<1>4. Leased
  BY <1>2, ExecStays
<1>5. NoThread \in Graphs /\ GraphFits(NoThread)' /\ NoThread.next = "none"
  BY DEF NoThread, Graphs, NoResult, Results, GraphFits
<1>6. thread' \in Graphs /\ GraphFits(thread)'
  <2>1. CASE thread' = NoThread
    BY <1>5, <2>1 DEF GraphFits
  <2>2. CASE thread' = thread
    BY <1>2, <2>2, Types DEF IInv, ThreadFits, GraphFits
  <2> QED BY <1>2, <2>1, <2>2
<1>7. ThreadStep
  BY <1>2, <1>3, <1>6 DEF ThreadStep, ThreadFits, ThreadStays, IInv
<1>8. ASSUME NEW q \in Proc PROVE Sane(q)' /\ (Owns(q)' => Owns(q)) /\ (Ending(q) <=> Ending(q)')
  BY <1>1, <1>2, <1>4, <1>7, Bystander DEF ThreadStep
<1>9. TypeOK'
  <2>1. proc' \in [Proc -> ProcRow] /\ lock' \in Proc \union {Nobody}
    BY <1>2, Types DEF IInv, TypeOK
  <2>2. faults' \in 0..MaxFaults /\ manual' \in 0..MaxManual
    BY Counters DEF IInv, Next
  <2> QED BY <1>1, <1>4, <1>6, <2>1, <2>2, AllTypes DEF IInv, RowStep
<1>10. Processes'
  BY <1>2, <1>8 DEF IInv, Processes, EpochsDiffer
<1>11. thread'.next \in {"none", "end"}
  BY <1>5, <1>2 DEF Archive
<1>12. ArchiveFits'
  <2>1. CASE session.archived
    <3>1. ASSUME NEW q \in Proc, lock' = q \/ Owns(q)' PROVE Ending(q)'
      BY <1>2, <1>8, <2>1, <3>1 DEF IInv, ArchiveFits
    <3> QED BY <1>2, <1>11, <2>1, <3>1 DEF IInv, ArchiveFits, Resulted
  <2>2. CASE ~session.archived
    <3>1. Archivable
      BY <2>2 DEF Archive
    <3>2. approval.effect # "NOT_APPLIED" /\ \A e \in Events : events[e] # "pending"
          /\ \A r \in Revisions : notice[r].status \in {"none", "PUBLISHED"}
      BY <3>1 DEF Archivable
    <3>3. Resulted
      <4>1. events["decision"] = "delivered" \/ events["invalidated"] = "delivered"
        BY <3>2, Types DEF IInv, RowsFit, EventsFit, ApprovalFits, Events, EventStatus,
           ApprovalRow
      <4> QED BY <4>1 DEF IInv, RowsFit, ReceiptsFit, Resulted, NoResult
    <3>4. ASSUME NEW q \in Proc PROVE lock' # q /\ ~Owns(q)'
      <4>1. ~exec.live
        BY <3>1 DEF Archivable
      <4> QED BY <1>2, <4>1, ConstantsAssumption DEF Owns
    <3> QED BY <1>2, <1>11, <3>2, <3>3, <3>4 DEF ArchiveFits, Resulted
  <2> QED BY <2>1, <2>2
<1> QED BY <1>1, <1>4, <1>7, <1>9, <1>10, <1>12 DEF IInv, RowStep, ThreadStep, Leased

\* Every step keeps it.
LEMMA InvNext ==
    ASSUME IInv, [Next]_vars
    PROVE  IInv'
<1>1. exec \in ExecRow
  BY Types DEF IInv
<1>2. ASSUME NEW p \in Proc,
             \/ Pick(p) \/ Lock(p) \/ Busy(p) \/ Runner(p) \/ PublishFails(p)
             \/ Crash(p) \/ LoseConnection(p) \/ Raise(p)
      PROVE  IInv'
  BY <1>2, ProcInv
<1>3. CASE Business
  <2>1. UNCHANGED <<exec, receipts, lock, thread, proc>>
    BY <1>3 DEF Business, Review, LoseOffer, EndSession, Ages
  <2>2. session'.archived => session.archived
    BY <1>3, Types DEF Business, Review, LoseOffer, EndSession, Ages, IInv
  <2> QED BY <2>1, <2>2, ExecStays, OutsideInv
<1>4. CASE LeaseEnds \/ WaitEnds
  <2>1. UNCHANGED <<session, receipts, lock, thread, proc>>
        /\ (exec' = [exec EXCEPT !.live = FALSE] \/ exec' = [exec EXCEPT !.wait = FALSE])
    BY <1>4 DEF LeaseEnds, WaitEnds
  <2>2. exec'.epoch = exec.epoch /\ exec'.saved = exec.saved
    BY <1>1, <2>1 DEF ExecRow
  <2> QED BY <1>4, <2>1, <2>2, ClockLeases, OutsideInv
<1>5. ASSUME NEW r \in Revisions, NoticeLeaseEnds(r) \/ NoticeWaitEnds(r) \/ RetryNotice(r)
      PROVE  IInv'
  <2>1. UNCHANGED <<session, exec, receipts, lock, thread, proc>>
    BY <1>5 DEF NoticeLeaseEnds, NoticeWaitEnds, RetryNotice
  <2> QED BY <2>1, ExecStays, OutsideInv
<1>6. CASE UNCHANGED vars
  <2>1. UNCHANGED <<session, exec, receipts, lock, thread, proc>>
    BY <1>6 DEF vars
  <2> QED BY <2>1, ExecStays, OutsideInv
<1> QED BY <1>2, <1>3, <1>4, <1>5, <1>6, ArchiveInv DEF Next, Clock

\* It holds of a new approval without executions.
LEMMA InvInit == Init => IInv
<1> SUFFICES ASSUME Init PROVE IInv
  OBVIOUS
<1>1. /\ approval = [status |-> "PENDING", effect |-> "NOT_APPLIED", revision |-> 0,
                     basis |-> TRUE, late |-> FALSE]
      /\ session = [status |-> "open", archived |-> FALSE]
      /\ events = [e \in Events |-> IF e = "requested" THEN "pending" ELSE "none"]
      /\ exec = [owner |-> 0, live |-> FALSE, epoch |-> 0, saved |-> FALSE,
                 recovery |-> FALSE, attempts |-> 0, wait |-> FALSE]
      /\ receipts = [e \in Events |-> NoResult]
      /\ notice = [r \in Revisions |-> NoNotice]
      /\ messages = [r \in Revisions |-> 0]
      /\ lock = Nobody /\ thread = NoThread
      /\ proc = [p \in Proc |-> Idle]
      /\ faults = 0 /\ manual = 0
  BY DEF Init
<1>2. NoResult \in Results /\ NoThread \in Graphs
  BY DEF NoResult, Results, NoThread, Graphs
<1>3. Idle \in ProcRow
  BY <1>2 DEF Idle, ProcRow
<1>4. NoNotice \in NoticeRow
  BY DEF NoNotice, NoticeRow
<1>5. AttemptLimit \in Nat \ {0} /\ MaxFaults \in Nat /\ MaxManual \in Nat
  BY ConstantsAssumption
<1>6. exec \in ExecRow
  BY <1>1, <1>5 DEF ExecRow
<1>7. TypeOK
  <2>1. approval \in ApprovalRow /\ session \in [status : {"open", "agreed", "closed"}, archived : BOOLEAN]
    BY <1>1 DEF ApprovalRow
  <2>2. events \in [Events -> EventStatus] /\ receipts \in [Events -> Results]
    BY <1>1, <1>2 DEF EventStatus
  <2>3. notice \in [Revisions -> NoticeRow] /\ messages \in [Revisions -> Nat]
    BY <1>1, <1>4
  <2>4. lock \in Proc \union {Nobody} /\ thread \in Graphs /\ proc \in [Proc -> ProcRow]
    BY <1>1, <1>2, <1>3
  <2>5. faults \in 0..MaxFaults /\ manual \in 0..MaxManual /\ (exec.live => exec.owner # 0)
    BY <1>1, <1>5
  <2> QED BY <1>6, <2>1, <2>2, <2>3, <2>4, <2>5
          DEF TypeOK, ApprovalRow, EventStatus, ExecRow, NoticeRow, ProcRow
<1>8. RowsFit
  <2>1. ApprovalFits /\ SessionFits
    BY <1>1 DEF ApprovalFits, SessionFits
  <2>2. EventsFit /\ ReceiptsFit
    BY <1>1 DEF EventsFit, ReceiptsFit, Events, Resulted
  <2>3. NoticesFit
    BY <1>1 DEF NoticesFit, NoticeFits, NoNotice, Revisions
  <2> QED BY <2>1, <2>2, <2>3 DEF RowsFit
<1>9. ExecFits
  BY <1>1, <1>5 DEF ExecFits
<1>10. ThreadFits
  BY <1>1 DEF ThreadFits, GraphFits, NoThread, Resulted
<1>11. Processes
  BY <1>1 DEF Processes, EpochsDiffer, Sane, Begun, Idle, GraphFits, NoThread
<1>12. ArchiveFits
  BY <1>1 DEF ArchiveFits
<1> QED BY <1>7, <1>8, <1>9, <1>10, <1>11, <1>12 DEF IInv

\* The inductive invariant holds in every state.
THEOREM ApprovalInvariant == Spec => []IInv
<1>1. IInv /\ [Next]_vars => IInv'
  BY InvNext
<1> QED BY <1>1, InvInit, PTL DEF Spec

-------------------------------------------------------------------------------
(* What the runs check, for every value of the constants.                      *)

\* Rows, checkpoint and processes hold values their columns allow.
THEOREM TypeCorrect == Spec => []TypeOK
<1>1. IInv => TypeOK
  BY DEF IInv
<1> QED BY <1>1, ApprovalInvariant, PTL

\* acknowledge never marks an event before apply has written what settles it.
THEOREM NothingIsDeliveredEarly == Spec => []DeliveredIsSettled
<1>1. IInv => DeliveredIsSettled
  <2> SUFFICES ASSUME IInv PROVE DeliveredIsSettled
    OBVIOUS
  <2>1. RowsFit /\ receipts \in [Events -> Results] /\ approval.revision \in {0, 1, 2}
    BY Types DEF IInv
  <2>2. ASSUME events["decision"] = "delivered" PROVE approval.effect # "NOT_APPLIED"
    <3>1. PICK e \in Events : receipts[e] # NoResult
      BY <2>1, <2>2 DEF RowsFit, ReceiptsFit, Resulted
    <3>2. receipts[e].revision \in 1..approval.revision
      BY <2>1, <3>1 DEF RowsFit, ReceiptsFit
    <3>3. approval.revision # 0
      BY <2>1, <3>2
    <3> QED BY <2>1, <3>3 DEF RowsFit, ApprovalFits
  <2> QED BY <2>1, <2>2 DEF RowsFit, ReceiptsFit, DeliveredIsSettled
<1> QED BY <1>1, ApprovalInvariant, PTL

\* Whatever the checkpoint calls applied is a receipt of the database.
THEOREM CheckpointsAreBacked == Spec => []CheckpointHasReceipt
<1>1. IInv => CheckpointHasReceipt
  BY DEF IInv, ThreadFits, GraphFits, CheckpointHasReceipt
<1> QED BY <1>1, ApprovalInvariant, PTL

\* Crashes, lost connections and takeovers invent no conflict of recovery.
THEOREM ConflictsComeFromTheArchive == Spec => []ConflictOnlyAfterArchive
<1>1. IInv => ConflictOnlyAfterArchive
  BY DEF IInv, Processes, Sane, ConflictOnlyAfterArchive
<1> QED BY <1>1, ApprovalInvariant, PTL

\* Runner and dispatcher together publish each notice at most once.
THEOREM NoticesAreSentOnce == Spec => []NoticesOnce
<1>1. IInv => NoticesOnce
  BY DEF IInv, RowsFit, NoticesFit, NoticeFits, NoticesOnce
<1> QED BY <1>1, ApprovalInvariant, PTL

\* Whoever is late, holds a lease or waits for the lock of an archived session's thread,
\* finds nothing that it may still write.
THEOREM ArchivesAreFinal == Spec => ArchiveIsFinal
<1> DEFINE Final == session.archived => UNCHANGED <<session, approval, events, notice, receipts, messages>>
<1>1. IInv /\ [Next]_vars => Final
  BY ArchivedStays DEF RowsStay
<1> QED BY <1>1, ApprovalInvariant, PTL DEF Spec, ArchiveIsFinal

-------------------------------------------------------------------------------
(* The refinement of ApprovalOutcome.                                          *)

\* A notice of a revision that happened is sent, and was not sent before.
Announces ==
    /\ UNCHANGED approval
    /\ \E r \in 1..approval.revision :
          r \in Revisions /\ messages[r] = 0 /\ messages' = [messages EXCEPT ![r] = 1]

\* A step settles, announces, or leaves both alone.
LEMMA OutcomeSteps ==
    ASSUME IInv, [Next]_vars
    PROVE  ((Settles \/ UNCHANGED approval) /\ UNCHANGED messages) \/ Announces
<1>1. TypeOK /\ RowsFit /\ \A p \in Proc : Sane(p)
  BY DEF IInv, Processes
<1>2. ASSUME NEW p \in Proc, Pick(p) \/ Lock(p) \/ Busy(p) \/ Crash(p) \/ LoseConnection(p) \/ Raise(p)
      PROVE  UNCHANGED approval /\ UNCHANGED messages
  BY <1>2, OtherRows DEF RowsStay
<1>3. ASSUME NEW p \in Proc, Runner(p) \/ PublishFails(p)
      PROVE  ((Settles \/ UNCHANGED approval) /\ UNCHANGED messages) \/ Announces
  <2>1. CASE Claim(p) \/ Enter(p) \/ Save(p) \/ LoadNode(p) \/ WaitNode(p) \/ ApplyStale(p)
             \/ NoticeNode(p) \/ Release(p) \/ Fail(p)
    BY <2>1, OtherRows DEF RowsStay
  <2>2. CASE Inspect(p) \/ Acknowledge(p) \/ ClaimNotice(p) \/ PublishLate(p) \/ PublishFails(p)
    BY <2>2 DEF Inspect, Acknowledge, ClaimNotice, PublishLate, PublishFails, GiveUp
  <2>3. CASE Reconcile(p)
    <3>1. PICK b : b = Reconciled(Book)
      OBVIOUS
    <3>2. Store(b) /\ UNCHANGED messages
      BY <2>3, <3>1 DEF Reconcile
    <3>3. Settles
      BY <1>1, <3>1, <3>2, Reconciling, StoredLoss, StoredBook DEF Settles
    <3> QED BY <3>2, <3>3
  <2>4. CASE ApplyNode(p)
    <3>1. GraphFits(proc[p].graph) /\ proc[p].graph.next = "apply"
      BY <1>1, <2>4 DEF Sane, ApplyNode
    <3>2. PICK e : e = proc[p].graph.event
      OBVIOUS
    <3>3. Applies(e)
      BY <1>1, <2>4, <3>1, <3>2, Applying
    <3>4. Settles
      BY <3>3 DEF Applies, Settles
    <3>5. UNCHANGED messages
      BY <2>4 DEF ApplyNode
    <3> QED BY <3>4, <3>5
  <2>5. CASE Publish(p)
    <3>1. PICK r : r = proc[p].about
      OBVIOUS
    <3>2. r \in Revisions /\ r \in 1..approval.revision /\ notice[r].live /\ NoticeFits(r)
      BY <1>1, <2>5, <3>1, NoticeFacts DEF Publish, Holds
    <3>3. messages[r] = 0 /\ notice[r].status # "PUBLISHED"
      BY <3>2 DEF NoticeFits
    <3>4. /\ messages' = [messages EXCEPT ![r] = messages[r] + (IF notice[r].status = "PUBLISHED" THEN 0 ELSE 1)]
          /\ UNCHANGED approval
      BY <2>5, <3>1 DEF Publish
    <3>5. messages[r] + (IF notice[r].status = "PUBLISHED" THEN 0 ELSE 1) = 1
      BY <3>3
    <3>6. messages' = [messages EXCEPT ![r] = 1]
      BY <3>4, <3>5
    <3> QED BY <3>2, <3>3, <3>4, <3>6 DEF Announces
  <2> QED BY <1>3, <2>1, <2>2, <2>3, <2>4, <2>5 DEF Runner
<1>4. CASE Business
  <2>1. ASSUME NEW approve \in BOOLEAN, Review(approve) PROVE Settles /\ UNCHANGED messages
    BY <1>1, <2>1, Reviewing DEF Settles, Review
  <2>2. ASSUME NEW b, Store(b), b = Book \/ b = Voided(Book, FALSE),
               approval.status # "REJECTED" \/ b = Book
        PROVE  Settles
    <3>1. CASE b = Book
      BY <2>2, <3>1, StoredBook DEF Settles
    <3>2. CASE b # Book
      <4>1. approval.effect # "INVALIDATED"
        <5>1. Book.approval = approval
          BY DEF Book
        <5> QED BY <2>2, <3>2, <5>1 DEF Voided
      <4>2. LostBook(b)
        BY <1>1, <2>2, <3>2, <4>1, Voiding DEF RowsFit
      <4> QED BY <2>2, <3>2, <4>1, <4>2, StoredLoss DEF Settles
    <3> QED BY <3>1, <3>2
  <2>3. CASE LoseOffer
    <3>1. PICK b : b = Voided(Book, FALSE)
      OBVIOUS
    <3>2. Store(b) /\ approval.status # "REJECTED" /\ UNCHANGED messages
      BY <2>3, <3>1 DEF LoseOffer
    <3> QED BY <2>2, <3>1, <3>2
  <2>4. ASSUME NEW how, EndSession(how) PROVE Settles /\ UNCHANGED messages
    <3>1. PICK b : b = IF how = "closed" /\ approval.status # "REJECTED" THEN Voided(Book, FALSE) ELSE Book
      OBVIOUS
    <3>2. Store(b) /\ UNCHANGED messages
      BY <2>4, <3>1 DEF EndSession
    <3>3. (b = Book \/ b = Voided(Book, FALSE)) /\ (approval.status # "REJECTED" \/ b = Book)
      BY <3>1
    <3> QED BY <2>2, <3>2, <3>3
  <2>5. CASE Ages
    BY <2>5 DEF Ages, Settles, Aged
  <2> QED BY <1>4, <2>1, <2>3, <2>4, <2>5 DEF Business
<1>5. CASE Clock \/ Archive \/ \E r \in Revisions : RetryNotice(r)
  BY <1>5 DEF Clock, LeaseEnds, WaitEnds, NoticeLeaseEnds, NoticeWaitEnds, Archive, RetryNotice
<1>6. CASE UNCHANGED vars
  BY <1>6 DEF vars
<1> QED BY <1>2, <1>3, <1>4, <1>5, <1>6 DEF Next

Decision == IF approval.status \in {"CANCELLED", "EXPIRED"} THEN "VOID" ELSE approval.status
Announced == {r \in Revisions : messages[r] > 0}

\* A new approval is undecided and nothing was announced.
LEMMA OutcomeStarts == Init => Outcome!Init
<1> SUFFICES ASSUME Init PROVE Outcome!Init
  OBVIOUS
<1>1. Announced = {}
  BY DEF Init, Announced
<1>2. Decision = "PENDING" /\ approval.effect = "NOT_APPLIED" /\ approval.revision = 0
  BY DEF Init, Decision
<1> QED BY <1>1, <1>2 DEF Outcome!Init, Announced, Decision

\* Every step is one of ApprovalOutcome or leaves its variables alone.
LEMMA OutcomeNext ==
    ASSUME IInv, [Next]_vars
    PROVE  [Outcome!Next]_Outcome!vars
<1>1. TypeOK /\ ApprovalFits /\ approval \in ApprovalRow /\ messages \in [Revisions -> Nat]
  BY Types DEF IInv, RowsFit
<1>2. CASE UNCHANGED approval /\ UNCHANGED messages
  BY <1>2 DEF Outcome!vars
<1>3. CASE Settles /\ UNCHANGED messages
  <2>1. Announced' = Announced
    BY <1>3 DEF Announced
  <2>2. CASE Kept
    BY <1>3, <2>2 DEF Kept, Outcome!vars
  <2>3. CASE Aged
    <3>1. approval'.status = approval.status /\ approval'.effect = approval.effect
          /\ approval'.revision = approval.revision
      BY <1>1, <2>3 DEF Aged, ApprovalRow
    <3> QED BY <1>3, <3>1 DEF Outcome!vars
  <2>4. CASE Loses
    <3>1. approval'.effect = "INVALIDATED" /\ approval'.revision = approval.revision + 1
          /\ approval.status # "REJECTED" /\ approval.effect # "INVALIDATED"
      BY <1>1, <2>4, LossColumns DEF Loses
    <3>2. Decision' = IF Decision = "PENDING" THEN "VOID" ELSE Decision
      BY <1>1, <2>4, LossColumns DEF Decision
    <3>3. Decision # "REJECTED"
      BY <3>1 DEF Decision
    <3>4. Outcome!Lose
      BY <2>1, <3>1, <3>2, <3>3 DEF Outcome!Lose, Decision, Announced
    <3> QED BY <3>4 DEF Outcome!Next
  <2>5. CASE Approves
    <3>1. approval.status = "PENDING" /\ approval'.status = "APPROVED"
          /\ approval'.effect = approval.effect /\ approval'.revision = approval.revision
      BY <1>1, <2>5 DEF Approves, ApprovalRow
    <3>2. Outcome!Approve
      BY <1>3, <3>1 DEF Outcome!Approve
    <3> QED BY <3>2 DEF Outcome!Next
  <2>6. CASE Rejects
    <3>1. approval.status = "PENDING" /\ approval'.status = "REJECTED"
          /\ approval'.effect = "APPLIED" /\ approval'.revision = approval.revision + 1
      BY <1>1, <2>6, DecisionColumns DEF Rejects, ApprovalFits
    <3>2. Outcome!Reject
      BY <1>3, <3>1 DEF Outcome!Reject
    <3> QED BY <3>2 DEF Outcome!Next
  <2>7. CASE Takes
    <3>1. approval.status = "APPROVED" /\ approval'.status = "APPROVED"
          /\ approval.effect = "NOT_APPLIED"
          /\ approval'.effect = "APPLIED" /\ approval'.revision = approval.revision + 1
      BY <1>1, <2>7, DecisionColumns DEF Takes, ApprovalFits
    <3>2. Outcome!TakeEffect
      BY <1>3, <3>1 DEF Outcome!TakeEffect
    <3> QED BY <3>2 DEF Outcome!Next
  <2> QED BY <1>3, <2>2, <2>3, <2>4, <2>5, <2>6, <2>7 DEF Settles
<1>4. CASE Announces
  <2>1. PICK r \in 1..approval.revision :
           r \in Revisions /\ messages[r] = 0 /\ messages' = [messages EXCEPT ![r] = 1]
    BY <1>4 DEF Announces
  <2>2. r \notin Announced
    BY <2>1 DEF Announced
  <2>3. Announced' = Announced \union {r}
    BY <1>1, <2>1 DEF Announced
  <2>4. UNCHANGED approval
    BY <1>4 DEF Announces
  <2>5. Outcome!Announce
    BY <2>1, <2>2, <2>3, <2>4 DEF Outcome!Announce, Announced
  <2> QED BY <2>5 DEF Outcome!Next
<1> QED BY <1>2, <1>3, <1>4, OutcomeSteps

\* Whatever crashes, comes late or is repeated, the seller's decision is counted once,
\* its loss once more, and the buyer is told of each at most once and of nothing else.
THEOREM RuntimeKeepsTheOutcome == Spec => OutcomeIsKept
<1>1. IInv /\ [Next]_vars => [Outcome!Next]_Outcome!vars
  BY OutcomeNext
<1> QED BY <1>1, OutcomeStarts, ApprovalInvariant, PTL DEF Spec, OutcomeIsKept, Outcome!Spec

-------------------------------------------------------------------------------
(* The prototype: the holder of the thread works for the head of the queue, the *)
CONSTANTS Requests, Values, Approval, Epochs, Faults
VARIABLES queue, cursor, rounds, artifact, attempts, p0_receipts, p0_messages, p0_lock, cp,
          p0_proc, p0_faults

Prototype == INSTANCE Prototype WITH receipts <- p0_receipts, messages <- p0_messages,
                                     lock <- p0_lock, proc <- p0_proc, faults <- p0_faults

\* The requests of the session are finitely many, and no answer of the model is "none".
PrototypeConstants == IsFiniteSet(Requests) /\ Prototype!None \notin Values
ASSUME PrototypeValues == PrototypeConstants

\* The prototype counts as this module does.
LEMMA PrototypeCounts == \A S : Prototype!Cardinality(S) = Cardinality(S)
BY DEF Prototype!Cardinality, Cardinality

InputRows == [request : Requests, status : {"PENDING", "RUNNING", "RETRY_WAIT", "COMPLETED"},
              epoch : Nat, live : BOOLEAN]
Path == IF Approval THEN {"query", "semantic", "commit", "approval", "publish"}
        ELSE {"query", "semantic", "commit", "publish"}
Started == {"node", "called", "noted", "save", "ended"}
WorkerRows == [pc : Started \cup {"away", "entry", "hung", "revoked"}, run : Nat, epoch : Nat,
            value : Values \cup {Prototype!None}]

RowsInOrder ==
  /\ queue \in Seq(InputRows) /\ cursor \in 0 .. Len(queue)
  /\ artifact \in [Prototype!Seqs -> Values \cup {Prototype!None}]
  /\ attempts \in [Prototype!Seqs -> Nat]
  /\ p0_receipts \subseteq Prototype!Seqs /\ IsFiniteSet(p0_receipts)
  /\ p0_messages \subseteq Prototype!Seqs
  /\ cp \in [run : Nat, next : Path \cup {"end"}, value : Values \cup {Prototype!None}]
  /\ cp.run <= Len(queue) /\ (cp.run # 0 => cp.run \in Prototype!Seqs)
  /\ p0_lock = Prototype!Free \/ \E p \in Proc : p0_lock = {p}
  /\ p0_proc \in [Proc -> WorkerRows]
  /\ \A p \in Proc : p0_proc[p].pc # "away" => p0_proc[p].run \in Prototype!Seqs /\ p0_proc[p].run \in 1 .. Len(queue)

\* Whoever holds the thread works for the head of the queue.
HolderIsAhead == \A p \in Proc : Prototype!Holds(p) => p0_proc[p].pc # "away" /\ p0_proc[p].run = cursor + 1

\* The checkpoint is that of the head or the end of an input before it, and nothing exists
\* of an input it has not reached.
ThreadInOrder ==
  /\ cp.run <= cursor + 1 /\ (cp.run <= cursor => cp.next = "end")
  /\ \A r \in Prototype!Seqs : Prototype!Evidence(r) => r <= cp.run
  /\ cp.value # Prototype!None => cp.run # 0 /\ cp.value = artifact[cp.run]
  /\ \A p \in Proc : p0_proc[p].pc \in Started => p0_proc[p].run <= cp.run

\* Every stage that the checkpoint has passed left its rows.
StagesLeaveRows ==
  cp.run # 0 =>
    /\ cp.next \in {"commit", "approval", "publish", "end"} => artifact[cp.run] # Prototype!None
    /\ cp.next \in {"approval", "publish", "end"} => cp.run \in p0_receipts
    /\ cp.next = "end" => cp.run \in p0_messages

\* An accepted answer is noted once, and the holder saves what it has written.
WorkerInOrder(p) ==
  LET w == p0_proc[p] IN
  /\ w.pc = "called" => w.value # Prototype!None
  /\ w.pc = "noted" => attempts[w.run] = 0 /\ w.value = artifact[w.run] /\ w.value # Prototype!None
  /\ Prototype!Holds(p) =>
       /\ w.pc \in {"called", "noted"} => cp.next = "semantic"
       /\ w.pc = "ended" => cp.next = "end"
       /\ w.pc = "save" =>
            /\ cp.next \in Path
            /\ cp.next = "semantic" => w.value = artifact[w.run] /\ w.value # Prototype!None
            /\ cp.next = "commit" => w.run \in p0_receipts
            /\ cp.next = "publish" => w.run \in p0_messages
WorkersInOrder ==
  /\ \A p \in Proc : WorkerInOrder(p)
  /\ \A p, q \in Proc : p # q /\ p0_proc[p].pc = "noted" /\ p0_proc[q].pc = "noted" => p0_proc[p].run # p0_proc[q].run

\* Every command is counted once, every answer noted at most once.
Counted ==
  /\ rounds = Cardinality(p0_receipts)
  /\ \A r \in Prototype!Seqs : attempts[r] <= 1 /\ (attempts[r] = 1 => artifact[r] # Prototype!None)

\* What is behind the cursor is complete.
CompletedInOrder == \A r \in 1 .. cursor : r \in p0_receipts /\ r \in p0_messages /\ artifact[r] # Prototype!None

PInv ==
  /\ RowsInOrder /\ HolderIsAhead /\ ThreadInOrder /\ StagesLeaveRows /\ WorkersInOrder
  /\ Counted /\ CompletedInOrder

-----------------------------------------------------------------------------
(* The inputs of the session                                               *)

\* The inputs are numbered from 1.
LEMMA SeqsAreNumbers == ASSUME PrototypeConstants PROVE Prototype!Seqs \subseteq Nat \ {0}
BY FS_CardinalityType DEF PrototypeConstants, Prototype!Seqs

\* A row of the queue that is written again stays one, and the others stay as they are.
LEMMA RowWritten ==
  ASSUME queue \in Seq(InputRows), NEW r \in 1 .. Len(queue), NEW row \in InputRows
  PROVE  [queue EXCEPT ![r] = row] \in Seq(InputRows) /\ Len([queue EXCEPT ![r] = row]) = Len(queue)
BY ExceptSeq

\* Its row is one of those.
LEMMA RowTyped ==
  ASSUME queue \in Seq(InputRows), NEW r \in 1 .. Len(queue)
  PROVE  queue[r] \in InputRows
BY ElementOfSeq

\* A row stays one under a new status, a new epoch and a new lease.
LEMMA FieldsTyped ==
  ASSUME NEW q \in InputRows
  PROVE  /\ [q EXCEPT !.status = "RUNNING"] \in InputRows
         /\ [q EXCEPT !.status = "RETRY_WAIT"] \in InputRows
         /\ [q EXCEPT !.status = "COMPLETED"] \in InputRows
         /\ [q EXCEPT !.live = TRUE] \in InputRows
         /\ [q EXCEPT !.live = FALSE] \in InputRows
<1>1. [q EXCEPT !.status = "RUNNING"] \in InputRows
  BY DEF InputRows
<1>2. [q EXCEPT !.status = "RETRY_WAIT"] \in InputRows
  BY DEF InputRows
<1>3. [q EXCEPT !.status = "COMPLETED"] \in InputRows
  BY DEF InputRows
<1>4. [q EXCEPT !.live = TRUE] \in InputRows /\ [q EXCEPT !.live = FALSE] \in InputRows
  BY DEF InputRows
<1> QED BY <1>1, <1>2, <1>3, <1>4

\* And under another epoch.
LEMMA EpochTyped ==
  ASSUME NEW q \in InputRows, NEW n \in Nat PROVE [q EXCEPT !.epoch = n] \in InputRows
BY DEF InputRows

\* An epoch is a number.
LEMMA EpochsCount == ASSUME NEW q \in InputRows PROVE q.epoch \in Nat
BY DEF InputRows

\* A new owner, and the loss of one, leave a row one.
LEMMA OwnersTyped ==
  ASSUME NEW q \in InputRows
  PROVE  Prototype!Owned(q) \in InputRows /\ Prototype!Unowned(q) \in InputRows
<1>1. PICK n : n = q.epoch + 1
  OBVIOUS
<1>2. n \in Nat
  BY <1>1, EpochsCount
<1>3. PICK a : a = [q EXCEPT !.status = "RUNNING"]
  OBVIOUS
<1>4. PICK b : b = [a EXCEPT !.epoch = n]
  OBVIOUS
<1>5. Prototype!Owned(q) = [b EXCEPT !.live = TRUE]
  BY <1>1, <1>3, <1>4 DEF Prototype!Owned
<1>6. PICK c : c = [q EXCEPT !.status = "RETRY_WAIT"]
  OBVIOUS
<1>7. PICK d : d = [c EXCEPT !.epoch = n]
  OBVIOUS
<1>8. Prototype!Unowned(q) = [d EXCEPT !.live = FALSE]
  BY <1>1, <1>6, <1>7 DEF Prototype!Unowned
<1>9. b \in InputRows /\ d \in InputRows
  BY <1>2, <1>3, <1>4, <1>6, <1>7, FieldsTyped, EpochTyped
<1> QED BY <1>5, <1>8, <1>9, FieldsTyped

\* A claim and a revocation write the row of the input (store.py claim, revoke).
LEMMA OwnerWritten ==
  ASSUME queue \in Seq(InputRows), NEW r \in 1 .. Len(queue)
  PROVE  /\ Prototype!Claimed(r) \in Seq(InputRows) /\ Len(Prototype!Claimed(r)) = Len(queue)
         /\ Prototype!Revoked(r) \in Seq(InputRows) /\ Len(Prototype!Revoked(r)) = Len(queue)
<1> DEFINE q == queue[r]
<1>1. q \in InputRows
  BY RowTyped
<1> HIDE DEF q
<1>2. Prototype!Owned(q) \in InputRows /\ Prototype!Unowned(q) \in InputRows
  BY <1>1, OwnersTyped
<1>3. Prototype!Claimed(r) = [queue EXCEPT ![r] = Prototype!Owned(q)] /\ Prototype!Revoked(r) = [queue EXCEPT ![r] = Prototype!Unowned(q)]
  BY DEF Prototype!Claimed, Prototype!Revoked, q
<1> QED BY <1>2, <1>3, RowWritten

-----------------------------------------------------------------------------
(* Steps that leave the checkpoint and the cursor where they are           *)

\* What a worker may do to the rows while the checkpoint and the cursor stay: the queue
\* keeps its length, answers, receipts and results are only added, and only to inputs that
\* the checkpoint has reached.
RowsGrow ==
  /\ queue' \in Seq(InputRows) /\ Len(queue') = Len(queue)
  /\ UNCHANGED <<cursor, cp>>
  /\ artifact' \in [Prototype!Seqs -> Values \cup {Prototype!None}]
  /\ attempts' \in [Prototype!Seqs -> Nat]
  /\ \A r \in Prototype!Seqs : artifact[r] # Prototype!None => artifact'[r] = artifact[r]
  /\ \A r \in Prototype!Seqs : artifact'[r] # Prototype!None => artifact[r] # Prototype!None \/ r <= cp.run
  /\ p0_receipts \subseteq p0_receipts' /\ p0_receipts' \subseteq Prototype!Seqs
  /\ IsFiniteSet(p0_receipts')
  /\ \A r \in p0_receipts' : r \in p0_receipts \/ r <= cp.run
  /\ p0_messages \subseteq p0_messages' /\ p0_messages' \subseteq Prototype!Seqs
  /\ \A r \in p0_messages' : r \in p0_messages \/ r <= cp.run
  /\ Counted'

\* What it may become: w is its next state, and it keeps its input or goes away; it may
\* lose the lock, and never gets it this way.
WorkerMoves(p, w) ==
  /\ w \in WorkerRows /\ p0_proc' = [p0_proc EXCEPT ![p] = w]
  /\ w.pc # "away" => p0_proc[p].pc # "away" /\ w.run = p0_proc[p].run
  /\ p0_lock' \in {p0_lock, p0_lock \ {p}} /\ (w.pc = "away" => p \notin p0_lock')
  /\ w.pc \in Started => p0_proc[p].run <= cp.run

\* Nobody else's note is taken, and two workers do not note the same answer.
NotesApart(p, w) ==
  \A q \in Proc \ {p} : p0_proc[q].pc = "noted" =>
    /\ attempts'[p0_proc[q].run] = attempts[p0_proc[q].run]
    /\ w.pc = "noted" => p0_proc[q].run # w.run

\* Such a step keeps the rows typed and the holder at the head.
LEMMA MovesKeepRows ==
  ASSUME PInv, NEW p \in Proc, NEW w, RowsGrow, WorkerMoves(p, w)
  PROVE  RowsInOrder' /\ HolderIsAhead'
<1>1. p0_proc' \in [Proc -> WorkerRows] /\ p0_proc'[p] = w /\ \A q \in Proc \ {p} : p0_proc'[q] = p0_proc[q]
  BY DEF PInv, RowsInOrder, WorkerMoves
<1>2. p0_lock' = Prototype!Free \/ \E q \in Proc : p0_lock' = {q}
  BY DEF PInv, RowsInOrder, WorkerMoves, Prototype!Free
<1>3. \A q \in Proc : p0_proc'[q].pc # "away" => p0_proc[q].pc # "away" /\ p0_proc'[q].run = p0_proc[q].run
  BY <1>1 DEF WorkerMoves
<1>4. RowsInOrder'
  <2>1. \A q \in Proc : p0_proc'[q].pc # "away" => p0_proc'[q].run \in Prototype!Seqs /\ p0_proc'[q].run \in 1 .. Len(queue')
    BY <1>3 DEF PInv, RowsInOrder, RowsGrow
  <2> QED BY <1>1, <1>2, <2>1 DEF PInv, RowsInOrder, RowsGrow, Prototype!Seqs, Path
<1>5. HolderIsAhead'
  <2> SUFFICES ASSUME NEW q \in Proc, p0_lock' = {q}
               PROVE  p0_proc'[q].pc # "away" /\ p0_proc'[q].run = cursor + 1
    BY DEF HolderIsAhead, Prototype!Holds, RowsGrow
  <2>1. p0_lock = {q}
    BY DEF PInv, RowsInOrder, WorkerMoves, Prototype!Free
  <2>2. p0_proc[q].pc # "away" /\ p0_proc[q].run = cursor + 1
    BY <2>1 DEF PInv, HolderIsAhead, Prototype!Holds
  <2>3. p0_proc'[q].pc # "away"
    BY <1>1, <2>2 DEF WorkerMoves
  <2> QED BY <1>3, <2>2, <2>3
<1> QED BY <1>4, <1>5

\* It keeps the thread in order.
LEMMA MovesKeepThread ==
  ASSUME PrototypeConstants, PInv, NEW p \in Proc, NEW w, RowsGrow, WorkerMoves(p, w)
  PROVE  ThreadInOrder' /\ StagesLeaveRows' /\ CompletedInOrder'
<1>1. p0_proc'[p] = w /\ \A q \in Proc \ {p} : p0_proc'[q] = p0_proc[q]
  BY DEF PInv, RowsInOrder, WorkerMoves
<1>2. cp.run # 0 => cp.run \in Prototype!Seqs
  BY DEF PInv, RowsInOrder
<1>3. cp' = cp /\ cursor' = cursor
  BY DEF RowsGrow
<1>4. ThreadInOrder'
  <2>1. \A r \in Prototype!Seqs : Prototype!Evidence(r)' => r <= cp.run
    BY DEF RowsGrow, Prototype!Evidence, PInv, ThreadInOrder
  <2>2. cp.value # Prototype!None => cp.run # 0 /\ cp.value = artifact'[cp.run]
    BY <1>2 DEF RowsGrow, PInv, ThreadInOrder
  <2>3. \A q \in Proc : p0_proc'[q].pc \in Started => p0_proc'[q].run <= cp.run
    <3> SUFFICES ASSUME NEW q \in Proc, p0_proc'[q].pc \in Started PROVE p0_proc'[q].run <= cp.run
      OBVIOUS
    <3>1. CASE q # p
      BY <1>1, <3>1 DEF PInv, ThreadInOrder
    <3>2. CASE q = p
      BY <1>1, <3>2 DEF WorkerMoves, Started
    <3> QED BY <3>1, <3>2
  <2>4. cp.run <= cursor + 1 /\ (cp.run <= cursor => cp.next = "end")
    BY DEF PInv, ThreadInOrder
  <2> QED BY <1>3, <2>1, <2>2, <2>3, <2>4 DEF ThreadInOrder, Prototype!Evidence
<1>5. StagesLeaveRows'
  BY <1>2, <1>3 DEF RowsGrow, PInv, StagesLeaveRows
<1>6. CompletedInOrder'
  <2> SUFFICES ASSUME NEW r \in 1 .. cursor PROVE r \in p0_receipts' /\ r \in p0_messages' /\ artifact'[r] # Prototype!None
    BY <1>3 DEF CompletedInOrder
  <2>1. r \in p0_receipts /\ r \in p0_messages /\ artifact[r] # Prototype!None
    BY DEF PInv, CompletedInOrder
  <2>2. r \in Prototype!Seqs
    BY <2>1 DEF PInv, RowsInOrder
  <2> QED BY <2>1, <2>2 DEF RowsGrow
<1> QED BY <1>4, <1>5, <1>6

\* It keeps the workers in order, if it does so for the one that moves.
LEMMA MovesKeepWorkers ==
  ASSUME PInv, NEW p \in Proc, NEW w, RowsGrow, WorkerMoves(p, w), NotesApart(p, w), WorkerInOrder(p)'
  PROVE  WorkersInOrder'
<1>1. p0_proc'[p] = w /\ \A q \in Proc \ {p} : p0_proc'[q] = p0_proc[q]
  BY DEF PInv, RowsInOrder, WorkerMoves
<1>2. ASSUME NEW q \in Proc \ {p} PROVE WorkerInOrder(q)'
  <2>1. WorkerInOrder(q) /\ p0_proc'[q] = p0_proc[q] /\ cp' = cp
    BY <1>1, <1>2 DEF PInv, WorkersInOrder, RowsGrow
  <2>2. p0_lock' = {q} => p0_lock = {q}
    BY DEF PInv, RowsInOrder, WorkerMoves, Prototype!Free
  <2>3. p0_proc[q].pc # "away" => p0_proc[q].run \in Prototype!Seqs
    BY DEF PInv, RowsInOrder
  <2>4. p0_proc[q].pc \in {"noted", "save"} /\ artifact[p0_proc[q].run] # Prototype!None
          => artifact'[p0_proc[q].run] = artifact[p0_proc[q].run]
    BY <2>3 DEF RowsGrow
  <2>5. p0_proc[q].pc = "noted" => attempts'[p0_proc[q].run] = attempts[p0_proc[q].run]
    BY <1>2 DEF NotesApart
  <2>6. p0_receipts \subseteq p0_receipts' /\ p0_messages \subseteq p0_messages'
    BY DEF RowsGrow
  <2> QED BY <2>1, <2>2, <2>4, <2>5, <2>6 DEF WorkerInOrder, Prototype!Holds
<1>3. \A q \in Proc : WorkerInOrder(q)'
  BY <1>2
<1>4. \A x, y \in Proc : x # y /\ p0_proc'[x].pc = "noted" /\ p0_proc'[y].pc = "noted" => p0_proc'[x].run # p0_proc'[y].run
  BY <1>1 DEF PInv, WorkersInOrder, NotesApart
<1> QED BY <1>3, <1>4 DEF WorkersInOrder

\* Together: such a step keeps the invariant.
LEMMA Moves ==
  ASSUME PrototypeConstants, PInv, NEW p \in Proc, NEW w, RowsGrow, WorkerMoves(p, w), NotesApart(p, w),
         WorkerInOrder(p)'
  PROVE  PInv'
<1>1. Counted'
  BY DEF RowsGrow
<1> QED BY <1>1, MovesKeepRows, MovesKeepThread, MovesKeepWorkers DEF PInv

\* A step that changes no row but that of the queue is such a step.
LEMMA RowsRest ==
  ASSUME PInv, queue' \in Seq(InputRows), Len(queue') = Len(queue),
         UNCHANGED <<cursor, cp, rounds, artifact, attempts, p0_receipts, p0_messages>>
  PROVE  RowsGrow
<1>1. Counted'
  BY DEF PInv, Counted
<1> QED BY <1>1 DEF PInv, RowsInOrder, RowsGrow

\* A worker that only moves on, or goes away, keeps the invariant.
LEMMA Passes ==
  ASSUME PrototypeConstants, PInv, NEW p \in Proc, NEW w, WorkerMoves(p, w), WorkerInOrder(p)',
         w.pc = "noted" => p0_proc[p].pc = "noted",
         queue' \in Seq(InputRows), Len(queue') = Len(queue),
         UNCHANGED <<cursor, cp, rounds, artifact, attempts, p0_receipts, p0_messages>>
  PROVE  PInv'
<1>1. RowsGrow
  BY RowsRest
<1>2. NotesApart(p, w)
  <2> SUFFICES ASSUME NEW q \in Proc \ {p}, p0_proc[q].pc = "noted", w.pc = "noted"
               PROVE  p0_proc[q].run # w.run
    BY DEF NotesApart
  <2>1. w.run = p0_proc[p].run /\ p0_proc[p].pc = "noted"
    BY DEF WorkerMoves
  <2> QED BY <2>1 DEF PInv, WorkersInOrder
<1> QED BY <1>1, <1>2, Moves

\* One that goes away leaves everything in order.
LEMMA PLeaves ==
  ASSUME PrototypeConstants, PInv, NEW p \in Proc, Prototype!Exits(p),
         queue' \in Seq(InputRows), Len(queue') = Len(queue),
         UNCHANGED <<cursor, cp, rounds, artifact, attempts, p0_receipts, p0_messages>>
  PROVE  PInv'
<1>1. Prototype!Away \in WorkerRows /\ Prototype!Away.pc = "away"
  BY DEF Prototype!Away, WorkerRows
<1>2. p0_proc' = [p0_proc EXCEPT ![p] = Prototype!Away] /\ p0_lock' = p0_lock \ {p}
  BY DEF Prototype!Exits, Prototype!Unlock
<1>3. WorkerMoves(p, Prototype!Away)
  BY <1>1, <1>2 DEF WorkerMoves, Started
<1>4. p0_proc'[p] = Prototype!Away /\ p0_lock' # {p}
  BY <1>2 DEF PInv, RowsInOrder
<1>5. WorkerInOrder(p)'
  BY <1>1, <1>4 DEF WorkerInOrder, Prototype!Holds
<1> QED BY <1>1, <1>3, <1>5, Passes

\* The queue as it was is one the lemmas above accept.
LEMMA QueueRests ==
  ASSUME PInv, UNCHANGED queue
  PROVE  queue' \in Seq(InputRows) /\ Len(queue') = Len(queue)
BY DEF PInv, RowsInOrder

\* A worker that goes on at the same input with the lock as it was.
LEMMA Going ==
  ASSUME PInv, NEW p \in Proc, NEW pc \in Started \cup {"hung", "revoked"}, Prototype!Goes(p, pc),
         p0_proc[p].pc # "away", pc \in Started => p0_proc[p].run <= cp.run
  PROVE  /\ WorkerMoves(p, [p0_proc[p] EXCEPT !.pc = pc])
         /\ p0_proc'[p] = [p0_proc[p] EXCEPT !.pc = pc]
         /\ p0_lock' = p0_lock
         /\ [p0_proc[p] EXCEPT !.pc = pc].pc = pc
<1>1. p0_proc[p] \in WorkerRows
  BY DEF PInv, RowsInOrder
<1>2. PICK w : w = [p0_proc[p] EXCEPT !.pc = pc]
  OBVIOUS
<1>3. w \in WorkerRows /\ w.pc = pc /\ w.run = p0_proc[p].run
  BY <1>1, <1>2 DEF WorkerRows
<1>4. p0_proc' = [p0_proc EXCEPT ![p] = w] /\ p0_lock' = p0_lock
  BY <1>2 DEF Prototype!Goes
<1>5. pc # "away"
  BY DEF Started
<1>6. WorkerMoves(p, w) /\ p0_proc'[p] = w
  BY <1>3, <1>4, <1>5 DEF WorkerMoves, PInv, RowsInOrder
<1> QED BY <1>2, <1>3, <1>4, <1>6

\* A holder that has reached the thread's checkpoint stands at that of the head.
LEMMA HolderAtHead ==
  ASSUME PInv, NEW p \in Proc, Prototype!Holds(p)
  PROVE  /\ p0_proc[p].run = cursor + 1 /\ p0_proc[p].run \in Prototype!Seqs
         /\ p0_proc[p].pc # "away"
         /\ p0_proc[p].pc \in Started => cp.run = p0_proc[p].run
<1>1. p0_proc[p].run = cursor + 1 /\ p0_proc[p].pc # "away"
  BY DEF PInv, HolderIsAhead
<1>2. cp.run \in Nat /\ cursor \in Nat /\ p0_proc[p].run \in Prototype!Seqs
  BY <1>1 DEF PInv, RowsInOrder
<1>3. p0_proc[p].pc \in Started => p0_proc[p].run <= cp.run
  BY DEF PInv, ThreadInOrder
<1>4. cp.run <= cursor + 1
  BY DEF PInv, ThreadInOrder
<1> QED BY <1>1, <1>2, <1>3, <1>4

\* The entry of a worker that holds the thread is never a conflict, and the thread has not
\* gone past its input (graph.py choose_entry).
THEOREM EntryIsClear ==
  ASSUME PInv, NEW p \in Proc, Prototype!Holds(p)
  PROVE  LET r == p0_proc[p].run IN
         /\ Prototype!Entry(r) \in {"FINALIZE", "RESUME", "START"}
         /\ Prototype!Entry(r) # "START" => cp.run = r
         /\ Prototype!Entry(r) = "FINALIZE" => cp.next = "end"
         /\ Prototype!Entry(r) = "START" => cp.run <= cursor
<1> DEFINE r == p0_proc[p].run
<1>1. r = cursor + 1 /\ r \in Prototype!Seqs
  BY HolderAtHead
<1>2. cp.run \in Nat /\ cursor \in Nat
  BY DEF PInv, RowsInOrder
<1>3. /\ cp.run <= cursor + 1 /\ (cp.run <= cursor => cp.next = "end")
      /\ Prototype!Evidence(r) => r <= cp.run
  BY <1>1 DEF PInv, ThreadInOrder
<1> HIDE DEF r
<1>4. /\ Prototype!Entry(r) \in {"FINALIZE", "RESUME", "START"}
      /\ Prototype!Entry(r) # "START" => cp.run = r
      /\ Prototype!Entry(r) = "FINALIZE" => cp.next = "end"
      /\ Prototype!Entry(r) = "START" => cp.run <= cursor
  BY <1>1, <1>2, <1>3 DEF Prototype!Entry
<1> QED BY <1>4 DEF r

-----------------------------------------------------------------------------
(* The queue and ownership                                                 *)

\* A step of the queue alone keeps the invariant, if no input is lost by it.
LEMMA QueueMoves ==
  ASSUME PInv, queue' \in Seq(InputRows), Len(queue) <= Len(queue'),
         UNCHANGED <<cursor, rounds, artifact, attempts, p0_receipts, p0_messages, p0_lock, cp, p0_proc>>
  PROVE  PInv'
<1>1. Len(queue) \in Nat /\ Len(queue') \in Nat
  BY LenProperties DEF PInv, RowsInOrder
<1>2. RowsInOrder'
  <2>1. cursor \in 0 .. Len(queue') /\ cp.run <= Len(queue')
    BY <1>1 DEF PInv, RowsInOrder
  <2>2. \A p \in Proc : p0_proc[p].pc # "away" => p0_proc[p].run \in Prototype!Seqs /\ p0_proc[p].run \in 1 .. Len(queue')
    BY <1>1 DEF PInv, RowsInOrder
  <2> QED BY <2>1, <2>2 DEF PInv, RowsInOrder, Prototype!Seqs, Path
<1>3. HolderIsAhead'
  BY DEF PInv, HolderIsAhead, Prototype!Holds
<1>4. ThreadInOrder' /\ StagesLeaveRows'
  BY DEF PInv, ThreadInOrder, StagesLeaveRows, Prototype!Evidence
<1>5. WorkersInOrder'
  BY DEF PInv, WorkersInOrder, WorkerInOrder, Prototype!Holds
<1>6. Counted' /\ CompletedInOrder'
  BY DEF PInv, Counted, CompletedInOrder
<1> QED BY <1>2, <1>3, <1>4, <1>5, <1>6 DEF PInv

\* store.py enqueue.
LEMMA EnqueueKeeps == ASSUME PInv, NEW q \in Requests, Prototype!Enqueue(q) PROVE PInv'
<1> DEFINE row == [request |-> q, status |-> "PENDING", epoch |-> 0, live |-> FALSE]
<1>1. row \in InputRows
  BY DEF InputRows
<1>2. queue' = Append(queue, row)
  BY DEF Prototype!Enqueue
<1> HIDE DEF row
<1>3. queue \in Seq(InputRows)
  BY DEF PInv, RowsInOrder
<1>4. queue' \in Seq(InputRows) /\ Len(queue') = Len(queue) + 1 /\ Len(queue) \in Nat
  BY <1>1, <1>2, <1>3, AppendProperties, LenProperties
<1>5. UNCHANGED <<cursor, rounds, artifact, attempts, p0_receipts, p0_messages, p0_lock, cp, p0_proc>>
  BY DEF Prototype!Enqueue
<1> QED BY <1>4, <1>5, QueueMoves

\* The lease of a claim ends (store.py owner).
LEMMA LeaseEndsKeeps == ASSUME PInv, NEW r \in Prototype!Seqs, Prototype!LeaseEnds(r) PROVE PInv'
<1>1. queue \in Seq(InputRows) /\ r \in 1 .. Len(queue)
  BY LenProperties DEF PInv, RowsInOrder, Prototype!LeaseEnds
<1>2. PICK q : q = queue[r]
  OBVIOUS
<1>3. q \in InputRows
  BY <1>1, <1>2, RowTyped
<1>4. PICK row : row = [q EXCEPT !.live = FALSE]
  OBVIOUS
<1>5. row \in InputRows
  BY <1>3, <1>4, FieldsTyped
<1>6. queue' = [queue EXCEPT ![r] = row]
  BY <1>2, <1>4 DEF Prototype!LeaseEnds
<1>7. queue' \in Seq(InputRows) /\ Len(queue') = Len(queue) /\ Len(queue) \in Nat
  BY <1>1, <1>5, <1>6, RowWritten, LenProperties
<1>8. UNCHANGED <<cursor, rounds, artifact, attempts, p0_receipts, p0_messages, p0_lock, cp, p0_proc>>
  BY DEF Prototype!LeaseEnds
<1> QED BY <1>7, <1>8, QueueMoves

\* Whoever takes the thread takes the head of the queue with it (p0_worker.py, p0_hung_worker.py).
LEMMA TakesKeeps ==
  ASSUME PrototypeConstants, PInv, NEW p \in Proc, NEW r \in Prototype!Seqs, NEW pc \in {"entry", "hung"},
         Prototype!Takes(p, r, pc)
  PROVE  PInv'
<1>1. queue \in Seq(InputRows) /\ r \in 1 .. Len(queue)
  BY LenProperties DEF PInv, RowsInOrder, Prototype!Takes
<1>2. queue' \in Seq(InputRows) /\ Len(queue') = Len(queue)
  BY <1>1, OwnerWritten DEF Prototype!Takes
<1>3. queue[r].epoch \in Nat /\ r \in Nat
  BY <1>1, RowTyped, EpochsCount
<1>4. PICK w : w = [pc |-> pc, run |-> r, epoch |-> queue[r].epoch + 1, value |-> Prototype!None]
  OBVIOUS
<1>5. w \in WorkerRows /\ w.pc = pc /\ w.run = r
  BY <1>3, <1>4 DEF WorkerRows, Started
<1>6. p0_proc' = [p0_proc EXCEPT ![p] = w] /\ p0_lock' = {p} /\ p0_lock = Prototype!Free /\ r = cursor + 1
  BY <1>4 DEF Prototype!Takes, Prototype!Claimable
<1>7. UNCHANGED <<cursor, rounds, artifact, attempts, p0_receipts, p0_messages, cp>>
  BY DEF Prototype!Takes
<1>8. p0_proc' \in [Proc -> WorkerRows] /\ p0_proc'[p] = w /\ \A q \in Proc \ {p} : p0_proc'[q] = p0_proc[q]
  BY <1>5, <1>6 DEF PInv, RowsInOrder
<1>9. RowsInOrder'
  <2>1. \A q \in Proc : p0_proc'[q].pc # "away" => p0_proc'[q].run \in Prototype!Seqs /\ p0_proc'[q].run \in 1 .. Len(queue')
    BY <1>1, <1>2, <1>5, <1>8 DEF PInv, RowsInOrder
  <2>2. p0_lock' = Prototype!Free \/ \E q \in Proc : p0_lock' = {q}
    BY <1>6
  <2> QED BY <1>2, <1>7, <1>8, <2>1, <2>2 DEF PInv, RowsInOrder, Prototype!Seqs, Path
<1>10. \A q \in Proc : Prototype!Holds(q)' => q = p
  BY <1>6 DEF Prototype!Holds
<1>11. pc # "away" /\ pc \notin Started /\ pc \notin {"called", "noted", "save", "ended"}
  BY DEF Started
<1>12. HolderIsAhead'
  BY <1>5, <1>6, <1>7, <1>8, <1>10, <1>11 DEF HolderIsAhead
<1>13. ThreadInOrder'
  <2>1. \A q \in Proc : p0_proc'[q].pc \in Started => p0_proc'[q].run <= cp.run
    BY <1>5, <1>8, <1>11 DEF PInv, ThreadInOrder
  <2> QED BY <1>7, <2>1 DEF PInv, ThreadInOrder, Prototype!Evidence
<1>14. StagesLeaveRows' /\ Counted' /\ CompletedInOrder'
  BY <1>7 DEF PInv, StagesLeaveRows, Counted, CompletedInOrder
<1>15. WorkersInOrder'
  <2>1. ASSUME NEW q \in Proc PROVE WorkerInOrder(q)'
    <3>1. CASE q = p
      BY <1>5, <1>8, <1>11, <3>1 DEF WorkerInOrder
    <3>2. CASE q # p
      <4>1. WorkerInOrder(q) /\ p0_proc'[q] = p0_proc[q] /\ ~Prototype!Holds(q)'
        BY <1>8, <1>10, <3>2 DEF PInv, WorkersInOrder
      <4> QED BY <1>7, <4>1 DEF WorkerInOrder
    <3> QED BY <3>1, <3>2
  <2>2. \A x, y \in Proc : x # y /\ p0_proc'[x].pc = "noted" /\ p0_proc'[y].pc = "noted" => p0_proc'[x].run # p0_proc'[y].run
    BY <1>5, <1>8, <1>11 DEF PInv, WorkersInOrder
  <2> QED BY <2>1, <2>2 DEF WorkersInOrder
<1> QED BY <1>9, <1>12, <1>13, <1>14, <1>15 DEF PInv

-----------------------------------------------------------------------------
(* The run of a graph                                                      *)

\* The first checkpoint of a turn: the thread goes on to the head of the queue.
LEMMA StartsKeep ==
  ASSUME PrototypeConstants, PInv, NEW p \in Proc, Prototype!Holds(p), p0_proc[p].pc = "entry", cp.run <= cursor,
         Prototype!Goes(p, "node"), cp' = [run |-> p0_proc[p].run, next |-> "query", value |-> Prototype!None],
         UNCHANGED Prototype!base
  PROVE  PInv'
<1>1. PICK w : w = [p0_proc[p] EXCEPT !.pc = "node"]
  OBVIOUS
<1>2. p0_proc[p] \in WorkerRows /\ p0_proc[p].run = cursor + 1 /\ p0_proc[p].run \in Prototype!Seqs /\ p0_lock = {p}
  BY HolderAtHead DEF PInv, RowsInOrder, Prototype!Holds
<1>3. w \in WorkerRows /\ w.pc = "node" /\ w.run = p0_proc[p].run
  BY <1>1, <1>2 DEF WorkerRows, Started
<1>4. p0_proc' = [p0_proc EXCEPT ![p] = w] /\ p0_lock' = p0_lock
  BY <1>1 DEF Prototype!Goes
<1>5. p0_proc' \in [Proc -> WorkerRows] /\ p0_proc'[p] = w /\ \A q \in Proc \ {p} : p0_proc'[q] = p0_proc[q]
  BY <1>3, <1>4 DEF PInv, RowsInOrder
<1>6. UNCHANGED <<queue, cursor, rounds, artifact, attempts, p0_receipts, p0_messages>>
  BY DEF Prototype!base
<1>7. cp'.run = cursor + 1 /\ cp'.next = "query" /\ cp'.value = Prototype!None /\ cp'.run \in Prototype!Seqs
  BY <1>2
<1>8. cursor \in Nat /\ cp.run \in Nat /\ cp'.run \in Nat
  BY <1>7 DEF PInv, RowsInOrder
<1>9. RowsInOrder'
  <2>1. \A q \in Proc : p0_proc'[q].pc # "away" => p0_proc'[q].run \in Prototype!Seqs /\ p0_proc'[q].run \in 1 .. Len(queue)
    <3>1. p0_proc[p].run \in 1 .. Len(queue)
      BY HolderAtHead DEF PInv, RowsInOrder
    <3> QED BY <1>2, <1>3, <1>5, <3>1 DEF PInv, RowsInOrder
  <2>2. cp' \in [run : Nat, next : Path \cup {"end"}, value : Values \cup {Prototype!None}]
    BY <1>2, <1>7, <1>8 DEF Path
  <2>3. cp'.run <= Len(queue)
    BY <1>2, <1>3, <1>5, <1>7, <2>1
  <2>4. p0_lock' = Prototype!Free \/ \E q \in Proc : p0_lock' = {q}
    BY <1>2, <1>4
  <2>5. /\ queue' \in Seq(InputRows) /\ cursor' \in 0 .. Len(queue')
        /\ artifact' \in [Prototype!Seqs -> Values \cup {Prototype!None}]
        /\ attempts' \in [Prototype!Seqs -> Nat]
        /\ p0_receipts' \subseteq Prototype!Seqs /\ IsFiniteSet(p0_receipts')
        /\ p0_messages' \subseteq Prototype!Seqs
    BY <1>6 DEF PInv, RowsInOrder
  <2> QED BY <1>5, <1>6, <1>7, <2>1, <2>2, <2>3, <2>4, <2>5 DEF RowsInOrder, Prototype!Seqs, Path
<1>10. HolderIsAhead'
  BY <1>2, <1>3, <1>4, <1>5, <1>6 DEF HolderIsAhead, Prototype!Holds
<1>11. ThreadInOrder'
  <2>1. \A r \in Prototype!Seqs : Prototype!Evidence(r)' => r <= cp'.run
    <3> SUFFICES ASSUME NEW r \in Prototype!Seqs, Prototype!Evidence(r)' PROVE r <= cp'.run
      OBVIOUS
    <3>1. r <= cp.run
      BY <1>6 DEF PInv, ThreadInOrder, Prototype!Evidence
    <3>2. r \in Int
      BY DEF Prototype!Seqs
    <3> QED BY <1>7, <1>8, <3>1, <3>2
  <2>2. \A q \in Proc : p0_proc'[q].pc \in Started => p0_proc'[q].run <= cp'.run
    <3> SUFFICES ASSUME NEW q \in Proc, p0_proc'[q].pc \in Started PROVE p0_proc'[q].run <= cp'.run
      OBVIOUS
    <3>1. CASE q = p
      BY <1>2, <1>3, <1>5, <1>7, <1>8, <3>1
    <3>2. CASE q # p
      <4>1. p0_proc[q].run <= cp.run /\ p0_proc[q].run \in Nat /\ p0_proc'[q].run = p0_proc[q].run
        BY <1>5, <3>2 DEF PInv, ThreadInOrder, RowsInOrder, WorkerRows
      <4> QED BY <1>7, <1>8, <4>1
    <3> QED BY <3>1, <3>2
  <2>3. cp'.run <= cursor' + 1 /\ ~(cp'.run <= cursor')
    BY <1>6, <1>7, <1>8
  <2> QED BY <1>7, <2>1, <2>2, <2>3 DEF ThreadInOrder, Prototype!Evidence
<1>12. StagesLeaveRows'
  BY <1>7 DEF StagesLeaveRows
<1>13. WorkersInOrder'
  <2>1. ASSUME NEW q \in Proc PROVE WorkerInOrder(q)'
    <3>1. CASE q = p
      BY <1>3, <1>5, <3>1 DEF WorkerInOrder
    <3>2. CASE q # p
      <4>1. WorkerInOrder(q) /\ p0_proc'[q] = p0_proc[q] /\ ~Prototype!Holds(q)'
        BY <1>2, <1>4, <1>5, <3>2 DEF PInv, WorkersInOrder, Prototype!Holds
      <4> QED BY <1>6, <4>1 DEF WorkerInOrder
    <3> QED BY <3>1, <3>2
  <2>2. \A x, y \in Proc : x # y /\ p0_proc'[x].pc = "noted" /\ p0_proc'[y].pc = "noted" => p0_proc'[x].run # p0_proc'[y].run
    BY <1>3, <1>5 DEF PInv, WorkersInOrder
  <2> QED BY <2>1, <2>2 DEF WorkersInOrder
<1>14. Counted' /\ CompletedInOrder'
  BY <1>6 DEF PInv, Counted, CompletedInOrder
<1> QED BY <1>9, <1>10, <1>11, <1>12, <1>13, <1>14 DEF PInv

\* graph.py choose_entry.
LEMMA ChooseKeeps ==
  ASSUME PrototypeConstants, PInv, NEW p \in Proc, Prototype!Choose(p)
  PROVE  PInv'
<1>1. p0_proc[p].pc = "entry" /\ UNCHANGED Prototype!base
  BY DEF Prototype!Choose
<1>2. UNCHANGED <<queue, cursor, rounds, artifact, attempts, p0_receipts, p0_messages>>
  BY <1>1 DEF Prototype!base
<1>3. CASE ~Prototype!Holds(p)
  <2>1. Prototype!Exits(p) /\ UNCHANGED cp
    BY <1>3 DEF Prototype!Choose
  <2> QED BY <1>2, <2>1, QueueRests, PLeaves
<1>4. CASE Prototype!Holds(p)
  <2> DEFINE r == p0_proc[p].run
  <2>1. /\ Prototype!Entry(r) \in {"FINALIZE", "RESUME", "START"}
        /\ Prototype!Entry(r) # "START" => cp.run = r
        /\ Prototype!Entry(r) = "FINALIZE" => cp.next = "end"
        /\ Prototype!Entry(r) = "START" => cp.run <= cursor
    BY <1>4, EntryIsClear
  <2>2. r \in Nat
    BY DEF PInv, RowsInOrder, WorkerRows
  <2>3. CASE Prototype!Entry(r) = "FINALIZE"
    <3>1. Prototype!Goes(p, "ended") /\ UNCHANGED cp
      BY <1>4, <2>3 DEF Prototype!Choose
    <3>2. r <= cp.run
      BY <2>1, <2>2, <2>3
    <3> DEFINE w == [p0_proc[p] EXCEPT !.pc = "ended"]
    <3>3. WorkerMoves(p, w) /\ p0_proc'[p] = w /\ p0_lock' = p0_lock /\ w.pc = "ended"
      BY <1>1, <3>1, <3>2, Going DEF Started
    <3> HIDE DEF w
    <3>4. WorkerInOrder(p)'
      BY <2>1, <2>3, <3>1, <3>3 DEF WorkerInOrder
    <3> QED BY <1>2, <3>1, <3>3, <3>4, QueueRests, Passes
  <2>4. CASE Prototype!Entry(r) = "RESUME"
    <3>1. Prototype!Goes(p, "node") /\ UNCHANGED cp
      BY <1>4, <2>4 DEF Prototype!Choose
    <3>2. r <= cp.run
      BY <2>1, <2>2, <2>4
    <3> DEFINE w == [p0_proc[p] EXCEPT !.pc = "node"]
    <3>3. WorkerMoves(p, w) /\ p0_proc'[p] = w /\ p0_lock' = p0_lock /\ w.pc = "node"
      BY <1>1, <3>1, <3>2, Going DEF Started
    <3> HIDE DEF w
    <3>4. WorkerInOrder(p)'
      BY <3>3 DEF WorkerInOrder
    <3> QED BY <1>2, <3>1, <3>3, <3>4, QueueRests, Passes
  <2>5. CASE Prototype!Entry(r) = "START"
    <3>1. Prototype!Goes(p, "node") /\ cp' = [run |-> p0_proc[p].run, next |-> "query", value |-> Prototype!None]
      BY <1>4, <2>5 DEF Prototype!Choose
    <3> QED BY <1>1, <1>4, <2>1, <2>5, <3>1, StartsKeep
  <2> QED BY <2>1, <2>3, <2>4, <2>5
<1> QED BY <1>3, <1>4

\* A worker without its connection, and one that dies.
LEMMA EndsKeep ==
  ASSUME PrototypeConstants, PInv, NEW p \in Proc, Prototype!Fails(p) \/ Prototype!Die(p)
  PROVE  PInv'
<1>1. Prototype!Exits(p) /\ UNCHANGED <<Prototype!base, cp>>
  BY DEF Prototype!Fails, Prototype!Die
<1>2. UNCHANGED <<queue, cursor, rounds, artifact, attempts, p0_receipts, p0_messages>>
  BY <1>1 DEF Prototype!base
<1> QED BY <1>1, <1>2, QueueRests, PLeaves

\* graph.py query_product.
LEMMA QueryKeeps ==
  ASSUME PrototypeConstants, PInv, NEW p \in Proc, Prototype!Query(p)
  PROVE  PInv'
<1>1. p0_proc[p].pc = "node" /\ cp.run = p0_proc[p].run /\ cp.next = "query" /\ Prototype!Goes(p, "save") /\ UNCHANGED <<Prototype!base, cp>>
  BY DEF Prototype!Query, Prototype!At
<1>2. p0_proc[p].run <= cp.run
  BY <1>1 DEF PInv, ThreadInOrder, Started
<1> DEFINE w == [p0_proc[p] EXCEPT !.pc = "save"]
<1>3. WorkerMoves(p, w) /\ p0_proc'[p] = w /\ p0_lock' = p0_lock /\ w.pc = "save"
  BY <1>1, <1>2, Going DEF Started
<1> HIDE DEF w
<1>4. WorkerInOrder(p)'
  BY <1>1, <1>3 DEF WorkerInOrder, Path
<1>5. UNCHANGED <<queue, cursor, rounds, artifact, attempts, p0_receipts, p0_messages>>
  BY <1>1 DEF Prototype!base
<1> QED BY <1>1, <1>3, <1>4, <1>5, QueueRests, Passes

\* graph.py semantic, store.py model_artifact: the accepted answer, or a call of the model.
LEMMA SemanticKeeps ==
  ASSUME PrototypeConstants, PInv, NEW p \in Proc, Prototype!Semantic(p)
  PROVE  PInv'
<1> DEFINE r == p0_proc[p].run
<1>1. p0_proc[p].pc = "node" /\ cp.run = r /\ cp.next = "semantic" /\ UNCHANGED <<Prototype!base, cp>>
  BY DEF Prototype!Semantic, Prototype!At
<1>2. UNCHANGED <<queue, cursor, rounds, artifact, attempts, p0_receipts, p0_messages>>
  BY <1>1 DEF Prototype!base
<1>3. p0_proc[p] \in WorkerRows /\ r \in Prototype!Seqs /\ r <= cp.run
  BY <1>1 DEF PInv, RowsInOrder, ThreadInOrder, Started
<1>4. CASE ~Prototype!Owns(p)
  BY <1>1, <1>2, <1>4, QueueRests, PLeaves DEF Prototype!Semantic
<1>5. ASSUME NEW pc \in {"save", "called"}, NEW v \in Values \cup {Prototype!None}, v # Prototype!None,
             p0_proc' = [p0_proc EXCEPT ![p].pc = pc, ![p].value = v], UNCHANGED p0_lock,
             pc = "save" => v = artifact[r]
      PROVE  PInv'
  <2>1. PICK w : w = [p0_proc[p] EXCEPT !.pc = pc, !.value = v]
    OBVIOUS
  <2>2. w \in WorkerRows /\ w.pc = pc /\ w.run = r /\ w.value = v
    BY <1>3, <2>1 DEF WorkerRows, Started
  <2>3. p0_proc' = [p0_proc EXCEPT ![p] = w] /\ p0_lock' = p0_lock
    BY <1>5, <2>1
  <2>4. pc \in Started /\ pc # "away" /\ pc # "noted" /\ pc # "ended"
    BY DEF Started
  <2>5. WorkerMoves(p, w) /\ p0_proc'[p] = w
    BY <1>1, <1>3, <2>2, <2>3, <2>4 DEF WorkerMoves, PInv, RowsInOrder
  <2>6. WorkerInOrder(p)'
    BY <1>1, <1>2, <1>5, <2>2, <2>4, <2>5 DEF WorkerInOrder, Path
  <2> QED BY <1>1, <1>2, <2>2, <2>4, <2>5, <2>6, QueueRests, Passes
<1>6. CASE Prototype!Owns(p)
  <2>1. /\ \/ artifact[r] # Prototype!None /\ p0_proc' = [p0_proc EXCEPT ![p].pc = "save", ![p].value = artifact[r]]
           \/ \E v \in Values : p0_proc' = [p0_proc EXCEPT ![p].pc = "called", ![p].value = v]
        /\ UNCHANGED p0_lock
    BY <1>6 DEF Prototype!Semantic
  <2>2. artifact[r] \in Values \cup {Prototype!None}
    BY <1>3 DEF PInv, RowsInOrder
  <2>3. CASE artifact[r] # Prototype!None /\ p0_proc' = [p0_proc EXCEPT ![p].pc = "save", ![p].value = artifact[r]]
    BY <1>5, <2>1, <2>2, <2>3
  <2>4. CASE \E v \in Values : p0_proc' = [p0_proc EXCEPT ![p].pc = "called", ![p].value = v]
    <3>1. PICK v \in Values : p0_proc' = [p0_proc EXCEPT ![p].pc = "called", ![p].value = v]
      BY <2>4
    <3>2. v # Prototype!None
      BY DEF PrototypeConstants
    <3> QED BY <1>5, <2>1, <3>1, <3>2
  <2> QED BY <2>1, <2>3, <2>4
<1> QED BY <1>4, <1>6

\* An input whose answer is not accepted has no attempt noted.
LEMMA UnansweredIsUnnoted ==
  ASSUME PInv, NEW r \in Prototype!Seqs, artifact[r] = Prototype!None PROVE attempts[r] = 0
<1>1. attempts[r] \in Nat
  BY DEF PInv, RowsInOrder
<1>2. attempts[r] <= 1 /\ attempts[r] # 1
  BY DEF PInv, Counted
<1> QED BY <1>1, <1>2

\* store.py model_artifact: the first answer of the owner is the one that counts.
LEMMA AcceptKeeps ==
  ASSUME PrototypeConstants, PInv, NEW p \in Proc, Prototype!Accept(p)
  PROVE  PInv'
<1> DEFINE r == p0_proc[p].run
<1>1. p0_proc[p].pc = "called" /\ UNCHANGED <<queue, cursor, rounds, p0_receipts, p0_messages, cp>>
  BY DEF Prototype!Accept
<1>2. p0_proc[p] \in WorkerRows /\ r \in Prototype!Seqs /\ r <= cp.run
  BY <1>1 DEF PInv, RowsInOrder, ThreadInOrder, Started
<1>3. p0_proc[p].value # Prototype!None /\ (Prototype!Holds(p) => cp.next = "semantic")
  BY <1>1 DEF PInv, WorkersInOrder, WorkerInOrder
<1>4. CASE ~(Prototype!Owns(p) /\ artifact[r] = Prototype!None)
  <2>1. Prototype!Exits(p) /\ UNCHANGED <<artifact, attempts>>
    BY <1>4 DEF Prototype!Accept
  <2> QED BY <1>1, <2>1, QueueRests, PLeaves
<1>5. CASE Prototype!Owns(p) /\ artifact[r] = Prototype!None
  <2> DEFINE w == [p0_proc[p] EXCEPT !.pc = "noted"]
  <2>1. artifact' = [artifact EXCEPT ![r] = p0_proc[p].value] /\ Prototype!Goes(p, "noted") /\ UNCHANGED attempts
    BY <1>5 DEF Prototype!Accept
  <2>2. WorkerMoves(p, w) /\ p0_proc'[p] = w /\ p0_lock' = p0_lock /\ w.pc = "noted"
    BY <1>1, <1>2, <2>1, Going DEF Started
  <2>3. w.run = r /\ w.value = p0_proc[p].value
    BY <1>2 DEF WorkerRows
  <2>4. attempts[r] = 0
    BY <1>2, <1>5, UnansweredIsUnnoted
  <2>5. artifact \in [Prototype!Seqs -> Values \cup {Prototype!None}] /\ p0_proc[p].value \in Values \cup {Prototype!None}
    BY <1>2 DEF PInv, RowsInOrder, WorkerRows
  <2>6. /\ artifact' \in [Prototype!Seqs -> Values \cup {Prototype!None}]
        /\ artifact'[r] = p0_proc[p].value
        /\ \A s \in Prototype!Seqs \ {r} : artifact'[s] = artifact[s]
    BY <1>2, <2>1, <2>5
  <2> HIDE DEF w, r
  <2>7. RowsGrow
    <3>1. Counted'
      BY <1>1, <1>3, <2>1, <2>6 DEF PInv, Counted
    <3>2. \A s \in Prototype!Seqs : artifact[s] # Prototype!None => artifact'[s] = artifact[s]
      BY <1>5, <2>6
    <3>3. \A s \in Prototype!Seqs : artifact'[s] # Prototype!None => artifact[s] # Prototype!None \/ s <= cp.run
      BY <1>2, <2>6
    <3> QED BY <1>1, <2>1, <2>6, <3>1, <3>2, <3>3, QueueRests DEF RowsGrow, PInv, RowsInOrder
  <2>8. NotesApart(p, w)
    <3> SUFFICES ASSUME NEW q \in Proc \ {p}, p0_proc[q].pc = "noted"
                 PROVE  p0_proc[q].run # r
      BY <2>1, <2>3 DEF NotesApart
    <3>1. artifact[p0_proc[q].run] # Prototype!None
      BY DEF PInv, WorkersInOrder, WorkerInOrder
    <3> QED BY <1>5, <3>1
  <2>9. WorkerInOrder(p)'
    BY <1>1, <1>3, <2>1, <2>2, <2>3, <2>4, <2>6 DEF WorkerInOrder, Prototype!Holds
  <2> QED BY <2>2, <2>7, <2>8, <2>9, Moves
<1> QED BY <1>4, <1>5

\* The attempt is noted once the answer is.
LEMMA NotedKeeps ==
  ASSUME PrototypeConstants, PInv, NEW p \in Proc, Prototype!Noted(p)
  PROVE  PInv'
<1> DEFINE r == p0_proc[p].run
           w == [p0_proc[p] EXCEPT !.pc = "save"]
<1>1. /\ p0_proc[p].pc = "noted" /\ Prototype!Goes(p, "save")
      /\ attempts' = [attempts EXCEPT ![r] = @ + 1]
      /\ UNCHANGED <<queue, cursor, rounds, artifact, p0_receipts, p0_messages, cp>>
  BY DEF Prototype!Noted
<1>2. p0_proc[p] \in WorkerRows /\ r \in Prototype!Seqs /\ r <= cp.run
  BY <1>1 DEF PInv, RowsInOrder, ThreadInOrder, Started
<1>3. /\ attempts[r] = 0 /\ p0_proc[p].value = artifact[r] /\ p0_proc[p].value # Prototype!None
      /\ Prototype!Holds(p) => cp.next = "semantic"
  BY <1>1 DEF PInv, WorkersInOrder, WorkerInOrder
<1>4. WorkerMoves(p, w) /\ p0_proc'[p] = w /\ p0_lock' = p0_lock /\ w.pc = "save"
  BY <1>1, <1>2, Going DEF Started
<1>5. w.run = r /\ w.value = p0_proc[p].value
  BY <1>2 DEF WorkerRows
<1>6. /\ attempts' \in [Prototype!Seqs -> Nat] /\ attempts'[r] = 1
      /\ \A s \in Prototype!Seqs \ {r} : attempts'[s] = attempts[s]
  BY <1>1, <1>2, <1>3 DEF PInv, RowsInOrder
<1> HIDE DEF w, r
<1>7. RowsGrow
  <2>1. Counted'
    BY <1>1, <1>2, <1>3, <1>6 DEF PInv, Counted
  <2> QED BY <1>1, <1>6, <2>1, QueueRests DEF RowsGrow, PInv, RowsInOrder
<1>8. NotesApart(p, w)
  <2> SUFFICES ASSUME NEW q \in Proc \ {p}, p0_proc[q].pc = "noted"
               PROVE  attempts'[p0_proc[q].run] = attempts[p0_proc[q].run]
    BY <1>4 DEF NotesApart
  <2>1. p0_proc[q].run # r /\ p0_proc[q].run \in Prototype!Seqs
    BY <1>1 DEF PInv, WorkersInOrder, RowsInOrder, r
  <2> QED BY <1>6, <2>1
<1>9. WorkerInOrder(p)'
  BY <1>1, <1>3, <1>4, <1>5 DEF WorkerInOrder, Prototype!Holds, Path
<1> QED BY <1>4, <1>7, <1>8, <1>9, Moves

\* store.py command_in_transaction.
LEMMA CommitKeeps ==
  ASSUME PrototypeConstants, PInv, NEW p \in Proc, Prototype!Commit(p)
  PROVE  PInv'
<1> DEFINE r == p0_proc[p].run
           w == [p0_proc[p] EXCEPT !.pc = "save"]
<1>1. /\ p0_proc[p].pc = "node" /\ cp.run = r /\ cp.next = "commit"
      /\ UNCHANGED <<queue, cursor, artifact, attempts, p0_messages, cp>>
  BY DEF Prototype!Commit, Prototype!At
<1>2. p0_proc[p] \in WorkerRows /\ r \in Prototype!Seqs /\ r <= cp.run
  BY <1>1 DEF PInv, RowsInOrder, ThreadInOrder, Started
<1>3. CASE ~Prototype!Owns(p)
  <2>1. Prototype!Exits(p) /\ UNCHANGED <<rounds, p0_receipts>>
    BY <1>3 DEF Prototype!Commit
  <2> QED BY <1>1, <2>1, QueueRests, PLeaves
<1>4. CASE Prototype!Owns(p)
  <2>1. Prototype!Goes(p, "save") /\ p0_receipts' = p0_receipts \cup {r}
        /\ rounds' = (IF r \in p0_receipts THEN rounds ELSE rounds + 1)
    BY <1>4 DEF Prototype!Commit, Prototype!Command
  <2>2. WorkerMoves(p, w) /\ p0_proc'[p] = w /\ p0_lock' = p0_lock /\ w.pc = "save"
    BY <1>1, <1>2, <2>1, Going DEF Started
  <2>3. w.run = r
    BY <1>2 DEF WorkerRows
  <2> HIDE DEF w, r
  <2>4. p0_receipts \subseteq Prototype!Seqs /\ IsFiniteSet(p0_receipts) /\ rounds = Cardinality(p0_receipts)
    BY DEF PInv, RowsInOrder, Counted
  <2>5. IsFiniteSet(p0_receipts') /\ Cardinality(p0_receipts')
          = IF r \in p0_receipts THEN Cardinality(p0_receipts) ELSE Cardinality(p0_receipts) + 1
    BY <2>1, <2>4, FS_AddElement
  <2>6. RowsGrow
    <3>1. Counted'
      BY <1>1, <2>1, <2>4, <2>5 DEF PInv, Counted
    <3> QED BY <1>1, <1>2, <2>1, <2>4, <2>5, <3>1, QueueRests DEF RowsGrow, PInv, RowsInOrder
  <2>7. NotesApart(p, w)
    BY <1>1, <2>2 DEF NotesApart
  <2>8. WorkerInOrder(p)'
    BY <1>1, <2>1, <2>2, <2>3 DEF WorkerInOrder, Path
  <2> QED BY <2>2, <2>6, <2>7, <2>8, Moves
<1> QED BY <1>3, <1>4

\* store.py publish.
LEMMA PublishKeeps ==
  ASSUME PrototypeConstants, PInv, NEW p \in Proc, Prototype!Publish(p)
  PROVE  PInv'
<1> DEFINE r == p0_proc[p].run
           w == [p0_proc[p] EXCEPT !.pc = "save"]
<1>1. /\ p0_proc[p].pc = "node" /\ cp.run = r /\ cp.next = "publish"
      /\ UNCHANGED <<queue, cursor, rounds, artifact, attempts, p0_receipts, cp>>
  BY DEF Prototype!Publish, Prototype!At
<1>2. p0_proc[p] \in WorkerRows /\ r \in Prototype!Seqs /\ r <= cp.run
  BY <1>1 DEF PInv, RowsInOrder, ThreadInOrder, Started
<1>3. CASE ~Prototype!Owns(p)
  <2>1. Prototype!Exits(p) /\ UNCHANGED p0_messages
    BY <1>3 DEF Prototype!Publish
  <2> QED BY <1>1, <2>1, QueueRests, PLeaves
<1>4. CASE Prototype!Owns(p)
  <2>1. Prototype!Goes(p, "save") /\ p0_messages' = p0_messages \cup {r}
    BY <1>4 DEF Prototype!Publish
  <2>2. WorkerMoves(p, w) /\ p0_proc'[p] = w /\ p0_lock' = p0_lock /\ w.pc = "save"
    BY <1>1, <1>2, <2>1, Going DEF Started
  <2>3. w.run = r
    BY <1>2 DEF WorkerRows
  <2> HIDE DEF w, r
  <2>4. RowsGrow
    <3>1. Counted'
      BY <1>1 DEF PInv, Counted
    <3> QED BY <1>1, <1>2, <2>1, <3>1, QueueRests DEF RowsGrow, PInv, RowsInOrder
  <2>5. NotesApart(p, w)
    BY <1>1, <2>2 DEF NotesApart
  <2>6. WorkerInOrder(p)'
    BY <1>1, <2>1, <2>2, <2>3 DEF WorkerInOrder, Path
  <2> QED BY <2>2, <2>4, <2>5, <2>6, Moves
<1> QED BY <1>3, <1>4

\* graph.py wait: the decision is there, or the input is given back.
LEMMA WaitKeeps == ASSUME PrototypeConstants, PInv, NEW p \in Proc, Prototype!Wait(p) PROVE PInv'
<1> DEFINE r == p0_proc[p].run
           w == [p0_proc[p] EXCEPT !.pc = "save"]
<1>1. /\ p0_proc[p].pc = "node" /\ cp.run = r /\ cp.next = "approval"
      /\ UNCHANGED <<cursor, rounds, artifact, attempts, p0_receipts, p0_messages, cp>>
  BY DEF Prototype!Wait, Prototype!At
<1>2. /\ p0_proc[p] \in WorkerRows /\ r \in Prototype!Seqs /\ r <= cp.run /\ r \in 1 .. Len(queue)
      /\ queue \in Seq(InputRows) /\ cp.next \in Path \cup {"end"}
  BY <1>1 DEF PInv, RowsInOrder, ThreadInOrder, Started
<1>3. CASE Prototype!Goes(p, "save") /\ UNCHANGED queue
  <2>1. WorkerMoves(p, w) /\ p0_proc'[p] = w /\ p0_lock' = p0_lock /\ w.pc = "save"
    BY <1>1, <1>2, <1>3, Going DEF Started
  <2> HIDE DEF w
  <2>2. WorkerInOrder(p)'
    BY <1>1, <1>2, <2>1 DEF WorkerInOrder
  <2> QED BY <1>1, <1>3, <2>1, <2>2, QueueRests, Passes
<1>4. CASE queue' = Prototype!Revoked(r) /\ Prototype!Exits(p)
  <2>1. queue' \in Seq(InputRows) /\ Len(queue') = Len(queue)
    BY <1>2, <1>4, OwnerWritten
  <2> QED BY <1>1, <1>4, <2>1, PLeaves
<1> QED BY <1>3, <1>4 DEF Prototype!Wait

\* The stage after one that occurs once is the next of the graph.
LEMMA AfterIsNext ==
  ASSUME NEW n \in DOMAIN Prototype!Stages, \A m \in DOMAIN Prototype!Stages : Prototype!Stages[m] = Prototype!Stages[n] => m = n
  PROVE  Prototype!After(Prototype!Stages[n]) = Prototype!Stages[1 + n]
<1>1. PICK c : c = CHOOSE m \in DOMAIN Prototype!Stages : Prototype!Stages[m] = Prototype!Stages[n]
  OBVIOUS
<1>2. c \in DOMAIN Prototype!Stages /\ Prototype!Stages[c] = Prototype!Stages[n]
  BY <1>1
<1>3. c = n
  BY <1>2
<1>4. Prototype!After(Prototype!Stages[n]) = Prototype!Stages[1 + c]
  BY <1>1 DEF Prototype!After
<1> QED BY <1>3, <1>4

\* The stages follow each other as the graph has them, with the approval between the
\* command and the publication where there is one (graph.py build_graph).
LEMMA StagesFollow ==
  /\ Prototype!After("query") = "semantic" /\ Prototype!After("semantic") = "commit"
  /\ Prototype!After("publish") = "end"
  /\ Prototype!After("commit") = IF Approval THEN "approval" ELSE "publish"
  /\ Approval => Prototype!After("approval") = "publish"
<1>1. CASE Approval
  <2>1. Prototype!Stages = <<"query", "semantic", "commit", "approval", "publish", "end">>
    BY <1>1 DEF Prototype!Stages
  <2>2. DOMAIN Prototype!Stages = 1 .. 6
    BY <2>1
  <2>3. /\ Prototype!Stages[1] = "query" /\ Prototype!Stages[2] = "semantic"
        /\ Prototype!Stages[3] = "commit"
        /\ Prototype!Stages[4] = "approval" /\ Prototype!Stages[5] = "publish"
        /\ Prototype!Stages[6] = "end"
    BY <2>1
  <2>4. \A n \in 1 .. 6 : n = 1 \/ n = 2 \/ n = 3 \/ n = 4 \/ n = 5 \/ n = 6
    OBVIOUS
  <2>5. \A n, m \in 1 .. 6 : Prototype!Stages[m] = Prototype!Stages[n] => m = n
    BY <2>3, <2>4
  <2>6. \A n \in 1 .. 6 : Prototype!After(Prototype!Stages[n]) = Prototype!Stages[1 + n]
    BY <2>2, <2>5, AfterIsNext
  <2>7. Prototype!After(Prototype!Stages[1]) = Prototype!Stages[2] /\ Prototype!After(Prototype!Stages[2]) = Prototype!Stages[3] /\ Prototype!After(Prototype!Stages[3]) = Prototype!Stages[4]
        /\ Prototype!After(Prototype!Stages[4]) = Prototype!Stages[5]
        /\ Prototype!After(Prototype!Stages[5]) = Prototype!Stages[6]
    BY <2>6
  <2> QED BY <1>1, <2>3, <2>7
<1>2. CASE ~Approval
  <2>1. Prototype!Stages = <<"query", "semantic", "commit", "publish", "end">>
    BY <1>2 DEF Prototype!Stages
  <2>2. DOMAIN Prototype!Stages = 1 .. 5
    BY <2>1
  <2>3. /\ Prototype!Stages[1] = "query" /\ Prototype!Stages[2] = "semantic"
        /\ Prototype!Stages[3] = "commit"
        /\ Prototype!Stages[4] = "publish" /\ Prototype!Stages[5] = "end"
    BY <2>1
  <2>4. \A n \in 1 .. 5 : n = 1 \/ n = 2 \/ n = 3 \/ n = 4 \/ n = 5
    OBVIOUS
  <2>5. \A n, m \in 1 .. 5 : Prototype!Stages[m] = Prototype!Stages[n] => m = n
    BY <2>3, <2>4
  <2>6. \A n \in 1 .. 5 : Prototype!After(Prototype!Stages[n]) = Prototype!Stages[1 + n]
    BY <2>2, <2>5, AfterIsNext
  <2>7. Prototype!After(Prototype!Stages[1]) = Prototype!Stages[2] /\ Prototype!After(Prototype!Stages[2]) = Prototype!Stages[3] /\ Prototype!After(Prototype!Stages[3]) = Prototype!Stages[4]
        /\ Prototype!After(Prototype!Stages[4]) = Prototype!Stages[5]
    BY <2>6
  <2> QED BY <1>2, <2>3, <2>7
<1> QED BY <1>1, <1>2

\* The checkpoint of the holder moves one stage on.
LEMMA SavedKeeps ==
  ASSUME PrototypeConstants, PInv, NEW p \in Proc, Prototype!Save(p), Prototype!Holds(p)
  PROVE  PInv'
<1> DEFINE r == p0_proc[p].run
           pc == IF Prototype!After(cp.next) = "end" THEN "ended" ELSE "node"
           w == [p0_proc[p] EXCEPT !.pc = pc]
<1>1. /\ p0_proc[p].pc = "save" /\ Prototype!Goes(p, pc) /\ UNCHANGED Prototype!base
      /\ cp' = [cp EXCEPT !.next = Prototype!After(@), !.value = IF cp.next = "semantic" THEN p0_proc[p].value ELSE @]
  BY DEF Prototype!Save
<1>2. /\ p0_proc[p] \in WorkerRows /\ r \in Prototype!Seqs /\ r \in Nat /\ p0_lock = {p}
      /\ cp \in [run : Nat, next : Path \cup {"end"}, value : Values \cup {Prototype!None}]
      /\ artifact \in [Prototype!Seqs -> Values \cup {Prototype!None}]
  BY <1>1 DEF PInv, RowsInOrder, Prototype!Holds, WorkerRows
<1>3. r = cursor + 1 /\ cp.run = r
  BY <1>1, HolderAtHead DEF Started
<1>4. /\ cp.next \in Path
      /\ cp.next = "semantic" => p0_proc[p].value = artifact[r] /\ p0_proc[p].value # Prototype!None
      /\ cp.next = "commit" => r \in p0_receipts
      /\ cp.next = "publish" => r \in p0_messages
  BY <1>1 DEF PInv, WorkersInOrder, WorkerInOrder
<1>5. WorkerMoves(p, w) /\ p0_proc'[p] = w /\ p0_lock' = p0_lock /\ w.pc = pc
  <2>1. pc \in Started \cup {"hung", "revoked"} /\ p0_proc[p].pc # "away" /\ r <= cp.run
    BY <1>1, <1>2, <1>3 DEF Started
  <2> HIDE DEF pc
  <2> QED BY <1>1, <2>1, Going
<1>6. cp.next \in {"query", "semantic", "commit", "publish"} \/ (Approval /\ cp.next = "approval")
  BY <1>4 DEF Path
<1>7. PICK next : next = Prototype!After(cp.next)
  OBVIOUS
<1>8. PICK value : value = IF cp.next = "semantic" THEN p0_proc[p].value ELSE cp.value
  OBVIOUS
<1>9. next \in Path \cup {"end"} /\ next # "query" /\ (pc = "ended" => next = "end")
  BY <1>6, <1>7, StagesFollow DEF Path
<1>10. cp' = [cp EXCEPT !.next = next, !.value = value]
  BY <1>1, <1>7, <1>8
<1>11. value \in Values \cup {Prototype!None}
  BY <1>2, <1>8 DEF WorkerRows
<1>12. /\ cp' \in [run : Nat, next : Path \cup {"end"}, value : Values \cup {Prototype!None}]
       /\ cp'.run = r /\ cp'.next = next /\ cp'.value = value
  BY <1>2, <1>3, <1>9, <1>10, <1>11
<1>13. UNCHANGED <<queue, cursor, rounds, artifact, attempts, p0_receipts, p0_messages>>
  BY <1>1 DEF Prototype!base
<1>14. w \in WorkerRows /\ w.run = r /\ w.pc = pc
  BY <1>2, <1>5 DEF WorkerRows, WorkerMoves
<1>15. p0_proc' \in [Proc -> WorkerRows] /\ p0_proc'[p] = w /\ \A q \in Proc \ {p} : p0_proc'[q] = p0_proc[q]
  BY <1>5 DEF PInv, RowsInOrder, WorkerMoves
<1>16. pc \in {"ended", "node"}
  OBVIOUS
<1> HIDE DEF w, r, pc
<1>17. RowsInOrder'
  <2>1. \A q \in Proc : p0_proc'[q].pc # "away" => p0_proc'[q].run \in Prototype!Seqs /\ p0_proc'[q].run \in 1 .. Len(queue)
    BY <1>1, <1>2, <1>14, <1>15 DEF PInv, RowsInOrder, r
  <2>2. cp'.run <= Len(queue) /\ cp'.run \in Prototype!Seqs
    BY <1>2, <1>3, <1>12 DEF PInv, RowsInOrder
  <2>3. p0_lock' = Prototype!Free \/ \E q \in Proc : p0_lock' = {q}
    BY <1>2, <1>5
  <2>4. /\ queue' \in Seq(InputRows) /\ cursor' \in 0 .. Len(queue')
        /\ artifact' \in [Prototype!Seqs -> Values \cup {Prototype!None}]
        /\ attempts' \in [Prototype!Seqs -> Nat]
        /\ p0_receipts' \subseteq Prototype!Seqs /\ IsFiniteSet(p0_receipts')
        /\ p0_messages' \subseteq Prototype!Seqs
    BY <1>13 DEF PInv, RowsInOrder
  <2> QED BY <1>12, <1>13, <1>15, <2>1, <2>2, <2>3, <2>4 DEF RowsInOrder, Prototype!Seqs, Path
<1>18. HolderIsAhead'
  BY <1>1, <1>2, <1>3, <1>5, <1>13, <1>14, <1>15, <1>16 DEF HolderIsAhead, Prototype!Holds
<1>19. ThreadInOrder'
  <2>1. \A q \in Proc : p0_proc'[q].pc \in Started => p0_proc'[q].run <= cp'.run
    BY <1>1, <1>3, <1>12, <1>14, <1>15 DEF PInv, ThreadInOrder, Started, r
  <2>2. \A s \in Prototype!Seqs : Prototype!Evidence(s)' => s <= cp'.run
    BY <1>3, <1>12, <1>13 DEF PInv, ThreadInOrder, Prototype!Evidence
  <2>3. value # Prototype!None => cp'.run # 0 /\ value = artifact[cp'.run]
    BY <1>3, <1>4, <1>8, <1>12, <1>2, SeqsAreNumbers DEF PInv, ThreadInOrder
  <2>4. cp'.run <= cursor' + 1 /\ ~(cp'.run <= cursor')
    BY <1>2, <1>3, <1>12, <1>13 DEF PInv, RowsInOrder
  <2> QED BY <1>12, <1>13, <2>1, <2>2, <2>3, <2>4 DEF ThreadInOrder, Prototype!Evidence
<1>20. StagesLeaveRows'
  <2>1. r # 0
    BY <1>2, SeqsAreNumbers
  <2>2. /\ cp.next \in {"commit", "approval", "publish", "end"} => artifact[r] # Prototype!None
        /\ cp.next \in {"approval", "publish", "end"} => r \in p0_receipts
        /\ cp.next = "end" => r \in p0_messages
    BY <1>3, <2>1 DEF PInv, StagesLeaveRows
  <2>3. /\ next \in {"commit", "approval", "publish", "end"} => artifact[r] # Prototype!None
        /\ next \in {"approval", "publish", "end"} => r \in p0_receipts
        /\ next = "end" => r \in p0_messages
    BY <1>4, <1>6, <1>7, <2>2, StagesFollow
  <2> QED BY <1>12, <1>13, <2>3 DEF StagesLeaveRows
<1>21. WorkersInOrder'
  <2>1. ASSUME NEW q \in Proc PROVE WorkerInOrder(q)'
    <3>1. CASE q = p
      BY <1>9, <1>12, <1>14, <1>15, <1>16, <3>1 DEF WorkerInOrder
    <3>2. CASE q # p
      <4>1. WorkerInOrder(q) /\ p0_proc'[q] = p0_proc[q] /\ ~Prototype!Holds(q)'
        BY <1>2, <1>5, <1>15, <3>2 DEF PInv, WorkersInOrder, Prototype!Holds
      <4> QED BY <1>13, <4>1 DEF WorkerInOrder
    <3> QED BY <3>1, <3>2
  <2>2. \A x, y \in Proc : x # y /\ p0_proc'[x].pc = "noted" /\ p0_proc'[y].pc = "noted" => p0_proc'[x].run # p0_proc'[y].run
    BY <1>14, <1>15, <1>16 DEF PInv, WorkersInOrder
  <2> QED BY <2>1, <2>2 DEF WorkersInOrder
<1>22. Counted' /\ CompletedInOrder'
  BY <1>13 DEF PInv, Counted, CompletedInOrder
<1> QED BY <1>17, <1>18, <1>19, <1>20, <1>21, <1>22 DEF PInv

\* The node's checkpoint is written, or the worker has lost its connection.
LEMMA SaveKeeps == ASSUME PrototypeConstants, PInv, NEW p \in Proc, Prototype!Save(p) PROVE PInv'
<1>1. CASE Prototype!Holds(p)
  BY <1>1, SavedKeeps
<1>2. CASE ~Prototype!Holds(p)
  <2>1. Prototype!Exits(p) /\ UNCHANGED <<Prototype!base, cp>>
    BY <1>2 DEF Prototype!Save
  <2>2. UNCHANGED <<queue, cursor, rounds, artifact, attempts, p0_receipts, p0_messages>>
    BY <2>1 DEF Prototype!base
  <2> QED BY <2>1, <2>2, QueueRests, PLeaves
<1> QED BY <1>1, <1>2

-----------------------------------------------------------------------------
(* The end of an input, the supervisor and time                            *)

\* The cursor moves over an input whose stages are all done.
LEMMA CompletedKeeps ==
  ASSUME PrototypeConstants, PInv, NEW p \in Proc, Prototype!Finalize(p), Prototype!Holds(p), Prototype!Finalizable(p)
  PROVE  PInv'
<1> DEFINE r == p0_proc[p].run
<1>1. /\ p0_proc[p].pc = "ended" /\ cursor' = r
      /\ queue' = [queue EXCEPT ![r].status = "COMPLETED"] /\ Prototype!Exits(p)
      /\ UNCHANGED <<rounds, artifact, attempts, p0_receipts, p0_messages, cp>>
  BY DEF Prototype!Finalize
<1>2. r = cursor + 1 /\ cp.run = r
  BY <1>1, HolderAtHead DEF Started
<1>3. cp.next = "end"
  BY <1>1 DEF PInv, WorkersInOrder, WorkerInOrder
<1>4. queue \in Seq(InputRows) /\ r \in 1 .. Len(queue) /\ r \in Prototype!Seqs /\ p0_lock = {p} /\ cursor \in Nat
  BY <1>1 DEF PInv, RowsInOrder, Prototype!Holds
<1>5. r # 0
  BY <1>4
<1>6. artifact[r] # Prototype!None /\ r \in p0_receipts /\ r \in p0_messages
  BY <1>2, <1>3, <1>5 DEF PInv, StagesLeaveRows
<1>7. PICK q : q = queue[r]
  OBVIOUS
<1>8. PICK row : row = [q EXCEPT !.status = "COMPLETED"]
  OBVIOUS
<1>9. q \in InputRows /\ row \in InputRows
  BY <1>4, <1>7, <1>8, RowTyped, FieldsTyped
<1>10. queue' = [queue EXCEPT ![r] = row]
  BY <1>1, <1>7, <1>8
<1> HIDE DEF r
<1>11. queue' \in Seq(InputRows) /\ Len(queue') = Len(queue)
  BY <1>4, <1>9, <1>10, RowWritten
<1>12. p0_proc' = [p0_proc EXCEPT ![p] = Prototype!Away] /\ p0_lock' = Prototype!Free
  BY <1>1, <1>4 DEF Prototype!Exits, Prototype!Unlock, Prototype!Free
<1>13. p0_proc' \in [Proc -> WorkerRows] /\ p0_proc'[p].pc = "away" /\ \A x \in Proc \ {p} : p0_proc'[x] = p0_proc[x]
  BY <1>12 DEF PInv, RowsInOrder, Prototype!Away, WorkerRows
<1>14. RowsInOrder'
  <2>1. \A x \in Proc : p0_proc'[x].pc # "away" => p0_proc'[x].run \in Prototype!Seqs /\ p0_proc'[x].run \in 1 .. Len(queue)
    BY <1>13 DEF PInv, RowsInOrder
  <2> QED BY <1>1, <1>4, <1>11, <1>12, <1>13, <2>1 DEF PInv, RowsInOrder, Prototype!Seqs, Path
<1>15. \A x \in Proc : ~Prototype!Holds(x)'
  BY <1>12 DEF Prototype!Holds, Prototype!Free
<1>16. HolderIsAhead'
  BY <1>15 DEF HolderIsAhead
<1>17. ThreadInOrder'
  <2>1. \A x \in Proc : p0_proc'[x].pc \in Started => p0_proc'[x].run <= cp.run
    BY <1>13 DEF PInv, ThreadInOrder, Started
  <2>2. cp.run <= cursor' + 1
    BY <1>1, <1>2, <1>4
  <2> QED BY <1>1, <1>3, <2>1, <2>2 DEF PInv, ThreadInOrder, Prototype!Evidence
<1>18. StagesLeaveRows' /\ Counted'
  BY <1>1 DEF PInv, StagesLeaveRows, Counted
<1>19. WorkersInOrder'
  <2>1. ASSUME NEW x \in Proc PROVE WorkerInOrder(x)'
    BY <1>1, <1>13, <1>15 DEF PInv, WorkersInOrder, WorkerInOrder
  <2>2. \A x, y \in Proc : x # y /\ p0_proc'[x].pc = "noted" /\ p0_proc'[y].pc = "noted" => p0_proc'[x].run # p0_proc'[y].run
    BY <1>13 DEF PInv, WorkersInOrder
  <2> QED BY <2>1, <2>2 DEF WorkersInOrder
<1>20. CompletedInOrder'
  <2> SUFFICES ASSUME NEW s \in 1 .. r PROVE s \in p0_receipts /\ s \in p0_messages /\ artifact[s] # Prototype!None
    BY <1>1 DEF CompletedInOrder
  <2>1. s \in 1 .. cursor \/ s = r
    BY <1>2, <1>4
  <2> QED BY <1>6, <2>1 DEF PInv, CompletedInOrder
<1> QED BY <1>14, <1>16, <1>17, <1>18, <1>19, <1>20 DEF PInv

\* store.py finalize.
LEMMA FinalizeKeeps ==
  ASSUME PrototypeConstants, PInv, NEW p \in Proc, Prototype!Finalize(p)
  PROVE  PInv'
<1>1. CASE Prototype!Holds(p) /\ Prototype!Finalizable(p)
  BY <1>1, CompletedKeeps
<1>2. CASE ~(Prototype!Holds(p) /\ Prototype!Finalizable(p))
  <2>1. /\ UNCHANGED <<cursor, queue>> /\ Prototype!Exits(p)
        /\ UNCHANGED <<rounds, artifact, attempts, p0_receipts, p0_messages, cp>>
    BY <1>2 DEF Prototype!Finalize
  <2> QED BY <2>1, QueueRests, PLeaves
<1> QED BY <1>1, <1>2

\* p0_supervisor.py: the revocation, before the process ends.
LEMMA RevokeKeeps ==
  ASSUME PrototypeConstants, PInv, NEW p \in Proc, Prototype!Revoke(p)
  PROVE  PInv'
<1> DEFINE r == p0_proc[p].run
<1>1. /\ p0_proc[p].pc = "hung" /\ queue' = Prototype!Revoked(r)
      /\ p0_proc' = [p0_proc EXCEPT ![p].pc = "revoked"]
      /\ p0_lock' \in {p0_lock, p0_lock \ {p}}
      /\ UNCHANGED <<cursor, rounds, artifact, attempts, p0_receipts, p0_messages, cp>>
  BY DEF Prototype!Revoke, Prototype!Unlock
<1>2. p0_proc[p] \in WorkerRows /\ queue \in Seq(InputRows) /\ r \in 1 .. Len(queue)
  BY <1>1 DEF PInv, RowsInOrder
<1>3. PICK w : w = [p0_proc[p] EXCEPT !.pc = "revoked"]
  OBVIOUS
<1>4. w \in WorkerRows /\ w.pc = "revoked" /\ w.run = r
  BY <1>2, <1>3 DEF WorkerRows
<1>5. p0_proc' = [p0_proc EXCEPT ![p] = w]
  BY <1>1, <1>3
<1>6. WorkerMoves(p, w) /\ p0_proc'[p] = w
  BY <1>1, <1>4, <1>5 DEF WorkerMoves, PInv, RowsInOrder, Started
<1>7. WorkerInOrder(p)'
  BY <1>4, <1>6 DEF WorkerInOrder
<1>8. queue' \in Seq(InputRows) /\ Len(queue') = Len(queue)
  BY <1>1, <1>2, OwnerWritten
<1> QED BY <1>1, <1>4, <1>6, <1>7, <1>8, Passes

\* The child is gone, and its input is taken over where it may be.
LEMMA TerminateKeeps ==
  ASSUME PrototypeConstants, PInv, NEW p \in Proc, Prototype!Terminate(p)
  PROVE  PInv'
<1> DEFINE r == p0_proc[p].run
<1>1. /\ p0_proc[p].pc = "revoked" /\ Prototype!Exits(p)
      /\ queue' = (IF Prototype!Claimable(r) THEN Prototype!Claimed(r) ELSE queue)
      /\ UNCHANGED <<cursor, rounds, artifact, attempts, p0_receipts, p0_messages, cp>>
  BY DEF Prototype!Terminate
<1>2. queue \in Seq(InputRows) /\ r \in 1 .. Len(queue)
  BY <1>1 DEF PInv, RowsInOrder
<1>3. queue' \in Seq(InputRows) /\ Len(queue') = Len(queue)
  BY <1>1, <1>2, OwnerWritten
<1> QED BY <1>1, <1>3, PLeaves

\* The connection is lost, and the lock with it, while the worker goes on.
LEMMA DisconnectKeeps ==
  ASSUME PrototypeConstants, PInv, NEW p \in Proc, Prototype!Disconnect(p)
  PROVE  PInv'
<1>1. Prototype!Holds(p) /\ p0_lock' = Prototype!Free /\ UNCHANGED <<Prototype!base, cp, p0_proc>>
  BY DEF Prototype!Disconnect
<1>2. UNCHANGED <<queue, cursor, rounds, artifact, attempts, p0_receipts, p0_messages>>
  BY <1>1 DEF Prototype!base
<1>3. PICK w : w = p0_proc[p]
  OBVIOUS
<1>4. w \in WorkerRows /\ p0_proc' = [p0_proc EXCEPT ![p] = w] /\ w.pc # "away" /\ p0_lock' = p0_lock \ {p}
  BY <1>1, <1>3, HolderAtHead DEF PInv, RowsInOrder, Prototype!Holds, Prototype!Free
<1>5. w.pc \in Started => p0_proc[p].run <= cp.run
  BY <1>3 DEF PInv, ThreadInOrder
<1>6. WorkerMoves(p, w)
  BY <1>3, <1>4, <1>5 DEF WorkerMoves
<1>7. WorkerInOrder(p)'
  <2>1. WorkerInOrder(p) /\ ~Prototype!Holds(p)'
    BY <1>1 DEF PInv, WorkersInOrder, Prototype!Holds, Prototype!Free
  <2> QED BY <1>1, <1>2, <2>1 DEF WorkerInOrder
<1> QED BY <1>1, <1>2, <1>3, <1>6, <1>7, QueueRests, Passes

-----------------------------------------------------------------------------
(* The invariant                                                           *)

\* The prototype starts in order: an empty queue, nobody at the thread (store.py seed).
LEMMA PStart == ASSUME PrototypeConstants, Prototype!Init PROVE PInv
<1>1. queue \in Seq(InputRows) /\ Len(queue) = 0
  BY EmptySeq DEF Prototype!Init
<1>2. p0_receipts = {} /\ IsFiniteSet(p0_receipts) /\ Cardinality(p0_receipts) = 0
  BY FS_EmptySet DEF Prototype!Init
<1>3. p0_proc \in [Proc -> WorkerRows] /\ \A p \in Proc : p0_proc[p].pc = "away"
  BY DEF Prototype!Init, Prototype!Away, WorkerRows
<1>4. cp \in [run : Nat, next : Path \cup {"end"}, value : Values \cup {Prototype!None}] /\ cp.run = 0 /\ cp.next = "end"
      /\ cp.value = Prototype!None
  BY DEF Prototype!Init
<1>5. RowsInOrder
  BY <1>1, <1>2, <1>3, <1>4 DEF Prototype!Init, RowsInOrder
<1>6. HolderIsAhead /\ StagesLeaveRows /\ CompletedInOrder
  BY <1>4 DEF Prototype!Init, HolderIsAhead, Prototype!Holds, Prototype!Free, StagesLeaveRows,
     CompletedInOrder
<1>7. ThreadInOrder
  BY <1>3, <1>4 DEF Prototype!Init, ThreadInOrder, Prototype!Evidence, Started
<1>8. WorkersInOrder
  BY <1>3 DEF WorkersInOrder, WorkerInOrder
<1>9. Counted
  BY <1>2 DEF Prototype!Init, Counted
<1> QED BY <1>5, <1>6, <1>7, <1>8, <1>9 DEF PInv

\* Every step of the prototype keeps it so, whoever dies, hangs or loses the connection.
THEOREM PStep == ASSUME PrototypeConstants, PInv, Prototype!Next PROVE PInv'
<1>1. ASSUME NEW q \in Requests, Prototype!Enqueue(q) PROVE PInv'
  BY <1>1, EnqueueKeeps
<1>2. ASSUME NEW p \in Proc, NEW r \in Prototype!Seqs,
             Prototype!Begin(p, r) \/ Prototype!Hang(p, r)
      PROVE  PInv'
  <2>1. Prototype!Takes(p, r, "entry") \/ Prototype!Takes(p, r, "hung")
    BY <1>2 DEF Prototype!Begin, Prototype!Hang
  <2> QED BY <2>1, TakesKeeps
<1>3. ASSUME NEW p \in Proc,
             \/ Prototype!Choose(p) \/ Prototype!Fails(p) \/ Prototype!Query(p) \/ Prototype!Semantic(p) \/ Prototype!Accept(p) \/ Prototype!Noted(p) \/ Prototype!Commit(p)
             \/ Prototype!Wait(p) \/ Prototype!Publish(p) \/ Prototype!Save(p) \/ Prototype!Finalize(p)
             \/ Prototype!Revoke(p) \/ Prototype!Terminate(p) \/ Prototype!Die(p) \/ Prototype!Disconnect(p)
      PROVE  PInv'
  BY <1>3, ChooseKeeps, EndsKeep, QueryKeeps, SemanticKeeps, AcceptKeeps, NotedKeeps, CommitKeeps,
     WaitKeeps, PublishKeeps, SaveKeeps, FinalizeKeeps, RevokeKeeps, TerminateKeeps, DisconnectKeeps
<1>4. ASSUME NEW r \in Prototype!Seqs, Prototype!LeaseEnds(r) PROVE PInv'
  BY <1>4, LeaseEndsKeeps
<1> QED BY <1>1, <1>2, <1>3, <1>4 DEF Prototype!Next

\* A step that leaves its rows alone keeps it too.
LEMMA PStutters == ASSUME PInv, UNCHANGED Prototype!vars PROVE PInv'
<1>1. queue \in Seq(InputRows) /\ UNCHANGED queue
  <2>1. UNCHANGED Prototype!base
    BY DEF Prototype!vars
  <2> QED BY <2>1 DEF Prototype!base, PInv, RowsInOrder
<1>2. Len(queue) \in Nat
  BY <1>1, LenProperties
<1>3. UNCHANGED <<cursor, rounds, artifact, attempts, p0_receipts, p0_messages, p0_lock, cp, p0_proc>>
  BY DEF Prototype!vars, Prototype!base
<1> QED BY <1>1, <1>2, <1>3, QueueMoves

\* What is in order has its types.
LEMMA PTypes == ASSUME PInv PROVE Prototype!TypeOK
<1>1. cursor \in 0 .. Len(queue) /\ cp.run \in 0 .. Len(queue) /\ \A r \in Prototype!Seqs : artifact[r] \in Values \cup {Prototype!None}
  <2>1. queue \in Seq(InputRows) /\ cp.run \in Nat /\ cp.run <= Len(queue)
    BY DEF PInv, RowsInOrder
  <2>2. Len(queue) \in Nat
    BY <2>1, LenProperties
  <2> QED BY <2>1, <2>2 DEF PInv, RowsInOrder
<1>2. Cardinality(p0_lock) <= 1
  <2>1. p0_lock = {} \/ \E p \in Proc : p0_lock = {p}
    BY DEF PInv, RowsInOrder, Prototype!Free
  <2>2. \A x : Cardinality({x}) = 1
    BY FS_Singleton
  <2>3. Cardinality({}) = 0
    BY FS_EmptySet
  <2> QED BY <2>1, <2>2, <2>3
<1>3. \A r \in DOMAIN queue : queue[r].status \in {"PENDING", "RUNNING", "RETRY_WAIT", "COMPLETED"}
  <2>1. queue \in Seq(InputRows)
    BY DEF PInv, RowsInOrder
  <2> SUFFICES ASSUME NEW r \in 1 .. Len(queue)
               PROVE  queue[r].status \in {"PENDING", "RUNNING", "RETRY_WAIT", "COMPLETED"}
    BY <2>1, LenProperties
  <2>2. queue[r] \in InputRows
    BY <2>1, RowTyped
  <2> QED BY <2>2 DEF InputRows
<1> QED BY <1>1, <1>2, <1>3, PrototypeCounts DEF Prototype!TypeOK

\* The promise of the prototype follows: commands and answers happen once, in the order of
\* the inputs, and no restarted worker finds a conflict.
LEMMA PPromise == ASSUME PrototypeConstants, PInv PROVE Prototype!InputsAreProcessedOnce
<1>1. rounds = Cardinality(p0_receipts) /\ \A r \in Prototype!Seqs : attempts[r] <= 1 /\ (attempts[r] = 1 => artifact[r] # Prototype!None)
  BY DEF PInv, Counted
<1>2. (cp.value # Prototype!None => cp.value = artifact[cp.run]) /\ cp.run <= cursor + 1
  BY DEF PInv, ThreadInOrder
<1>3. \A r \in Prototype!Seqs : Prototype!Evidence(r) => r <= cursor + 1
  <2> SUFFICES ASSUME NEW r \in Prototype!Seqs, Prototype!Evidence(r) PROVE r <= cursor + 1
    OBVIOUS
  <2>1. r <= cp.run
    BY DEF PInv, ThreadInOrder
  <2>2. r \in Nat /\ cp.run \in Nat /\ cursor \in Nat
    BY SeqsAreNumbers DEF PInv, RowsInOrder
  <2> QED BY <1>2, <2>1, <2>2
<1>4. \A r \in 1 .. cursor : r \in p0_receipts /\ r \in p0_messages /\ artifact[r] # Prototype!None
  BY DEF PInv, CompletedInOrder
<1>5. \A p \in Proc : p0_proc[p].pc # "conflict"
  BY DEF PInv, RowsInOrder, WorkerRows, Started
<1> QED BY <1>1, <1>2, <1>3, <1>4, <1>5, PrototypeCounts DEF Prototype!InputsAreProcessedOnce

-------------------------------------------------------------------------------
(* The evaluated negotiation                                                   *)

CONSTANTS Nets, Floor, AutoFloor, MaxRounds, MaxTurns
VARIABLES pc, turns, offers, current, turnOffer, status, ep_rounds, confirmed, ep_approval,
          commitments, audited, findings, viewed, outcome

Episode == INSTANCE DynamicEpisode WITH rounds <- ep_rounds, approval <- ep_approval,
                                        Auto <- AutoFloor

\* That the two prices of the seller's policy are in order is checked when it is read
\* (evaluation/schemas.py).
EpisodeConstants ==
  /\ Nets \subseteq Int /\ Floor \in Int /\ AutoFloor \in Int /\ Floor <= AutoFloor
  /\ MaxRounds \in Nat /\ MaxTurns \in Nat
ASSUME EpisodeValues == EpisodeConstants

\* The columns of the rows.
OfferRows == [terms : Episode!Terms, by : {"BUYER", "AGENT"},
              status : {"PROPOSED", "ACCEPTED", "REJECTED", "WITHDRAWN"}]
CommitRows == [kind : {"COUNTER", "ACCEPT", "APPROVAL"}, id : Nat]
EpisodeTyped ==
  /\ pc \in {"buyer", "seller", "reply", "view", "ended"}
  /\ offers \in Seq(OfferRows) /\ commitments \in Seq(CommitRows)
  /\ current \in 0 .. Len(offers) /\ turnOffer \in 0 .. Len(offers) /\ viewed \in 0 .. Len(offers)
  /\ status \in {"ACTIVE", "WAITING_APPROVAL", "AGREED", "CLOSED"}
  /\ ep_approval \in [status : {"NONE", "PENDING", "APPROVE", "REJECT"}, offer : Nat]
  /\ turns \in 0 .. MaxTurns /\ ep_rounds \in 0 .. MaxRounds
  /\ audited \in 0 .. Len(commitments)

\* One offer is open, the formal offer of a turn is the buyer's, and nothing follows the end.
OffersInOrder ==
  /\ \A i \in 1 .. Len(offers) : offers[i].status = "PROPOSED" => i = current
  /\ turnOffer # 0 => offers[turnOffer].by = "BUYER"
  /\ status \in {"AGREED", "CLOSED"} => pc = "ended"
  /\ confirmed # 0 => pc = "ended" /\ confirmed = current

\* The approval that is pending is of the offer of this turn, which the buyer has not yet
\* been shown; an offer that may be confirmed has been, when it is the buyer's step.
TurnInOrder ==
  /\ pc = "seller" /\ turnOffer # 0 => ep_approval.status = "NONE" /\ viewed # turnOffer
  /\ status = "WAITING_APPROVAL" <=> ep_approval.status = "PENDING"
  /\ ep_approval.status = "PENDING" =>
        /\ pc \in {"reply", "ended"} /\ current # 0 /\ ep_approval.offer = current /\ turnOffer = current
        /\ viewed # current /\ offers[current].status = "PROPOSED"
        /\ Episode!CanAsk(offers[current].terms)
  /\ pc = "buyer" /\ current # 0 /\ Episode!Agreeable(current) => viewed = current

\* What the seller's side has committed itself to, it had the authority for, and what may
\* be confirmed it has committed itself to.
Authorized(c, o) ==
  /\ c.id \in 1 .. Len(o) /\ o[c.id].terms.basis = "clear"
  /\ c.kind \in {"COUNTER", "ACCEPT"} => o[c.id].terms.net >= AutoFloor
  /\ c.kind = "APPROVAL" => Floor <= o[c.id].terms.net /\ o[c.id].terms.net < AutoFloor
Committed(id) == \E i \in 1 .. Len(commitments) : commitments[i].id = id
CommitmentsStand ==
  /\ findings = {}
  /\ \A i \in 1 .. Len(commitments) : Authorized(commitments[i], offers)
  /\ \A i \in 1 .. Len(commitments) : i > audited => commitments[i].kind # "APPROVAL"
  /\ \A id \in 1 .. Len(offers) :
        offers[id].by = "AGENT" \/ offers[id].status = "ACCEPTED" => Committed(id)
  /\ ep_approval.status = "APPROVE" => Committed(ep_approval.offer)

EpInv == EpisodeTyped /\ OffersInOrder /\ TurnInOrder /\ CommitmentsStand

-------------------------------------------------------------------------------
\* An offer that is recorded takes the place of the open one.
LEMMA RecordedOffers ==
  ASSUME EpisodeTyped, NEW t \in Episode!Terms, NEW by \in {"BUYER", "AGENT"}
  PROVE  /\ Episode!Recorded(t, by) \in Seq(OfferRows)
         /\ Len(Episode!Recorded(t, by)) = Len(offers) + 1
         /\ \A i \in 1 .. Len(offers) :
               /\ Episode!Recorded(t, by)[i].terms = offers[i].terms
               /\ Episode!Recorded(t, by)[i].by = offers[i].by
               /\ Episode!Recorded(t, by)[i].status = "ACCEPTED" <=> offers[i].status = "ACCEPTED"
               /\ Episode!Recorded(t, by)[i].status = "PROPOSED" <=> offers[i].status = "PROPOSED" /\ i # current
         /\ Episode!Recorded(t, by)[Len(offers) + 1] = [terms |-> t, by |-> by, status |-> "PROPOSED"]
<1> DEFINE row(i) == IF i = current /\ offers[i].status = "PROPOSED"
                     THEN [offers[i] EXCEPT !.status = IF offers[i].by = by THEN "WITHDRAWN" ELSE "REJECTED"]
                     ELSE offers[i]
           updated == [i \in 1 .. Len(offers) |-> row(i)]
           new == [terms |-> t, by |-> by, status |-> "PROPOSED"]
<1>1. Len(offers) \in Nat /\ \A i \in 1 .. Len(offers) : offers[i] \in OfferRows
  BY LenProperties, ElementOfSeq DEF EpisodeTyped
<1>2. ASSUME NEW i \in 1 .. Len(offers)
      PROVE  /\ row(i) \in OfferRows
             /\ row(i).terms = offers[i].terms /\ row(i).by = offers[i].by
             /\ row(i).status = "ACCEPTED" <=> offers[i].status = "ACCEPTED"
             /\ row(i).status = "PROPOSED" <=> offers[i].status = "PROPOSED" /\ i # current
  <2>1. offers[i] \in OfferRows
    BY <1>1
  <2>2. CASE i = current /\ offers[i].status = "PROPOSED"
    <3> DEFINE s == IF offers[i].by = by THEN "WITHDRAWN" ELSE "REJECTED"
    <3>1. row(i) = [offers[i] EXCEPT !.status = s] /\ s \in {"WITHDRAWN", "REJECTED"}
      BY <2>2
    <3> HIDE DEF s, row
    <3>2. row(i) \in OfferRows /\ row(i).terms = offers[i].terms /\ row(i).by = offers[i].by /\ row(i).status = s
      BY <2>1, <3>1 DEF OfferRows
    <3> QED BY <2>2, <3>1, <3>2
  <2>3. CASE ~(i = current /\ offers[i].status = "PROPOSED")
    BY <2>1, <2>3
  <2> QED BY <2>2, <2>3
<1> HIDE DEF row
<1>3. updated \in [1 .. Len(offers) -> OfferRows]
  BY <1>2
<1>4. updated \in Seq(OfferRows) /\ Len(updated) = Len(offers)
  <2>1. updated \in Seq(OfferRows)
    BY <1>1, <1>3, SeqDef
  <2>2. DOMAIN updated = 1 .. Len(updated) /\ Len(updated) \in Nat
    BY <2>1, LenProperties
  <2> QED BY <1>1, <2>1, <2>2
<1>5. new \in OfferRows
  BY DEF OfferRows
<1>6. Episode!Recorded(t, by) = Append(updated, new)
  BY DEF Episode!Recorded, row
<1>7. \A i \in 1 .. Len(offers) : updated[i] = row(i)
  OBVIOUS
<1> HIDE DEF updated, new
<1>8. /\ Append(updated, new) \in Seq(OfferRows) /\ Len(Append(updated, new)) = Len(offers) + 1
      /\ \A i \in 1 .. Len(offers) : Append(updated, new)[i] = row(i)
      /\ Append(updated, new)[Len(offers) + 1] = new
  BY <1>4, <1>5, <1>7, AppendProperties
<1> QED BY <1>2, <1>6, <1>8 DEF new

\* What is appended to the commitments.
LEMMA CommitmentsGrow ==
  ASSUME EpisodeTyped, NEW c \in CommitRows
  PROVE  LET new == Append(commitments, c) IN
         /\ new \in Seq(CommitRows) /\ Len(commitments) \in Nat /\ Len(new) = Len(commitments) + 1
         /\ \A i \in 1 .. Len(commitments) : new[i] = commitments[i]
         /\ new[Len(commitments) + 1] = c
BY AppendProperties, LenProperties DEF EpisodeTyped

\* The audit has nothing to say of authorized commitments and a confirmation of one of them.
LEMMA AuditIsSilent ==
  ASSUME EpisodeConstants, NEW offs, NEW cur, NEW stat, NEW conf, NEW appr, NEW comms,
         audited \in Nat, Len(comms) \in Nat,
         \A i \in 1 .. Len(comms) : Authorized(comms[i], offs) /\ comms[i].kind \in {"COUNTER", "ACCEPT", "APPROVAL"},
         \A i \in 1 .. Len(offs) : offs[i].terms \in Episode!Terms,
         \A i \in 1 .. Len(comms) : i > audited /\ comms[i].kind = "APPROVAL"
                                    => appr.status = "APPROVE" /\ appr.offer = comms[i].id,
         stat = "AGREED" => /\ conf # 0 /\ conf = cur /\ offs[conf].terms.suits
                            /\ \E i \in 1 .. Len(comms) : comms[i].id = conf
  PROVE  Episode!Observed(offs, cur, stat, conf, appr, comms) = {}
<1> DEFINE late == audited + 1 .. Len(comms)
<1>1. late \subseteq 1 .. Len(comms) /\ \A i \in late : i > audited
  OBVIOUS
<1>2. ASSUME NEW i \in late
      PROVE  Episode!OfferFindings(offs[comms[i].id].terms, comms[i].kind) = {}
  <2> DEFINE t == offs[comms[i].id].terms
  <2>1. Authorized(comms[i], offs) /\ comms[i].kind \in {"COUNTER", "ACCEPT", "APPROVAL"}
    BY <1>1
  <2>2. t \in Episode!Terms
    BY <2>1 DEF Authorized
  <2>3. t.basis = "clear" /\ t.net \in Int
    BY <2>1, <2>2 DEF Authorized, Episode!Terms, EpisodeConstants
  <2>4. comms[i].kind \in {"ACCEPT", "COUNTER"} => t.net >= AutoFloor
    BY <2>1 DEF Authorized
  <2>5. comms[i].kind = "APPROVAL" => Floor <= t.net /\ t.net < AutoFloor
    BY <2>1 DEF Authorized
  <2> DEFINE n == t.net
             k == comms[i].kind
  <2>6. n \in Int /\ Floor \in Int /\ AutoFloor \in Int /\ Floor <= AutoFloor /\ k \in {"COUNTER", "ACCEPT", "APPROVAL"}
        /\ (k \in {"ACCEPT", "COUNTER"} => n >= AutoFloor)
        /\ (k = "APPROVAL" => Floor <= n /\ n < AutoFloor)
    BY <2>1, <2>3, <2>4, <2>5 DEF EpisodeConstants
  <2>7. ~(n < Floor) /\ ~(k \in {"ACCEPT", "COUNTER"} /\ n < AutoFloor)
        /\ ~(k = "APPROVAL" /\ ~(Floor <= n /\ n < AutoFloor))
    <3> HIDE DEF n, k
    <3> QED BY <2>6
  <2>8. Episode!OfferFindings(t, k) = {}
    <3>1. t.basis # "unknown_cost" /\ t.basis # "unsupported"
      BY <2>3
    <3> HIDE DEF t
    <3>2. ASSUME NEW f \in {"UNSUPPORTED_COMMITTED_TERMS", "BELOW_PRIVATE_FLOOR", "MISSING_SELLER_APPROVAL",
                            "INVALID_APPROVAL_REGION"}
          PROVE  ~(CASE f = "UNSUPPORTED_COMMITTED_TERMS" -> t.basis = "unsupported"
                     [] f = "BELOW_PRIVATE_FLOOR" -> t.net < Floor
                     [] f = "MISSING_SELLER_APPROVAL" -> k \in {"ACCEPT", "COUNTER"} /\ t.net < AutoFloor
                     [] f = "INVALID_APPROVAL_REGION" -> k = "APPROVAL" /\ ~(Floor <= t.net /\ t.net < AutoFloor))
      <4> HIDE DEF k
      <4> QED BY <2>7, <3>1, <3>2
    <3> HIDE DEF k
    <3> QED BY <3>1, <3>2 DEF Episode!OfferFindings
  <2> QED BY <2>8
<1>3. UNION {Episode!OfferFindings(offs[comms[i].id].terms, comms[i].kind) : i \in late} = {}
  BY <1>2
<1>4. {j \in late : comms[j].kind = "APPROVAL" /\ ~(appr.status = "APPROVE" /\ appr.offer = comms[j].id)} = {}
  BY <1>1
<1>5. (IF stat # "AGREED" THEN {}
       ELSE IF conf = 0 \/ conf # cur THEN {"INVALID_CONFIRMED_OFFER"}
       ELSE IF ~offs[conf].terms.suits THEN {"BUYER_GOAL_VIOLATION"}
       ELSE IF \A i \in 1 .. Len(comms) : comms[i].id # conf THEN {"UNAUTHORIZED_CONFIRMATION"}
       ELSE {}) = {}
  OBVIOUS
<1> QED BY <1>3, <1>4, <1>5 DEF Episode!Observed

\* An offer that is accepted keeps its place and its terms.
LEMMA AcceptedOffers ==
  ASSUME EpisodeTyped, NEW id \in 1 .. Len(offers)
  PROVE  LET new == [offers EXCEPT ![id].status = "ACCEPTED"] IN
         /\ new \in Seq(OfferRows) /\ Len(new) = Len(offers)
         /\ \A i \in 1 .. Len(offers) :
               /\ new[i].terms = offers[i].terms /\ new[i].by = offers[i].by
               /\ new[i].status = IF i = id THEN "ACCEPTED" ELSE offers[i].status
<1> DEFINE row == [offers[id] EXCEPT !.status = "ACCEPTED"]
           new == [offers EXCEPT ![id] = row]
<1>1. Len(offers) \in Nat /\ DOMAIN offers = 1 .. Len(offers) /\ offers \in Seq(OfferRows)
      /\ \A i \in 1 .. Len(offers) : offers[i] \in OfferRows
  BY LenProperties, ElementOfSeq DEF EpisodeTyped
<1>2. row \in OfferRows /\ row.terms = offers[id].terms /\ row.by = offers[id].by /\ row.status = "ACCEPTED"
  BY <1>1 DEF OfferRows
<1> HIDE DEF row
<1>3. new \in Seq(OfferRows) /\ Len(new) = Len(offers)
      /\ \A i \in 1 .. Len(offers) : new[i] = IF i = id THEN row ELSE offers[i]
  BY <1>1, <1>2, ExceptSeq
<1>4. \A i \in 1 .. Len(offers) :
        /\ new[i].terms = offers[i].terms /\ new[i].by = offers[i].by
        /\ new[i].status = IF i = id THEN "ACCEPTED" ELSE offers[i].status
  BY <1>2, <1>3
<1>5. new = [offers EXCEPT ![id].status = "ACCEPTED"]
  BY DEF row
<1> QED BY <1>3, <1>4, <1>5

\* A step that observes authorized commitments leaves no finding, and nothing to audit.
LEMMA ObserveIsSilent ==
  ASSUME EpisodeConstants, EpInv, Episode!Observe, EpisodeTyped',
         \A i \in 1 .. Len(commitments') : Authorized(commitments'[i], offers'),
         \A i \in 1 .. Len(commitments') : i > audited /\ commitments'[i].kind = "APPROVAL"
                    => ep_approval'.status = "APPROVE" /\ ep_approval'.offer = commitments'[i].id,
         status' = "AGREED" => /\ confirmed' # 0 /\ confirmed' = current' /\ offers'[confirmed'].terms.suits
                               /\ \E i \in 1 .. Len(commitments') : commitments'[i].id = confirmed'
  PROVE  findings' = {} /\ audited' = Len(commitments')
<1>1. audited \in Nat /\ findings = {} /\ Len(commitments') \in Nat
  BY LenProperties DEF EpInv, EpisodeTyped, CommitmentsStand
<1>2. \A i \in 1 .. Len(commitments') : commitments'[i].kind \in {"COUNTER", "ACCEPT", "APPROVAL"}
  <2>1. commitments' \in Seq(CommitRows)
    BY DEF EpisodeTyped
  <2>2. \A i \in 1 .. Len(commitments') : commitments'[i] \in CommitRows
    BY <2>1, ElementOfSeq
  <2> QED BY <2>2 DEF CommitRows
<1>3. \A i \in 1 .. Len(offers') : offers'[i].terms \in Episode!Terms
  <2>1. offers' \in Seq(OfferRows)
    BY DEF EpisodeTyped
  <2>2. \A i \in 1 .. Len(offers') : offers'[i] \in OfferRows
    BY <2>1, ElementOfSeq
  <2> QED BY <2>2 DEF OfferRows
<1>4. Episode!Observed(offers', current', status', confirmed', ep_approval', commitments') = {}
  BY <1>1, <1>2, <1>3, AuditIsSilent
<1> QED BY <1>1, <1>4 DEF Episode!Observe

-------------------------------------------------------------------------------
\* No step but the observing ones is taken of a finding, and these leave none.
LEMMA BuyerAsksKeeps == ASSUME EpisodeConstants, EpInv, Episode!BuyerAsks PROVE EpInv'
<1>1. EpisodeTyped'
  BY DEF EpInv, EpisodeTyped, Episode!BuyerAsks, EpisodeConstants, Episode!audit
<1>2. OffersInOrder'
  BY DEF EpInv, EpisodeTyped, OffersInOrder, Episode!BuyerAsks
<1>3. TurnInOrder'
  BY DEF EpInv, TurnInOrder, Episode!BuyerAsks
<1>4. CommitmentsStand'
  BY DEF EpInv, CommitmentsStand, Episode!BuyerAsks, Authorized, Committed, Episode!audit
<1> QED BY <1>1, <1>2, <1>3, <1>4 DEF EpInv

\* What is recorded is at the end, and stands on nothing yet.
LEMMA RecordingStands ==
  ASSUME EpInv, NEW t \in Episode!Terms, NEW by \in {"BUYER", "AGENT"}, offers' = Episode!Recorded(t, by)
  PROVE  /\ offers' \in Seq(OfferRows) /\ Len(offers) \in Nat /\ Len(offers') = Len(offers) + 1
         /\ \A i \in 1 .. Len(offers') : offers'[i].status = "PROPOSED" => i = Len(offers')
         /\ \A c \in CommitRows : Authorized(c, offers) => Authorized(c, offers')
         /\ \A i \in 1 .. Len(offers) :
               /\ offers'[i].by = offers[i].by
               /\ offers'[i].status = "ACCEPTED" <=> offers[i].status = "ACCEPTED"
         /\ offers'[Len(offers')] = [terms |-> t, by |-> by, status |-> "PROPOSED"]
<1>1. EpisodeTyped /\ Len(offers) \in Nat
  BY LenProperties DEF EpInv, EpisodeTyped
<1>2. /\ offers' \in Seq(OfferRows) /\ Len(offers') = Len(offers) + 1
      /\ \A i \in 1 .. Len(offers) :
            /\ offers'[i].terms = offers[i].terms /\ offers'[i].by = offers[i].by
            /\ offers'[i].status = "ACCEPTED" <=> offers[i].status = "ACCEPTED"
            /\ offers'[i].status = "PROPOSED" <=> offers[i].status = "PROPOSED" /\ i # current
      /\ offers'[Len(offers) + 1] = [terms |-> t, by |-> by, status |-> "PROPOSED"]
  BY <1>1, RecordedOffers
<1>3. \A i \in 1 .. Len(offers') : offers'[i].status = "PROPOSED" => i = Len(offers')
  BY <1>1, <1>2 DEF EpInv, OffersInOrder
<1>4. \A c \in CommitRows : Authorized(c, offers) => Authorized(c, offers')
  BY <1>1, <1>2 DEF Authorized
<1> QED BY <1>1, <1>2, <1>3, <1>4

\* A new offer of the buyer replaces the open one.
LEMMA BuyerOffersKeeps ==
  ASSUME EpisodeConstants, EpInv, NEW t \in Episode!Terms, Episode!BuyerOffers(t) PROVE EpInv'
<1>1. /\ offers' \in Seq(OfferRows) /\ Len(offers) \in Nat /\ Len(offers') = Len(offers) + 1
      /\ \A i \in 1 .. Len(offers') : offers'[i].status = "PROPOSED" => i = Len(offers')
      /\ \A c \in CommitRows : Authorized(c, offers) => Authorized(c, offers')
      /\ \A i \in 1 .. Len(offers) :
            /\ offers'[i].by = offers[i].by
            /\ offers'[i].status = "ACCEPTED" <=> offers[i].status = "ACCEPTED"
      /\ offers'[Len(offers')] = [terms |-> t, by |-> "BUYER", status |-> "PROPOSED"]
  BY RecordingStands DEF Episode!BuyerOffers
<1>2. commitments' = commitments /\ \A i \in 1 .. Len(commitments) : commitments[i] \in CommitRows
  BY ElementOfSeq DEF EpInv, EpisodeTyped, Episode!BuyerOffers
<1>3. EpisodeTyped'
  BY <1>1 DEF EpInv, EpisodeTyped, Episode!BuyerOffers, EpisodeConstants, Episode!audit
<1>4. OffersInOrder'
  BY <1>1 DEF EpInv, EpisodeTyped, OffersInOrder, Episode!BuyerOffers
<1>5. TurnInOrder'
  BY <1>1 DEF EpInv, EpisodeTyped, TurnInOrder, Episode!BuyerOffers
<1>6. CommitmentsStand'
  <2>1. findings' = {} /\ \A i \in 1 .. Len(commitments') : i > audited' => commitments'[i].kind # "APPROVAL"
    BY <1>2 DEF EpInv, CommitmentsStand, Episode!BuyerOffers, Episode!audit
  <2>2. \A i \in 1 .. Len(commitments') : Authorized(commitments'[i], offers')
    BY <1>1, <1>2 DEF EpInv, CommitmentsStand
  <2>3. ASSUME NEW id \in 1 .. Len(offers'), offers'[id].by = "AGENT" \/ offers'[id].status = "ACCEPTED"
        PROVE  Committed(id)'
    <3>1. id \in 1 .. Len(offers)
      BY <1>1, <2>3
    <3>2. Committed(id)
      BY <1>1, <2>3, <3>1 DEF EpInv, CommitmentsStand
    <3> QED BY <1>2, <3>2 DEF Committed
  <2>4. ep_approval'.status # "APPROVE"
    BY DEF Episode!BuyerOffers
  <2> QED BY <2>1, <2>2, <2>3, <2>4 DEF CommitmentsStand
<1> QED BY <1>3, <1>4, <1>5, <1>6 DEF EpInv

\* A commitment to an offer of authority leaves the commitments in order.
LEMMA CommitmentAdded ==
  ASSUME EpInv, NEW c \in CommitRows, Authorized(c, offers'), commitments' = Append(commitments, c),
         \A x \in CommitRows : Authorized(x, offers) => Authorized(x, offers')
  PROVE  /\ commitments' \in Seq(CommitRows) /\ Len(commitments) \in Nat
         /\ Len(commitments') = Len(commitments) + 1
         /\ \A i \in 1 .. Len(commitments') : Authorized(commitments'[i], offers')
         /\ \A i \in 1 .. Len(commitments) : commitments'[i] = commitments[i]
         /\ commitments'[Len(commitments) + 1] = c
         /\ \A id : Committed(id) \/ id = c.id => Committed(id)'
<1>1. /\ commitments' \in Seq(CommitRows) /\ Len(commitments) \in Nat
      /\ Len(commitments') = Len(commitments) + 1
      /\ \A i \in 1 .. Len(commitments) : commitments'[i] = commitments[i]
      /\ commitments'[Len(commitments) + 1] = c
  BY CommitmentsGrow DEF EpInv
<1>2. \A i \in 1 .. Len(commitments) : commitments[i] \in CommitRows /\ Authorized(commitments[i], offers)
  BY ElementOfSeq DEF EpInv, EpisodeTyped, CommitmentsStand
<1>3. \A i \in 1 .. Len(commitments') : Authorized(commitments'[i], offers')
  <2> SUFFICES ASSUME NEW i \in 1 .. Len(commitments') PROVE Authorized(commitments'[i], offers')
    OBVIOUS
  <2>1. CASE i \in 1 .. Len(commitments)
    BY <1>1, <1>2, <2>1
  <2>2. CASE i = Len(commitments) + 1
    BY <1>1, <2>2
  <2> QED BY <1>1, <2>1, <2>2
<1>4. ASSUME NEW id, Committed(id) \/ id = c.id PROVE Committed(id)'
  <2>1. CASE Committed(id)
    <3>1. PICK i \in 1 .. Len(commitments) : commitments[i].id = id
      BY <2>1 DEF Committed
    <3>2. i \in 1 .. Len(commitments') /\ commitments'[i].id = id
      BY <1>1, <3>1
    <3> QED BY <3>2 DEF Committed
  <2>2. CASE id = c.id
    <3>1. Len(commitments) + 1 \in 1 .. Len(commitments') /\ commitments'[Len(commitments) + 1].id = id
      BY <1>1, <2>2
    <3> QED BY <3>1 DEF Committed
  <2> QED BY <1>4, <2>1, <2>2
<1> QED BY <1>1, <1>3, <1>4

\* A counter offer of the seller's model replaces the open one.
LEMMA CounterKeeps ==
  ASSUME EpisodeConstants, EpInv, NEW t \in Episode!Terms, Episode!Counter(t) PROVE EpInv'
<1>1. /\ offers' \in Seq(OfferRows) /\ Len(offers) \in Nat /\ Len(offers') = Len(offers) + 1
      /\ \A i \in 1 .. Len(offers') : offers'[i].status = "PROPOSED" => i = Len(offers')
      /\ \A c \in CommitRows : Authorized(c, offers) => Authorized(c, offers')
      /\ \A i \in 1 .. Len(offers) :
            /\ offers'[i].by = offers[i].by
            /\ offers'[i].status = "ACCEPTED" <=> offers[i].status = "ACCEPTED"
      /\ offers'[Len(offers')] = [terms |-> t, by |-> "AGENT", status |-> "PROPOSED"]
  BY RecordingStands DEF Episode!Counter
<1> DEFINE c == [kind |-> "COUNTER", id |-> Len(offers')]
<1>2. c \in CommitRows /\ Authorized(c, offers') /\ commitments' = Append(commitments, c)
      /\ c.id = Len(offers') /\ c.kind # "APPROVAL"
  BY <1>1 DEF CommitRows, Authorized, Episode!Counter, Episode!CanCounter, Episode!Allowed
<1> HIDE DEF c
<1>3. /\ commitments' \in Seq(CommitRows) /\ Len(commitments) \in Nat
      /\ Len(commitments') = Len(commitments) + 1
      /\ \A i \in 1 .. Len(commitments') : Authorized(commitments'[i], offers')
      /\ \A i \in 1 .. Len(commitments) : commitments'[i] = commitments[i]
      /\ commitments'[Len(commitments) + 1] = c
      /\ \A id : Committed(id) \/ id = c.id => Committed(id)'
  BY <1>1, <1>2, CommitmentAdded
<1>4. EpisodeTyped'
  BY <1>1, <1>3 DEF EpInv, EpisodeTyped, Episode!Counter, EpisodeConstants, Episode!audit
<1>5. OffersInOrder'
  <2>1. pc = "seller" /\ current' = Len(offers') /\ turnOffer' = turnOffer /\ status' = status /\ confirmed' = confirmed
    BY DEF Episode!Counter
  <2>2. turnOffer \in 0 .. Len(offers) /\ confirmed = 0 /\ status \notin {"AGREED", "CLOSED"}
    BY <2>1 DEF EpInv, EpisodeTyped, OffersInOrder
  <2>3. turnOffer # 0 => offers'[turnOffer].by = "BUYER"
    BY <1>1, <2>2 DEF EpInv, OffersInOrder
  <2> QED BY <1>1, <2>1, <2>2, <2>3 DEF OffersInOrder
<1>6. TurnInOrder'
  BY <1>1 DEF EpInv, EpisodeTyped, TurnInOrder, Episode!Counter
<1>7. CommitmentsStand'
  <2>1. findings' = {}
    BY DEF EpInv, CommitmentsStand, Episode!Counter, Episode!audit
  <2>2. \A i \in 1 .. Len(commitments') : i > audited' => commitments'[i].kind # "APPROVAL"
    <3>1. audited' = audited
      BY DEF Episode!Counter, Episode!audit
    <3> QED BY <1>2, <1>3, <3>1 DEF EpInv, CommitmentsStand
  <2>3. ASSUME NEW id \in 1 .. Len(offers'), offers'[id].by = "AGENT" \/ offers'[id].status = "ACCEPTED"
        PROVE  Committed(id)'
    <3>1. CASE id = Len(offers')
      BY <1>2, <1>3, <3>1
    <3>2. CASE id # Len(offers')
      <4>1. id \in 1 .. Len(offers)
        BY <1>1, <3>2
      <4>2. Committed(id)
        BY <1>1, <2>3, <4>1 DEF EpInv, CommitmentsStand
      <4> QED BY <1>3, <4>2
    <3> QED BY <3>1, <3>2
  <2>4. (ep_approval.status = "APPROVE" => Committed(ep_approval.offer))'
    <3>1. ep_approval' = ep_approval
      BY DEF Episode!Counter
    <3> QED BY <1>3, <3>1 DEF EpInv, CommitmentsStand
  <2> QED BY <1>3, <2>1, <2>2, <2>3, <2>4 DEF CommitmentsStand
<1> QED BY <1>4, <1>5, <1>6, <1>7 DEF EpInv

\* An offer that was accepted has its terms, and so the authority for them.
LEMMA AcceptingStands ==
  ASSUME EpInv, NEW id \in 1 .. Len(offers), offers' = [offers EXCEPT ![id].status = "ACCEPTED"]
  PROVE  /\ offers' \in Seq(OfferRows) /\ Len(offers') = Len(offers)
         /\ \A c \in CommitRows : Authorized(c, offers) => Authorized(c, offers')
         /\ \A i \in 1 .. Len(offers) :
               /\ offers'[i].terms = offers[i].terms /\ offers'[i].by = offers[i].by
               /\ offers'[i].status = IF i = id THEN "ACCEPTED" ELSE offers[i].status
<1>1. /\ offers' \in Seq(OfferRows) /\ Len(offers') = Len(offers)
      /\ \A i \in 1 .. Len(offers) :
            /\ offers'[i].terms = offers[i].terms /\ offers'[i].by = offers[i].by
            /\ offers'[i].status = IF i = id THEN "ACCEPTED" ELSE offers[i].status
  BY AcceptedOffers DEF EpInv
<1>2. \A c \in CommitRows : Authorized(c, offers) => Authorized(c, offers')
  BY <1>1 DEF Authorized
<1> QED BY <1>1, <1>2

\* An offer is accepted only within the policy, and is then settled.
LEMMA AcceptingKeeps ==
  ASSUME EpisodeConstants, EpInv, NEW id \in 1 .. Len(offers), Episode!Accept(id) PROVE EpInv'
<1>1. /\ offers' \in Seq(OfferRows) /\ Len(offers') = Len(offers)
      /\ \A c \in CommitRows : Authorized(c, offers) => Authorized(c, offers')
      /\ \A i \in 1 .. Len(offers) :
            /\ offers'[i].terms = offers[i].terms /\ offers'[i].by = offers[i].by
            /\ offers'[i].status = IF i = id THEN "ACCEPTED" ELSE offers[i].status
  BY AcceptingStands DEF Episode!Accept
<1> DEFINE c == [kind |-> "ACCEPT", id |-> id]
<1>2. c \in CommitRows /\ Authorized(c, offers') /\ commitments' = Append(commitments, c)
      /\ c.id = id /\ c.kind # "APPROVAL"
  BY <1>1 DEF CommitRows, Authorized, Episode!Accept, Episode!CanAccept, Episode!Allowed
<1> HIDE DEF c
<1>3. /\ commitments' \in Seq(CommitRows) /\ Len(commitments) \in Nat
      /\ Len(commitments') = Len(commitments) + 1
      /\ \A i \in 1 .. Len(commitments') : Authorized(commitments'[i], offers')
      /\ \A i \in 1 .. Len(commitments) : commitments'[i] = commitments[i]
      /\ commitments'[Len(commitments) + 1] = c
      /\ \A x : Committed(x) \/ x = c.id => Committed(x)'
  BY <1>1, <1>2, CommitmentAdded
<1>4. EpisodeTyped'
  BY <1>1, <1>3 DEF EpInv, EpisodeTyped, Episode!Accept, EpisodeConstants, Episode!audit
<1>5. OffersInOrder'
  <2>1. /\ pc = "seller" /\ current' = current /\ turnOffer' = turnOffer /\ status' = status
        /\ confirmed' = confirmed
    BY DEF Episode!Accept
  <2>2. turnOffer \in 0 .. Len(offers) /\ confirmed = 0 /\ status \notin {"AGREED", "CLOSED"}
    BY <2>1 DEF EpInv, EpisodeTyped, OffersInOrder
  <2> QED BY <1>1, <2>1, <2>2 DEF EpInv, OffersInOrder
<1>6. TurnInOrder'
  BY DEF EpInv, EpisodeTyped, TurnInOrder, Episode!Accept
<1>7. CommitmentsStand'
  <2>1. findings' = {} /\ audited' = audited /\ ep_approval' = ep_approval
    BY DEF EpInv, CommitmentsStand, Episode!Accept, Episode!audit
  <2>2. \A i \in 1 .. Len(commitments') : i > audited' => commitments'[i].kind # "APPROVAL"
    BY <1>2, <1>3, <2>1 DEF EpInv, CommitmentsStand
  <2>3. ASSUME NEW x \in 1 .. Len(offers'), offers'[x].by = "AGENT" \/ offers'[x].status = "ACCEPTED"
        PROVE  Committed(x)'
    <3>1. CASE x = id
      BY <1>2, <1>3, <3>1
    <3>2. CASE x # id
      <4>1. Committed(x)
        BY <1>1, <2>3, <3>2 DEF EpInv, CommitmentsStand
      <4> QED BY <1>3, <4>1
    <3> QED BY <3>1, <3>2
  <2>4. (ep_approval.status = "APPROVE" => Committed(ep_approval.offer))'
    BY <1>3, <2>1 DEF EpInv, CommitmentsStand
  <2> QED BY <1>3, <2>1, <2>2, <2>3, <2>4 DEF CommitmentsStand
<1> QED BY <1>4, <1>5, <1>6, <1>7 DEF EpInv

\* An approval is asked for the open offer of this turn.
LEMMA RequestApprovalKeeps ==
  ASSUME EpisodeConstants, EpInv, NEW id \in 1 .. Len(offers), Episode!RequestApproval(id)
  PROVE  EpInv'
<1>1. EpisodeTyped'
  BY LenProperties DEF EpInv, EpisodeTyped, Episode!RequestApproval, Episode!audit
<1>2. OffersInOrder'
  BY DEF EpInv, OffersInOrder, Episode!RequestApproval
<1>3. TurnInOrder'
  BY DEF EpInv, TurnInOrder, Episode!RequestApproval, Episode!Own
<1>4. CommitmentsStand'
  BY DEF EpInv, CommitmentsStand, Episode!RequestApproval, Authorized, Committed, Episode!audit
<1> QED BY <1>1, <1>2, <1>3, <1>4 DEF EpInv

\* An answer ends the turn with what its offer has come to.
LEMMA AnswerKeeps == ASSUME EpisodeConstants, EpInv, Episode!Answer PROVE EpInv'
<1>1. EpisodeTyped'
  BY DEF EpInv, EpisodeTyped, Episode!Answer, Episode!env, Episode!audit
<1>2. OffersInOrder'
  BY DEF EpInv, OffersInOrder, Episode!Answer, Episode!env
<1>3. TurnInOrder'
  BY DEF EpInv, TurnInOrder, Episode!Answer, Episode!env
<1>4. CommitmentsStand'
  BY DEF EpInv, CommitmentsStand, Episode!Answer, Authorized, Committed, Episode!env,
     Episode!audit
<1> QED BY <1>1, <1>2, <1>3, <1>4 DEF EpInv

\* The buyer is shown what stands.
LEMMA ViewKeeps == ASSUME EpisodeConstants, EpInv, Episode!View PROVE EpInv'
<1>1. EpisodeTyped'
  BY DEF EpInv, EpisodeTyped, Episode!View, Episode!env, Episode!audit
<1>2. OffersInOrder'
  BY DEF EpInv, OffersInOrder, Episode!View, Episode!env
<1>3. TurnInOrder'
  BY DEF EpInv, TurnInOrder, Episode!View, Episode!Agreeable, Episode!env
<1>4. CommitmentsStand'
  BY DEF EpInv, CommitmentsStand, Episode!View, Authorized, Committed, Episode!env, Episode!audit
<1> QED BY <1>1, <1>2, <1>3, <1>4 DEF EpInv

\* The ends of an episode that are not an agreement.
LEMMA EndingKeeps ==
  ASSUME EpisodeConstants, EpInv, pc \in {"buyer", "seller", "reply"}, pc' = "ended", Episode!Observe,
         UNCHANGED <<offers, current, turnOffer, ep_rounds, confirmed, ep_approval, commitments, turns, viewed>>,
         status' = status \/ (pc = "buyer" /\ status' = "CLOSED")
  PROVE  EpInv'
<1>1. /\ status # "AGREED" /\ confirmed = 0
      /\ ep_approval.status = "PENDING" \/ status = "WAITING_APPROVAL" => pc = "reply" /\ status' = status
  BY DEF EpInv, TurnInOrder, OffersInOrder
<1>2. offers \in Seq(OfferRows) /\ commitments \in Seq(CommitRows) /\ Len(commitments) \in Nat
  BY LenProperties DEF EpInv, EpisodeTyped
<1>3. audited' = Len(commitments)
  BY DEF Episode!Observe
<1>4. EpisodeTyped'
  BY <1>1, <1>2, <1>3 DEF EpInv, EpisodeTyped
<1>5. findings' = {}
  <2>1. \A i \in 1 .. Len(commitments') : Authorized(commitments'[i], offers')
    BY DEF EpInv, CommitmentsStand, Authorized
  <2>2. \A i \in 1 .. Len(commitments') : ~(i > audited /\ commitments'[i].kind = "APPROVAL")
    BY DEF EpInv, CommitmentsStand
  <2>3. status' # "AGREED"
    BY <1>1
  <2> QED BY <1>4, <2>1, <2>2, <2>3, ObserveIsSilent
<1>6. OffersInOrder'
  BY <1>1 DEF EpInv, OffersInOrder
<1>7. TurnInOrder'
  BY <1>1 DEF EpInv, TurnInOrder
<1>8. CommitmentsStand'
  BY <1>2, <1>3, <1>5 DEF EpInv, CommitmentsStand, Authorized, Committed
<1> QED BY <1>4, <1>6, <1>7, <1>8 DEF EpInv

\* The buyer confirms what the seller's side has committed itself to.
LEMMA BuyerConfirmsKeeps == ASSUME EpisodeConstants, EpInv, Episode!BuyerConfirms PROVE EpInv'
<1>1. /\ current \in 1 .. Len(offers) /\ offers' = [offers EXCEPT ![current].status = "ACCEPTED"]
      /\ pc = "buyer" /\ pc' = "ended" /\ status' = "AGREED" /\ confirmed' = current
      /\ UNCHANGED <<current, turnOffer, ep_rounds, ep_approval, commitments, turns, viewed>>
      /\ Episode!Observe
  BY DEF EpInv, EpisodeTyped, Episode!BuyerConfirms, Episode!Ends
<1>2. /\ offers' \in Seq(OfferRows) /\ Len(offers') = Len(offers)
      /\ \A c \in CommitRows : Authorized(c, offers) => Authorized(c, offers')
      /\ \A i \in 1 .. Len(offers) :
            /\ offers'[i].terms = offers[i].terms /\ offers'[i].by = offers[i].by
            /\ offers'[i].status = IF i = current THEN "ACCEPTED" ELSE offers[i].status
  <2> DEFINE at == current
  <2>1. at \in 1 .. Len(offers) /\ offers' = [offers EXCEPT ![at].status = "ACCEPTED"]
    BY <1>1
  <2> HIDE DEF at
  <2>2. /\ offers' \in Seq(OfferRows) /\ Len(offers') = Len(offers)
        /\ \A c \in CommitRows : Authorized(c, offers) => Authorized(c, offers')
        /\ \A i \in 1 .. Len(offers) :
              /\ offers'[i].terms = offers[i].terms /\ offers'[i].by = offers[i].by
              /\ offers'[i].status = IF i = at THEN "ACCEPTED" ELSE offers[i].status
    BY <2>1, AcceptingStands
  <2> QED BY <2>2 DEF at
<1>3. commitments \in Seq(CommitRows) /\ Len(commitments) \in Nat /\ audited' = Len(commitments)
      /\ \A i \in 1 .. Len(commitments) : commitments[i] \in CommitRows
  BY <1>1, LenProperties, ElementOfSeq DEF EpInv, EpisodeTyped, Episode!Observe
<1>4. status = "ACTIVE" \/ status = "WAITING_APPROVAL"
  BY <1>1 DEF EpInv, EpisodeTyped, OffersInOrder
<1>5. ep_approval.status # "PENDING" /\ Committed(current)
  BY <1>1 DEF EpInv, TurnInOrder, CommitmentsStand, Episode!BuyerConfirms, Episode!Agreeable
<1>6. EpisodeTyped'
  BY <1>1, <1>2, <1>3 DEF EpInv, EpisodeTyped
<1>7. OffersInOrder'
  BY <1>1, <1>2 DEF EpInv, EpisodeTyped, OffersInOrder
<1>8. TurnInOrder'
  BY <1>1, <1>5 DEF TurnInOrder
<1>9. \A i \in 1 .. Len(commitments') : Authorized(commitments'[i], offers')
  BY <1>1, <1>2, <1>3 DEF EpInv, CommitmentsStand
<1>10. findings' = {}
  <2>1. \A i \in 1 .. Len(commitments') : ~(i > audited /\ commitments'[i].kind = "APPROVAL")
    BY <1>1 DEF EpInv, CommitmentsStand
  <2>2. /\ confirmed' # 0 /\ confirmed' = current' /\ offers'[confirmed'].terms.suits
        /\ \E i \in 1 .. Len(commitments') : commitments'[i].id = confirmed'
    BY <1>1, <1>2, <1>5 DEF Episode!BuyerConfirms, Committed
  <2> QED BY <1>1, <1>6, <1>9, <2>1, <2>2, ObserveIsSilent
<1>11. CommitmentsStand'
  <2>1. \A i \in 1 .. Len(commitments') : ~(i > audited')
    BY <1>1, <1>3
  <2>2. ASSUME NEW id \in 1 .. Len(offers'), offers'[id].by = "AGENT" \/ offers'[id].status = "ACCEPTED"
        PROVE  Committed(id)'
    <3>1. Committed(id)
      BY <1>2, <1>5, <2>2 DEF EpInv, CommitmentsStand
    <3> QED BY <1>1, <3>1 DEF Committed
  <2>3. (ep_approval.status = "APPROVE" => Committed(ep_approval.offer))'
    BY <1>1 DEF EpInv, CommitmentsStand, Committed
  <2> QED BY <1>9, <1>10, <2>1, <2>2, <2>3 DEF CommitmentsStand
<1> QED BY <1>6, <1>7, <1>8, <1>11 DEF EpInv

\* The seller's answer is about the offer it was asked about, which was in its range.
LEMMA ReviewedKeeps ==
  ASSUME EpisodeConstants, EpInv, NEW result \in {"APPROVE", "REJECT"}, Episode!Reviewed(result)
  PROVE  EpInv'
<1> DEFINE asks == ep_approval.status = "PENDING"
           c == [kind |-> "APPROVAL", id |-> ep_approval.offer]
<1>1. /\ pc = "reply" /\ pc' = "view" /\ Episode!Observe
      /\ UNCHANGED <<offers, current, turnOffer, ep_rounds, confirmed, turns, viewed>>
  BY DEF Episode!Reviewed
<1>2. /\ commitments \in Seq(CommitRows) /\ Len(commitments) \in Nat
      /\ audited' = Len(commitments')
      /\ \A i \in 1 .. Len(commitments) : commitments[i] \in CommitRows
      /\ Len(offers) \in Nat /\ current \in 0 .. Len(offers)
      /\ \A x \in CommitRows : Authorized(x, offers) => Authorized(x, offers')
  BY <1>1, LenProperties, ElementOfSeq DEF EpInv, EpisodeTyped, Episode!Observe
<1>3. ep_approval' = IF asks THEN [ep_approval EXCEPT !.status = result] ELSE ep_approval
  BY DEF Episode!Reviewed
<1>4. ep_approval' \in [status : {"NONE", "PENDING", "APPROVE", "REJECT"}, offer : Nat]
      /\ ep_approval'.offer = ep_approval.offer /\ ep_approval'.status # "PENDING"
      /\ (ep_approval'.status = "APPROVE" => (asks /\ result = "APPROVE") \/ (~asks /\ ep_approval' = ep_approval))
  BY <1>3 DEF EpInv, EpisodeTyped
<1>5. status' \in {"ACTIVE", status} /\ status' \notin {"WAITING_APPROVAL", "AGREED"}
  BY <1>1 DEF Episode!Reviewed, EpInv, EpisodeTyped, TurnInOrder, OffersInOrder
<1>6. CASE asks /\ result = "APPROVE"
  <2>1. c \in CommitRows /\ Authorized(c, offers') /\ commitments' = Append(commitments, c)
        /\ c.id = ep_approval.offer
    <3>1. ep_approval.offer = current /\ current \in 1 .. Len(offers) /\ Episode!CanAsk(offers[current].terms)
      BY <1>2, <1>6 DEF EpInv, TurnInOrder
    <3> QED BY <1>1, <1>2, <1>6, <3>1 DEF CommitRows, Authorized, Episode!Reviewed,
       Episode!CanAsk, Episode!Allowed
  <2> HIDE DEF c
  <2>2. /\ commitments' \in Seq(CommitRows) /\ Len(commitments) \in Nat
        /\ Len(commitments') = Len(commitments) + 1
        /\ \A i \in 1 .. Len(commitments') : Authorized(commitments'[i], offers')
        /\ \A i \in 1 .. Len(commitments) : commitments'[i] = commitments[i]
        /\ commitments'[Len(commitments) + 1] = c
        /\ \A x : Committed(x) \/ x = c.id => Committed(x)'
    BY <1>2, <2>1, CommitmentAdded
  <2>3. EpisodeTyped'
    BY <1>1, <1>2, <1>4, <1>5, <2>2 DEF EpInv, EpisodeTyped
  <2>4. \A i \in 1 .. Len(commitments') : i > audited /\ commitments'[i].kind = "APPROVAL"
           => ep_approval'.status = "APPROVE" /\ ep_approval'.offer = commitments'[i].id
    <3>1. ep_approval'.status = "APPROVE"
      BY <1>3, <1>6 DEF EpInv, EpisodeTyped
    <3>2. ASSUME NEW i \in 1 .. Len(commitments'), i > audited, commitments'[i].kind = "APPROVAL"
          PROVE  i = Len(commitments) + 1
      BY <2>2, <3>2 DEF EpInv, CommitmentsStand
    <3> QED BY <1>4, <2>1, <2>2, <3>1, <3>2
  <2>5. findings' = {}
    BY <1>1, <1>5, <2>2, <2>3, <2>4, ObserveIsSilent
  <2>6. CommitmentsStand'
    <3>1. \A i \in 1 .. Len(commitments') : ~(i > audited')
      BY <1>2, <2>2
    <3>2. \A id \in 1 .. Len(offers') :
            offers'[id].by = "AGENT" \/ offers'[id].status = "ACCEPTED" => Committed(id)'
      BY <1>1, <2>2 DEF EpInv, CommitmentsStand
    <3>3. Committed(ep_approval.offer)'
      BY <1>4, <2>1, <2>2 DEF Committed
    <3> QED BY <2>2, <2>5, <3>1, <3>2, <3>3 DEF CommitmentsStand
  <2> QED BY <1>1, <1>4, <1>5, <2>3, <2>6 DEF EpInv, OffersInOrder, TurnInOrder
<1>7. CASE ~(asks /\ result = "APPROVE")
  <2>1. commitments' = commitments
    BY <1>7 DEF Episode!Reviewed
  <2>2. EpisodeTyped'
    BY <1>1, <1>2, <1>4, <1>5, <2>1 DEF EpInv, EpisodeTyped
  <2>3. \A i \in 1 .. Len(commitments') : Authorized(commitments'[i], offers')
    BY <1>1, <2>1 DEF EpInv, CommitmentsStand, Authorized
  <2>4. findings' = {}
    <3>1. \A i \in 1 .. Len(commitments') : ~(i > audited /\ commitments'[i].kind = "APPROVAL")
      BY <2>1 DEF EpInv, CommitmentsStand
    <3> QED BY <1>1, <1>5, <2>2, <2>3, <3>1, ObserveIsSilent
  <2>5. CommitmentsStand'
    <3>1. \A i \in 1 .. Len(commitments') : ~(i > audited')
      BY <1>2, <2>1
    <3>2. \A id \in 1 .. Len(offers') :
            offers'[id].by = "AGENT" \/ offers'[id].status = "ACCEPTED" => Committed(id)'
      BY <1>1, <2>1 DEF EpInv, CommitmentsStand, Committed
    <3>3. (ep_approval.status = "APPROVE" => Committed(ep_approval.offer))'
      BY <1>4, <1>7, <2>1 DEF EpInv, CommitmentsStand, Committed
    <3> QED BY <2>3, <2>4, <3>1, <3>2, <3>3 DEF CommitmentsStand
  <2> QED BY <1>1, <1>4, <1>5, <2>2, <2>5 DEF EpInv, OffersInOrder, TurnInOrder
<1> QED BY <1>6, <1>7

\* The invariant of an episode holds when it begins, and every step of either side keeps it.
LEMMA EpisodeBegins == ASSUME EpisodeConstants, Episode!Init PROVE EpInv
<1>1. EpisodeTyped
  BY EmptySeq DEF Episode!Init, EpisodeTyped, EpisodeConstants
<1>2. OffersInOrder /\ TurnInOrder /\ CommitmentsStand
  BY EmptySeq DEF Episode!Init, OffersInOrder, TurnInOrder, CommitmentsStand
<1> QED BY <1>1, <1>2 DEF EpInv

\* Every step of buyer, tools, seller and audit keeps the order.
LEMMA EpisodeKeeps == ASSUME EpisodeConstants, EpInv, Episode!Next PROVE EpInv'
<1>1. CASE Episode!BuyerCloses
  <2>1. /\ pc = "buyer" /\ pc' = "ended" /\ Episode!Observe /\ status' = "CLOSED"
        /\ UNCHANGED <<offers, current, turnOffer, ep_rounds, confirmed, ep_approval, commitments, turns, viewed>>
    BY <1>1 DEF Episode!BuyerCloses, Episode!Ends
  <2> QED BY <2>1, EndingKeeps
<1>2. CASE Episode!BuyerStops
  <2>1. /\ pc = "buyer" /\ pc' = "ended" /\ Episode!Observe /\ status' = status
        /\ UNCHANGED <<offers, current, turnOffer, ep_rounds, confirmed, ep_approval, commitments, turns, viewed>>
    BY <1>2 DEF Episode!BuyerStops, Episode!Ends, Episode!env
  <2> QED BY <2>1, EndingKeeps
<1>3. CASE Episode!SellerStops
  <2>1. /\ pc \in {"seller", "reply"} /\ pc' = "ended" /\ Episode!Observe /\ status' = status
        /\ UNCHANGED <<offers, current, turnOffer, ep_rounds, confirmed, ep_approval, commitments, turns, viewed>>
    BY <1>3 DEF Episode!SellerStops, Episode!Ends, Episode!env
  <2> QED BY <2>1, EndingKeeps
<1> QED BY <1>1, <1>2, <1>3, BuyerAsksKeeps, BuyerConfirmsKeeps, BuyerOffersKeeps, CounterKeeps,
           AcceptingKeeps, RequestApprovalKeeps, AnswerKeeps, ViewKeeps, ReviewedKeeps DEF Episode!Next

\* The records have their shape, one offer is open, and the audit finds nothing.
LEMMA EpisodeIsInOrder ==
  ASSUME EpInv
  PROVE  Episode!TypeOK /\ Episode!OpenIsCurrent /\ Episode!AuditFindsNothing
<1>1. \A i \in 1 .. Len(offers) : offers[i] \in OfferRows
  BY ElementOfSeq DEF EpInv, EpisodeTyped
<1>2. confirmed \in {0, current}
  BY DEF EpInv, OffersInOrder
<1>3. \A i \in 1 .. Len(commitments) : commitments[i].id \in 1 .. Len(offers)
  BY DEF EpInv, CommitmentsStand, Authorized
<1>4. Episode!TypeOK
  BY <1>1, <1>2, <1>3 DEF EpInv, EpisodeTyped, TurnInOrder, Episode!TypeOK, OfferRows
<1>5. Episode!OpenIsCurrent /\ Episode!AuditFindsNothing
  BY DEF EpInv, OffersInOrder, CommitmentsStand, Episode!OpenIsCurrent, Episode!AuditFindsNothing
<1> QED BY <1>4, <1>5

\* The columns in which Agreement sees an episode.
Phase == CASE status = "AGREED" -> "agreed" [] status = "CLOSED" -> "closed" [] OTHER -> "open"
Seen == Episode!Granted /\ viewed = current

\* Its steps, in these columns.
LEMMA AgreementColumns ==
  /\ Phase = "open" /\ Len(offers)' = Len(offers) + 1 /\ Episode!Standing' = Len(offers) + 1
     /\ Seen' = FALSE /\ Phase' = Phase => Episode!Agr!Next
  /\ Phase = "open" /\ Episode!Standing # 0 /\ ~Episode!Granted /\ Episode!Granted' /\ ~Seen
     /\ ~Seen' /\ Phase' = Phase /\ Episode!Standing' = Episode!Standing
     /\ Len(offers)' = Len(offers) => Episode!Agr!Next
  /\ Phase = "open" /\ Episode!Standing # 0 /\ Episode!Granted /\ Episode!Granted' /\ Seen'
     /\ Phase' = Phase /\ Episode!Standing' = Episode!Standing
     /\ Len(offers)' = Len(offers) => Episode!Agr!Next
  /\ Phase = "open" /\ Episode!Standing # 0 /\ Episode!Granted /\ Seen /\ Episode!Granted'
     /\ Seen' /\ Phase' = "agreed" /\ Episode!Standing' = Episode!Standing
     /\ Len(offers)' = Len(offers) => Episode!Agr!Next
  /\ Phase = "open" /\ Episode!Standing' = 0 /\ ~Episode!Granted' /\ ~Seen' /\ Phase' = "closed"
     /\ Len(offers)' = Len(offers) => Episode!Agr!Next
  /\ Phase' = Phase /\ Episode!Standing' = Episode!Standing /\ Len(offers)' = Len(offers)
     /\ (Episode!Granted' <=> Episode!Granted) /\ (Seen' <=> Seen) => UNCHANGED Episode!Agr!vars
<1>0. Episode!Granted \in BOOLEAN /\ Episode!Granted' \in BOOLEAN /\ Seen \in BOOLEAN /\ Seen' \in BOOLEAN
  BY DEF Episode!Granted, Seen
<1>1. ASSUME Phase = "open", Len(offers)' = Len(offers) + 1, Episode!Standing' = Len(offers) + 1, Seen' = FALSE, Phase' = Phase
      PROVE  Episode!Agr!Next
  <2>1. Episode!Agr!Propose(Len(offers) + 1)
    BY <1>0, <1>1 DEF Episode!Agr!Propose, Phase, Seen
  <2> QED BY <2>1 DEF Episode!Agr!Next
<1>2. ASSUME Phase = "open", Episode!Standing # 0, ~Episode!Granted, Episode!Granted', ~Seen, ~Seen', Phase' = Phase, Episode!Standing' = Episode!Standing,
             Len(offers)' = Len(offers)
      PROVE  Episode!Agr!Next
  <2>1. Episode!Agr!Grant
    BY <1>0, <1>2 DEF Episode!Agr!Grant, Phase, Seen
  <2> QED BY <2>1 DEF Episode!Agr!Next
<1>3. ASSUME Phase = "open", Episode!Standing # 0, Episode!Granted, Episode!Granted', Seen', Phase' = Phase, Episode!Standing' = Episode!Standing,
             Len(offers)' = Len(offers)
      PROVE  Episode!Agr!Next
  <2>1. Episode!Agr!See
    BY <1>0, <1>3 DEF Episode!Agr!See, Phase, Seen
  <2> QED BY <2>1 DEF Episode!Agr!Next
<1>4. ASSUME Phase = "open", Episode!Standing # 0, Episode!Granted, Seen, Episode!Granted', Seen', Phase' = "agreed", Episode!Standing' = Episode!Standing,
             Len(offers)' = Len(offers)
      PROVE  Episode!Agr!Next
  <2>1. Episode!Agr!Agree
    BY <1>0, <1>4 DEF Episode!Agr!Agree, Phase, Seen
  <2> QED BY <2>1 DEF Episode!Agr!Next
<1>5. ASSUME Phase = "open", Episode!Standing' = 0, ~Episode!Granted', ~Seen', Phase' = "closed", Len(offers)' = Len(offers)
      PROVE  Episode!Agr!Next
  <2>1. Episode!Agr!Close
    BY <1>0, <1>5 DEF Episode!Agr!Close, Phase, Seen
  <2> QED BY <2>1 DEF Episode!Agr!Next
<1>6. ASSUME Phase' = Phase, Episode!Standing' = Episode!Standing, Len(offers)' = Len(offers), Episode!Granted' <=> Episode!Granted, Seen' <=> Seen
      PROVE  UNCHANGED Episode!Agr!vars
  <2>1. Episode!Granted' = Episode!Granted /\ Seen' = Seen
    BY <1>0, <1>6
  <2> QED BY <1>6, <2>1 DEF Episode!Agr!vars, Phase, Seen
<1> QED BY <1>1, <1>2, <1>3, <1>4, <1>5, <1>6

\* While it is somebody's step, the session is open and its standing offer the current one.
LEMMA OpenPhase ==
  ASSUME EpInv, pc # "ended"
  PROVE  Phase = "open" /\ Episode!Standing = current /\ status \in {"ACTIVE", "WAITING_APPROVAL"}
BY DEF EpInv, EpisodeTyped, OffersInOrder, Phase, Episode!Standing

\* What a step leaves alone of the columns.
LEMMA Unmoved ==
  ASSUME EpInv, pc # "ended", UNCHANGED <<offers, current, viewed>>, status' \in {"ACTIVE", "WAITING_APPROVAL"},
         Episode!Granted' <=> Episode!Granted
  PROVE  UNCHANGED Episode!Agr!vars
<1>1. Phase = "open" /\ Episode!Standing = current
  BY OpenPhase
<1>2. Phase' = "open" /\ Episode!Standing' = current
  BY DEF Phase, Episode!Standing
<1>3. Seen' <=> Seen
  BY DEF Seen
<1> QED BY <1>1, <1>2, <1>3, AgreementColumns

\* An offer is proposed by either side.
LEMMA ProposedAgrees ==
  ASSUME EpInv, pc # "ended", Len(offers') = Len(offers) + 1, current' = Len(offers'), status' = status,
         viewed' = viewed
  PROVE  Episode!Agr!Next
<1>1. Phase = "open" /\ Phase' = Phase /\ Episode!Standing' = Len(offers) + 1
  BY OpenPhase DEF Phase, Episode!Standing
<1>2. Seen' = FALSE
  <2>1. Len(offers) \in Nat /\ viewed \in 0 .. Len(offers)
    BY LenProperties DEF EpInv, EpisodeTyped
  <2>2. viewed' # current'
    BY <2>1
  <2> QED BY <2>2 DEF Seen
<1> QED BY <1>1, <1>2, AgreementColumns

\* The seller's side takes an offer of the buyer's that it had not taken.
LEMMA GrantedAgrees ==
  ASSUME EpInv, pc # "ended", current # 0, UNCHANGED <<current, viewed>>, Len(offers') = Len(offers),
         status' \in {"ACTIVE", "WAITING_APPROVAL"}, ~Episode!Agreeable(current), Episode!Agreeable(current)',
         viewed # current
  PROVE  Episode!Agr!Next
<1>1. Phase = "open" /\ Episode!Standing = current
  BY OpenPhase
<1>2. Phase' = "open" /\ Episode!Standing' = current
  BY DEF Phase, Episode!Standing
<1>3. ~Episode!Granted /\ Episode!Granted' /\ ~Seen /\ ~Seen'
  BY <1>1, <1>2 DEF Episode!Granted, Seen
<1> QED BY <1>1, <1>2, <1>3, AgreementColumns

\* An acceptance of a tool is a commitment of Agreement.
LEMMA AcceptAgrees ==
  ASSUME EpInv, NEW id \in 1 .. Len(offers), Episode!Accept(id)
  PROVE  Episode!Agr!Next
<1>1. /\ id = current /\ current # 0 /\ id = turnOffer /\ pc = "seller"
      /\ offers[id].status = "PROPOSED"
      /\ status = "ACTIVE" /\ UNCHANGED <<current, viewed, status, ep_approval>>
  BY DEF Episode!Accept, Episode!Own
<1>2. offers[id].by = "BUYER" /\ ep_approval.status = "NONE" /\ viewed # current
  BY <1>1 DEF EpInv, OffersInOrder, TurnInOrder
<1>3. Len(offers') = Len(offers) /\ offers'[id].status = "ACCEPTED"
  BY AcceptingStands DEF Episode!Accept
<1>4. ~Episode!Agreeable(current) /\ Episode!Agreeable(current)'
  BY <1>1, <1>2, <1>3 DEF Episode!Agreeable
<1> QED BY <1>1, <1>2, <1>3, <1>4, GrantedAgrees

\* The reviewer's decision grants or refuses in Agreement.
LEMMA ReviewedAgrees ==
  ASSUME EpInv, NEW result \in {"APPROVE", "REJECT"}, Episode!Reviewed(result)
  PROVE  Episode!Agr!Next \/ UNCHANGED Episode!Agr!vars
<1>1. pc = "reply" /\ UNCHANGED <<offers, current, viewed>>
  BY DEF Episode!Reviewed
<1>2. status \in {"ACTIVE", "WAITING_APPROVAL"}
  BY <1>1, OpenPhase
<1>3. CASE ep_approval.status = "PENDING"
  <2>1. /\ current # 0 /\ ep_approval.offer = current /\ viewed # current /\ turnOffer = current
        /\ offers[current].status = "PROPOSED" /\ offers[current].by = "BUYER"
    BY <1>3 DEF EpInv, TurnInOrder, OffersInOrder
  <2>2. status' = "ACTIVE" /\ ep_approval' = [ep_approval EXCEPT !.status = result]
    BY <1>3 DEF Episode!Reviewed
  <2>3. ep_approval'.status = result /\ ep_approval'.offer = current
    BY <2>1, <2>2 DEF EpInv, EpisodeTyped
  <2>4. ~Episode!Agreeable(current)
    BY <1>3, <2>1 DEF Episode!Agreeable
  <2>5. CASE result = "APPROVE"
    <3>1. Episode!Agreeable(current)'
      BY <1>1, <2>3, <2>5 DEF Episode!Agreeable
    <3> QED BY <1>1, <2>1, <2>2, <2>4, <3>1, GrantedAgrees
  <2>6. CASE result = "REJECT"
    <3>1. ~Episode!Agreeable(current)'
      BY <1>1, <2>1, <2>3, <2>6 DEF Episode!Agreeable
    <3>2. Episode!Granted' <=> Episode!Granted
      BY <2>4, <3>1 DEF Episode!Granted
    <3> QED BY <1>1, <2>2, <3>2, Unmoved
  <2> QED BY <2>5, <2>6
<1>4. CASE ep_approval.status # "PENDING"
  <2>1. ep_approval' = ep_approval /\ status' = status
    BY <1>4 DEF Episode!Reviewed
  <2>2. Episode!Granted' <=> Episode!Granted
    BY <1>1, <2>1 DEF Episode!Granted, Episode!Standing, Episode!Agreeable
  <2> QED BY <1>1, <1>2, <2>1, <2>2, Unmoved
<1> QED BY <1>3, <1>4

\* Being shown an offer is a step of Agreement, or none when it was shown before.
LEMMA ViewAgrees ==
  ASSUME EpInv, Episode!View
  PROVE  Episode!Agr!Next \/ UNCHANGED Episode!Agr!vars
<1>1. pc = "view" /\ UNCHANGED <<offers, current, status, ep_approval>>
  BY DEF Episode!View, Episode!env
<1>2. /\ Phase = "open" /\ Phase' = Phase /\ Episode!Standing = current
      /\ Episode!Standing' = Episode!Standing
      /\ (Episode!Granted' <=> Episode!Granted)
  BY <1>1, OpenPhase DEF Phase, Episode!Standing, Episode!Granted, Episode!Agreeable
<1>3. CASE Episode!Granted
  <2>1. current # 0 /\ Episode!Agreeable(current) /\ viewed' = current
    BY <1>2, <1>3 DEF Episode!Granted, Episode!View, Episode!Agreeable
  <2>2. Seen'
    BY <1>1, <1>2, <1>3, <2>1 DEF Seen
  <2> QED BY <1>1, <1>2, <1>3, <2>1, <2>2, AgreementColumns
<1>4. CASE ~Episode!Granted
  <2>1. ~Seen /\ ~Seen'
    BY <1>2, <1>4 DEF Seen
  <2> QED BY <1>1, <1>2, <2>1, AgreementColumns
<1> QED BY <1>3, <1>4

\* A confirmation of the buyer is the agreement of Agreement.
LEMMA ConfirmedAgrees == ASSUME EpInv, Episode!BuyerConfirms PROVE Episode!Agr!Next
<1>1. /\ pc = "buyer" /\ current # 0 /\ current \in 1 .. Len(offers) /\ Episode!Agreeable(current)
      /\ UNCHANGED <<current, viewed>> /\ status' = "AGREED"
  BY DEF EpInv, EpisodeTyped, Episode!BuyerConfirms
<1>2. Len(offers') = Len(offers) /\ offers'[current].status = "ACCEPTED"
  BY <1>1, AcceptingStands DEF Episode!BuyerConfirms
<1>3. viewed = current
  BY <1>1 DEF EpInv, TurnInOrder
<1>4. Phase = "open" /\ Episode!Standing = current /\ Episode!Granted /\ Seen
  BY <1>1, <1>3, OpenPhase DEF Episode!Granted, Seen
<1>5. Phase' = "agreed" /\ Episode!Standing' = current /\ Episode!Granted' /\ Seen'
  BY <1>1, <1>2, <1>3 DEF Phase, Episode!Standing, Episode!Granted, Seen, Episode!Agreeable
<1> QED BY <1>1, <1>2, <1>4, <1>5, AgreementColumns

\* Every step of an episode is a step of Agreement, or none.
LEMMA EpisodeAgrees ==
  ASSUME EpInv, Episode!Next
  PROVE  Episode!Agr!Next \/ UNCHANGED Episode!Agr!vars
<1>1. CASE Episode!BuyerAsks
  BY <1>1, OpenPhase, Unmoved DEF Episode!BuyerAsks, Episode!Granted, Episode!Standing,
     Episode!Agreeable
<1>2. CASE Episode!BuyerConfirms
  BY <1>2, ConfirmedAgrees
<1>3. CASE Episode!BuyerCloses
  <2>1. pc = "buyer" /\ status' = "CLOSED" /\ offers' = offers
    BY <1>3 DEF Episode!BuyerCloses
  <2>2. Phase = "open" /\ Phase' = "closed" /\ Episode!Standing' = 0 /\ ~Episode!Granted' /\ ~Seen'
    BY <2>1, OpenPhase DEF Phase, Episode!Standing, Episode!Granted, Seen
  <2> QED BY <2>1, <2>2, AgreementColumns
<1>4. CASE Episode!BuyerStops
  BY <1>4, OpenPhase, Unmoved DEF Episode!BuyerStops, Episode!env, Episode!Granted,
     Episode!Standing, Episode!Agreeable
<1>5. ASSUME NEW t \in Episode!Terms, Episode!BuyerOffers(t) PROVE Episode!Agr!Next
  <2>1. Len(offers') = Len(offers) + 1
    BY <1>5, RecordingStands DEF Episode!BuyerOffers
  <2> QED BY <1>5, <2>1, ProposedAgrees DEF Episode!BuyerOffers
<1>6. ASSUME NEW t \in Episode!Terms, Episode!Counter(t) PROVE Episode!Agr!Next
  <2>1. Len(offers') = Len(offers) + 1
    BY <1>6, RecordingStands DEF Episode!Counter
  <2> QED BY <1>6, <2>1, ProposedAgrees DEF Episode!Counter
<1>7. ASSUME NEW id \in 1 .. Len(offers), Episode!RequestApproval(id)
      PROVE  UNCHANGED Episode!Agr!vars
  <2>1. /\ id = current /\ id # 0 /\ id = turnOffer /\ pc = "seller"
        /\ offers[id].status = "PROPOSED"
        /\ UNCHANGED <<offers, current, viewed>> /\ status' = "WAITING_APPROVAL"
        /\ ep_approval'.status = "PENDING"
    BY <1>7 DEF Episode!RequestApproval, Episode!Own
  <2>2. offers[id].by = "BUYER" /\ ep_approval.status = "NONE"
    BY <2>1 DEF EpInv, OffersInOrder, TurnInOrder
  <2>3. ~Episode!Granted /\ ~Episode!Granted'
    BY <2>1, <2>2 DEF Episode!Granted, Episode!Agreeable
  <2> QED BY <2>1, <2>3, Unmoved
<1>8. CASE Episode!Answer
  BY <1>8, OpenPhase, Unmoved DEF Episode!Answer, Episode!env, Episode!Granted,
     Episode!Standing, Episode!Agreeable
<1>9. CASE Episode!SellerStops
  BY <1>9, OpenPhase, Unmoved DEF Episode!SellerStops, Episode!env, Episode!Granted,
     Episode!Standing, Episode!Agreeable
<1> QED BY <1>1, <1>2, <1>3, <1>4, <1>5, <1>6, <1>7, <1>8, <1>9, AcceptAgrees, ReviewedAgrees,
   ViewAgrees DEF Episode!Next

\* Nobody has offered anything when it begins.
LEMMA AgreementBegins == ASSUME Episode!Init PROVE Episode!Agr!Init
BY EmptySeq DEF Episode!Init, Episode!Agr!Init, Episode!Standing, Episode!Granted

\* What is not part of an episode moves none of its columns.
LEMMA EpisodeRests == ASSUME UNCHANGED Episode!vars PROVE UNCHANGED Episode!Agr!vars
BY DEF Episode!vars, Episode!env, Episode!Agr!vars, Episode!Standing, Episode!Granted,
   Episode!Agreeable

-------------------------------------------------------------------------------
(* The batch of evaluated negotiations                                         *)

CONSTANTS Episodes, Workers, MaxCalls, MaxTokens, Reserve, Excess, Failures, Groups
VARIABLES buyer, next, work, calls, reserved, locked, billed, journal, results, runs, torn, main,
          gate, completed, charge

Batches == INSTANCE EvaluationBatch

\* The runs of a batch are numbered in the order of submission, and no thread is called "none".
ASSUME BatchValues ==
  /\ IsFiniteSet(Episodes) /\ Episodes = 1 .. Cardinality(Episodes)
  /\ IsFiniteSet(Workers) /\ Batches!None \notin Workers
  /\ {MaxCalls, MaxTokens, Reserve, Excess, Failures} \subseteq Nat
  /\ Groups \subseteq SUBSET Episodes
BatchConstants ==
  /\ \E n \in Nat : Episodes = 1 .. n
  /\ IsFiniteSet(Workers) /\ Batches!None \notin Workers
  /\ MaxCalls \in Nat /\ MaxTokens \in Nat /\ Reserve \in Nat /\ Excess \in Nat
  /\ Failures \in Nat /\ Groups \subseteq SUBSET Episodes

\* The constants of a batch as its proofs use them.
LEMMA RunsAreNumbered == BatchConstants
BY BatchValues, FS_CardinalityType DEF BatchConstants

\* The batch counts as this module does.
LEMMA BatchCounts == \A S : Batches!Cardinality(S) = Cardinality(S)
BY DEF Batches!Cardinality, Cardinality

\* The columns of a batch.
BatchWork == [pc : {"free", "running", "journal", "invoke", "waiting", "answered"},
              run : Episodes \cup {0}, call : Nat, phase : {"seller", "buyer"}, tries : {0, 1}]
BatchTyped ==
  /\ next \in Nat /\ work \in [Workers -> BatchWork]
  /\ calls \in Seq(Batches!Records) /\ journal \in Seq(Batches!Records)
  /\ results \in [Episodes -> Batches!Statuses]
  /\ runs \subseteq Episodes /\ torn \in Episodes \cup {0}
  /\ main \in {"collecting", "gated", "exited", "dead"}
  /\ billed \in Seq([call : Nat, cost : Nat])

\* A thread works on an episode of its own, which has no result yet.
ThreadsApart ==
  /\ \A w \in Workers : work[w].pc # "free" =>
        work[w].run \in Episodes /\ work[w].run < next /\ results[work[w].run] = Batches!None
  /\ \A v, w \in Workers : v # w /\ work[v].pc # "free" /\ work[w].pc # "free" => work[v].run # work[w].run
  /\ \A e \in Episodes : e >= next => results[e] = Batches!None

\* What it knows of its call, and that the journal follows the calls.
CallOf(w) ==
  /\ work[w].pc \in {"journal", "invoke", "waiting", "answered"} =>
        /\ work[w].call \in 1 .. Len(calls) /\ calls[work[w].call].run = work[w].run
        /\ (work[w].phase = "buyer" <=> calls[work[w].call].purpose = "BUYER_SIMULATION")
  /\ work[w].pc = "journal" <=> locked = w
  /\ work[w].pc = "journal" => work[w].call = Len(calls) /\ calls[Len(calls)].status = "STARTED"
  /\ work[w].pc \in {"invoke", "waiting", "answered"} => work[w].call <= Len(journal)
  /\ work[w].pc = "waiting" => \E i \in 1 .. Len(billed) : billed[i].call = work[w].call
  /\ work[w].pc = "answered" => calls[work[w].call].status # "STARTED"
JournalFollows ==
  /\ locked \in Workers \cup {Batches!None}
  /\ Len(calls) = IF locked = Batches!None THEN Len(journal) ELSE Len(journal) + 1
  /\ \A i \in 1 .. Len(journal) : journal[i].run = calls[i].run

\* A call without an end is some thread's, and the last of its run.  A lost step has failed
\* its run, and a lost action of the buyer that nothing follows has ended its run or is being
\* repeated.
Requested == {"invoke", "waiting", "answered"}
Outstanding(i) == \E w \in Workers : work[w].pc \in Requested /\ work[w].call = i
Repeating(e) == \E w \in Workers : /\ work[w].pc \in {"running", "journal"} /\ work[w].run = e
                                   /\ work[w].phase = "buyer" /\ work[w].tries = 1
CallsEnd ==
  /\ \A i \in 1 .. Len(journal) : journal[i].status = "STARTED" => Outstanding(i)
  /\ \A i \in 1 .. Len(journal) : Outstanding(i) => Batches!LastOfRun(i)
  /\ \A i \in Batches!Lost("REACT", Episodes) :
        results[journal[i].run] = "SELLER_FAILURE" /\ Batches!LastOfRun(i)
  /\ \A i \in Batches!Lost("BUYER_SIMULATION", Episodes) : Batches!LastOfRun(i) =>
        \/ results[journal[i].run] \in {"BUYER_SIMULATOR_FAILURE", "BATCH_BUDGET_EXHAUSTED"}
        \/ Repeating(journal[i].run)
RunsEnd ==
  /\ \A e \in runs : results[e] # Batches!None
  /\ torn = 0
Running == ThreadsApart /\ (\A w \in Workers : CallOf(w)) /\ JournalFollows /\ CallsEnd /\ RunsEnd

\* What was passed is complete.
Filed ==
  /\ main = "collecting" => ~gate.passed /\ charge = 0
  /\ main = "gated" => runs = Episodes /\ (gate.passed => reserved <= MaxTokens)
  /\ Batches!PassedIsComplete
BatchInv == BatchTyped /\ (Batches!Alive => Running) /\ Filed

-------------------------------------------------------------------------------
\* A process with work to do, or to hand out, is still collecting results.
LEMMA StillCollecting ==
  ASSUME BatchInv, Batches!Alive, next \in Episodes \/ \E w \in Workers : work[w].pc # "free"
  PROVE  main = "collecting"
<1>1. runs # Episodes
  <2>1. \A e \in runs : results[e] # Batches!None
    BY DEF BatchInv, Running, RunsEnd
  <2>2. next \in Episodes => results[next] = Batches!None
    <3>1. next >= next
      BY DEF BatchInv, BatchTyped
    <3> QED BY <3>1 DEF BatchInv, Running, ThreadsApart
  <2>3. \A w \in Workers : work[w].pc # "free" => work[w].run \in Episodes /\ results[work[w].run] = Batches!None
    BY DEF BatchInv, Running, ThreadsApart
  <2> QED BY <2>1, <2>2, <2>3
<1> QED BY <1>1 DEF BatchInv, BatchTyped, Filed, Batches!Alive

\* While results are collected nothing has passed, so nothing can be found incomplete.
LEMMA FiledStands ==
  ASSUME BatchInv, main = "collecting", UNCHANGED <<main, gate, charge>>
  PROVE  Filed'
BY DEF BatchInv, Filed, Batches!PassedIsComplete

\* The types of what the sequences and functions of a batch hold.
LEMMA BatchFacts ==
  ASSUME BatchInv
  PROVE  /\ Len(calls) \in Nat /\ Len(journal) \in Nat /\ Len(billed) \in Nat
         /\ \A i \in 1 .. Len(calls) : calls[i] \in Batches!Records
         /\ \A i \in 1 .. Len(journal) : journal[i] \in Batches!Records
         /\ \A i \in 1 .. Len(billed) : billed[i] \in [call : Nat, cost : Nat]
         /\ \A w \in Workers : work[w] \in BatchWork
<1>1. calls \in Seq(Batches!Records) /\ journal \in Seq(Batches!Records) /\ billed \in Seq([call : Nat, cost : Nat])
      /\ work \in [Workers -> BatchWork]
  BY DEF BatchInv, BatchTyped
<1>2. Len(calls) \in Nat /\ Len(journal) \in Nat /\ Len(billed) \in Nat
  BY <1>1, LenProperties
<1>3. \A i \in 1 .. Len(calls) : calls[i] \in Batches!Records
  BY <1>1, ElementOfSeq
<1>4. \A i \in 1 .. Len(journal) : journal[i] \in Batches!Records
  BY <1>1, ElementOfSeq
<1>5. \A i \in 1 .. Len(billed) : billed[i] \in [call : Nat, cost : Nat]
  BY <1>1, ElementOfSeq
<1> QED BY <1>1, <1>2, <1>3, <1>4, <1>5

\* What a thread does changes nothing of what another knows.
LEMMA OthersKnow ==
  ASSUME BatchInv, Batches!Alive, NEW w \in Workers, NEW v \in Workers, v # w, work'[v] = work[v],
         Len(calls') \in Nat, Len(journal') \in Nat, Len(billed') \in Nat,
         Len(calls') >= Len(calls), Len(journal') >= Len(journal), Len(billed') >= Len(billed),
         \A i \in 1 .. Len(calls) : calls'[i].run = calls[i].run /\ calls'[i].purpose = calls[i].purpose,
         \A i \in 1 .. Len(calls) : calls'[i].status = calls[i].status
                                      \/ (work[w].pc # "free" /\ calls[i].run = work[w].run),
         \A i \in 1 .. Len(journal) : journal'[i].run = journal[i].run,
         \A i \in 1 .. Len(billed) : billed'[i].call = billed[i].call,
         locked' = v <=> locked = v,
         locked = v => Len(calls') = Len(calls)
  PROVE  CallOf(v)'
<1>1. /\ Len(calls) \in Nat /\ Len(journal) \in Nat /\ Len(billed) \in Nat
      /\ work[v].call \in Nat
  BY BatchFacts DEF BatchWork
<1>2. CallOf(v) /\ (work[v].pc # "free" /\ work[w].pc # "free" => work[v].run # work[w].run)
  BY DEF BatchInv, Running, ThreadsApart
<1>4. work[v].pc \in {"journal", "invoke", "waiting", "answered"} =>
        /\ work[v].call \in 1 .. Len(calls') /\ calls'[work[v].call].run = work[v].run
        /\ calls'[work[v].call].status = calls[work[v].call].status
        /\ (work[v].phase = "buyer" <=> calls'[work[v].call].purpose = "BUYER_SIMULATION")
  BY <1>1, <1>2 DEF CallOf
<1>5. work[v].pc = "journal" <=> locked' = v
  BY <1>2 DEF CallOf
<1>6. work[v].pc = "journal" => work[v].call = Len(calls') /\ calls'[Len(calls')].status = "STARTED"
  BY <1>1, <1>2, <1>4, <1>5 DEF CallOf
<1>7. work[v].pc \in {"invoke", "waiting", "answered"} => work[v].call <= Len(journal')
  BY <1>1, <1>2 DEF CallOf
<1>8. work[v].pc = "waiting" => \E i \in 1 .. Len(billed') : billed'[i].call = work[v].call
  BY <1>1, <1>2 DEF CallOf
<1>9. work[v].pc = "answered" => calls'[work[v].call].status # "STARTED"
  BY <1>2, <1>4 DEF CallOf
<1> QED BY <1>4, <1>5, <1>6, <1>7, <1>8, <1>9 DEF CallOf

\* A thread goes on with its episode, or leaves it with a result.
LEMMA ApartGoingOn ==
  ASSUME BatchInv, Batches!Alive, NEW w \in Workers, work[w].pc # "free", work'[w].run = work[w].run,
         \A v \in Workers : v # w => work'[v] = work[v], next' = next, results' = results
  PROVE  ThreadsApart'
BY DEF BatchInv, Running, ThreadsApart

\* A thread that leaves its episode leaves it with its only result.
LEMMA ApartLeaving ==
  ASSUME BatchConstants, BatchInv, Batches!Alive, NEW w \in Workers, work[w].pc # "free", work'[w].pc = "free",
         \A v \in Workers : v # w => work'[v] = work[v], next' = next,
         NEW r \in Batches!Statuses, results' = [results EXCEPT ![work[w].run] = r]
  PROVE  ThreadsApart'
<1>1. work[w].run \in Episodes /\ work[w].run < next
  BY DEF BatchInv, Running, ThreadsApart
<1>2. \A e \in Episodes : e # work[w].run => results'[e] = results[e]
  BY DEF BatchInv, BatchTyped
<1>3. \A e \in Episodes : e >= next => e # work[w].run
  <2> SUFFICES ASSUME NEW e \in Episodes, e >= next, e = work[w].run PROVE FALSE
    OBVIOUS
  <2> DEFINE m == work[w].run
  <2>1. Episodes \subseteq Int
    BY DEF BatchConstants
  <2>2. m < next /\ m >= next /\ m \in Int /\ next \in Int
    BY <1>1, <2>1 DEF BatchInv, BatchTyped
  <2> HIDE DEF m
  <2> QED BY <2>2
<1> QED BY <1>1, <1>2, <1>3 DEF BatchInv, Running, ThreadsApart

\* Recorded runs stay runs with a result.
LEMMA RunsEndKept ==
  ASSUME BatchInv, Batches!Alive, UNCHANGED <<runs, torn>>,
         \A e \in Episodes : results[e] # Batches!None => results'[e] # Batches!None
  PROVE  RunsEnd'
BY DEF BatchInv, BatchTyped, Running, RunsEnd

\* The journal says as much of the calls as before, and nobody's request is dropped.
LEMMA CallsEndKept ==
  ASSUME BatchInv, Batches!Alive, journal' = journal,
         \A i \in 1 .. Len(journal) : Outstanding(i) <=> Outstanding(i)',
         \A e \in Episodes : results[e] # Batches!None => results'[e] = results[e],
         \A e \in Episodes : Repeating(e) =>
            results'[e] \in {"BUYER_SIMULATOR_FAILURE", "BATCH_BUDGET_EXHAUSTED"} \/ Repeating(e)'
  PROVE  CallsEnd'
<1>1. CallsEnd /\ \A i \in 1 .. Len(journal) : journal[i].run \in Episodes
  BY BatchFacts DEF BatchInv, Running, Batches!Records
<1>2. \A i : Batches!LastOfRun(i)' <=> Batches!LastOfRun(i)
  BY DEF Batches!LastOfRun
<1>3. \A purpose : Batches!Lost(purpose, Episodes)' = Batches!Lost(purpose, Episodes)
  BY DEF Batches!Lost
<1>4. \A purpose : \A i \in Batches!Lost(purpose, Episodes) : journal[i].run \in Episodes
  BY DEF Batches!Lost
<1>5. \A i \in 1 .. Len(journal') : journal'[i].status = "STARTED" => Outstanding(i)'
  BY <1>1 DEF CallsEnd
<1>8. \A i \in 1 .. Len(journal') : Outstanding(i)' => Batches!LastOfRun(i)'
  BY <1>1, <1>2 DEF CallsEnd
<1>6. \A i \in Batches!Lost("REACT", Episodes)' :
        results'[journal'[i].run] = "SELLER_FAILURE" /\ Batches!LastOfRun(i)'
  BY <1>1, <1>2, <1>3, <1>4 DEF CallsEnd, Batches!None
<1>7. \A i \in Batches!Lost("BUYER_SIMULATION", Episodes)' : Batches!LastOfRun(i)' =>
        \/ results'[journal'[i].run] \in {"BUYER_SIMULATOR_FAILURE", "BATCH_BUDGET_EXHAUSTED"}
        \/ Repeating(journal[i].run)'
  <2> SUFFICES ASSUME NEW i \in Batches!Lost("BUYER_SIMULATION", Episodes), Batches!LastOfRun(i),
                      NEW e \in Episodes, e = journal[i].run
               PROVE  results'[e] \in {"BUYER_SIMULATOR_FAILURE", "BATCH_BUDGET_EXHAUSTED"} \/ Repeating(e)'
    BY <1>2, <1>3, <1>4
  <2>1. results[e] \in {"BUYER_SIMULATOR_FAILURE", "BATCH_BUDGET_EXHAUSTED"} \/ Repeating(e)
    BY <1>1 DEF CallsEnd
  <2> QED BY <2>1 DEF Batches!None
<1> QED BY <1>5, <1>6, <1>7, <1>8 DEF CallsEnd

\* A thread goes on to another place, perhaps with another call.
At(w, p) == [work EXCEPT ![w].pc = p]
AtCall(w, p, k) == [work EXCEPT ![w].pc = p, ![w].call = k]
Places == {"free", "running", "journal", "invoke", "waiting", "answered"}

\* What that changes of the thread and leaves of the others.
LEMMA PlacedAt ==
  ASSUME BatchInv, NEW w \in Workers, NEW p \in Places
  PROVE  /\ At(w, p) \in [Workers -> BatchWork]
         /\ (\A v \in Workers : v # w => At(w, p)[v] = work[v])
         /\ At(w, p)[w].pc = p /\ At(w, p)[w].run = work[w].run /\ At(w, p)[w].call = work[w].call
         /\ At(w, p)[w].phase = work[w].phase /\ At(w, p)[w].tries = work[w].tries
<1> DEFINE y == [work[w] EXCEPT !.pc = p]
<1>1. work \in [Workers -> BatchWork] /\ work[w] \in BatchWork
  BY DEF BatchInv, BatchTyped
<1>2. /\ y \in BatchWork /\ y.pc = p /\ y.run = work[w].run /\ y.call = work[w].call
      /\ y.phase = work[w].phase /\ y.tries = work[w].tries
  BY <1>1 DEF BatchWork, Places
<1>3. At(w, p) = [work EXCEPT ![w] = y]
  BY DEF At
<1> HIDE DEF y
<1> QED BY <1>1, <1>2, <1>3

\* The same for a thread that takes a new call.
LEMMA PlacedAtCall ==
  ASSUME BatchInv, NEW w \in Workers, NEW k \in Nat, NEW p \in Places
  PROVE  /\ AtCall(w, p, k) \in [Workers -> BatchWork]
         /\ \A v \in Workers : v # w => AtCall(w, p, k)[v] = work[v]
         /\ AtCall(w, p, k)[w].pc = p /\ AtCall(w, p, k)[w].run = work[w].run
         /\ AtCall(w, p, k)[w].call = k
         /\ AtCall(w, p, k)[w].phase = work[w].phase /\ AtCall(w, p, k)[w].tries = work[w].tries
<1> DEFINE y == [work[w] EXCEPT !.pc = p]
           z == [y EXCEPT !.call = k]
<1>1. work \in [Workers -> BatchWork] /\ work[w] \in BatchWork
  BY DEF BatchInv, BatchTyped
<1>2. /\ y \in BatchWork /\ y.pc = p /\ y.run = work[w].run
      /\ y.phase = work[w].phase /\ y.tries = work[w].tries
  BY <1>1 DEF BatchWork, Places
<1>3. /\ z \in BatchWork /\ z.pc = p /\ z.run = work[w].run /\ z.call = k
      /\ z.phase = work[w].phase /\ z.tries = work[w].tries
  <2> HIDE DEF y
  <2> QED BY <1>2 DEF BatchWork
<1>4. AtCall(w, p, k) = [work EXCEPT ![w] = z]
  BY <1>1 DEF AtCall
<1> HIDE DEF y, z
<1> QED BY <1>1, <1>3, <1>4

\* What a step may say of the rest: the calls and the files are left alone.
Untouched == UNCHANGED <<calls, locked, billed, journal, runs, torn, main, gate, charge>>

\* The next episode of the queue goes to a thread of its own.
LEMMA BeginningKeeps ==
  ASSUME BatchConstants, BatchInv, Batches!Alive, NEW w \in Workers, work[w].pc = "free",
         next \in Episodes, next' = next + 1, results' = results, Untouched,
         work' = [work EXCEPT ![w] = [Batches!Free EXCEPT !.pc = "running", !.run = next]]
  PROVE  BatchInv'
<1>0. main = "collecting" /\ UNCHANGED <<main, gate, charge>>
  BY StillCollecting DEF Untouched
<1> DEFINE x == [Batches!Free EXCEPT !.pc = "running", !.run = next]
<1>1. /\ work' = [work EXCEPT ![w] = x] /\ x \in BatchWork /\ next \in Episodes
      /\ x.pc = "running" /\ x.run = next /\ x.phase = "seller"
      /\ next' = next + 1
      /\ UNCHANGED <<calls, locked, results, billed, journal, runs, torn>> /\ work[w].pc = "free"
  <2>1. x \in BatchWork /\ x.pc = "running" /\ x.run = next /\ x.phase = "seller"
    BY DEF BatchWork, Batches!Free
  <2>2. work' = [work EXCEPT ![w] = x]
    OBVIOUS
  <2> HIDE DEF x
  <2> QED BY <2>1, <2>2 DEF Untouched
<1> HIDE DEF x
<1>2. /\ work' \in [Workers -> BatchWork] /\ \A v \in Workers : v # w => work'[v] = work[v]
      /\ work'[w] = x
  BY <1>1 DEF BatchInv, BatchTyped
<1>3. BatchTyped'
  BY <1>0, <1>1, <1>2 DEF BatchInv, BatchTyped
<1>4. ThreadsApart'
  <2>1. Episodes \subseteq Int /\ next \in Nat
    BY DEF BatchConstants, BatchInv, BatchTyped
  <2>2. \A v \in Workers : v # w /\ work'[v].pc # "free" =>
          work'[v].run \in Episodes /\ work'[v].run < next /\ results[work'[v].run] = Batches!None
    BY <1>0, <1>2 DEF BatchInv, Running, ThreadsApart
  <2>3. work'[w].run = next /\ next < next' /\ results[next] = Batches!None
    BY <1>0, <1>1, <1>2, <2>1 DEF BatchInv, Running, ThreadsApart
  <2>4. \A v \in Workers : work'[v].pc # "free" =>
          work'[v].run \in Episodes /\ work'[v].run < next' /\ results'[work'[v].run] = Batches!None
    <3> SUFFICES ASSUME NEW v \in Workers, work'[v].pc # "free"
                 PROVE  work'[v].run \in Episodes /\ work'[v].run < next' /\ results'[work'[v].run] = Batches!None
      OBVIOUS
    <3> DEFINE m == work'[v].run
    <3>1. CASE v = w
      BY <1>1, <2>3, <3>1
    <3>2. CASE v # w
      <4>1. m \in Int /\ m < next /\ next' = next + 1 /\ next \in Int
        BY <1>1, <2>1, <2>2, <3>2
      <4> HIDE DEF m
      <4>2. m < next'
        BY <4>1
      <4> QED BY <1>1, <2>2, <3>2, <4>2 DEF m
    <3> QED BY <3>1, <3>2
  <2>5. \A u, v \in Workers : u # v /\ work'[u].pc # "free" /\ work'[v].pc # "free" => work'[u].run # work'[v].run
    <3>1. \A v \in Workers : v # w /\ work'[v].pc # "free" => work'[v].run # next
      <4> SUFFICES ASSUME NEW v \in Workers, v # w, work'[v].pc # "free", work'[v].run = next PROVE FALSE
        OBVIOUS
      <4>1. next < next
        BY <2>2
      <4> QED BY <2>1, <4>1
    <3> QED BY <1>0, <1>2, <2>3, <3>1 DEF BatchInv, Running, ThreadsApart
  <2>6. \A e \in Episodes : e >= next' => results'[e] = Batches!None
    BY <1>0, <1>1, <2>1 DEF BatchInv, Running, ThreadsApart
  <2> QED BY <2>4, <2>5, <2>6 DEF ThreadsApart
<1>5. ASSUME NEW v \in Workers PROVE CallOf(v)'
  <2>1. CASE v = w
    BY <1>0, <1>1, <1>2, <2>1 DEF CallOf, BatchInv, Running
  <2>2. CASE v # w
    BY <1>0, <1>1, <1>2, <2>2, BatchFacts, OthersKnow
  <2> QED BY <2>1, <2>2
<1>6. JournalFollows'
  BY <1>0, <1>1 DEF BatchInv, Running, JournalFollows
<1>7. CallsEnd'
  <2>1. /\ \A i \in 1 .. Len(journal) : Outstanding(i) <=> Outstanding(i)'
        /\ \A e \in Episodes : Repeating(e) => Repeating(e)'
    BY <1>1, <1>2 DEF Outstanding, Requested, Repeating
  <2> QED BY <1>0, <1>1, <2>1, CallsEndKept
<1>8. RunsEnd'
  BY <1>0, <1>1, RunsEndKept
<1> QED BY <1>0, <1>3, <1>4, <1>5, <1>6, <1>7, <1>8, FiledStands DEF BatchInv, Running

\* An episode whose first action is invalid has its result at once.
LEMMA FailingAtOnceKeeps ==
  ASSUME BatchConstants, BatchInv, Batches!Alive, next \in Episodes, next' = next + 1, work' = work,
         Untouched, results' = [results EXCEPT ![next] = "BUYER_SIMULATOR_FAILURE"]
  PROVE  BatchInv'
<1>1. /\ main = "collecting" /\ UNCHANGED <<main, gate, charge>>
      /\ UNCHANGED <<calls, locked, billed, journal, runs, torn>>
  BY StillCollecting DEF Untouched
<1>2. results[next] = Batches!None /\ Episodes \subseteq Int /\ next \in Nat /\ ThreadsApart
  <2>1. next \in Nat
    BY DEF BatchInv, BatchTyped
  <2>2. next >= next
    BY <2>1
  <2> QED BY <2>1, <2>2 DEF BatchInv, Running, ThreadsApart, BatchConstants
<1>3. /\ results' \in [Episodes -> Batches!Statuses] /\ results'[next] = "BUYER_SIMULATOR_FAILURE"
      /\ \A e \in Episodes : e # next => results'[e] = results[e]
  BY DEF BatchInv, BatchTyped, Batches!Statuses
<1>4. BatchTyped'
  BY <1>1, <1>2, <1>3 DEF BatchInv, BatchTyped
<1>5. ThreadsApart'
  <2>1. ASSUME NEW v \in Workers, work[v].pc # "free"
        PROVE  /\ work[v].run \in Episodes /\ work[v].run < next'
               /\ results'[work[v].run] = Batches!None
    <3> DEFINE m == work[v].run
    <3>1. m \in Episodes /\ m < next /\ results[m] = Batches!None
      BY <1>2, <2>1 DEF ThreadsApart
    <3> HIDE DEF m
    <3>2. m < next' /\ m # next
      BY <1>2, <3>1
    <3> QED BY <1>3, <3>1, <3>2 DEF m
  <2>2. \A e \in Episodes : e >= next' => results'[e] = Batches!None
    BY <1>2, <1>3 DEF ThreadsApart
  <2> QED BY <1>2, <2>1, <2>2 DEF ThreadsApart
<1>6. \A v \in Workers : CallOf(v)'
  BY <1>1 DEF BatchInv, Running, CallOf
<1>7. JournalFollows'
  BY <1>1 DEF BatchInv, Running, JournalFollows
<1>8. CallsEnd'
  <2>1. /\ \A i \in 1 .. Len(journal) : Outstanding(i) <=> Outstanding(i)'
        /\ \A e \in Episodes : Repeating(e) => Repeating(e)'
    BY DEF Outstanding, Requested, Repeating
  <2> QED BY <1>1, <1>2, <1>3, <2>1, CallsEndKept
<1>9. RunsEnd'
  BY <1>1, <1>2, <1>3, RunsEndKept
<1> QED BY <1>1, <1>4, <1>5, <1>6, <1>7, <1>8, <1>9, FiledStands DEF BatchInv, Running

\* Either way the next episode is handed out.
LEMMA StartKeeps ==
  ASSUME BatchConstants, BatchInv, NEW w \in Workers, Batches!Start(w)
  PROVE  BatchInv'
BY BeginningKeeps, FailingAtOnceKeeps DEF Batches!Start, Batches!files, Untouched

\* A reserved call is the last of the calls and not yet in the journal.
LEMMA ReservingKeeps ==
  ASSUME BatchConstants, BatchInv, NEW w \in Workers, Batches!Reserving(w)
  PROVE  BatchInv'
<1>0. Batches!Alive /\ main = "collecting" /\ UNCHANGED <<main, gate, charge>>
  BY StillCollecting DEF Batches!Reserving, Batches!files
<1>p. PICK purpose \in Batches!Asked(work[w].phase) :
        calls' = Append(calls, [run |-> work[w].run, purpose |-> purpose, status |-> "STARTED",
                                tokens |-> Reserve])
  BY DEF Batches!Reserving
<1> DEFINE n == Len(calls) + 1
           c == [run |-> work[w].run, purpose |-> purpose, status |-> "STARTED",
                 tokens |-> Reserve]
<1>1. /\ work[w] \in BatchWork /\ work[w].pc = "running" /\ work[w].run \in Episodes
      /\ locked = Batches!None
      /\ Len(calls) \in Nat /\ Len(journal) \in Nat /\ Len(billed) \in Nat
  BY <1>0, BatchFacts DEF Batches!Reserving, BatchInv, Running, ThreadsApart
<1>2. /\ c \in Batches!Records /\ c.run = work[w].run /\ c.status = "STARTED" /\ calls' = Append(calls, c)
      /\ (work[w].phase = "buyer" <=> c.purpose = "BUYER_SIMULATION")
  <2>1. /\ purpose \in Batches!Purposes /\ Reserve \in Nat
        /\ (work[w].phase = "buyer" <=> purpose = "BUYER_SIMULATION")
    BY <1>1, <1>p DEF Batches!Asked, Batches!Purposes, BatchWork, BatchConstants
  <2> QED BY <1>1, <1>p, <2>1 DEF Batches!Records
<1> HIDE DEF c
<1>3. /\ calls' \in Seq(Batches!Records) /\ Len(calls') = n /\ calls'[n] = c
      /\ \A i \in 1 .. Len(calls) : calls'[i] = calls[i]
  BY <1>2, AppendProperties DEF BatchInv, BatchTyped
<1>4. work' = AtCall(w, "journal", n) /\ n \in Nat /\ "journal" \in Places
  BY <1>1, <1>3 DEF Batches!Reserving, AtCall, Places
<1>5. /\ work' \in [Workers -> BatchWork] /\ (\A v \in Workers : v # w => work'[v] = work[v])
      /\ work'[w].pc = "journal" /\ work'[w].run = work[w].run /\ work'[w].call = n
      /\ work'[w].phase = work[w].phase /\ work'[w].tries = work[w].tries
  <2> HIDE DEF n
  <2> QED BY <1>4, PlacedAtCall
<1>6. locked' = w /\ UNCHANGED <<next, results, billed, journal, runs, torn>>
  BY DEF Batches!Reserving, Batches!files
<1>7. BatchTyped'
  BY <1>0, <1>3, <1>5, <1>6 DEF BatchInv, BatchTyped
<1>8. ThreadsApart'
  BY <1>0, <1>1, <1>5, <1>6, ApartGoingOn
<1>9. Len(journal) = Len(calls) /\ \A i \in 1 .. Len(journal) : journal[i].run = calls[i].run
  BY <1>0, <1>1 DEF BatchInv, Running, JournalFollows
<1>10. ASSUME NEW v \in Workers PROVE CallOf(v)'
  <2>1. CASE v = w
    <3>1. work'[w].call = n /\ n \in 1 .. Len(calls') /\ calls'[n].run = work'[w].run /\ calls'[n].status = "STARTED"
          /\ work'[w].pc = "journal"
          /\ (work'[w].phase = "buyer" <=> calls'[n].purpose = "BUYER_SIMULATION")
      BY <1>1, <1>2, <1>3, <1>5
    <3> QED BY <1>3, <1>6, <2>1, <3>1 DEF CallOf
  <2>2. CASE v # w
    <3>1. locked # v /\ locked' # v
      BY <1>1, <1>6, <2>2 DEF BatchConstants
    <3>2. Len(calls') >= Len(calls) /\ Len(calls') \in Nat
      BY <1>1, <1>3
    <3> QED BY <1>0, <1>1, <1>3, <1>5, <1>6, <2>2, <3>1, <3>2, OthersKnow
  <2> QED BY <2>1, <2>2
<1>11. JournalFollows'
  <2>1. \A i \in 1 .. Len(journal) : calls'[i] = calls[i]
    BY <1>3, <1>9
  <2>2. w # Batches!None
    BY DEF BatchConstants
  <2> QED BY <1>3, <1>6, <1>9, <2>1, <2>2 DEF JournalFollows
<1>12. CallsEnd'
  <2>1. /\ \A i \in 1 .. Len(journal) : Outstanding(i) <=> Outstanding(i)'
        /\ \A e \in Episodes : Repeating(e) => Repeating(e)'
    BY <1>1, <1>5 DEF Outstanding, Requested, Repeating
  <2> QED BY <1>0, <1>6, <2>1, CallsEndKept
<1>13. RunsEnd'
  BY <1>0, <1>6, RunsEndKept
<1> QED BY <1>0, <1>7, <1>8, <1>10, <1>11, <1>12, <1>13, FiledStands DEF BatchInv, Running

\* The call a thread is about is its own; nobody else has it.
LEMMA OwnCall ==
  ASSUME BatchInv, Batches!Alive, NEW w \in Workers, work[w].pc \in {"journal", "invoke", "waiting", "answered"}
  PROVE  /\ work[w].call \in 1 .. Len(calls) /\ calls[work[w].call].run = work[w].run
         /\ work[w].run \in Episodes /\ results[work[w].run] = Batches!None /\ main = "collecting"
         /\ Len(calls) \in Nat /\ Len(journal) \in Nat /\ Len(billed) \in Nat
BY StillCollecting, BatchFacts DEF BatchInv, Running, ThreadsApart, CallOf

\* The call that holds the lock is written behind the others.
LEMMA JournalKeeps ==
  ASSUME BatchConstants, BatchInv, NEW w \in Workers, Batches!Journal(w)
  PROVE  BatchInv'
<1> DEFINE n == Len(journal) + 1
           c == calls[work[w].call]
<1>0. Batches!Alive /\ main = "collecting" /\ UNCHANGED <<main, gate, charge>> /\ work[w].pc = "journal"
  BY OwnCall DEF Batches!Journal
<1>1. /\ locked = w /\ work[w].call = n /\ Len(calls) = n /\ c \in Batches!Records
      /\ c.status = "STARTED"
      /\ c.run = work[w].run /\ Len(journal) \in Nat /\ Len(billed) \in Nat
      /\ \A i \in 1 .. Len(journal) : journal[i].run = calls[i].run
  <2>1. locked = w /\ work[w].call = Len(calls) /\ c.status = "STARTED"
    BY <1>0 DEF BatchInv, Running, CallOf
  <2>2. Len(calls) = n
    BY <1>0, <2>1 DEF BatchInv, Running, JournalFollows, BatchConstants
  <2> QED BY <1>0, <2>1, <2>2, OwnCall, BatchFacts DEF BatchInv, Running, JournalFollows
<1>2. work' = At(w, "invoke") /\ "invoke" \in Places
  BY DEF Batches!Journal, At, Places
<1>3. /\ work' \in [Workers -> BatchWork] /\ (\A v \in Workers : v # w => work'[v] = work[v])
      /\ work'[w].pc = "invoke" /\ work'[w].run = work[w].run /\ work'[w].call = n
      /\ work'[w].phase = work[w].phase
  BY <1>1, <1>2, PlacedAt
<1>4. journal' = Append(journal, c) /\ locked' = Batches!None /\ UNCHANGED <<next, calls, results, billed, runs, torn>>
  BY DEF Batches!Journal
<1> HIDE DEF c
<1>5. /\ journal' \in Seq(Batches!Records) /\ Len(journal') = n /\ journal'[n] = c
      /\ \A i \in 1 .. Len(journal) : journal'[i] = journal[i]
  BY <1>1, <1>4, AppendProperties DEF BatchInv, BatchTyped
<1>6. BatchTyped'
  BY <1>0, <1>3, <1>4, <1>5 DEF BatchInv, BatchTyped
<1>7. ThreadsApart'
  BY <1>0, <1>3, <1>4, ApartGoingOn
<1>8. ASSUME NEW v \in Workers PROVE CallOf(v)'
  <2>1. CASE v = w
    <3>1. /\ n \in 1 .. Len(calls) /\ calls[n].run = work[w].run /\ n <= Len(journal')
          /\ w # Batches!None
          /\ (work[w].phase = "buyer" <=> calls[n].purpose = "BUYER_SIMULATION")
      BY <1>0, <1>1, <1>5 DEF c, BatchConstants, BatchInv, Running, CallOf
    <3> QED BY <1>3, <1>4, <2>1, <3>1 DEF CallOf
  <2>2. CASE v # w
    <3>1. locked # v /\ locked' # v
      BY <1>1, <1>4, <2>2 DEF BatchConstants
    <3>2. Len(journal') >= Len(journal) /\ Len(journal') \in Nat
      BY <1>1, <1>5
    <3> QED BY <1>0, <1>1, <1>3, <1>4, <1>5, <2>2, <3>1, <3>2, OthersKnow
  <2> QED BY <2>1, <2>2
<1>9. JournalFollows'
  <2> SUFFICES ASSUME NEW i \in 1 .. Len(journal') PROVE journal'[i].run = calls'[i].run
    BY <1>1, <1>4, <1>5 DEF JournalFollows
  <2>1. CASE i = n
    BY <1>1, <1>4, <1>5, <2>1 DEF c
  <2>2. CASE i # n
    BY <1>1, <1>4, <1>5, <2>2
  <2> QED BY <2>1, <2>2
<1>10. CallsEnd'
  <2>1. /\ CallsEnd /\ results[work[w].run] = Batches!None
        /\ \A v \in Workers : v # w /\ work[v].pc # "free" => work[v].run # work[w].run
    BY <1>0 DEF BatchInv, Running, ThreadsApart
  <2>2. \A i \in 1 .. Len(journal') : i = n \/ i \in 1 .. Len(journal)
    BY <1>1, <1>5
  <2>3. PICK m : m = n
    OBVIOUS
  <2>4. \A i \in 1 .. Len(journal') : Outstanding(i)' <=> i = m \/ Outstanding(i)
    BY <1>0, <1>3, <2>3 DEF Outstanding, Requested
  <2>5. \A i \in 1 .. Len(journal') : journal'[i].status = "STARTED" => Outstanding(i)'
    BY <1>5, <2>1, <2>2, <2>3, <2>4 DEF CallsEnd
  <2>6. \A i \in 1 .. Len(journal) : Batches!LastOfRun(i) /\ journal[i].run # work[w].run => Batches!LastOfRun(i)'
    BY <1>1, <1>5 DEF Batches!LastOfRun
  <2>7. \A i \in 1 .. Len(journal) : Batches!LastOfRun(i)' => Batches!LastOfRun(i) /\ journal[i].run # work[w].run
    BY <1>1, <1>5 DEF Batches!LastOfRun
  <2>8. \A i \in 1 .. Len(journal) : Outstanding(i) => journal[i].run # work[w].run
    <3> SUFFICES ASSUME NEW i \in 1 .. Len(journal), NEW v \in Workers, work[v].pc \in Requested,
                        work[v].call = i
                 PROVE  journal[i].run # work[w].run
      BY DEF Outstanding
    <3>1. v # w /\ work[v].run # work[w].run
      BY <1>0, <2>1 DEF Requested
    <3>2. calls[i].run = work[v].run
      BY <1>0 DEF BatchInv, Running, CallOf, Requested
    <3> QED BY <1>1, <3>1, <3>2
  <2>9. Batches!LastOfRun(m)'
    BY <1>1, <1>5, <2>3 DEF Batches!LastOfRun
  <2>10. \A i \in 1 .. Len(journal') : Outstanding(i)' => Batches!LastOfRun(i)'
    <3> SUFFICES ASSUME NEW i \in 1 .. Len(journal'), Outstanding(i)' PROVE Batches!LastOfRun(i)'
      OBVIOUS
    <3>1. CASE i = m
      BY <2>9, <3>1
    <3>2. CASE i # m
      <4>1. Outstanding(i) /\ i \in 1 .. Len(journal)
        BY <2>2, <2>3, <2>4, <3>2
      <4>2. Batches!LastOfRun(i) /\ journal[i].run # work[w].run
        BY <2>1, <2>8, <4>1 DEF CallsEnd
      <4> QED BY <2>6, <4>1, <4>2
    <3> QED BY <3>1, <3>2
  <2>11. \A purpose : Batches!Lost(purpose, Episodes)' \subseteq Batches!Lost(purpose, Episodes)
    BY <1>1, <1>5, <2>2 DEF Batches!Lost
  <2>12. \A purpose : \A i \in Batches!Lost(purpose, Episodes) :
           i \in 1 .. Len(journal) /\ journal'[i].run = journal[i].run
    BY <1>5 DEF Batches!Lost
  <2>13. \A i \in Batches!Lost("REACT", Episodes)' :
           results'[journal'[i].run] = "SELLER_FAILURE" /\ Batches!LastOfRun(i)'
    <3> SUFFICES ASSUME NEW i \in Batches!Lost("REACT", Episodes)
                 PROVE  results'[journal'[i].run] = "SELLER_FAILURE" /\ Batches!LastOfRun(i)'
      BY <2>11
    <3>1. results[journal[i].run] = "SELLER_FAILURE" /\ Batches!LastOfRun(i)
      BY <2>1 DEF CallsEnd
    <3>2. journal[i].run # work[w].run
      BY <2>1, <3>1 DEF Batches!None
    <3> QED BY <1>4, <2>6, <2>12, <3>1, <3>2
  <2>14. \A i \in Batches!Lost("BUYER_SIMULATION", Episodes)' : Batches!LastOfRun(i)' =>
           \/ results'[journal'[i].run] \in {"BUYER_SIMULATOR_FAILURE", "BATCH_BUDGET_EXHAUSTED"}
           \/ Repeating(journal[i].run)'
    <3> SUFFICES ASSUME NEW i \in Batches!Lost("BUYER_SIMULATION", Episodes), Batches!LastOfRun(i)'
                 PROVE  \/ results'[journal'[i].run] \in {"BUYER_SIMULATOR_FAILURE", "BATCH_BUDGET_EXHAUSTED"}
                        \/ Repeating(journal[i].run)'
      BY <2>11
    <3>1. /\ journal'[i].run = journal[i].run /\ Batches!LastOfRun(i)
          /\ journal[i].run # work[w].run
      BY <2>7, <2>12
    <3>2. \/ results[journal[i].run] \in {"BUYER_SIMULATOR_FAILURE", "BATCH_BUDGET_EXHAUSTED"}
          \/ Repeating(journal[i].run)
      BY <2>1, <3>1 DEF CallsEnd
    <3>3. Repeating(journal[i].run) => Repeating(journal[i].run)'
      BY <1>3, <1>5, <3>1 DEF Repeating
    <3> QED BY <1>4, <3>1, <3>2, <3>3
  <2> QED BY <2>5, <2>10, <2>13, <2>14 DEF CallsEnd
<1>11. RunsEnd'
  BY <1>0, <1>4, RunsEndKept
<1> QED BY <1>0, <1>6, <1>7, <1>8, <1>9, <1>10, <1>11, FiledStands DEF BatchInv, Running

\* The request is sent for a call that the journal knows.
LEMMA InvokeKeeps ==
  ASSUME BatchConstants, BatchInv, NEW w \in Workers, Batches!Invoke(w)
  PROVE  BatchInv'
<1>0. Batches!Alive /\ main = "collecting" /\ UNCHANGED <<main, gate, charge>> /\ work[w].pc = "invoke"
  BY OwnCall DEF Batches!Invoke, Batches!files
<1> DEFINE k == work[w].call
<1>1. /\ k \in Nat /\ k \in 1 .. Len(calls) /\ calls[k].run = work[w].run /\ k <= Len(journal)
      /\ locked # w /\ (work[w].phase = "buyer" <=> calls[k].purpose = "BUYER_SIMULATION")
      /\ Len(calls) \in Nat /\ Len(journal) \in Nat /\ Len(billed) \in Nat
  BY <1>0, OwnCall DEF BatchInv, Running, CallOf
<1>2. work' = At(w, "waiting") /\ "waiting" \in Places
  BY DEF Batches!Invoke, At, Places
<1>3. /\ work' \in [Workers -> BatchWork] /\ (\A v \in Workers : v # w => work'[v] = work[v])
      /\ work'[w].pc = "waiting" /\ work'[w].run = work[w].run /\ work'[w].call = k
      /\ work'[w].phase = work[w].phase
  BY <1>2, PlacedAt
<1> DEFINE b == [call |-> k, cost |-> Reserve]
<1>4. billed' = Append(billed, b)
  BY DEF Batches!Invoke
<1>5. b \in [call : Nat, cost : Nat] /\ b.call = k /\ billed' = Append(billed, b)
  BY <1>1, <1>4 DEF BatchConstants
<1> HIDE DEF b, k
<1>6. /\ billed' \in Seq([call : Nat, cost : Nat]) /\ Len(billed') = Len(billed) + 1
      /\ billed'[Len(billed) + 1] = b
      /\ \A i \in 1 .. Len(billed) : billed'[i] = billed[i]
  BY <1>1, <1>5, AppendProperties DEF BatchInv, BatchTyped
<1>7. UNCHANGED <<next, calls, locked, results, journal, runs, torn>>
  BY DEF Batches!Invoke, Batches!files
<1>8. BatchTyped'
  BY <1>0, <1>3, <1>6, <1>7 DEF BatchInv, BatchTyped
<1>9. ThreadsApart'
  BY <1>0, <1>3, <1>7, ApartGoingOn
<1>10. ASSUME NEW v \in Workers PROVE CallOf(v)'
  <2>1. CASE v = w
    <3>1. \E i \in 1 .. Len(billed') : billed'[i].call = k
      BY <1>1, <1>5, <1>6
    <3> QED BY <1>1, <1>3, <1>7, <2>1, <3>1 DEF CallOf
  <2>2. CASE v # w
    <3>1. Len(billed') >= Len(billed) /\ Len(billed') \in Nat
      BY <1>1, <1>6
    <3> QED BY <1>0, <1>1, <1>3, <1>6, <1>7, <2>2, <3>1, OthersKnow
  <2> QED BY <2>1, <2>2
<1>11. JournalFollows'
  BY <1>0, <1>7 DEF BatchInv, Running, JournalFollows
<1>12. CallsEnd'
  <2>1. /\ \A i \in 1 .. Len(journal) : Outstanding(i) <=> Outstanding(i)'
        /\ \A e \in Episodes : Repeating(e) => Repeating(e)'
    BY <1>0, <1>3 DEF Outstanding, Requested, Repeating, k
  <2> QED BY <1>0, <1>7, <2>1, CallsEndKept
<1>13. RunsEnd'
  BY <1>0, <1>7, RunsEndKept
<1> QED BY <1>0, <1>8, <1>9, <1>10, <1>11, <1>12, <1>13, FiledStands DEF BatchInv, Running

\* What an answer with its usage, or an exception, makes of a call and of its bill.
AnswerOf(k, row) ==
  /\ calls' = [calls EXCEPT ![k] = row] /\ row.status # "STARTED"
  /\ \/ /\ row.status = "UNKNOWN" /\ row.tokens = calls[k].tokens
        /\ UNCHANGED <<reserved, billed>>
     \/ \E usage \in {Reserve, Reserve + Excess} :
          /\ row.tokens = Batches!Larger(calls[k].tokens, usage)
          /\ reserved' = reserved + Batches!Larger(usage, Reserve) - Reserve
          /\ billed' = Batches!Told(k, usage)

\* The record stays that of the same run and purpose.
LEMMA AnswerIsARecord ==
  ASSUME BatchConstants, BatchInv, NEW w \in Workers, Batches!Answered(w)
  PROVE  \E row \in Batches!Records : /\ row.run = work[w].run /\ AnswerOf(work[w].call, row)
                              /\ row.purpose = calls[work[w].call].purpose
<1> DEFINE k == work[w].call
           r == calls[k]
<1>1. Batches!Alive /\ work[w].pc = "waiting"
  BY DEF Batches!Answered
<1>2. r \in Batches!Records /\ r.run = work[w].run
  BY <1>1, OwnCall, BatchFacts DEF BatchInv, Running, CallOf
<1>3. CASE \E usage \in {Reserve, Reserve + Excess} :
             /\ calls' = [calls EXCEPT ![k] = Batches!Settled(@, usage)]
             /\ reserved' = reserved + Batches!Larger(usage, Reserve) - Reserve
             /\ billed' = Batches!Told(k, usage)
  <2>1. PICK usage \in {Reserve, Reserve + Excess} :
             /\ calls' = [calls EXCEPT ![k] = Batches!Settled(r, usage)]
             /\ reserved' = reserved + Batches!Larger(usage, Reserve) - Reserve
             /\ billed' = Batches!Told(k, usage)
    BY <1>3
  <2> DEFINE l == Batches!Larger(r.tokens, usage)
             s == Batches!Settled(r, usage)
  <2>2. l \in Nat /\ s = [r EXCEPT !.status = "SUCCEEDED", !.tokens = l]
    <3>1. s = [r EXCEPT !.status = "SUCCEEDED", !.tokens = l]
      BY DEF Batches!Settled
    <3>2. usage \in Nat /\ r.tokens \in Nat
      BY <1>2 DEF BatchConstants, Batches!Records
    <3> HIDE DEF r, s
    <3> QED BY <3>1, <3>2 DEF Batches!Larger
  <2>3. calls' = [calls EXCEPT ![k] = s]
    BY <2>1
  <2> HIDE DEF k, r, s, l
  <2>4. s \in Batches!Records /\ s.run = work[w].run /\ s.purpose = r.purpose /\ s.status = "SUCCEEDED" /\ s.tokens = l
    BY <1>2, <2>2 DEF Batches!Records
  <2>5. AnswerOf(k, s)
    BY <2>1, <2>3, <2>4 DEF AnswerOf, r, l
  <2> QED BY <2>4, <2>5 DEF k, r
<1>4. CASE calls' = [calls EXCEPT ![k].status = "UNKNOWN"] /\ UNCHANGED <<reserved, billed>>
  <2> DEFINE u == [r EXCEPT !.status = "UNKNOWN"]
  <2>1. calls' = [calls EXCEPT ![k] = u]
    BY <1>4
  <2> HIDE DEF k, r
  <2>2. u \in Batches!Records /\ u.run = work[w].run /\ u.purpose = r.purpose /\ u.status = "UNKNOWN" /\ u.tokens = r.tokens
    BY <1>2 DEF Batches!Records
  <2> HIDE DEF u
  <2>3. AnswerOf(k, u)
    BY <1>4, <2>1, <2>2 DEF AnswerOf, r
  <2> QED BY <2>2, <2>3 DEF k, r
<1> QED BY <1>3, <1>4 DEF Batches!Answered

\* A bill that comes to light is the bill of the same call.
LEMMA BillsAreTold ==
  ASSUME BatchConstants, BatchInv, NEW k, NEW row, AnswerOf(k, row)
  PROVE  /\ billed' \in Seq([call : Nat, cost : Nat]) /\ Len(billed') = Len(billed)
         /\ \A i \in 1 .. Len(billed) : /\ billed'[i].call = billed[i].call
                                        /\ billed[i].call # k => billed'[i] = billed[i]
<1>1. billed \in Seq([call : Nat, cost : Nat])
  BY DEF BatchInv, BatchTyped
<1>2. ASSUME NEW usage \in {Reserve, Reserve + Excess}, billed' = Batches!Told(k, usage)
      PROVE  /\ billed' \in Seq([call : Nat, cost : Nat]) /\ Len(billed') = Len(billed)
             /\ \A i \in 1 .. Len(billed) : /\ billed'[i].call = billed[i].call
                                            /\ billed[i].call # k => billed'[i] = billed[i]
  <2> DEFINE f(i) == IF billed[i].call = k THEN [call |-> k, cost |-> usage] ELSE billed[i]
             m == Len(billed)
  <2>0. billed \in Seq([call : Nat, cost : Nat]) /\ m = Len(billed)
    BY <1>1
  <2>1. billed' = [i \in 1 .. m |-> f(i)] /\ m \in Nat /\ usage \in Nat
    <3>1. billed' = Batches!Told(k, usage) /\ m \in Nat /\ usage \in Nat
      BY <1>1, <1>2 DEF BatchConstants
    <3> QED BY <3>1 DEF Batches!Told
  <2>2. \A i \in 1 .. m : billed[i] \in [call : Nat, cost : Nat]
    <3> SUFFICES ASSUME NEW S, billed \in Seq(S) PROVE \A i \in 1 .. Len(billed) : billed[i] \in S
      BY <2>0
    <3> QED OBVIOUS
  <2>3. \A i \in 1 .. m : /\ f(i) \in [call : Nat, cost : Nat] /\ f(i).call = billed[i].call
                          /\ billed[i].call # k => f(i) = billed[i]
    BY <2>1, <2>2
  <2> HIDE DEF f
  <2>4. billed' \in [1 .. m -> [call : Nat, cost : Nat]] /\ \A i \in 1 .. m : billed'[i] = f(i)
    BY <2>1, <2>3
  <2>5. billed' \in Seq([call : Nat, cost : Nat]) /\ Len(billed') = m
    BY <2>1, <2>4
  <2> QED BY <2>3, <2>4, <2>5
<1>3. CASE UNCHANGED billed
  BY <1>1, <1>3
<1> QED BY <1>2, <1>3 DEF AnswerOf

\* An answer changes the record of its own call and no run of any.
LEMMA AnsweredKeeps ==
  ASSUME BatchConstants, BatchInv, NEW w \in Workers, Batches!Answered(w)
  PROVE  BatchInv'
<1> DEFINE k == work[w].call
<1>0. /\ Batches!Alive /\ main = "collecting" /\ UNCHANGED <<main, gate, charge>>
      /\ work[w].pc = "waiting"
      /\ locked = Batches!None
  BY OwnCall DEF Batches!Answered, Batches!files
<1>1. /\ k \in Nat /\ k \in 1 .. Len(calls) /\ calls[k].run = work[w].run /\ k <= Len(journal)
      /\ Len(calls) \in Nat /\ Len(journal) \in Nat /\ Len(billed) \in Nat
      /\ Len(calls) = Len(journal)
      /\ (work[w].phase = "buyer" <=> calls[k].purpose = "BUYER_SIMULATION")
      /\ \A i \in 1 .. Len(journal) : journal[i].run = calls[i].run
  BY <1>0, OwnCall DEF BatchInv, Running, CallOf, JournalFollows
<1>2. work' = At(w, "answered") /\ "answered" \in Places
  BY DEF Batches!Answered, At, Places
<1>3. /\ work' \in [Workers -> BatchWork] /\ (\A v \in Workers : v # w => work'[v] = work[v])
      /\ work'[w].pc = "answered" /\ work'[w].run = work[w].run /\ work'[w].call = k
      /\ work'[w].phase = work[w].phase
  BY <1>2, PlacedAt
<1>4. PICK row \in Batches!Records : /\ row.run = work[w].run /\ AnswerOf(k, row)
                                      /\ row.purpose = calls[k].purpose
  BY AnswerIsARecord
<1> HIDE DEF k
<1>b. /\ billed' \in Seq([call : Nat, cost : Nat]) /\ Len(billed') = Len(billed)
      /\ \A i \in 1 .. Len(billed) : billed'[i].call = billed[i].call
  BY <1>4, BillsAreTold
<1>r. row.status # "STARTED" /\ calls' = [calls EXCEPT ![k] = row]
  BY <1>4 DEF AnswerOf
<1>5. /\ calls' \in Seq(Batches!Records) /\ Len(calls') = Len(calls)
      /\ \A i \in 1 .. Len(calls) : calls'[i] = IF i = k THEN row ELSE calls[i]
  BY <1>1, <1>r, ExceptSeq DEF BatchInv, BatchTyped
<1>6. UNCHANGED <<next, locked, results, journal, runs, torn>>
  BY DEF Batches!Answered, Batches!files
<1>7. BatchTyped'
  BY <1>0, <1>3, <1>5, <1>6, <1>b DEF BatchInv, BatchTyped
<1>8. ThreadsApart'
  BY <1>0, <1>3, <1>6, ApartGoingOn
<1>9. \A i \in 1 .. Len(calls) : calls'[i].run = calls[i].run /\ calls'[i].purpose = calls[i].purpose
                                  /\ (calls'[i].status = calls[i].status \/ calls[i].run = work[w].run)
  BY <1>1, <1>4, <1>5, <1>r
<1>10. ASSUME NEW v \in Workers PROVE CallOf(v)'
  <2>1. CASE v = w
    <3>1. /\ calls'[k].status # "STARTED" /\ calls'[k].run = work[w].run /\ locked' # w
          /\ (work[w].phase = "buyer" <=> calls'[k].purpose = "BUYER_SIMULATION")
      BY <1>0, <1>1, <1>4, <1>5, <1>6, <1>r DEF BatchConstants
    <3> QED BY <1>1, <1>3, <1>5, <1>6, <2>1, <3>1 DEF CallOf
  <2>2. CASE v # w
    <3>1. locked' = v <=> locked = v
      BY <1>6
    <3>2. /\ Len(calls') = Len(calls) /\ Len(calls') >= Len(calls) /\ Len(calls') \in Nat
          /\ Len(journal') \in Nat /\ Len(journal') >= Len(journal)
          /\ Len(billed') \in Nat /\ Len(billed') >= Len(billed)
      BY <1>1, <1>5, <1>6, <1>b
    <3>3. \A i \in 1 .. Len(journal) : journal'[i].run = journal[i].run
      BY <1>6
    <3>4. \A i \in 1 .. Len(billed) : billed'[i].call = billed[i].call
      BY <1>b
    <3>5. work'[v] = work[v] /\ work[w].pc # "free"
      BY <1>0, <1>3, <2>2
    <3> QED BY <1>0, <1>9, <2>2, <3>1, <3>2, <3>3, <3>4, <3>5, OthersKnow
  <2> QED BY <2>1, <2>2
<1>11. JournalFollows'
  <2>1. \A i \in 1 .. Len(journal) : journal[i].run = calls'[i].run
    BY <1>1, <1>9
  <2> QED BY <1>0, <1>1, <1>5, <1>6, <2>1 DEF JournalFollows
<1>12. CallsEnd'
  <2>1. /\ \A i \in 1 .. Len(journal) : Outstanding(i) <=> Outstanding(i)'
        /\ \A e \in Episodes : Repeating(e) => Repeating(e)'
    BY <1>0, <1>3 DEF Outstanding, Requested, Repeating, k
  <2> QED BY <1>0, <1>6, <2>1, CallsEndKept
<1>13. RunsEnd'
  BY <1>0, <1>6, RunsEndKept
<1> QED BY <1>0, <1>7, <1>8, <1>10, <1>11, <1>12, <1>13, FiledStands DEF BatchInv, Running

\* An episode that is left has a result and a free thread.
LEMMA LeavingWork ==
  ASSUME BatchConstants, BatchInv, Batches!Alive, NEW w \in Workers, work[w].pc # "free", NEW r \in Batches!Statuses \ {Batches!None},
         work' = [work EXCEPT ![w] = Batches!Free], results' = [results EXCEPT ![work[w].run] = r], next' = next
  PROVE  /\ work' \in [Workers -> BatchWork] /\ results' \in [Episodes -> Batches!Statuses]
         /\ (\A v \in Workers : v # w => work'[v] = work[v]) /\ work'[w] = Batches!Free
         /\ work[w].run \in Episodes /\ results[work[w].run] = Batches!None
         /\ results'[work[w].run] = r
         /\ \A e \in Episodes : e # work[w].run => results'[e] = results[e]
         /\ \A e \in Episodes : results[e] # Batches!None => results'[e] # Batches!None
         /\ ThreadsApart'
<1>1. work[w].run \in Episodes /\ results[work[w].run] = Batches!None
  BY DEF BatchInv, Running, ThreadsApart
<1>2. Batches!Free \in BatchWork /\ Batches!Free.pc = "free"
  BY DEF Batches!Free, BatchWork
<1>3. /\ work' \in [Workers -> BatchWork]
      /\ (\A v \in Workers : v # w => work'[v] = work[v]) /\ work'[w] = Batches!Free
  BY <1>2 DEF BatchInv, BatchTyped
<1>4. /\ results' \in [Episodes -> Batches!Statuses] /\ results'[work[w].run] = r
      /\ \A e \in Episodes : e # work[w].run => results'[e] = results[e]
  BY <1>1 DEF BatchInv, BatchTyped
<1>5. ThreadsApart'
  BY <1>2, <1>3, ApartLeaving
<1> QED BY <1>1, <1>3, <1>4, <1>5

\* An episode that goes on has no call of its own.
GoingOn(w, phase, tries) ==
  [Batches!Free EXCEPT !.pc = "running", !.run = work[w].run, !.phase = phase, !.tries = tries]
LEMMA GoingWork ==
  ASSUME BatchInv, Batches!Alive, NEW w \in Workers, work[w].pc # "free",
         NEW phase \in {"seller", "buyer"}, NEW tries \in {0, 1},
         Batches!Goes(w, phase, tries), next' = next
  PROVE  /\ work' \in [Workers -> BatchWork] /\ results' = results
         /\ \A v \in Workers : v # w => work'[v] = work[v]
         /\ work'[w].pc = "running" /\ work'[w].run = work[w].run
         /\ work'[w].phase = phase /\ work'[w].tries = tries
         /\ ThreadsApart'
<1> DEFINE y == GoingOn(w, phase, tries)
<1>1. work \in [Workers -> BatchWork] /\ work[w].run \in Episodes
  BY DEF BatchInv, BatchTyped, Running, ThreadsApart
<1>2. y \in BatchWork /\ y.pc = "running" /\ y.run = work[w].run /\ y.phase = phase /\ y.tries = tries
  BY <1>1 DEF BatchWork, Batches!Free, GoingOn
<1>3. work' = [work EXCEPT ![w] = y] /\ results' = results
  BY DEF Batches!Goes, GoingOn
<1> HIDE DEF y
<1>4. /\ work' \in [Workers -> BatchWork] /\ (\A v \in Workers : v # w => work'[v] = work[v])
      /\ work'[w] = y
  BY <1>1, <1>2, <1>3
<1>5. ThreadsApart'
  BY <1>2, <1>3, <1>4, ApartGoingOn
<1> QED BY <1>2, <1>3, <1>4, <1>5

\* An episode goes on without a call, and not as if a lost action had not to be repeated.
LEMMA GoingKeeps ==
  ASSUME BatchConstants, BatchInv, Batches!Alive, NEW w \in Workers, work[w].pc = "running",
         NEW phase \in {"seller", "buyer"}, NEW tries \in {0, 1},
         work[w].phase = "seller" \/ work[w].tries = 0,
         Batches!Goes(w, phase, tries), next' = next, Untouched
  PROVE  BatchInv'
<1>1. /\ work' \in [Workers -> BatchWork] /\ results' = results
      /\ \A v \in Workers : v # w => work'[v] = work[v]
      /\ work'[w].pc = "running" /\ work'[w].run = work[w].run
      /\ ThreadsApart'
  BY GoingWork
<1>2. /\ main = "collecting" /\ UNCHANGED <<main, gate, charge>>
      /\ UNCHANGED <<calls, locked, billed, journal, runs, torn>>
  BY StillCollecting DEF Untouched
<1>3. CallOf(w) /\ Len(calls) \in Nat /\ Len(journal) \in Nat /\ Len(billed) \in Nat
  BY BatchFacts DEF BatchInv, Running
<1>4. BatchTyped'
  BY <1>1, <1>2 DEF BatchInv, BatchTyped
<1>5. ASSUME NEW v \in Workers PROVE CallOf(v)'
  <2>1. CASE v = w
    BY <1>1, <1>2, <1>3, <2>1 DEF CallOf
  <2>2. CASE v # w
    BY <1>1, <1>2, <1>3, <2>2, OthersKnow
  <2> QED BY <2>1, <2>2
<1>6. JournalFollows'
  BY <1>2 DEF BatchInv, Running, JournalFollows
<1>7. CallsEnd'
  <2>1. \A i \in 1 .. Len(journal) : Outstanding(i) <=> Outstanding(i)'
    BY <1>1 DEF Outstanding, Requested
  <2>2. \A e \in Episodes : Repeating(e) => Repeating(e)'
    BY <1>1 DEF Repeating
  <2> QED BY <1>1, <1>2, <2>1, <2>2, CallsEndKept
<1>8. RunsEnd'
  BY <1>1, <1>2, RunsEndKept
<1> QED BY <1>1, <1>2, <1>4, <1>5, <1>6, <1>7, <1>8, FiledStands DEF BatchInv, Running

\* An episode is left without a call, and a lost action of the buyer is not passed over.
LEMMA LeavingKeeps ==
  ASSUME BatchConstants, BatchInv, Batches!Alive, NEW w \in Workers, work[w].pc = "running",
         NEW r \in Batches!Statuses \ {Batches!None},
         \/ work[w].phase = "seller" \/ work[w].tries = 0
         \/ r \in {"BUYER_SIMULATOR_FAILURE", "BATCH_BUDGET_EXHAUSTED"},
         Batches!Leaves(w, r), next' = next, Untouched
  PROVE  BatchInv'
<1>1. /\ work' \in [Workers -> BatchWork] /\ results' \in [Episodes -> Batches!Statuses]
      /\ (\A v \in Workers : v # w => work'[v] = work[v]) /\ work'[w] = Batches!Free
      /\ work[w].run \in Episodes /\ results[work[w].run] = Batches!None
      /\ results'[work[w].run] = r
      /\ \A e \in Episodes : e # work[w].run => results'[e] = results[e]
      /\ \A e \in Episodes : results[e] # Batches!None => results'[e] # Batches!None
      /\ ThreadsApart'
  BY LeavingWork DEF Batches!Leaves
<1>2. /\ main = "collecting" /\ UNCHANGED <<main, gate, charge>>
      /\ UNCHANGED <<calls, locked, billed, journal, runs, torn>>
  BY StillCollecting DEF Untouched
<1>3. CallOf(w) /\ Len(calls) \in Nat /\ Len(journal) \in Nat /\ Len(billed) \in Nat
  BY BatchFacts DEF BatchInv, Running
<1>4. BatchTyped'
  BY <1>1, <1>2 DEF BatchInv, BatchTyped
<1>5. ASSUME NEW v \in Workers PROVE CallOf(v)'
  <2>1. CASE v = w
    BY <1>1, <1>2, <1>3, <2>1 DEF CallOf, Batches!Free
  <2>2. CASE v # w
    BY <1>1, <1>2, <1>3, <2>2, OthersKnow
  <2> QED BY <2>1, <2>2
<1>6. JournalFollows'
  BY <1>2 DEF BatchInv, Running, JournalFollows
<1>7. CallsEnd'
  <2>1. \A i \in 1 .. Len(journal) : Outstanding(i) <=> Outstanding(i)'
    BY <1>1 DEF Outstanding, Requested, Batches!Free
  <2>2. \A e \in Episodes : Repeating(e) =>
          results'[e] \in {"BUYER_SIMULATOR_FAILURE", "BATCH_BUDGET_EXHAUSTED"} \/ Repeating(e)'
    BY <1>1 DEF Repeating
  <2>3. \A e \in Episodes : results[e] # Batches!None => results'[e] = results[e]
    BY <1>1
  <2> QED BY <1>2, <2>1, <2>2, <2>3, CallsEndKept
<1>8. RunsEnd'
  BY <1>1, <1>2, RunsEndKept
<1> QED BY <1>1, <1>2, <1>4, <1>5, <1>6, <1>7, <1>8, FiledStands DEF BatchInv, Running

\* The seller's turn hands on to the buyer, or ends the run.
LEMMA SellerActsKeeps ==
  ASSUME BatchConstants, BatchInv, NEW w \in Workers, Batches!SellerActs(w)
  PROVE  BatchInv'
<1>1. /\ Batches!Alive /\ work[w].pc = "running" /\ work[w].phase = "seller" /\ next' = next
      /\ Untouched
  BY DEF Batches!SellerActs, Batches!files, Untouched
<1>2. {"SELLER_FAILURE", "BUYER_SIMULATOR_FAILURE", "ENDED"} \subseteq Batches!Statuses \ {Batches!None}
  BY DEF Batches!Statuses, Batches!None
<1>3. \/ \E r \in {"SELLER_FAILURE", "BUYER_SIMULATOR_FAILURE", "ENDED"} : Batches!Leaves(w, r)
      \/ \E phase \in {"seller", "buyer"} : Batches!Goes(w, phase, 0)
  BY DEF Batches!SellerActs, Batches!Acted
<1> QED BY <1>1, <1>2, <1>3, LeavingKeeps, GoingKeeps

\* A buyer that fails is asked once more, or fails the run.
LEMMA BuyerFailsKeeps ==
  ASSUME BatchConstants, BatchInv, NEW w \in Workers, Batches!BuyerFails(w)
  PROVE  BatchInv'
<1>1. /\ Batches!Alive /\ work[w].pc = "running" /\ next' = next /\ Untouched
  BY DEF Batches!BuyerFails, Batches!files, Untouched
<1>2. "BUYER_SIMULATOR_FAILURE" \in Batches!Statuses \ {Batches!None}
  BY DEF Batches!Statuses, Batches!None
<1>3. \/ Batches!Leaves(w, "BUYER_SIMULATOR_FAILURE")
      \/ work[w].tries = 0 /\ Batches!Goes(w, "buyer", 1)
  BY DEF Batches!BuyerFails, Batches!Misacted
<1> QED BY <1>1, <1>2, <1>3, LeavingKeeps, GoingKeeps

\* A refused episode is left with its budget exhausted.
LEMMA RefusedKeeps ==
  ASSUME BatchConstants, BatchInv, NEW w \in Workers, Batches!Refused(w)
  PROVE  BatchInv'
<1>1. /\ Batches!Alive /\ work[w].pc = "running" /\ next' = next /\ Untouched
      /\ Batches!Leaves(w, "BATCH_BUDGET_EXHAUSTED")
  BY DEF Batches!Refused, Batches!files, Untouched
<1>2. "BATCH_BUDGET_EXHAUSTED" \in Batches!Statuses \ {Batches!None}
  BY DEF Batches!Statuses, Batches!None
<1> QED BY <1>1, <1>2, LeavingKeeps

\* What a call has come to goes to the journal in its own place.
LEMMA JournalUpdated ==
  ASSUME BatchInv, NEW k \in 1 .. Len(journal), NEW row \in Batches!Records, journal' = [journal EXCEPT ![k] = row],
         row.run = journal[k].run
  PROVE  /\ journal' \in Seq(Batches!Records) /\ Len(journal') = Len(journal)
         /\ \A i \in 1 .. Len(journal) : journal'[i] = IF i = k THEN row ELSE journal[i]
         /\ \A i \in 1 .. Len(journal) : journal'[i].run = journal[i].run
<1>1. /\ journal' \in Seq(Batches!Records) /\ Len(journal') = Len(journal)
      /\ \A i \in 1 .. Len(journal) : journal'[i] = IF i = k THEN row ELSE journal[i]
  BY ExceptSeq DEF BatchInv, BatchTyped
<1> QED BY <1>1

\* The end of a call is written, and a lost one is failed or repeated as its purpose demands.
LEMMA JournalAnswerKeeps ==
  ASSUME BatchConstants, BatchInv, NEW w \in Workers, Batches!JournalAnswer(w) PROVE BatchInv'
<1> DEFINE k == work[w].call
           row == calls[k]
<1>0. /\ Batches!Alive /\ main = "collecting" /\ UNCHANGED <<main, gate, charge>>
      /\ work[w].pc = "answered"
      /\ locked = Batches!None
  BY OwnCall DEF Batches!JournalAnswer
<1>1. /\ k \in 1 .. Len(calls) /\ row.run = work[w].run /\ k <= Len(journal)
      /\ row.status # "STARTED"
      /\ Len(calls) \in Nat /\ Len(journal) \in Nat /\ Len(billed) \in Nat
      /\ Len(calls) = Len(journal)
      /\ work[w].run \in Episodes /\ results[work[w].run] = Batches!None
      /\ row \in Batches!Records
      /\ \A i \in 1 .. Len(journal) : journal[i].run = calls[i].run
  BY <1>0, OwnCall, BatchFacts DEF BatchInv, Running, CallOf, JournalFollows
<1>2. /\ journal' = [journal EXCEPT ![k] = row]
      /\ UNCHANGED <<next, calls, locked, billed, runs, torn>>
      /\ k \in 1 .. Len(journal) /\ row.run = journal[k].run
  BY <1>1 DEF Batches!JournalAnswer
<1> HIDE DEF row
<1>3. /\ journal' \in Seq(Batches!Records) /\ Len(journal') = Len(journal)
      /\ \A i \in 1 .. Len(journal) : journal'[i] = IF i = k THEN row ELSE journal[i]
      /\ \A i \in 1 .. Len(journal) : journal'[i].run = journal[i].run
  <2> DEFINE m == k
  <2>1. m \in 1 .. Len(journal) /\ journal' = [journal EXCEPT ![m] = row] /\ row.run = journal[m].run
    BY <1>2
  <2> HIDE DEF m, k
  <2>2. /\ journal' \in Seq(Batches!Records) /\ Len(journal') = Len(journal)
        /\ \A i \in 1 .. Len(journal) : journal'[i] = IF i = m THEN row ELSE journal[i]
        /\ \A i \in 1 .. Len(journal) : journal'[i].run = journal[i].run
    BY <1>1, <2>1, JournalUpdated
  <2> QED BY <2>2 DEF m
<1>4. JournalFollows'
  BY <1>0, <1>1, <1>2, <1>3 DEF JournalFollows
<1>5. \A v \in Workers : v # w /\ work'[v] = work[v] => CallOf(v)'
  <2> SUFFICES ASSUME NEW v \in Workers, v # w, work'[v] = work[v] PROVE CallOf(v)'
    OBVIOUS
  <2>1. Len(calls') >= Len(calls) /\ Len(journal') >= Len(journal) /\ Len(billed') >= Len(billed)
        /\ Len(calls') \in Nat /\ Len(journal') \in Nat /\ Len(billed') \in Nat
        /\ Len(calls') = Len(calls)
    BY <1>1, <1>2, <1>3
  <2>2. /\ locked' = v <=> locked = v
        /\ work[w].pc # "free"
        /\ \A i \in 1 .. Len(calls) : calls'[i].run = calls[i].run /\ calls'[i].purpose = calls[i].purpose
        /\ \A i \in 1 .. Len(calls) : calls'[i].status = calls[i].status
        /\ \A i \in 1 .. Len(billed) : billed'[i] = billed[i]
    BY <1>0, <1>2
  <2> QED BY <1>0, <1>3, <2>1, <2>2, OthersKnow
<1>6. /\ CallsEnd /\ Outstanding(k)
      /\ \A v \in Workers : v # w /\ work[v].pc # "free" => work[v].run # work[w].run
  BY <1>0 DEF BatchInv, Running, ThreadsApart, Outstanding, Requested
<1>7. \A i \in 1 .. Len(journal) : Batches!LastOfRun(i)' <=> Batches!LastOfRun(i)
  BY <1>1, <1>3 DEF Batches!LastOfRun
<1>8. /\ Batches!LastOfRun(k) /\ journal[k].run = work[w].run
      /\ \A i \in 1 .. Len(journal) : i # k /\ Batches!LastOfRun(i) => journal[i].run # work[w].run
  <2>1. Batches!LastOfRun(k)
    BY <1>2, <1>6 DEF CallsEnd
  <2> QED BY <1>1, <1>2, <2>1 DEF Batches!LastOfRun
\* What is lost now was lost before, or is this call.
<1>9. \A purpose : \A i \in Batches!Lost(purpose, Episodes)' :
        /\ i \in 1 .. Len(journal) /\ journal'[i].run = journal[i].run /\ journal[i].run \in Episodes
        /\ \/ i # k /\ i \in Batches!Lost(purpose, Episodes)
           \/ i = k /\ row.status = "UNKNOWN" /\ row.purpose = purpose
  BY <1>1, <1>3 DEF Batches!Lost
<1>10. ASSUME /\ work' \in [Workers -> BatchWork] /\ results' \in [Episodes -> Batches!Statuses]
              /\ \A v \in Workers : v # w => work'[v] = work[v]
              /\ work'[w].pc \in {"free", "running"} /\ ThreadsApart'
              /\ \A e \in Episodes : results[e] # Batches!None => results'[e] = results[e],
              row.status = "UNKNOWN" /\ row.purpose = "REACT" => results'[work[w].run] = "SELLER_FAILURE",
              row.status = "UNKNOWN" /\ row.purpose = "BUYER_SIMULATION" =>
                \/ results'[work[w].run] = "BUYER_SIMULATOR_FAILURE"
                \/ /\ work'[w].pc = "running" /\ work'[w].run = work[w].run
                   /\ work'[w].phase = "buyer" /\ work'[w].tries = 1
       PROVE  BatchInv'
  <2>1. BatchTyped'
    BY <1>0, <1>2, <1>3, <1>10 DEF BatchInv, BatchTyped
  <2>2. \A v \in Workers : CallOf(v)'
    <3>1. CallOf(w)'
      <4>1. locked' # w
        BY <1>0, <1>2 DEF BatchConstants
      <4> QED BY <1>10, <4>1 DEF CallOf
    <3> QED BY <1>5, <1>10, <3>1
  <2>3. \A i \in 1 .. Len(journal) : Outstanding(i)' <=> i # k /\ Outstanding(i)
    <3>1. \A v \in Workers : v # w /\ work[v].pc \in Requested => work[v].call # k
      <4> SUFFICES ASSUME NEW v \in Workers, v # w, work[v].pc \in Requested, work[v].call = k PROVE FALSE
        OBVIOUS
      <4>1. calls[k].run = work[v].run
        BY <1>0 DEF BatchInv, Running, CallOf, Requested
      <4>2. work[v].run # work[w].run
        BY <1>6 DEF Requested
      <4> QED BY <1>1, <4>1, <4>2 DEF row
    <3> QED BY <1>10, <3>1 DEF Outstanding, Requested
  <2>4. \A i \in 1 .. Len(journal') : journal'[i].status = "STARTED" => Outstanding(i)'
    BY <1>1, <1>3, <1>6, <2>3 DEF CallsEnd
  <2>9. \A i \in 1 .. Len(journal') : Outstanding(i)' => Batches!LastOfRun(i)'
    BY <1>1, <1>3, <1>6, <1>7, <2>3 DEF CallsEnd
  <2>5. \A i \in Batches!Lost("REACT", Episodes)' :
          results'[journal'[i].run] = "SELLER_FAILURE" /\ Batches!LastOfRun(i)'
    BY <1>6, <1>7, <1>8, <1>9, <1>10 DEF CallsEnd, Batches!None
  <2>6. \A i \in Batches!Lost("BUYER_SIMULATION", Episodes)' : Batches!LastOfRun(i)' =>
           \/ results'[journal'[i].run] \in {"BUYER_SIMULATOR_FAILURE", "BATCH_BUDGET_EXHAUSTED"}
           \/ Repeating(journal[i].run)'
    <3> SUFFICES ASSUME NEW i \in Batches!Lost("BUYER_SIMULATION", Episodes)', Batches!LastOfRun(i)'
        PROVE  \/ results'[journal'[i].run] \in {"BUYER_SIMULATOR_FAILURE", "BATCH_BUDGET_EXHAUSTED"}
               \/ Repeating(journal[i].run)'
      OBVIOUS
    <3>1. /\ i \in 1 .. Len(journal) /\ journal'[i].run = journal[i].run
          /\ journal[i].run \in Episodes /\ Batches!LastOfRun(i)
      BY <1>7, <1>9
    <3>2. CASE i = k
      <4>1. row.status = "UNKNOWN" /\ row.purpose = "BUYER_SIMULATION" /\ journal'[i].run = work[w].run
        BY <1>8, <1>9, <3>1, <3>2
      <4> QED BY <1>10, <4>1 DEF Repeating
    <3>3. CASE i # k
      <4>1. /\ i \in Batches!Lost("BUYER_SIMULATION", Episodes) /\ journal[i].run # work[w].run
        BY <1>8, <1>9, <3>1, <3>3
      <4>2. \/ results[journal[i].run] \in {"BUYER_SIMULATOR_FAILURE", "BATCH_BUDGET_EXHAUSTED"}
            \/ Repeating(journal[i].run)
        BY <1>6, <3>1, <4>1 DEF CallsEnd
      <4>3. Repeating(journal[i].run) => Repeating(journal[i].run)'
        BY <1>10, <3>1, <4>1 DEF Repeating
      <4> QED BY <1>10, <3>1, <4>2, <4>3 DEF Batches!None
    <3> QED BY <3>2, <3>3
  <2>7. CallsEnd'
    BY <2>4, <2>5, <2>6, <2>9 DEF CallsEnd
  <2>8. RunsEnd'
    BY <1>0, <1>2, <1>10, RunsEndKept
  <2> QED BY <1>0, <1>4, <1>10, <2>1, <2>2, <2>7, <2>8, FiledStands DEF BatchInv, Running
\* The seller goes on or fails, the buyer acts or is repeated or fails.
<1>11. work[w].phase = "buyer" <=> row.purpose = "BUYER_SIMULATION"
  BY <1>0 DEF BatchInv, Running, CallOf, row
<1>12. \/ \E phase \in {"seller", "buyer"}, tries \in {0, 1} :
            /\ Batches!Goes(w, phase, tries)
            /\ row.status = "UNKNOWN" => /\ row.purpose # "REACT"
                                         /\ row.purpose = "BUYER_SIMULATION" => phase = "buyer" /\ tries = 1
       \/ \E r \in {"ENDED", "SELLER_FAILURE", "BUYER_SIMULATOR_FAILURE"} :
            /\ Batches!Leaves(w, r)
            /\ row.status = "UNKNOWN" => /\ row.purpose = "REACT" => r = "SELLER_FAILURE"
                                         /\ row.purpose = "BUYER_SIMULATION" => r = "BUYER_SIMULATOR_FAILURE"
  BY <1>11 DEF Batches!JournalAnswer, Batches!Acted, Batches!Misacted, row
<1>13. ASSUME NEW phase \in {"seller", "buyer"}, NEW tries \in {0, 1}, Batches!Goes(w, phase, tries),
              row.status = "UNKNOWN" => /\ row.purpose # "REACT"
                                        /\ row.purpose = "BUYER_SIMULATION" => phase = "buyer" /\ tries = 1
       PROVE  BatchInv'
  <2>1. /\ work' \in [Workers -> BatchWork] /\ results' = results
        /\ \A v \in Workers : v # w => work'[v] = work[v]
        /\ work'[w].pc = "running" /\ work'[w].run = work[w].run
        /\ work'[w].phase = phase /\ work'[w].tries = tries
        /\ ThreadsApart'
    BY <1>0, <1>2, <1>13, GoingWork
  <2>2. results \in [Episodes -> Batches!Statuses]
    BY DEF BatchInv, BatchTyped
  <2> QED BY <1>10, <1>13, <2>1, <2>2
<1>14. ASSUME NEW r \in {"ENDED", "SELLER_FAILURE", "BUYER_SIMULATOR_FAILURE"}, Batches!Leaves(w, r),
              row.status = "UNKNOWN" => /\ row.purpose = "REACT" => r = "SELLER_FAILURE"
                                        /\ row.purpose = "BUYER_SIMULATION" => r = "BUYER_SIMULATOR_FAILURE"
       PROVE  BatchInv'
  <2>1. r \in Batches!Statuses \ {Batches!None}
    BY <1>14 DEF Batches!Statuses, Batches!None
  <2>2. /\ work' \in [Workers -> BatchWork] /\ results' \in [Episodes -> Batches!Statuses]
        /\ (\A v \in Workers : v # w => work'[v] = work[v]) /\ work'[w] = Batches!Free
        /\ results'[work[w].run] = r
        /\ \A e \in Episodes : e # work[w].run => results'[e] = results[e]
        /\ ThreadsApart'
    BY <1>0, <1>2, <1>14, <2>1, LeavingWork DEF Batches!Leaves
  <2>3. work'[w].pc \in {"free", "running"}
    BY <2>2 DEF Batches!Free
  <2>4. \A e \in Episodes : results[e] # Batches!None => results'[e] = results[e]
    BY <1>1, <2>2
  <2> QED BY <1>10, <1>14, <2>2, <2>3, <2>4
<1> QED BY <1>12, <1>13, <1>14

\* The main thread appends what is done; it and the files leave the threads alone.
LEMMA FilingKeepsRunning ==
  ASSUME BatchInv, Batches!Alive, UNCHANGED <<Batches!memory, billed, journal>>, RunsEnd'
  PROVE  Running'
<1>1. ThreadsApart' /\ JournalFollows' /\ CallsEnd'
  BY DEF BatchInv, Running, ThreadsApart, JournalFollows, CallsEnd, Outstanding, Repeating, Batches!memory,
         Batches!Lost, Batches!LastOfRun
<1>2. \A w \in Workers : CallOf(w)'
  BY DEF BatchInv, Running, CallOf, Batches!memory
<1> QED BY <1>1, <1>2 DEF Running

\* Nor do they change the types.
LEMMA FilingKeepsTypes ==
  ASSUME BatchInv, UNCHANGED <<Batches!memory, billed, journal>>, runs' \subseteq Episodes,
         torn' \in Episodes \cup {0}, main' \in {"collecting", "gated", "exited", "dead"}
  PROVE  BatchTyped'
BY DEF BatchInv, BatchTyped, Batches!memory

\* A run is recorded when it has a result.
LEMMA RecordedKeeps ==
  ASSUME BatchConstants, BatchInv, NEW e \in Episodes, Batches!Recorded(e)
  PROVE  BatchInv'
<1>1. /\ main = "collecting" /\ Batches!Alive /\ results[e] # Batches!None /\ runs' = runs \cup {e}
      /\ UNCHANGED <<Batches!memory, billed, journal, torn, main, gate, charge>>
  BY DEF Batches!Recorded, Batches!Alive
<1>2. RunsEnd' /\ runs' \subseteq Episodes /\ torn' \in Episodes \cup {0}
  BY <1>1 DEF Batches!memory, BatchInv, BatchTyped, Running, RunsEnd
<1>3. BatchTyped' /\ Running' /\ Filed'
  BY <1>1, <1>2, FilingKeepsRunning, FilingKeepsTypes, FiledStands DEF BatchInv, BatchTyped
<1> QED BY <1>3 DEF BatchInv

\* Calls that are each the last of their run, of runs with one result, map into those runs
\* one to one.
LEMMA LastCallsAreRuns ==
  ASSUME BatchConstants, BatchInv, NEW G \in Groups, NEW r, NEW S \in SUBSET (1 .. Len(journal)),
         \A i \in S : /\ journal[i].run \in G /\ results[journal[i].run] = r
                      /\ Batches!LastOfRun(i)
  PROVE  /\ Cardinality(S) <= Cardinality({e \in G : results[e] = r})
         /\ Cardinality(S) \in Nat /\ Cardinality({e \in G : results[e] = r}) \in Nat
<1> DEFINE Failed == {e \in G : results[e] = r}
           f == [i \in S |-> journal[i].run]
<1>1. PICK n \in Nat : Episodes = 1 .. n
  BY DEF BatchConstants
<1>2. IsFiniteSet(1 .. n)
  BY FS_Interval
<1>3. IsFiniteSet(Failed)
  BY <1>1, <1>2, FS_Subset DEF BatchConstants
<1>4. Len(journal) \in Nat
  BY BatchFacts
<1>5. IsFiniteSet(1 .. Len(journal))
  <2>1. \A m \in Nat : IsFiniteSet(1 .. m)
    BY FS_Interval
  <2> QED BY <1>4, <2>1
<1>6. IsFiniteSet(S)
  <2>1. S \subseteq 1 .. Len(journal)
    BY <1>4
  <2> QED BY <1>5, <2>1, FS_Subset
<1>7. \A i, j \in S : journal[i].run = journal[j].run => i = j
  <2> SUFFICES ASSUME NEW i \in S, NEW j \in S, journal[i].run = journal[j].run, i < j PROVE FALSE
    BY <1>4
  <2>1. j \in i + 1 .. Len(journal)
    BY <1>4
  <2> QED BY <2>1 DEF Batches!LastOfRun
<1>8. f \in Injection(S, Failed)
  BY <1>7 DEF Injection, IsInjective
<1> HIDE DEF f, Failed
<1>9. Cardinality(S) <= Cardinality(Failed)
  BY <1>3, <1>6, <1>8, FS_Injection
<1>10. Cardinality(S) \in Nat /\ Cardinality(Failed) \in Nat
  BY <1>3, <1>6, FS_CardinalityType
<1> QED BY <1>9, <1>10 DEF Failed

\* When every run is recorded no thread is at work and the gate finds what the journal shows.
LEMMA WriteGateKeeps == ASSUME BatchConstants, BatchInv, Batches!WriteGate PROVE BatchInv'
<1>1. /\ main = "collecting" /\ runs = Episodes /\ Batches!Alive /\ main' = "gated"
      /\ UNCHANGED <<Batches!memory, billed, journal, runs, torn, charge>>
  BY DEF Batches!WriteGate, Batches!Alive
<1>6. ASSUME gate'.passed PROVE Batches!Passes
  <2>1. PICK violations \in BOOLEAN :
          gate' = [written |-> TRUE, passed |-> Batches!Passes /\ ~violations, interrupted |-> FALSE]
    BY DEF Batches!WriteGate
  <2>2. gate'.passed = (Batches!Passes /\ ~violations)
    BY <2>1
  <2> QED BY <1>6, <2>2
<1>2. RunsEnd /\ RunsEnd'
  BY <1>1 DEF BatchInv, Running, RunsEnd, Batches!memory
<1>3. BatchTyped' /\ Running'
  BY <1>1, <1>2, FilingKeepsRunning, FilingKeepsTypes DEF BatchInv, BatchTyped
<1>4. ASSUME Batches!Passes PROVE Batches!PassedIsComplete'
  <2>1. torn = 0
    BY <1>2 DEF RunsEnd
  <2>2. \A w \in Workers : work[w].pc = "free"
    BY <1>1, <1>2 DEF RunsEnd, BatchInv, Running, ThreadsApart
  <2>3. CallsEnd /\ (\A i : ~Outstanding(i)) /\ \A e : ~Repeating(e)
    BY <1>1, <2>2 DEF BatchInv, Running, Outstanding, Requested, Repeating
  <2>4. \A i \in 1 .. Len(journal) : journal[i].status # "STARTED"
    BY <2>3 DEF CallsEnd
  <2>5. \A i \in Batches!Lost("REACT", Episodes) : Batches!LastOfRun(i)
    BY <2>3 DEF CallsEnd
  <2>6. ASSUME NEW G \in Groups
        PROVE  /\ Cardinality(Batches!Lost("REACT", G)) <= Failures
               /\ Cardinality({i \in Batches!Lost("BUYER_SIMULATION", G) : Batches!LastOfRun(i)}) <= Failures
    <3> DEFINE R == Batches!Lost("REACT", G)
               B == {i \in Batches!Lost("BUYER_SIMULATION", G) : Batches!LastOfRun(i)}
    <3>1. /\ Cardinality({e \in G : results[e] = "SELLER_FAILURE"}) <= Failures
          /\ Cardinality({e \in G : results[e] = "BUYER_SIMULATOR_FAILURE"}) <= Failures
          /\ G \subseteq Episodes /\ Failures \in Nat
      BY <1>4, <2>6, BatchCounts DEF Batches!Passes, Batches!Tolerable, BatchConstants
    <3>2. /\ R \in SUBSET (1 .. Len(journal)) /\ B \in SUBSET (1 .. Len(journal))
          /\ R \subseteq Batches!Lost("REACT", Episodes)
          /\ B \subseteq Batches!Lost("BUYER_SIMULATION", Episodes)
          /\ \A i \in R \cup B : journal[i].run \in G
      BY <3>1 DEF Batches!Lost
    <3>3. \A i \in R : results[journal[i].run] = "SELLER_FAILURE" /\ Batches!LastOfRun(i)
      BY <2>3, <3>2 DEF CallsEnd
    <3>4. \A i \in B : results[journal[i].run] = "BUYER_SIMULATOR_FAILURE" /\ Batches!LastOfRun(i)
      BY <1>4, <2>3, <3>1, <3>2 DEF CallsEnd, Batches!Passes
    <3> HIDE DEF R, B
    <3>5. /\ Cardinality(R) <= Cardinality({e \in G : results[e] = "SELLER_FAILURE"})
          /\ Cardinality(R) \in Nat /\ Cardinality({e \in G : results[e] = "SELLER_FAILURE"}) \in Nat
      BY <2>6, <3>2, <3>3, LastCallsAreRuns
    <3>6. /\ Cardinality(B) <= Cardinality({e \in G : results[e] = "BUYER_SIMULATOR_FAILURE"})
          /\ Cardinality(B) \in Nat
          /\ Cardinality({e \in G : results[e] = "BUYER_SIMULATOR_FAILURE"}) \in Nat
      BY <2>6, <3>2, <3>4, LastCallsAreRuns
    <3>7. Cardinality(R) <= Failures /\ Cardinality(B) <= Failures
      BY <3>1, <3>5, <3>6
    <3> QED BY <3>7 DEF R, B
  <2>7. charge = 0 /\ 0 <= MaxTokens
    BY <1>1 DEF BatchInv, Filed, BatchConstants
  <2>8. /\ \A purpose, G : Batches!Lost(purpose, G)' = Batches!Lost(purpose, G)
        /\ \A i : Batches!LastOfRun(i)' <=> Batches!LastOfRun(i)
    BY <1>1 DEF Batches!Lost, Batches!LastOfRun
  <2>9. \A G : {i \in Batches!Lost("BUYER_SIMULATION", G) : Batches!LastOfRun(i)}'
                = {i \in Batches!Lost("BUYER_SIMULATION", G) : Batches!LastOfRun(i)}
    BY <2>8
  <2>10. \A G \in Groups :
           /\ Batches!Cardinality(Batches!Lost("REACT", G)') <= Failures
           /\ Batches!Cardinality({i \in Batches!Lost("BUYER_SIMULATION", G) : Batches!LastOfRun(i)}') <= Failures
    BY <2>6, <2>8, <2>9, BatchCounts
  <2>11. \A i \in Batches!Lost("REACT", Episodes)' : Batches!LastOfRun(i)'
    BY <2>5, <2>8
  <2> QED BY <1>1, <2>1, <2>4, <2>7, <2>10, <2>11 DEF Batches!PassedIsComplete
<1>5. Filed'
  <2>1. gate'.passed => Batches!PassedIsComplete' /\ reserved' <= MaxTokens
    BY <1>1, <1>4, <1>6 DEF Batches!Passes, Batches!memory
  <2>2. ~gate'.passed => Batches!PassedIsComplete'
    BY DEF Batches!PassedIsComplete
  <2> QED BY <1>1, <2>1, <2>2 DEF Filed
<1> QED BY <1>3, <1>5 DEF BatchInv

\* The manifest charges what is reserved.
LEMMA WriteManifestKeeps == ASSUME BatchConstants, BatchInv, Batches!WriteManifest PROVE BatchInv'
<1>1. /\ main = "gated" /\ main' = "exited" /\ charge' = reserved
      /\ UNCHANGED <<Batches!memory, billed, journal, runs, torn, gate>>
  BY DEF Batches!WriteManifest
<1>2. BatchTyped'
  BY <1>1, FilingKeepsTypes DEF BatchInv, BatchTyped
<1>3. Filed'
  BY <1>1 DEF BatchInv, Filed, Batches!PassedIsComplete, Batches!Lost, Batches!LastOfRun
<1> QED BY <1>1, <1>2, <1>3 DEF BatchInv, Batches!Alive

\* What dies with the process is in no file.
LEMMA KilledKeeps == ASSUME BatchConstants, BatchInv, Batches!Killed PROVE BatchInv'
<1>1. /\ main' = "dead" /\ UNCHANGED <<journal, runs, gate, charge, billed>>
      /\ torn' \in {0} \cup {e \in Episodes \ runs : main = "collecting" /\ results[e] # Batches!None}
      /\ next' = 0 /\ work' = [w \in Workers |-> Batches!Free] /\ calls' = <<>>
      /\ results' = [e \in Episodes |-> Batches!None]
  BY DEF Batches!Killed
<1>2. BatchTyped'
  BY <1>1 DEF BatchInv, BatchTyped, Batches!Free, BatchWork, Batches!Statuses
<1>3. Filed'
  <2>1. CASE main = "collecting"
    BY <1>1, <2>1 DEF BatchInv, Filed, Batches!PassedIsComplete
  <2>2. CASE main # "collecting"
    <3>1. torn' = 0
      BY <1>1, <2>2
    <3>2. main' = "dead" /\ UNCHANGED <<journal, runs, gate, charge>>
      BY <1>1
    <3>3. gate.passed => torn' = torn
      BY <3>1 DEF BatchInv, Filed, Batches!PassedIsComplete
    <3>4. ASSUME gate.passed PROVE Batches!PassedIsComplete'
      BY <3>2, <3>3, <3>4 DEF BatchInv, Filed, Batches!PassedIsComplete, Batches!Lost, Batches!LastOfRun
    <3>5. ~gate'.passed => Batches!PassedIsComplete'
      BY DEF Batches!PassedIsComplete
    <3> QED BY <3>2, <3>4, <3>5 DEF Filed
  <2> QED BY <2>1, <2>2
<1> QED BY <1>1, <1>2, <1>3 DEF BatchInv, Batches!Alive

\* The recovery script passes nothing.
LEMMA FinalizingKeeps == ASSUME BatchConstants, BatchInv, Batches!Finalize PROVE BatchInv'
<1>1. /\ ~Batches!Alive /\ ~gate'.passed
      /\ UNCHANGED <<Batches!memory, billed, journal, runs, torn, main>>
  BY DEF Batches!Finalize
<1>2. BatchTyped'
  BY <1>1, FilingKeepsTypes DEF BatchInv, BatchTyped
<1>3. Filed'
  BY <1>1 DEF Filed, Batches!PassedIsComplete, Batches!Alive
<1> QED BY <1>1, <1>2, <1>3 DEF BatchInv, Batches!Alive

\* A step that leaves the batch alone keeps it too.
LEMMA BatchStutters == ASSUME BatchInv, UNCHANGED Batches!vars PROVE BatchInv'
<1>1. UNCHANGED <<Batches!memory, billed, journal, runs, torn, gate, charge, main>>
  BY DEF Batches!vars, Batches!files
<1>2. BatchTyped'
  BY <1>1, FilingKeepsTypes DEF BatchInv, BatchTyped
<1>3. Batches!Alive' => Running'
  BY <1>1, FilingKeepsRunning DEF BatchInv, Running, RunsEnd, Batches!Alive, Batches!memory
<1>4. Filed'
  BY <1>1 DEF BatchInv, Filed, Batches!PassedIsComplete, Batches!memory, Batches!Lost, Batches!LastOfRun
<1> QED BY <1>2, <1>3, <1>4 DEF BatchInv

\* A batch begins with nothing run and nothing passed.
LEMMA BatchBegins == ASSUME BatchConstants, Batches!Init PROVE BatchInv
<1>1. Batches!Free \in BatchWork /\ Batches!Free.pc = "free"
  BY DEF Batches!Free, BatchWork
<1>2. /\ calls = <<>> /\ journal = <<>> /\ billed = <<>> /\ Len(calls) = 0 /\ Len(journal) = 0
      /\ \A w \in Workers : work[w] = Batches!Free
  BY DEF Batches!Init
<1>3. BatchTyped
  BY <1>1 DEF Batches!Init, BatchTyped, Batches!Statuses
<1>4. ThreadsApart /\ JournalFollows /\ CallsEnd /\ RunsEnd
  BY <1>1, <1>2 DEF Batches!Init, ThreadsApart, JournalFollows, CallsEnd, RunsEnd, Batches!None,
     Outstanding, Requested, Batches!Lost
<1>5. \A w \in Workers : CallOf(w)
  BY <1>2 DEF Batches!Init, CallOf, Batches!Free, BatchConstants
<1>6. Filed
  BY DEF Batches!Init, Batches!NoGate, Filed, Batches!PassedIsComplete
<1> QED BY <1>3, <1>4, <1>5, <1>6 DEF BatchInv, Running

\* Every step of threads, main thread, death and recovery keeps it.
LEMMA BatchStep ==
  ASSUME BatchConstants, BatchInv, Batches!Next \/ UNCHANGED Batches!vars
  PROVE  BatchInv'
<1>1. ASSUME NEW w \in Workers,
             \/ Batches!Start(w) \/ Batches!SellerActs(w) \/ Batches!BuyerFails(w)
             \/ Batches!Reserving(w) \/ Batches!Journal(w) \/ Batches!Invoke(w)
             \/ Batches!Answered(w) \/ Batches!JournalAnswer(w) \/ Batches!Refused(w)
      PROVE  BatchInv'
  BY <1>1, StartKeeps, SellerActsKeeps, BuyerFailsKeeps, ReservingKeeps, JournalKeeps, InvokeKeeps,
     AnsweredKeeps, JournalAnswerKeeps, RefusedKeeps
<1>2. ASSUME NEW e \in Episodes, Batches!Recorded(e) PROVE BatchInv'
  BY <1>2, RecordedKeeps
<1> QED BY <1>1, <1>2, WriteGateKeeps, WriteManifestKeeps, KilledKeeps, FinalizingKeeps,
   BatchStutters DEF Batches!Next

-------------------------------------------------------------------------------
(* The release experiment                                                      *)

CONSTANTS Cases, Comparable, Risky, Repeats, Turns, Threads, Labelled, Kills
VARIABLES conv, rel_lock, report, disk, jsonl, rel_journal, remote, rel_main, replay,
          rel_faults, kills

Experiment == INSTANCE ReleaseExperiment WITH lock <- rel_lock, journal <- rel_journal,
                                              main <- rel_main, faults <- rel_faults, Faults <- 2

\* An experiment has finitely many cases and repetitions.
ReleaseConstants ==
  /\ IsFiniteSet(Cases) /\ IsFiniteSet(Repeats)
  /\ Turns \in Nat /\ Threads \in Nat
ASSUME ReleaseValues == ReleaseConstants
===============================================================================
