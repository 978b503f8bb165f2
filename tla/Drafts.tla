------------------------------- MODULE Drafts -------------------------------
(***************************************************************************)
(* Offer drafts of one negotiation-v3 session: how the buyer's words become*)
(* a draft, how a later message continues it, how the seller's evidence    *)
(* makes it ready, and when it enters as an offer                          *)
(* (src/backend/app/semantic/service.py, evidence.py, maintenance.py,      *)
(* business_command_service.py).                                           *)
(*                                                                         *)
(* A candidate is the set of required fields it fills, the conditions it   *)
(* names and the commitments it asks for.  A condition stands for anything *)
(* assess() looks up in the product's evidence: a predicate on a fact, the *)
(* delivery methods, the shipping rule.                                    *)
(*                                                                         *)
(* Every transaction that reads evidence does so through the snapshot that *)
(* its first plain SELECT opened (InnoDB's default isolation), while the   *)
(* rows it locks are read as they are.  The session is locked, drafts and  *)
(* facts are not: lock_owner reads the input, and with it opens the        *)
(* snapshot, before the session is locked, and a recheck reads its item    *)
(* before.  Begin and Take take the snapshot, Lock and the start of Recheck*)
(* wait for the session, and the last step of each transaction writes.     *)
(***************************************************************************)
EXTENDS Naturals, Sequences, FiniteSets

CONSTANTS Fields,     \* amount, delivery, payer, region: what an offer must state
          Amount,     \* the field that makes a candidate a new proposal
          Conds,      \* conditions a candidate may name
          Promises,   \* commitments outside what the seller can undertake
          Patches,    \* the candidates a parsed intent may carry
          Ids,        \* identifiers of drafts, 1 .. n
          Inputs,     \* bound: inputs of the buyer
          Edits,      \* bound: product versions
          Servers,    \* concurrent requests of the seller
          Faults      \* bound: processes that die

VARIABLES
  facts,     \* product_fact_values and shipping_cost_rules: the latest of each
  product,   \* products.product_version
  session,   \* status and version of negotiation_sessions
  offer,     \* the current offer with its semantic_offer_bases row, or None
  draft,     \* offer_drafts joined with draft_verifications
  shown,     \* public_interaction_contexts of the present business version, with the
             \* candidates on the card, and whether the buyer acknowledged the display;
             \* of the acknowledged cards of earlier versions one stands for all
  notices,   \* source_id of the messages "the seller has supplied ..."
  turn,      \* the input being processed, its plan and its transaction
  request,   \* seller requests that recheck
  inputs, faults

vars == <<facts, product, session, offer, draft, shown, notices, turn, request, inputs, faults>>

None == [none |-> TRUE]

Candidate == [fields : SUBSET Fields, conds : SUBSET Conds, promises : SUBSET Promises]

Blank == [fields |-> {}, conds |-> {}, promises |-> {}]

-----------------------------------------------------------------------------
(* Evidence                                                                *)

\* assess: the conditions of a candidate that the facts f do not satisfy ...
Unmet(c, f) == {x \in c.conds : f[x].value # "SATISFIED"}

\* ... and whether nothing at all is missing.
Complete(c, f) == Fields \subseteq c.fields /\ Unmet(c, f) = {} /\ c.promises = {}

\* valid_basis: the candidate still holds, by the same versions of the facts.
ValidBasis(o, f) ==
  /\ Complete(o.cand, f)
  /\ \A x \in o.cand.conds : f[x].version = o.seen[x]

MergeReplacing(base, patch) ==
  [fields |-> base.fields \cup patch.fields,
   conds |-> IF patch.conds = {} THEN base.conds ELSE patch.conds,
   promises |-> patch.promises]

\* merge_candidate: a continuation adds, it erases nothing.
Merge(base, patch) ==
  [fields |-> base.fields \cup patch.fields,
   conds |-> base.conds \cup patch.conds,
   promises |-> base.promises \cup patch.promises]

-----------------------------------------------------------------------------
(* Drafts                                                                  *)

Status == {"PENDING", "READY", "SUBMITTED", "WITHDRAWN"}

Draft == [cand : Candidate, version : Nat \ {0}, status : Status, business : Nat,
          item : {"NONE", "OPEN", "READY", "STALE"}, notified : 0 .. Edits, live : BOOLEAN]

\* An attribute is written only when it differs from the value that was loaded.
Written(loaded, new, current) == IF new = loaded THEN current ELSE new

\* The row after its verification: cur as another transaction may have left it since row
\* was loaded.
Rechecked(row, cur, status, item, notified) ==
  [cur EXCEPT !.status = Written(row.status, status, cur.status),
              !.item = Written(row.item, item, cur.item),
              !.notified = Written(row.notified, notified, cur.notified)]

\* The row after a plan: candidate and version are the turns' alone, and as loaded.
Stored(row, new, cur) ==
  IF row = None THEN new
  ELSE Rechecked(row, [cur EXCEPT !.cand = new.cand, !.version = new.version],
                 new.status, new.item, row.notified)

\* usable_draft, of the draft as read and the version the buyer refers to.
Usable(d, version) ==
  /\ d # None
  /\ d.version = version
  /\ d.status \in {"PENDING", "READY"}
  /\ d.live
  /\ d.business = session.version

\* check_object: a card can be displayed, and refreshed, while its object is good.
Displayable(ctx) ==
  /\ ctx.business = session.version
  /\ ctx.offer => offer # None /\ ValidBasis(offer, facts)
  /\ ~ctx.offer => \A r \in ctx.refs : Usable(draft[r.id], r.version)

Context(business, offered, refs) ==
  [business |-> business, offer |-> offered, refs |-> refs, acked |-> FALSE]

NoContext == Context(0, FALSE, {})

\* A card of an earlier business version that was displayed then: frozen_context gives
\* nothing for it, whatever it shows.
Earlier == [Context(0, TRUE, {}) EXCEPT !.acked = TRUE]

\* The cards when the business version moves.
Aged == IF \E c \in shown : c.acked THEN {Earlier} ELSE {}

NoRef == [id |-> 0, version |-> 0, cand |-> Blank]

Idle == [pc |-> "idle", kind |-> "OTHER", patches |-> <<>>, ack |-> NoContext, ref |-> NoRef,
         drafts |-> {}, selected |-> {}, command |-> "QUERY", open |-> FALSE, snap |-> None, rows |-> None, card |-> FALSE]

Init ==
  /\ facts = [x \in Conds |-> [value |-> "UNKNOWN", version |-> 0]]
  /\ product = 0
  /\ session = [status |-> "ACTIVE", version |-> 1]
  /\ offer = None
  /\ draft = [d \in Ids |-> None]
  /\ shown = {}
  /\ notices = {}
  /\ turn = Idle
  /\ request = [r \in Servers |-> [pc |-> "idle", todo |-> {}, at |-> None]]
  /\ inputs = 0
  /\ faults = 0

-----------------------------------------------------------------------------
(* The buyer's turn                                                        *)

Offering == {"PROPOSE_OFFER", "CHANGE_TERMS"}

\* An offer carries one candidate or two alternatives.
Proposals == LET whole == Patches \ {Blank} IN {<<p>> : p \in whole} \cup {<<p, q>> : p, q \in whole}

\* What an input of each kind carries: terms, what completes a draft, or nothing.
Carried(kind) ==
  IF kind \in Offering THEN Proposals
  ELSE IF kind = "PROVIDE_INFO" THEN {<<p>> : p \in Patches \cup {Blank}}
  ELSE {<<>>}

\* display: the buyer's page acknowledges a card while its object is good.
Display(c) ==
  /\ c \in shown /\ ~c.acked
  /\ ~turn.open
  /\ Displayable(c)
  /\ shown' = (shown \ {c}) \cup {[c EXCEPT !.acked = TRUE]}
  /\ UNCHANGED <<facts, product, session, offer, draft, notices, turn, request, inputs, faults>>

\* enqueue: a parsed input that refers to a card once displayed, good or not by now, or to
\* nothing.  With two drafts on the card the buyer names one, or leaves it open.
Receive ==
  /\ turn.pc = "idle"
  /\ inputs < Inputs
  /\ Cardinality({d \in Ids : draft[d] = None}) >= 2
  /\ \E kind \in {"PROPOSE_OFFER", "CHANGE_TERMS", "PROVIDE_INFO", "CONFIRM_INTENT",
                  "WITHDRAW_OFFER", "CLOSE_SESSION"} :
     \E patches \in Carried(kind) :
     \E ack \in {NoContext} \cup {c \in shown : c.acked} :
     \E ref \in {NoRef} \cup ack.refs :
        /\ ref = NoRef => Cardinality(ack.refs) # 1
        /\ turn' = [Idle EXCEPT !.pc = "received", !.kind = kind, !.patches = patches,
                                !.ack = ack, !.ref = ref]
  /\ inputs' = inputs + 1
  /\ UNCHANGED <<facts, product, session, offer, draft, shown, notices, request, faults>>

\* The transaction ends: committed with the node's result, or rolled back.
Ended(pc) == [turn EXCEPT !.pc = pc, !.open = FALSE, !.snap = None, !.rows = None]

\* What the later nodes read of a planned input: its card, drafts and command.
Planned == [Ended("planned") EXCEPT !.kind = "OTHER", !.patches = <<>>, !.ref = NoRef]

\* lock_owner: its first read of the input is a plain one, and fixes what the transaction
\* will see of facts and drafts.
Begin ==
  /\ turn.pc # "idle"
  /\ turn.snap = None
  /\ turn' = [turn EXCEPT !.snap = facts, !.rows = draft]
  /\ UNCHANGED <<facts, product, session, offer, draft, shown, notices, request, inputs, faults>>

\* The session FOR UPDATE: rechecks may have committed since.
Lock ==
  /\ turn.snap # None /\ ~turn.open
  /\ turn' = [turn EXCEPT !.open = TRUE]
  /\ UNCHANGED <<facts, product, session, offer, draft, shown, notices, request, inputs, faults>>

\* frozen_context: the card of the input, while the business has not moved.
Frozen == turn.ack # NoContext /\ turn.ack.business = session.version

\* bound_draft, in the drafts as this transaction has changed them so far.
Bound(ds) ==
  IF turn.ref # NoRef /\ Frozen /\ Usable(ds[turn.ref.id], turn.ref.version)
  THEN turn.ref.id ELSE 0

\* A draft as planned, and the verification the seller owes it.
Assessed(d, unresolved) ==
  LET c == d.cand IN
  [d EXCEPT !.status = IF Complete(c, turn.snap) /\ ~unresolved THEN "READY" ELSE "PENDING",
            !.item = IF Unmet(c, turn.snap) # {} THEN "OPEN" ELSE d.item]

NewDraft(c) ==
  [cand |-> c, version |-> 1, status |-> "PENDING", business |-> session.version,
   item |-> "NONE", notified |-> 0, live |-> TRUE]

\* One intent: continue the bound draft, change the displayed offer, or start anew;
\* terms without an amount that continue nothing are only clarified.
Put(acc, patch, unresolved) ==
  LET bound == Bound(acc.drafts)
      continues == /\ bound # 0
                   /\ turn.kind \in {"PROVIDE_INFO", "CHANGE_TERMS"} \/ Amount \notin patch.fields
      original == IF continues THEN acc.drafts[bound].cand
                  ELSE IF turn.kind = "CHANGE_TERMS" /\ Frozen /\ turn.ack.offer /\ offer # None
                       THEN offer.cand ELSE Blank
      cand == Merge(original, patch)
      id == IF continues THEN bound
            ELSE CHOOSE d \in Ids : acc.drafts[d] = None /\ \A e \in Ids : e < d => acc.drafts[e] # None
      row == IF continues THEN [acc.drafts[bound] EXCEPT !.cand = cand, !.version = @ + 1]
             ELSE NewDraft(cand)
  IN IF original = Blank /\ Amount \notin patch.fields
     THEN acc
     ELSE [drafts |-> [acc.drafts EXCEPT ![id] = Assessed(row, unresolved)],
           made |-> acc.made \cup {id}]

\* The plan of a safe frame that states, changes or completes terms: only a single
\* complete candidate becomes a command; of two alternatives the second meets the drafts as
\* the first left them, and both wait for the buyer's choice.
PlanTerms(unresolved) ==
  LET begun == Put([drafts |-> turn.rows, made |-> {}], Head(turn.patches), unresolved)
      end == IF Len(turn.patches) = 1 THEN begun ELSE Put(begun, turn.patches[2], unresolved)
      ready == {d \in end.made : Len(turn.patches) = 1 /\ end.drafts[d].status = "READY"}
  IN /\ turn.kind \in Offering \/ (turn.kind = "PROVIDE_INFO" /\ Bound(turn.rows) # 0)
     /\ draft' = [d \in Ids |-> Stored(turn.rows[d], end.drafts[d], draft[d])]
     /\ turn' = [Planned EXCEPT !.drafts = end.made, !.selected = ready,
                                !.command = IF ready # {} THEN "SUBMIT" ELSE "QUERY"]

\* The plan of an explicit wish: it needs the card it is about.
PlanWish ==
  /\ turn.kind \in {"CONFIRM_INTENT", "WITHDRAW_OFFER", "CLOSE_SESSION"}
  /\ turn' = [Planned EXCEPT !.command =
                CASE turn.kind = "CONFIRM_INTENT" /\ Frozen /\ turn.ack.offer -> "CONFIRM"
                  [] turn.kind = "WITHDRAW_OFFER" /\ offer # None
                       /\ (turn.ack = NoContext \/ Frozen) -> "WITHDRAW"
                  [] turn.kind = "CLOSE_SESSION" -> "CLOSE"
                  [] OTHER -> "QUERY"]
  /\ UNCHANGED draft

\* Words that contradict themselves or their quotes (safe_frame), conflicting intents
\* and mere information leave nothing but the reply.
PlanNothing ==
  /\ turn' = Planned
  /\ UNCHANGED draft

\* plan_turn
Plan ==
  /\ turn.pc = "received" /\ turn.open
  /\ PlanWish \/ PlanNothing \/ \E unresolved \in BOOLEAN : PlanTerms(unresolved)
  /\ UNCHANGED <<facts, product, session, offer, shown, notices, request, inputs, faults>>

Selected == CHOOSE d \in turn.selected : TRUE

\* execute refuses: BUSINESS_ERRORS rolls back and the graph goes to abort_or_query.
Refuse ==
  /\ turn.pc = "planned" /\ turn.open
  /\ turn.command # "QUERY"
  /\ turn' = Ended("refused")
  /\ UNCHANGED <<facts, product, session, offer, draft, shown, notices, request, inputs, faults>>

Executing(command) ==
  /\ turn.pc = "planned" /\ turn.open
  /\ turn.command = command
  /\ session.status = "ACTIVE"

\* The same candidate on a basis that still holds is not a second offer.
Same(cand) == offer # None /\ offer.cand = cand /\ ValidBasis(offer, turn.snap)

QuotableAsPlanned(cand) == turn.command = "SUBMIT"

\* quote_in_transaction, on the evidence of this transaction.
Quotable(cand) == Complete(cand, turn.snap)

\* execute, SUBMIT and REPLACE: the draft is of this business version, its quotation is
\* made again, and the seller's policy accepts the price or rejects it.
Submit ==
  /\ Executing("SUBMIT")
  /\ turn.rows[Selected].business = session.version
  /\ Quotable(turn.rows[Selected].cand)
  /\ draft' = [draft EXCEPT ![Selected].status = "SUBMITTED"]
  /\ LET cand == turn.rows[Selected].cand
         new == [cand |-> cand, seen |-> [x \in Conds |-> turn.snap[x].version]]
     IN \/ /\ Same(cand)
           /\ turn' = [Ended("done") EXCEPT !.card = TRUE]
           /\ UNCHANGED <<session, offer, shown>>
        \/ /\ ~Same(cand)
           /\ shown' = Aged
           /\ session' = [session EXCEPT !.version = @ + 1]
           /\ offer' \in {new, offer}
           /\ turn' = [Ended("done") EXCEPT !.card = offer' = new]
  /\ UNCHANGED <<facts, product, notices, request, inputs, faults>>

\* confirm_in_transaction: the displayed offer, while its basis holds.
Confirmable == offer # None /\ Frozen /\ turn.ack.offer /\ ValidBasis(offer, turn.snap)

Confirm ==
  /\ Executing("CONFIRM")
  /\ Confirmable
  /\ session' = [session EXCEPT !.status = "AGREED", !.version = @ + 1]
  /\ turn' = Ended("done")
  /\ shown' = Aged
  /\ UNCHANGED <<facts, product, offer, draft, notices, request, inputs, faults>>

\* lifecycle_in_transaction
Withdraw ==
  /\ Executing("WITHDRAW")
  /\ offer # None
  /\ offer' = None
  /\ session' = [session EXCEPT !.version = @ + 1]
  /\ turn' = Ended("done")
  /\ shown' = Aged
  /\ UNCHANGED <<facts, product, draft, notices, request, inputs, faults>>

\* close_drafts
Closed(row, cur) == IF row # None /\ row.status \in {"PENDING", "READY"}
                    THEN [cur EXCEPT !.status = "WITHDRAWN"] ELSE cur

Close ==
  /\ Executing("CLOSE")
  /\ offer' = None
  /\ session' = [session EXCEPT !.status = "CLOSED", !.version = @ + 1]
  /\ draft' = [d \in Ids |-> Closed(turn.rows[d], draft[d])]
  /\ turn' = Ended("done")
  /\ shown' = Aged
  /\ UNCHANGED <<facts, product, notices, request, inputs, faults>>

\* abort_or_query with a reason: the selected draft is assessed again, and what it now
\* lacks becomes the seller's to verify.
Abort ==
  /\ turn.pc = "refused" /\ turn.open
  /\ draft' = [d \in Ids |->
       IF d \in turn.selected /\ turn.rows[d].business = session.version
          /\ ~Complete(turn.rows[d].cand, turn.snap)
       THEN Rechecked(turn.rows[d], draft[d], "PENDING", "OPEN", turn.rows[d].notified) ELSE draft[d]]
  /\ turn' = Ended("done")
  /\ UNCHANGED <<facts, product, session, offer, shown, notices, request, inputs, faults>>

\* A card of drafts names the version whose candidate it shows.
Refs(ds) == {[id |-> d, version |-> turn.rows[d].version, cand |-> turn.rows[d].cand] :
               d \in {e \in ds : Usable(turn.rows[e], turn.rows[e].version)}}

\* publish and decorate: the reply with the card of the offer, or of the drafts that
\* are still usable; a confirmation card only while the offer is valid.
Publish ==
  /\ turn.open
  /\ turn.pc = "done" \/ (turn.pc = "planned" /\ turn.command = "QUERY")
  /\ LET confirmable == /\ turn.card /\ session.status = "ACTIVE"
                        /\ offer # None /\ ValidBasis(offer, turn.snap)
         card == Context(session.version, confirmable, Refs(turn.drafts))
     IN shown' = IF card.offer \/ card.refs # {} THEN shown \cup {card} ELSE shown
  /\ turn' = Idle
  /\ UNCHANGED <<facts, product, session, offer, draft, notices, request, inputs, faults>>

-----------------------------------------------------------------------------
(* The seller                                                              *)

\* set_fact and set_rule: the evidence and the product's version in one transaction;
\* the rechecks that follow are transactions of their own.
SetFact(r, x) ==
  /\ request[r].pc = "idle"
  /\ product < Edits
  /\ product' = product + 1
  /\ \E value \in {"SATISFIED", "UNSATISFIED", "UNKNOWN"} :
        facts' = [facts EXCEPT ![x] = [value |-> value, version |-> product']]
  /\ request' = [request EXCEPT ![r].pc = "list"]
  /\ UNCHANGED <<session, offer, draft, shown, notices, turn, inputs, faults>>

\* recheck: the verifications not yet stale.
List(r) ==
  /\ request[r].pc = "list"
  /\ request' = [request EXCEPT ![r].pc = "items", ![r].todo =
                   {d \in Ids : draft[d] # None /\ draft[d].item \in {"OPEN", "READY"}}]
  /\ UNCHANGED <<facts, product, session, offer, draft, shown, notices, turn, inputs, faults>>

\* The item and the draft of one verification, read before the session is locked.
Take(r) ==
  /\ request[r].pc = "items" /\ request[r].at = None
  /\ \E d \in request[r].todo :
        request' = [request EXCEPT ![r].todo = @ \ {d},
                                   ![r].at = [id |-> d, row |-> draft[d], snap |-> facts]]
  /\ UNCHANGED <<facts, product, session, offer, draft, shown, notices, turn, inputs, faults>>

\* The notice of a ready draft names the version that was loaded.
Notice(at) == Context(session.version, FALSE,
                      {[id |-> at.id, version |-> at.row.version, cand |-> at.row.cand]})

\* One verification's transaction: the session and the product are locked as they are,
\* the draft and the facts are those of the snapshot.
Recheck(r) ==
  LET at == request[r].at
      d == at.id
      put(row) == draft' = [draft EXCEPT ![d] = row]
      next == [request EXCEPT ![r].at = None]
  IN /\ at # None
     /\ ~turn.open
     /\ \/ /\ ~Usable([at.row EXCEPT !.live = draft[d].live], at.row.version)
           /\ put(Rechecked(at.row, draft[d], at.row.status, "STALE", at.row.notified))
           /\ request' = next
           /\ UNCHANGED <<shown, notices>>
        \/ /\ Usable([at.row EXCEPT !.live = draft[d].live], at.row.version)
           /\ ~Complete(at.row.cand, at.snap)
           /\ put(Rechecked(at.row, draft[d], "PENDING", "OPEN", at.row.notified))
           /\ request' = next
           /\ UNCHANGED <<shown, notices>>
        \/ /\ Usable([at.row EXCEPT !.live = draft[d].live], at.row.version)
           /\ Complete(at.row.cand, at.snap)
           /\ \/ /\ at.row.notified = product
                 /\ put(Rechecked(at.row, draft[d], "READY", "READY", product))
                 /\ request' = next
                 /\ UNCHANGED <<shown, notices>>
              \/ /\ at.row.notified # product
                 /\ <<d, product>> \notin notices
                 /\ put(Rechecked(at.row, draft[d], "READY", "READY", product))
                 /\ shown' = shown \cup {Notice(at)}
                 /\ notices' = notices \cup {<<d, product>>}
                 /\ request' = next
              \/ \* the source of the message is unique: the request fails
                 /\ at.row.notified # product
                 /\ <<d, product>> \in notices
                 /\ request' = [request EXCEPT ![r] = [pc |-> "idle", todo |-> {}, at |-> None]]
                 /\ UNCHANGED <<draft, shown, notices>>
  /\ UNCHANGED <<facts, product, session, offer, turn, inputs, faults>>

Answered(r) ==
  /\ request[r].pc = "items" /\ request[r].at = None /\ request[r].todo = {}
  /\ request' = [request EXCEPT ![r].pc = "idle"]
  /\ UNCHANGED <<facts, product, session, offer, draft, shown, notices, turn, inputs, faults>>

\* The recheck endpoint, without a new fact.
AskRecheck(r) ==
  /\ request[r].pc = "idle"
  /\ faults < Faults
  /\ faults' = faults + 1
  /\ request' = [request EXCEPT ![r].pc = "list"]
  /\ UNCHANGED <<facts, product, session, offer, draft, shown, notices, turn, inputs>>

-----------------------------------------------------------------------------
(* Time and failures                                                       *)

\* expires_at of a draft passes.
Expire(d) ==
  /\ draft[d] # None /\ draft[d].live
  /\ faults < Faults
  /\ faults' = faults + 1
  /\ draft' = [draft EXCEPT ![d].live = FALSE]
  /\ UNCHANGED <<facts, product, session, offer, shown, notices, turn, request, inputs>>

\* The worker dies, or its transaction is rolled back: the node is run again.
TurnFails ==
  /\ turn.snap # None
  /\ faults < Faults
  /\ faults' = faults + 1
  /\ turn' = Ended(turn.pc)
  /\ UNCHANGED <<facts, product, session, offer, draft, shown, notices, request, inputs>>

\* The server dies between the transactions of a request: nothing resumes it.
RequestFails(r) ==
  /\ request[r].pc # "idle"
  /\ faults < Faults
  /\ faults' = faults + 1
  /\ request' = [request EXCEPT ![r] = [pc |-> "idle", todo |-> {}, at |-> None]]
  /\ UNCHANGED <<facts, product, session, offer, draft, shown, notices, turn, inputs>>

Next ==
  \/ Receive \/ Begin \/ Lock \/ Plan \/ Refuse \/ Submit \/ Confirm \/ Withdraw \/ Close
  \/ Abort \/ Publish \/ TurnFails
  \/ \E r \in Servers : \/ List(r) \/ Take(r) \/ Recheck(r) \/ Answered(r)
                        \/ AskRecheck(r) \/ RequestFails(r)
                        \/ \E x \in Conds : SetFact(r, x)
  \/ \E c \in shown : Display(c)
  \/ \E d \in Ids : Expire(d)

Spec == Init /\ [][Next]_vars

-----------------------------------------------------------------------------
(* Properties                                                              *)

\* The rows have the shape the tables give them, and a draft is never ready, submitted
\* or withdrawn without having been planned.
TypeOK ==
  /\ facts \in [Conds -> [value : {"SATISFIED", "UNSATISFIED", "UNKNOWN"}, version : 0 .. Edits]]
  /\ product \in 0 .. Edits
  /\ session.status \in {"ACTIVE", "AGREED", "CLOSED"} /\ session.version \in Nat
  /\ \A d \in Ids : draft[d] \in Draft \cup {None}
  /\ \A d \in Ids : draft[d] # None => draft[d].notified <= product
  /\ turn.selected \subseteq turn.drafts
  /\ notices \subseteq Ids \X (0 .. Edits)

\* A continuation never erases a condition or a commitment the buyer attached, so no
\* sequence of short answers turns a conditional proposal into an unconditional one
\* (merge_candidate, and the alternatives and rechecks that touch the same row).
KeepsConditions ==
  \A d \in Ids : draft[d] # None =>
      /\ draft'[d] # None
      /\ draft[d].cand.conds \subseteq draft'[d].cand.conds
      /\ draft[d].cand.promises \subseteq draft'[d].cand.promises

\* What a card shows under an identifier and a version is what a message that refers to
\* the card continues, whoever wrote to the draft since, and the two alternatives of one
\* message never pile up on the same draft (usable_draft, bound_draft).
ContinuesAsShown ==
  \A d \in Ids : (draft[d] # None /\ draft'[d].version > draft[d].version)
      => /\ turn.ref.id = d /\ turn.ref.cand = draft[d].cand
         /\ draft'[d].version = draft[d].version + 1

\* The conditions of the current offer were met by the very facts it was quoted on,
\* whatever was edited between the plan and the submission.
OfferIsGrounded ==
  offer # None =>
    /\ Fields \subseteq offer.cand.fields
    /\ offer.cand.promises = {}
    /\ \A x \in offer.cand.conds : facts[x].version = offer.seen[x] => facts[x].value = "SATISFIED"

\* No confirmation outlives its evidence by more than the transaction that makes it:
\* when it is recorded, the facts it began with still had the versions of the offer.
AgreesOnEvidence ==
  (session.status = "ACTIVE" /\ session'.status = "AGREED") =>
      ValidBasis(offer, turn.snap) /\ turn.ack.business = session.version

\* The final confirmation checks the related facts again
\* (docs/P2_实施与验收记录.md:41): no session becomes AGREED on facts that have changed.
AgreedOnCurrentFacts ==
  [][(session.status = "ACTIVE" /\ session'.status = "AGREED") => ValidBasis(offer, facts)]_vars

=============================================================================
