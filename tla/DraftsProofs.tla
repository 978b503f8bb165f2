---------------------------- MODULE DraftsProofs ----------------------------
(* Proofs about the drafts of a session, for any number of identifiers, inputs, versions *)
(* of the product, requests of the seller and faults.                                    *)
EXTENDS Drafts, SequenceTheorems, FiniteSetTheorems, WellFoundedInduction, TLAPS

\* Identifiers count from one and are finitely many (FreeId takes the least free one);
\* patches are candidates.
DraftConstants == Ids \subseteq Nat \ {0} /\ IsFiniteSet(Ids) /\ Edits \in Nat /\ Patches \subseteq Candidate

-----------------------------------------------------------------------------
(* The invariant                                                           *)

\* The columns of every table.
Kinds == {"PROPOSE_OFFER", "CHANGE_TERMS", "PROVIDE_INFO", "CONFIRM_INTENT", "WITHDRAW_OFFER",
          "CLOSE_SESSION", "OTHER"}
Items == {"NONE", "OPEN", "READY", "STALE"}
Evidence == [Conds -> [value : {"SATISFIED", "UNSATISFIED", "UNKNOWN"}, version : 0 .. Edits]]
References == [id : Ids \cup {0}, version : Nat, cand : Candidate]
Contexts == [business : Nat, offer : BOOLEAN, refs : SUBSET References, acked : BOOLEAN]
TurnRows == [pc : {"idle", "received", "planned", "refused", "done"}, kind : Kinds,
             patches : Seq(Candidate), ack : Contexts, ref : References,
             drafts : SUBSET Ids, selected : SUBSET Ids,
             command : {"QUERY", "SUBMIT", "CONFIRM", "WITHDRAW", "CLOSE"}, open : BOOLEAN,
             snap : Evidence \cup {None}, rows : [Ids -> Draft \cup {None}] \cup {None},
             card : BOOLEAN]
Offers == [cand : Candidate, seen : [Conds -> Nat]]
Taken == [id : Ids, row : Draft, snap : Evidence]
RequestRows == [pc : {"idle", "list", "items"}, todo : SUBSET Ids, at : Taken \cup {None}]

\* The rows and what the requests hold of them have their columns.
Typed ==
  /\ facts \in Evidence /\ product \in 0 .. Edits
  /\ session \in [status : {"ACTIVE", "AGREED", "CLOSED"}, version : Nat]
  /\ offer \in Offers \cup {None}
  /\ draft \in [Ids -> Draft \cup {None}]
  /\ shown \subseteq Contexts /\ notices \subseteq Ids \X (0 .. Edits)
  /\ turn \in TurnRows /\ request \in [Servers -> RequestRows]

\* The evidence of a snapshot is that of the facts, as far as their versions agree.
Agrees(s) ==
  \A x \in Conds : /\ s[x].version <= product
                   /\ s[x].version = facts[x].version => s[x].value = facts[x].value
Grounded ==
  /\ \A x \in Conds : facts[x].version <= product
  /\ turn.snap # None => turn.snap \in Evidence /\ Agrees(turn.snap)
  /\ offer # None =>
       /\ Fields \subseteq offer.cand.fields /\ offer.cand.promises = {}
       /\ \A x \in offer.cand.conds :
            /\ offer.seen[x] <= product
            /\ facts[x].version = offer.seen[x] => facts[x].value = "SATISFIED"

\* What a card, a message or a recheck refers to exists, and under the version named it is
\* the candidate shown.
RefersTo(r) ==
  /\ r.id \in Ids /\ draft[r.id] # None /\ r.version <= draft[r.id].version
  /\ r.version = draft[r.id].version => r.cand = draft[r.id].cand
Referring ==
  /\ \A c \in shown : \A r \in c.refs : RefersTo(r)
  /\ \A r \in turn.ack.refs : RefersTo(r)
  /\ turn.ref # NoRef => RefersTo(turn.ref)
  /\ \A d \in turn.drafts : draft[d] # None
  /\ \A s \in Servers :
       /\ \A d \in request[s].todo : draft[d] # None
       /\ request[s].at # None =>
            /\ draft[request[s].at.id] # None
            /\ request[s].at.row.version <= draft[request[s].at.id].version
            /\ request[s].at.row.version = draft[request[s].at.id].version
                 => request[s].at.row.cand = draft[request[s].at.id].cand

\* A message that arrives finds room for its drafts.
Room ==
  turn.pc = "received" =>
    /\ \E i, j \in Ids : i # j /\ draft[i] = None /\ draft[j] = None
    /\ turn.kind \in Offering => Len(turn.patches) \in {1, 2}
    /\ turn.kind = "PROVIDE_INFO" => Len(turn.patches) = 1

\* The drafts a command is about.
Choosing ==
  /\ turn.selected \subseteq turn.drafts
  /\ turn.command = "SUBMIT" => turn.selected # {}

\* No verification was notified of a product that does not exist yet.
Notified == \A d \in Ids : draft[d] # None => draft[d].notified <= product

\* A transaction that holds the session has its snapshot; the drafts it read may have been
\* rechecked since, and are the same drafts with the same words.
Loaded(row, d) ==
  /\ row = None <=> draft[d] = None
  /\ row # None => row.cand = draft[d].cand /\ row.version = draft[d].version
Held ==
  /\ turn.open => turn.snap # None
  /\ turn.snap # None =>
       turn.rows \in [Ids -> Draft \cup {None}] /\ \A d \in Ids : Loaded(turn.rows[d], d)

DInv == Typed /\ Grounded /\ Referring /\ Room /\ Choosing /\ Notified /\ Held

-----------------------------------------------------------------------------
(* Rows                                                                    *)

\* A draft stays one under another candidate, version, state or lease.
LEMMA DraftCand ==
  ASSUME NEW d \in Draft, NEW c \in Candidate
  PROVE  LET e == [d EXCEPT !.cand = c] IN
         /\ e \in Draft /\ e.cand = c /\ e.version = d.version /\ e.status = d.status
         /\ e.item = d.item /\ e.notified = d.notified
BY DEF Draft

\* Under another version.
LEMMA DraftVersion ==
  ASSUME NEW d \in Draft, NEW v \in Nat \ {0}
  PROVE  LET e == [d EXCEPT !.version = v] IN
         /\ e \in Draft /\ e.cand = d.cand /\ e.version = v /\ e.status = d.status
         /\ e.item = d.item /\ e.notified = d.notified
BY DEF Draft

\* In another state.
LEMMA DraftStatus ==
  ASSUME NEW d \in Draft, NEW s \in Status
  PROVE  LET e == [d EXCEPT !.status = s] IN
         /\ e \in Draft /\ e.cand = d.cand /\ e.version = d.version /\ e.status = s
         /\ e.item = d.item /\ e.notified = d.notified
BY DEF Draft

\* With another verification.
LEMMA DraftItem ==
  ASSUME NEW d \in Draft, NEW i \in {"NONE", "OPEN", "READY", "STALE"}
  PROVE  LET e == [d EXCEPT !.item = i] IN
         /\ e \in Draft /\ e.cand = d.cand /\ e.version = d.version /\ e.status = d.status
         /\ e.item = i /\ e.notified = d.notified
BY DEF Draft

\* Notified of another product.
LEMMA DraftNotified ==
  ASSUME NEW d \in Draft, NEW n \in 0 .. Edits
  PROVE  LET e == [d EXCEPT !.notified = n] IN
         /\ e \in Draft /\ e.cand = d.cand /\ e.version = d.version /\ e.status = d.status
         /\ e.item = d.item /\ e.notified = n
BY DEF Draft

\* Expired.
LEMMA DraftLive ==
  ASSUME NEW d \in Draft, NEW l \in BOOLEAN
  PROVE  LET e == [d EXCEPT !.live = l] IN
         /\ e \in Draft /\ e.cand = d.cand /\ e.version = d.version /\ e.status = d.status
         /\ e.item = d.item /\ e.notified = d.notified
BY DEF Draft

\* The columns of a draft.
LEMMA DraftColumns ==
  ASSUME NEW d \in Draft
  PROVE  /\ d.cand \in Candidate /\ d.version \in Nat \ {0} /\ d.status \in Status /\ d.business \in Nat
         /\ d.item \in {"NONE", "OPEN", "READY", "STALE"} /\ d.notified \in 0 .. Edits /\ d.live \in BOOLEAN
         /\ d # None
<1>1. d # None
  <2> SUFFICES ASSUME d = None PROVE FALSE
    OBVIOUS
  <2>1. DOMAIN d = {"cand", "version", "status", "business", "item", "notified", "live"}
    BY DEF Draft
  <2>2. DOMAIN None = {"none"}
    BY DEF None
  <2> QED BY <2>1, <2>2
<1> QED BY <1>1 DEF Draft

\* An offer is not None.
LEMMA OfferColumns ==
  ASSUME NEW o \in Offers
  PROVE  o # None /\ o.cand \in Candidate /\ o.seen \in [Conds -> Nat]
<1>1. o # None
  <2>1. DOMAIN o = {"cand", "seen"}
    BY DEF Offers
  <2>2. DOMAIN None = {"none"}
    BY DEF None
  <2> QED BY <2>1, <2>2
<1> QED BY <1>1 DEF Offers

\* The columns of the turn.
LEMMA TurnColumns ==
  ASSUME NEW t \in TurnRows
  PROVE  /\ t.pc \in {"idle", "received", "planned", "refused", "done"} /\ t.kind \in Kinds
         /\ t.patches \in Seq(Candidate) /\ t.ack \in Contexts /\ t.ref \in References
         /\ t.drafts \in SUBSET Ids /\ t.selected \in SUBSET Ids
         /\ t.command \in {"QUERY", "SUBMIT", "CONFIRM", "WITHDRAW", "CLOSE"} /\ t.open \in BOOLEAN
         /\ t.snap \in Evidence \cup {None} /\ t.rows \in [Ids -> Draft \cup {None}] \cup {None}
         /\ t.card \in BOOLEAN
BY DEF TurnRows

\* A turn is one again when its transaction ends, and keeps what the next node reads.
LEMMA EndedRow ==
  ASSUME turn \in TurnRows, NEW pc \in {"idle", "received", "planned", "refused", "done"}
  PROVE  /\ Ended(pc) \in TurnRows
         /\ Ended(pc).pc = pc /\ Ended(pc).open = FALSE /\ Ended(pc).snap = None /\ Ended(pc).kind = turn.kind
         /\ Ended(pc).patches = turn.patches /\ Ended(pc).ack = turn.ack /\ Ended(pc).ref = turn.ref
         /\ Ended(pc).drafts = turn.drafts /\ Ended(pc).selected = turn.selected
         /\ Ended(pc).command = turn.command
BY DEF Ended, TurnRows

\* Candidates, contexts and references that are empty are ones.
LEMMA EmptyRows ==
  /\ Blank \in Candidate /\ NoRef \in References /\ NoContext \in Contexts /\ Idle \in TurnRows
  /\ NoContext.refs = {} /\ Idle.ack = NoContext /\ Idle.ref = NoRef /\ Idle.drafts = {}
  /\ Idle.selected = {} /\ Idle.command = "QUERY" /\ Idle.open = FALSE /\ Idle.pc = "idle" /\ Idle.snap = None
<1>1. Blank \in Candidate
  BY DEF Blank, Candidate
<1>2. NoRef \in References
  BY <1>1 DEF NoRef, References
<1>3. NoContext \in Contexts /\ NoContext.refs = {}
  BY DEF NoContext, Context, Contexts
<1>4. Idle \in TurnRows
  <2>1. <<>> \in Seq(Candidate)
    BY EmptySeq
  <2> QED BY <1>2, <1>3, <2>1 DEF Idle, TurnRows, Kinds
<1> QED BY <1>1, <1>2, <1>3, <1>4 DEF Idle

\* Two candidates together are one, and neither loses a condition or a promise by it.
LEMMA MergeKeeps ==
  ASSUME NEW b \in Candidate, NEW c \in Candidate
  PROVE  /\ Merge(b, c) \in Candidate
         /\ b.conds \subseteq Merge(b, c).conds /\ b.promises \subseteq Merge(b, c).promises
BY DEF Merge, Candidate

\* A draft rechecked keeps its candidate and its version, whoever wrote to it meanwhile.
LEMMA RecheckedRow ==
  ASSUME NEW row \in Draft, NEW cur \in Draft, NEW status \in Status, NEW n \in 0 .. Edits,
         NEW item \in Items
  PROVE  LET new == Rechecked(row, cur, status, item, n) IN
         /\ new \in Draft /\ new.cand = cur.cand /\ new.version = cur.version
         /\ new.notified = Written(row.notified, n, cur.notified)
<1>1. PICK s : s = Written(row.status, status, cur.status)
  OBVIOUS
<1>2. PICK i : i = Written(row.item, item, cur.item)
  OBVIOUS
<1>3. PICK m : m = Written(row.notified, n, cur.notified)
  OBVIOUS
<1>4. s \in Status /\ i \in {"NONE", "OPEN", "READY", "STALE"} /\ m \in 0 .. Edits
  BY <1>1, <1>2, <1>3, DraftColumns DEF Written, Items
<1>5. PICK a : a = [cur EXCEPT !.status = s]
  OBVIOUS
<1>6. PICK b : b = [a EXCEPT !.item = i]
  OBVIOUS
<1>7. PICK c : c = [b EXCEPT !.notified = m]
  OBVIOUS
<1>8. a \in Draft /\ a.cand = cur.cand /\ a.version = cur.version
  BY <1>4, <1>5, DraftStatus
<1>9. b \in Draft /\ b.cand = cur.cand /\ b.version = cur.version
  BY <1>4, <1>6, <1>8, DraftItem
<1>10. c \in Draft /\ c.cand = cur.cand /\ c.version = cur.version /\ c.notified = m
  BY <1>4, <1>7, <1>9, DraftNotified
<1>11. Rechecked(row, cur, status, item, n) = c
  BY <1>1, <1>2, <1>3, <1>5, <1>6, <1>7 DEF Rechecked
<1> QED BY <1>3, <1>10, <1>11

\* A draft planned has the candidate and the version of the plan, and is notified as before.
LEMMA StoredRow ==
  ASSUME NEW was \in Draft, NEW plan \in Draft, NEW now \in Draft
  PROVE  LET stored == Stored(was, plan, now) IN
         /\ stored \in Draft /\ stored.cand = plan.cand /\ stored.version = plan.version
         /\ stored.notified = now.notified
<1>1. PICK a : a = [now EXCEPT !.cand = plan.cand]
  OBVIOUS
<1>2. PICK b : b = [a EXCEPT !.version = plan.version]
  OBVIOUS
<1>3. plan.cand \in Candidate /\ plan.version \in Nat \ {0} /\ plan.status \in Status
      /\ plan.item \in {"NONE", "OPEN", "READY", "STALE"} /\ was.notified \in 0 .. Edits /\ was # None
  BY DraftColumns
<1>4. a \in Draft /\ a.cand = plan.cand /\ a.notified = now.notified
  BY <1>1, <1>3, DraftCand
<1>5. b \in Draft /\ b.cand = plan.cand /\ b.version = plan.version /\ b.notified = now.notified
  BY <1>2, <1>3, <1>4, DraftVersion
<1>6. Stored(was, plan, now) = Rechecked(was, b, plan.status, plan.item, was.notified)
  BY <1>1, <1>2, <1>3 DEF Stored
<1>7. PICK s : s = plan.status
  OBVIOUS
<1>8. PICK i : i = plan.item
  OBVIOUS
<1>9. PICK n : n = was.notified
  OBVIOUS
<1>10. s \in Status /\ i \in Items /\ n \in 0 .. Edits /\ was \in Draft /\ b \in Draft
  BY <1>3, <1>5, <1>7, <1>8, <1>9 DEF Items
<1>11. LET x == Rechecked(was, b, s, i, n) IN
       /\ x \in Draft /\ x.cand = b.cand /\ x.version = b.version
       /\ x.notified = Written(was.notified, n, b.notified)
  BY <1>10, RecheckedRow, Zenon
<1>12. Written(was.notified, n, b.notified) = b.notified
  BY <1>9 DEF Written
<1>13. Stored(was, plan, now) = Rechecked(was, b, s, i, n)
  BY <1>6, <1>7, <1>8, <1>9
<1> QED BY <1>5, <1>11, <1>12, <1>13

-----------------------------------------------------------------------------
(* The plan of a message                                                   *)

\* A set of two has two elements.
LEMMA TwoElements ==
  ASSUME NEW S, IsFiniteSet(S), Cardinality(S) >= 2
  PROVE  \E i, j \in S : i # j
<1>1. S # {}
  BY FS_EmptySet
<1>2. PICK i \in S : TRUE
  BY <1>1
<1>3. Cardinality({i}) = 1
  BY FS_Singleton
<1>4. S # {i}
  BY <1>3
<1> QED BY <1>2, <1>4

\* The identifier of a new draft is a free one.
LEMMA FreeId ==
  ASSUME DraftConstants, NEW f, \E e \in Ids : f[e] = None
  PROVE  LET id == CHOOSE d \in Ids : f[d] = None /\ \A e \in Ids : e < d => f[e] # None
         IN  id \in Ids /\ f[id] = None
<1> DEFINE T == {e \in Ids : f[e] = None}
<1>1. T \subseteq Nat /\ T # {}
  BY DEF DraftConstants
<1>2. PICK x \in T : \A y \in T : <<y, x>> \notin OpToRel(<, Nat)
  BY <1>1, NatLessThanWellFounded, WFMin
<1>3. \A y \in T : ~(y < x)
  BY <1>1, <1>2 DEF OpToRel
<1>4. x \in Ids /\ f[x] = None /\ \A e \in Ids : e < x => f[e] # None
  BY <1>3
<1> QED BY <1>4

\* What planning one candidate does to the drafts f: one row is new, or the one the message
\* refers to goes on by a version and keeps its conditions and promises.
Grows(f, g) ==
  \A d \in Ids :
    /\ f[d] # None => g[d] # None
    /\ f[d] # None /\ g[d] # f[d] =>
         /\ turn.ref # NoRef /\ turn.ref.id = d /\ turn.ref.version = f[d].version
         /\ g[d].version = f[d].version + 1 /\ g[d].notified = f[d].notified
         /\ f[d].cand.conds \subseteq g[d].cand.conds /\ f[d].cand.promises \subseteq g[d].cand.promises
    /\ f[d] = None /\ g[d] # None => g[d].notified = 0
Changes(f, g) == \E k \in Ids : \A d \in Ids : g[d] # f[d] => d = k

\* A draft as assessed is one.
LEMMA AssessedTyped ==
  ASSUME NEW d \in Draft, NEW unresolved
  PROVE  /\ Assessed(d, unresolved) \in Draft /\ Assessed(d, unresolved).cand = d.cand
         /\ Assessed(d, unresolved).version = d.version /\ Assessed(d, unresolved).notified = d.notified
<1>1. PICK s : s = IF Complete(d.cand, turn.snap) /\ ~unresolved THEN "READY" ELSE "PENDING"
  OBVIOUS
<1>2. PICK i : i = IF Unmet(d.cand, turn.snap) # {} THEN "OPEN" ELSE d.item
  OBVIOUS
<1>3. PICK e : e = [d EXCEPT !.status = s]
  OBVIOUS
<1>4. Assessed(d, unresolved) = [e EXCEPT !.item = i]
  BY <1>1, <1>2, <1>3 DEF Assessed
<1>5. s \in Status
  BY <1>1 DEF Status
<1>6. e \in Draft /\ e.cand = d.cand /\ e.version = d.version /\ e.item = d.item /\ e.notified = d.notified
  BY <1>3, <1>5, DraftStatus
<1>7. i \in {"NONE", "OPEN", "READY", "STALE"}
  BY <1>2, DraftColumns
<1>8. PICK b : b = [e EXCEPT !.item = i]
  OBVIOUS
<1>9. b \in Draft /\ b.cand = e.cand /\ b.version = e.version /\ b.notified = e.notified
  BY <1>6, <1>7, <1>8, DraftItem
<1> QED BY <1>4, <1>6, <1>8, <1>9

\* semantic/service.py plan_turn, for one candidate.
LEMMA PutGrows ==
  ASSUME DraftConstants, turn \in TurnRows, session.version \in Nat, offer \in Offers \cup {None},
         NEW acc, acc.drafts \in [Ids -> Draft \cup {None}],
         acc.made \subseteq Ids, \A d \in acc.made : acc.drafts[d] # None,
         \E e \in Ids : acc.drafts[e] = None,
         turn.ref # NoRef => turn.ref.id \in Ids,
         NEW patch \in Candidate, NEW unresolved
  PROVE  LET new == Put(acc, patch, unresolved) IN
         /\ new.drafts \in [Ids -> Draft \cup {None}]
         /\ new.made \subseteq Ids /\ \A d \in new.made : new.drafts[d] # None
         /\ Grows(acc.drafts, new.drafts) /\ Changes(acc.drafts, new.drafts)
<1> DEFINE f == acc.drafts
           bound == Bound(acc.drafts)
           continues == /\ bound # 0
                        /\ turn.kind \in {"PROVIDE_INFO", "CHANGE_TERMS"} \/ Amount \notin patch.fields
           original == IF continues THEN acc.drafts[bound].cand
                       ELSE IF turn.kind = "CHANGE_TERMS" /\ Frozen /\ turn.ack.offer /\ offer # None
                            THEN offer.cand ELSE Blank
           cand == Merge(original, patch)
           id == IF continues THEN bound
                 ELSE CHOOSE d \in Ids : acc.drafts[d] = None /\ \A e \in Ids : e < d => acc.drafts[e] # None
           row == IF continues THEN [acc.drafts[bound] EXCEPT !.cand = cand, !.version = @ + 1]
                  ELSE NewDraft(cand)
           new == Put(acc, patch, unresolved)
<1>1. new = IF original = Blank /\ Amount \notin patch.fields
            THEN acc
            ELSE [drafts |-> [acc.drafts EXCEPT ![id] = Assessed(row, unresolved)],
                  made |-> acc.made \cup {id}]
  BY DEF Put
<1>2. bound # 0 =>
        /\ bound = turn.ref.id /\ turn.ref # NoRef /\ bound \in Ids /\ f[bound] # None
        /\ f[bound].version = turn.ref.version
  BY DEF Bound, Usable
<1>3. f[bound] \in Draft \/ bound = 0
  BY <1>2
<1>4. original \in Candidate
  BY <1>2, <1>3, DraftColumns, OfferColumns, EmptyRows
<1>5. id \in Ids /\ (~continues => f[id] = None)
  BY <1>2, FreeId
<1> HIDE DEF original, id, bound
<1>6. cand \in Candidate /\ original.conds \subseteq cand.conds /\ original.promises \subseteq cand.promises
  BY <1>4, MergeKeeps
<1> HIDE DEF cand
<1>7. row \in Draft /\ (continues => row.version = f[bound].version + 1 /\ row.notified = f[bound].notified)
      /\ row.cand = cand /\ (~continues => row.notified = 0)
  <2>1. CASE continues
    <3>1. f[bound] \in Draft
      BY <1>3, <2>1
    <3>2. PICK v : v = f[bound].version + 1
      OBVIOUS
    <3>3. PICK e : e = [f[bound] EXCEPT !.cand = cand]
      OBVIOUS
    <3>4. row = [e EXCEPT !.version = v]
      BY <2>1, <3>2, <3>3
    <3>5. v \in Nat \ {0}
      BY <3>1, <3>2, DraftColumns
    <3>6. e \in Draft /\ e.cand = cand /\ e.notified = f[bound].notified
      BY <1>6, <3>1, <3>3, DraftCand
    <3> HIDE DEF row
    <3> QED BY <2>1, <3>2, <3>4, <3>5, <3>6, DraftVersion
  <2>2. CASE ~continues
    <3>1. row = NewDraft(cand)
      BY <2>2
    <3> HIDE DEF row, continues
    <3> QED BY <1>6, <2>2, <3>1 DEF NewDraft, Draft, Status, DraftConstants
  <2> QED BY <2>1, <2>2
<1>8. continues => original = f[bound].cand /\ id = bound
  BY DEF original, id
<1>9. continues => bound # 0
  OBVIOUS
<1> HIDE DEF row, continues
<1>10. PICK a : a = Assessed(row, unresolved)
  OBVIOUS
<1>11. /\ a \in Draft /\ a.cand = cand /\ a.version = row.version /\ a.notified = row.notified /\ a # None
  BY <1>7, <1>10, AssessedTyped, DraftColumns
<1>12. CASE new = acc
  <2>1. Grows(f, f)
    BY DEF Grows
  <2>2. Changes(f, f)
    BY DEF Changes
  <2> QED BY <1>12, <2>1, <2>2
<1>13. CASE new # acc
  <2>1. new = [drafts |-> [f EXCEPT ![id] = a], made |-> acc.made \cup {id}]
    BY <1>1, <1>10, <1>13
  <2>2. PICK g : g = [f EXCEPT ![id] = a]
    OBVIOUS
  <2>3. new.drafts = g /\ new.made = acc.made \cup {id}
    BY <2>1, <2>2
  <2>4. g \in [Ids -> Draft \cup {None}] /\ g[id] = a /\ \A d \in Ids \ {id} : g[d] = f[d]
    BY <1>5, <1>11, <2>2
  <2> HIDE DEF f, new
  <2>5. Changes(f, g)
    BY <1>5, <2>4 DEF Changes
  <2>6. Grows(f, g)
    BY <1>2, <1>5, <1>6, <1>7, <1>8, <1>9, <1>11, <2>4 DEF Grows
  <2>7. new.made \subseteq Ids /\ \A d \in new.made : g[d] # None
    BY <1>5, <1>11, <2>3, <2>4 DEF f
  <2> QED BY <2>3, <2>4, <2>5, <2>6, <2>7 DEF f, new
<1> QED BY <1>12, <1>13

-----------------------------------------------------------------------------
(* What a step does to the drafts and to what refers to them               *)

\* A draft stays, keeps its conditions and promises, and goes on by a version only for the
\* message that refers to it as it is.
KeptRow(d) ==
  draft[d] # None =>
    /\ draft'[d] # None
    /\ draft[d].cand.conds \subseteq draft'[d].cand.conds
    /\ draft[d].cand.promises \subseteq draft'[d].cand.promises
    /\ \/ draft'[d].version = draft[d].version /\ draft'[d].cand = draft[d].cand
       \/ /\ draft'[d].version = draft[d].version + 1
          /\ turn.ref # NoRef /\ turn.ref.id = d /\ turn.ref.version = draft[d].version
DraftsKept ==
  /\ draft' \in [Ids -> Draft \cup {None}]
  /\ \A d \in Ids : KeptRow(d)
  /\ \A d \in Ids : draft'[d] # None => draft'[d].notified <= product

\* Drafts that are left alone are kept.
LEMMA DraftsRest == ASSUME DInv, UNCHANGED draft PROVE DraftsKept
BY DEF DInv, Typed, Notified, DraftsKept, KeptRow

\* What refers to a kept draft refers to it still.
LEMMA RefersStill ==
  ASSUME Typed, DraftsKept, NEW r, r.version \in Nat, RefersTo(r)
  PROVE  RefersTo(r)'
<1>1. r.id \in Ids /\ draft[r.id] # None /\ KeptRow(r.id)
  BY DEF RefersTo, DraftsKept
<1>2. draft[r.id] \in Draft
  BY <1>1 DEF Typed
<1>3. draft[r.id].version \in Nat
  BY <1>2, DraftColumns
<1> QED BY <1>1, <1>3 DEF RefersTo, KeptRow

\* The context shown is refused or refers to drafts, whatever becomes of them.
LEMMA ShownStill ==
  ASSUME Typed, Referring, DraftsKept
  PROVE  /\ \A c \in shown : \A r \in c.refs : RefersTo(r)'
         /\ \A r \in turn.ack.refs : RefersTo(r)'
         /\ \A r : r = turn.ref /\ r # NoRef => RefersTo(r)'
         /\ \A d \in turn.drafts : draft'[d] # None
<1>1. \A c \in shown : c.refs \subseteq References
  BY DEF Typed, Contexts
<1>2. turn.ack.refs \subseteq References /\ turn.ref \in References /\ turn.drafts \subseteq Ids
  BY TurnColumns DEF Typed, Contexts
<1>3. \A r \in References : r.version \in Nat
  BY DEF References
<1>4. \A d \in turn.drafts : draft'[d] # None
  BY <1>2 DEF Referring, DraftsKept, KeptRow
<1>5. \A c \in shown : \A r \in c.refs : RefersTo(r)'
  BY <1>1, <1>3, RefersStill DEF Referring
<1>6. \A r \in turn.ack.refs : RefersTo(r)'
  BY <1>2, <1>3, RefersStill DEF Referring
<1>7. \A r : r = turn.ref /\ r # NoRef => RefersTo(r)'
  BY <1>2, <1>3, RefersStill DEF Referring
<1> QED BY <1>4, <1>5, <1>6, <1>7

\* What the requests hold of the drafts s still stands.
HoldsRow(q) ==
  /\ \A d \in q.todo : draft[d] # None
  /\ q.at # None =>
       /\ draft[q.at.id] # None
       /\ q.at.row.version <= draft[q.at.id].version
       /\ q.at.row.version = draft[q.at.id].version => q.at.row.cand = draft[q.at.id].cand
\* It does while the drafts are kept.
LEMMA RequestsHold ==
  ASSUME Typed, DraftsKept, NEW q \in RequestRows, HoldsRow(q)
  PROVE  HoldsRow(q)'
<1>1. q.todo \subseteq Ids /\ q.at \in Taken \cup {None}
  BY DEF RequestRows
<1>2. \A d \in q.todo : draft'[d] # None
  BY <1>1 DEF HoldsRow, DraftsKept, KeptRow
<1>3. ASSUME q.at # None
      PROVE  /\ draft'[q.at.id] # None
             /\ q.at.row.version <= draft'[q.at.id].version
             /\ q.at.row.version = draft'[q.at.id].version => q.at.row.cand = draft'[q.at.id].cand
  <2>1. q.at.id \in Ids /\ q.at.row \in Draft
    BY <1>1, <1>3 DEF Taken
  <2>2. draft[q.at.id] # None /\ KeptRow(q.at.id) /\ draft[q.at.id] \in Draft
    BY <1>3, <2>1 DEF HoldsRow, DraftsKept, Typed
  <2>3. draft[q.at.id].version \in Nat /\ q.at.row.version \in Nat
    BY <2>1, <2>2, DraftColumns
  <2> QED BY <1>3, <2>2, <2>3 DEF HoldsRow, KeptRow
<1> QED BY <1>2, <1>3 DEF HoldsRow

\* What a request holds, by the invariant.
LEMMA RequestsHeld == ASSUME DInv, NEW s \in Servers PROVE HoldsRow(request[s]) /\ request[s] \in RequestRows
BY DEF DInv, Typed, Referring, HoldsRow

-----------------------------------------------------------------------------
(* Steps of the buyer's turn                                               *)

\* What the turn becomes: it reads the evidence there is, refers to what is shown or to
\* what it referred to, and chooses among the drafts it made.
TurnGoes ==
  /\ turn' \in TurnRows
  /\ turn'.snap # None => turn'.snap \in Evidence /\ Agrees(turn'.snap)
  /\ turn'.ack = turn.ack \/ turn'.ack.refs = {} \/ turn'.ack \in shown
  /\ turn'.ref = turn.ref \/ turn'.ref = NoRef \/ \E c \in shown : turn'.ref \in c.refs
  /\ \A d \in turn'.drafts : draft'[d] # None
  /\ turn'.selected \subseteq turn'.drafts
  /\ turn'.command = "SUBMIT" => turn'.selected # {}

\* What the business becomes: the offer is withdrawn, left alone or made on evidence, and
\* the cards shown are old ones or refer to the drafts as they are.
BusinessGoes ==
  /\ session' \in [status : {"ACTIVE", "AGREED", "CLOSED"}, version : Nat]
  /\ offer' \in {offer, None} \/
       /\ offer' \in Offers /\ Fields \subseteq offer'.cand.fields /\ offer'.cand.promises = {}
       /\ \A x \in offer'.cand.conds :
            /\ offer'.seen[x] <= product
            /\ facts[x].version = offer'.seen[x] => facts[x].value = "SATISFIED"
  /\ shown' \subseteq Contexts
  /\ \A c \in shown' : c \in shown \/ \A r \in c.refs : RefersTo(r)'

\* Such a step keeps the invariant.
LEMMA TurnMoves ==
  ASSUME DInv, TurnGoes, BusinessGoes, DraftsKept, Room', Held',
         UNCHANGED <<facts, product, request, notices>>
  PROVE  DInv'
<1>1. Typed'
  BY DEF DInv, Typed, TurnGoes, BusinessGoes, DraftsKept
<1>2. Grounded'
  BY DEF DInv, Grounded, TurnGoes, BusinessGoes, Agrees
<1>3. Referring'
  <2>1. /\ \A c \in shown : \A r \in c.refs : RefersTo(r)'
        /\ \A r \in turn.ack.refs : RefersTo(r)'
        /\ \A r : r = turn.ref /\ r # NoRef => RefersTo(r)'
    BY ShownStill DEF DInv
  <2>2. \A c \in shown' : \A r \in c.refs : RefersTo(r)'
    BY <2>1 DEF BusinessGoes
  <2>3. \A r \in turn'.ack.refs : RefersTo(r)'
    BY <2>1 DEF TurnGoes
  <2>4. \A r : r = turn'.ref /\ r # NoRef => RefersTo(r)'
    <3> SUFFICES ASSUME NEW r, r = turn'.ref, r # NoRef PROVE RefersTo(r)'
      OBVIOUS
    <3>1. r = turn.ref \/ \E c \in shown : r \in c.refs
      BY DEF TurnGoes
    <3>2. CASE r = turn.ref
      BY <2>1, <3>2
    <3> QED BY <2>1, <3>1, <3>2
  <2>5. \A s \in Servers : HoldsRow(request[s])'
    <3> SUFFICES ASSUME NEW s \in Servers PROVE HoldsRow(request[s])'
      OBVIOUS
    <3>1. HoldsRow(request[s]) /\ request[s] \in RequestRows
      BY RequestsHeld
    <3>2. PICK q : q = request[s]
      OBVIOUS
    <3>3. HoldsRow(q)'
      BY <3>1, <3>2, RequestsHold DEF DInv
    <3>4. request'[s] = q
      BY <3>2
    <3> QED BY <3>3, <3>4 DEF HoldsRow
  <2>6. \A d \in turn'.drafts : draft'[d] # None
    BY DEF TurnGoes
  <2> QED BY <2>2, <2>3, <2>4, <2>5, <2>6 DEF Referring, HoldsRow, RefersTo
<1>4. Choosing'
  BY DEF TurnGoes, Choosing
<1>5. Notified'
  BY DEF DraftsKept, Notified
<1> QED BY <1>1, <1>2, <1>3, <1>4, <1>5 DEF DInv

\* The business may rest.
LEMMA BusinessRests == ASSUME DInv, UNCHANGED <<session, offer, shown>> PROVE BusinessGoes
BY DEF DInv, Typed, BusinessGoes

\* A turn that waits for no plan needs no room.
LEMMA NoRoom == ASSUME turn'.pc # "received" PROVE Room'
BY DEF Room

\* A turn without a transaction has loaded nothing.
LEMMA NoneHeld == ASSUME turn'.snap = None, turn'.open = FALSE PROVE Held'
BY DEF Held

\* What a transaction loaded stays what it loaded while the drafts rest.
LEMMA HeldRests ==
  ASSUME Held, UNCHANGED draft, turn'.snap = turn.snap, turn'.rows = turn.rows,
         turn'.open => turn'.snap # None
  PROVE  Held'
BY DEF Held, Loaded

\* The cards of earlier versions refer to nothing.
LEMMA AgedWell == Aged \subseteq Contexts /\ \A c \in Aged : c.refs = {}
<1>1. PICK c : c = Context(0, TRUE, {})
  OBVIOUS
<1>2. c \in Contexts /\ c.refs = {}
  BY <1>1 DEF Context, Contexts
<1>3. Earlier = [c EXCEPT !.acked = TRUE]
  BY <1>1 DEF Earlier
<1>4. Earlier \in Contexts /\ Earlier.refs = {}
  BY <1>2, <1>3 DEF Contexts
<1> QED BY <1>4 DEF Aged

\* One candidate or two with an offer or a change, one with an answer.
LEMMA CarriedOffers ==
  ASSUME NEW kind \in Offering, NEW patches \in Carried(kind)
  PROVE  (\E p \in Patches : patches = <<p>>) \/ \E p, q \in Patches : patches = <<p, q>>
<1>1. patches \in Proposals
  BY DEF Carried
<1> QED BY <1>1 DEF Proposals

\* An input carries candidates, as many as its kind says.
LEMMA CarriedWell ==
  ASSUME DraftConstants, NEW kind, NEW patches \in Carried(kind)
  PROVE  /\ patches \in Seq(Candidate)
         /\ kind \in Offering => Len(patches) \in {1, 2}
         /\ kind = "PROVIDE_INFO" => Len(patches) = 1
<1>1. Patches \cup {Blank} \subseteq Candidate
  BY EmptyRows DEF DraftConstants
<1>2. CASE kind \in Offering
  <2>1. CASE \E p \in Patches : patches = <<p>>
    BY <1>1, <1>2, <2>1 DEF Offering
  <2>2. CASE \E p, q \in Patches : patches = <<p, q>>
    BY <1>1, <1>2, <2>2 DEF Offering
  <2> QED BY <1>2, <2>1, <2>2, CarriedOffers
<1>3. CASE kind = "PROVIDE_INFO"
  <2>1. \E p \in Patches \cup {Blank} : patches = <<p>>
    BY <1>3 DEF Carried, Offering
  <2> QED BY <1>1, <1>3, <2>1 DEF Offering
<1>4. CASE kind \notin Offering /\ kind # "PROVIDE_INFO"
  <2>1. patches = <<>>
    BY <1>4 DEF Carried
  <2> QED BY <1>4, <2>1, EmptySeq
<1> QED BY <1>2, <1>3, <1>4

\* A message arrives.
LEMMA ReceiveKeeps == ASSUME DraftConstants, DInv, Receive PROVE DInv' /\ DraftsKept
<1> DEFINE Arrives(kind, patches, ack, ref) ==
             turn' = [Idle EXCEPT !.pc = "received", !.kind = kind, !.patches = patches,
                                  !.ack = ack, !.ref = ref]
<1>a. PICK kind \in {"PROPOSE_OFFER", "CHANGE_TERMS", "PROVIDE_INFO", "CONFIRM_INTENT",
                     "WITHDRAW_OFFER", "CLOSE_SESSION"} :
        \E patches \in Carried(kind) : \E ack \in {NoContext} \cup {c \in shown : c.acked} :
        \E ref \in {NoRef} \cup ack.refs : Arrives(kind, patches, ack, ref)
  BY DEF Receive
<1>b. PICK patches \in Carried(kind), ack \in {NoContext} \cup {c \in shown : c.acked} :
        \E ref \in {NoRef} \cup ack.refs : Arrives(kind, patches, ack, ref)
  BY <1>a
<1>1. PICK ref \in {NoRef} \cup ack.refs : Arrives(kind, patches, ack, ref)
  BY <1>b
<1>2. UNCHANGED <<facts, product, session, offer, draft, shown, notices, request>>
  BY DEF Receive
<1>3. patches \in Seq(Candidate) /\ (kind \in Offering => Len(patches) \in {1, 2})
      /\ (kind = "PROVIDE_INFO" => Len(patches) = 1)
  BY <1>b, CarriedWell
<1>4. ack \in Contexts /\ ref \in References /\ (ack = NoContext \/ ack \in shown)
      /\ (ref = NoRef \/ (ack \in shown /\ ref \in ack.refs))
  <2>1. ack \in Contexts /\ (ack = NoContext \/ ack \in shown)
    BY EmptyRows DEF DInv, Typed
  <2>2. ref = NoRef \/ (ref \in ack.refs /\ ack \in shown)
    BY <2>1, EmptyRows
  <2> QED BY <2>1, <2>2, EmptyRows DEF Contexts
<1>5. kind \in Kinds
  BY DEF Kinds
<1>6. /\ turn' \in TurnRows /\ turn'.pc = "received" /\ turn'.kind = kind /\ turn'.patches = patches
      /\ turn'.ack = ack /\ turn'.ref = ref /\ turn'.drafts = {} /\ turn'.selected = {}
      /\ turn'.command = "QUERY" /\ turn'.open = FALSE /\ turn'.snap = None
  <2>1. PICK t : t = Idle
    OBVIOUS
  <2>2. t \in TurnRows /\ t.drafts = {} /\ t.selected = {} /\ t.command = "QUERY" /\ t.open = FALSE
        /\ t.snap = None
    BY <2>1, EmptyRows
  <2>3. turn' = [t EXCEPT !.pc = "received", !.kind = kind, !.patches = patches, !.ack = ack, !.ref = ref]
    BY <1>1, <2>1
  <2> QED BY <1>3, <1>4, <1>5, <2>2, <2>3 DEF TurnRows
<1>7. TurnGoes
  BY <1>4, <1>6, EmptyRows DEF TurnGoes
<1>8. Room'
  <2>1. \E i, j \in {d \in Ids : draft[d] = None} : i # j
    <3>1. IsFiniteSet({d \in Ids : draft[d] = None})
      BY FS_Subset DEF DraftConstants
    <3> QED BY <3>1, TwoElements DEF Receive
  <2> QED BY <1>2, <1>3, <1>6, <2>1 DEF Room
<1>9. Held'
  BY <1>6, NoneHeld
<1> QED BY <1>2, <1>7, <1>8, <1>9, DraftsRest, BusinessRests, TurnMoves

\* A card is acknowledged: it refers to what it referred to.
LEMMA DisplayKeeps == ASSUME DInv, NEW c \in shown, Display(c) PROVE DInv' /\ DraftsKept
<1>1. shown' = (shown \ {c}) \cup {[c EXCEPT !.acked = TRUE]}
      /\ UNCHANGED <<facts, product, session, offer, draft, notices, turn, request>>
  BY DEF Display
<1>2. PICK e : e = [c EXCEPT !.acked = TRUE]
  OBVIOUS
<1>3. c \in Contexts /\ shown \subseteq Contexts
  BY DEF DInv, Typed
<1>4. e \in Contexts /\ e.refs = c.refs
  BY <1>2, <1>3 DEF Contexts
<1>5. \A ref \in e.refs : RefersTo(ref)
  BY <1>4 DEF DInv, Referring
<1>6. \A ref \in e.refs : RefersTo(ref)'
  BY <1>1, <1>5 DEF RefersTo
<1>7. shown' \subseteq Contexts /\ \A x \in shown' : x \in shown \/ \A ref \in x.refs : RefersTo(ref)'
  BY <1>1, <1>2, <1>3, <1>4, <1>6
<1>8. BusinessGoes
  BY <1>1, <1>7 DEF BusinessGoes, DInv, Typed
<1>9. TurnGoes
  BY <1>1 DEF TurnGoes, DInv, Typed, Grounded, Agrees, Choosing, Referring
<1>10. Room' /\ Held'
  BY <1>1, HeldRests DEF DInv, Room, Held
<1> QED BY <1>1, <1>8, <1>9, <1>10, DraftsRest, TurnMoves

\* A transaction begins: it reads facts and drafts as they are.
LEMMA BeginKeeps == ASSUME DInv, Begin PROVE DInv' /\ DraftsKept
<1>1. UNCHANGED <<facts, product, session, offer, draft, shown, notices, request>>
      /\ turn' = [turn EXCEPT !.snap = facts, !.rows = draft] /\ turn.snap = None
  BY DEF Begin
<1>2. turn \in TurnRows /\ facts \in Evidence /\ draft \in [Ids -> Draft \cup {None}]
  BY DEF DInv, Typed
<1>3. /\ turn' \in TurnRows /\ turn'.pc = turn.pc /\ turn'.kind = turn.kind /\ turn'.patches = turn.patches
      /\ turn'.ack = turn.ack /\ turn'.ref = turn.ref /\ turn'.drafts = turn.drafts
      /\ turn'.selected = turn.selected /\ turn'.command = turn.command /\ turn'.open = turn.open
      /\ turn'.snap = facts /\ turn'.rows = draft
  BY <1>1, <1>2 DEF TurnRows
<1>4. Agrees(facts)
  BY DEF DInv, Grounded, Agrees
<1>5. TurnGoes
  BY <1>1, <1>2, <1>3, <1>4 DEF TurnGoes, DInv, Choosing, Referring
<1>6. Room'
  BY <1>1, <1>3 DEF DInv, Room
<1>7. Held'
  <2>1. ~turn.open
    BY <1>1 DEF DInv, Held
  <2>2. \A d \in Ids : Loaded(draft[d], d)
    BY DEF Loaded
  <2>3. \A d \in Ids : Loaded(turn.rows[d], d)'
    BY <1>1, <1>3, <2>2 DEF Loaded
  <2> QED BY <1>2, <1>3, <2>1, <2>3 DEF Held
<1> QED BY <1>1, <1>5, <1>6, <1>7, DraftsRest, BusinessRests, TurnMoves

\* It gets the session.
LEMMA LockKeeps == ASSUME DInv, Lock PROVE DInv' /\ DraftsKept
<1>1. UNCHANGED <<facts, product, session, offer, draft, shown, notices, request>>
      /\ turn' = [turn EXCEPT !.open = TRUE] /\ turn.snap # None
  BY DEF Lock
<1>2. turn \in TurnRows
  BY DEF DInv, Typed
<1>3. /\ turn' \in TurnRows /\ turn'.pc = turn.pc /\ turn'.kind = turn.kind /\ turn'.patches = turn.patches
      /\ turn'.ack = turn.ack /\ turn'.ref = turn.ref /\ turn'.drafts = turn.drafts
      /\ turn'.selected = turn.selected /\ turn'.command = turn.command
      /\ turn'.snap = turn.snap /\ turn'.rows = turn.rows
  BY <1>1, <1>2 DEF TurnRows
<1>4. TurnGoes
  BY <1>1, <1>2, <1>3 DEF TurnGoes, DInv, Grounded, Choosing, Referring
<1>5. Room'
  BY <1>1, <1>3 DEF DInv, Room
<1>6. Held'
  BY <1>1, <1>3, HeldRests DEF DInv
<1> QED BY <1>1, <1>4, <1>5, <1>6, DraftsRest, BusinessRests, TurnMoves

\* A transaction ends with the rows it leaves: refused, rolled back or committed.
LEMMA EndKeeps ==
  ASSUME DInv, NEW pc \in {"received", "planned", "refused", "done"}, turn' = Ended(pc),
         pc = "received" => turn.pc = "received" /\ UNCHANGED draft,
         BusinessGoes, DraftsKept, UNCHANGED <<facts, product, request, notices>>
  PROVE  DInv'
<1>1. turn \in TurnRows
  BY DEF DInv, Typed
<1>2. /\ turn' \in TurnRows /\ turn'.pc = pc /\ turn'.open = FALSE /\ turn'.snap = None /\ turn'.kind = turn.kind
      /\ turn'.patches = turn.patches /\ turn'.ack = turn.ack /\ turn'.ref = turn.ref
      /\ turn'.drafts = turn.drafts /\ turn'.selected = turn.selected /\ turn'.command = turn.command
  BY <1>1, EndedRow
<1>3. \A d \in turn.drafts : draft'[d] # None
  BY ShownStill DEF DInv
<1>4. TurnGoes
  BY <1>2, <1>3 DEF TurnGoes, DInv, Choosing
<1>5. Room' /\ Held'
  BY <1>2, NoneHeld DEF DInv, Room
<1> QED BY <1>4, <1>5, TurnMoves

\* The same with a card to show.
LEMMA EndCardKeeps ==
  ASSUME DInv, NEW card \in BOOLEAN, turn' = [Ended("done") EXCEPT !.card = card],
         BusinessGoes, DraftsKept, UNCHANGED <<facts, product, request, notices>>
  PROVE  DInv'
<1>1. turn \in TurnRows
  BY DEF DInv, Typed
<1>2. PICK t : t = Ended("done")
  OBVIOUS
<1>3. /\ t \in TurnRows /\ t.pc = "done" /\ t.open = FALSE /\ t.snap = None /\ t.ack = turn.ack /\ t.ref = turn.ref
      /\ t.drafts = turn.drafts /\ t.selected = turn.selected /\ t.command = turn.command
  BY <1>1, <1>2, EndedRow
<1>4. turn' = [t EXCEPT !.card = card]
  BY <1>2
<1>5. /\ turn' \in TurnRows /\ turn'.pc = "done" /\ turn'.open = FALSE /\ turn'.snap = None /\ turn'.ack = turn.ack
      /\ turn'.ref = turn.ref /\ turn'.drafts = turn.drafts /\ turn'.selected = turn.selected
      /\ turn'.command = turn.command
  BY <1>3, <1>4 DEF TurnRows
<1>6. \A d \in turn.drafts : draft'[d] # None
  BY ShownStill DEF DInv
<1>7. TurnGoes
  BY <1>5, <1>6 DEF TurnGoes, DInv, Choosing
<1>8. Room' /\ Held'
  BY <1>5, NoRoom, NoneHeld
<1> QED BY <1>7, <1>8, TurnMoves

\* Refused, or failed.
LEMMA RefuseKeeps == ASSUME DInv, Refuse PROVE DInv' /\ DraftsKept
BY DraftsRest, BusinessRests, EndKeeps DEF Refuse

\* The node that failed is run again from what it had read.
LEMMA TurnFailsKeeps == ASSUME DInv, TurnFails PROVE DInv' /\ DraftsKept
<1>1. turn' = Ended(turn.pc)
      /\ UNCHANGED <<facts, product, session, offer, draft, shown, notices, request>>
  BY DEF TurnFails
<1>2. turn.pc \in {"idle", "received", "planned", "refused", "done"}
  BY TurnColumns DEF DInv, Typed
<1>3. CASE turn.pc # "idle"
  BY <1>1, <1>2, <1>3, DraftsRest, BusinessRests, EndKeeps
<1>4. CASE turn.pc = "idle"
  <2>1. turn \in TurnRows
    BY DEF DInv, Typed
  <2>2. /\ turn' \in TurnRows /\ turn'.pc = "idle" /\ turn'.open = FALSE /\ turn'.snap = None
        /\ turn'.ack = turn.ack /\ turn'.ref = turn.ref
        /\ turn'.drafts = turn.drafts /\ turn'.selected = turn.selected /\ turn'.command = turn.command
    BY <1>1, <1>4, <2>1, EndedRow
  <2>3. TurnGoes
    BY <1>1, <2>2 DEF TurnGoes, DInv, Choosing, Referring
  <2>4. Room' /\ Held'
    BY <2>2, NoRoom, NoneHeld
  <2> QED BY <1>1, <2>3, <2>4, DraftsRest, BusinessRests, TurnMoves
<1> QED BY <1>3, <1>4

-----------------------------------------------------------------------------
(* The plan                                                                *)

\* Planning two candidates is planning drafts: no draft goes on twice for one message.
LEMMA GrowsTwice ==
  ASSUME NEW f \in [Ids -> Draft \cup {None}], NEW g \in [Ids -> Draft \cup {None}],
         NEW h \in [Ids -> Draft \cup {None}], Grows(f, g), Grows(g, h)
  PROVE  Grows(f, h)
<1> SUFFICES ASSUME NEW d \in Ids
    PROVE  /\ f[d] # None => h[d] # None
           /\ f[d] # None /\ h[d] # f[d] =>
                /\ turn.ref # NoRef /\ turn.ref.id = d /\ turn.ref.version = f[d].version
                /\ h[d].version = f[d].version + 1 /\ h[d].notified = f[d].notified
                /\ f[d].cand.conds \subseteq h[d].cand.conds /\ f[d].cand.promises \subseteq h[d].cand.promises
           /\ f[d] = None /\ h[d] # None => h[d].notified = 0
  BY DEF Grows
<1>1. CASE g[d] = f[d]
  BY <1>1 DEF Grows
<1>2. CASE h[d] = g[d]
  BY <1>2 DEF Grows
<1>3. CASE g[d] # f[d] /\ h[d] # g[d]
  <2>1. CASE f[d] = None
    BY <1>3, <2>1 DEF Grows
  <2>2. CASE f[d] # None
    <3>1. f[d] \in Draft
      BY <2>2
    <3>2. g[d] # None /\ turn.ref.version = f[d].version /\ g[d].version = f[d].version + 1
      BY <1>3, <2>2 DEF Grows
    <3>3. turn.ref.version = g[d].version
      BY <1>3, <3>2 DEF Grows
    <3>4. f[d].version \in Nat
      BY <3>1, DraftColumns
    <3> QED BY <3>2, <3>3, <3>4
  <2> QED BY <2>1, <2>2
<1> QED BY <1>1, <1>2, <1>3

\* Drafts that grow in a transaction are kept, as they are by then.
LEMMA StoredKept ==
  ASSUME DraftConstants, DInv, turn.snap # None, NEW g \in [Ids -> Draft \cup {None}], Grows(turn.rows, g),
         draft' = [d \in Ids |-> Stored(turn.rows[d], g[d], draft[d])]
  PROVE  DraftsKept /\ \A d \in Ids : g[d] # None => draft'[d] # None
<1>1. /\ turn.rows \in [Ids -> Draft \cup {None}] /\ draft \in [Ids -> Draft \cup {None}]
      /\ product \in Nat
  BY DEF DInv, Held, Typed, DraftConstants
<1>2. ASSUME NEW d \in Ids, draft[d] = None
      PROVE  /\ draft'[d] = g[d] /\ draft'[d] \in Draft \cup {None} /\ KeptRow(d)
             /\ draft'[d] # None => draft'[d].notified <= product
  <2>1. turn.rows[d] = None
    BY <1>2 DEF DInv, Held, Loaded
  <2>2. draft'[d] = g[d]
    BY <2>1 DEF Stored
  <2>3. g[d] # None => g[d].notified = 0
    BY <2>1 DEF Grows
  <2>4. KeptRow(d)
    BY <1>2 DEF KeptRow
  <2> QED BY <1>1, <2>2, <2>3, <2>4
<1>3. ASSUME NEW d \in Ids, draft[d] # None
      PROVE  /\ draft'[d] \in Draft /\ draft'[d] # None /\ KeptRow(d)
             /\ draft'[d].notified <= product
  <2>1. PICK row : row = turn.rows[d]
    OBVIOUS
  <2>2. PICK new : new = g[d]
    OBVIOUS
  <2>3. PICK cur : cur = draft[d]
    OBVIOUS
  <2>4. row # None /\ row.cand = cur.cand /\ row.version = cur.version
    BY <1>3, <2>1, <2>3 DEF DInv, Held, Loaded
  <2>5. row \in Draft /\ cur \in Draft
    BY <1>1, <1>3, <2>1, <2>3, <2>4
  <2>6. new # None /\ new \in Draft
    BY <2>1, <2>2, <2>4 DEF Grows
  <2>7. PICK stored : stored = Stored(row, new, cur)
    OBVIOUS
  <2>8. /\ stored \in Draft /\ stored.cand = new.cand /\ stored.version = new.version
        /\ stored.notified = cur.notified
    BY <2>5, <2>6, <2>7, StoredRow
  <2>9. draft'[d] = stored
    BY <2>1, <2>2, <2>3, <2>7
  <2>10. stored # None /\ cur.notified <= product
    BY <1>3, <2>3, <2>8, DraftColumns DEF DInv, Notified
  <2>11. /\ cur.cand.conds \subseteq new.cand.conds /\ cur.cand.promises \subseteq new.cand.promises
         /\ \/ new.version = cur.version /\ new.cand = cur.cand
            \/ /\ new.version = cur.version + 1
               /\ turn.ref # NoRef /\ turn.ref.id = d /\ turn.ref.version = cur.version
    <3>1. CASE new = row
      BY <2>4, <3>1
    <3>2. CASE new # row
      BY <2>1, <2>2, <2>4, <3>2 DEF Grows
    <3> QED BY <3>1, <3>2
  <2>12. KeptRow(d)
    BY <2>3, <2>8, <2>9, <2>10, <2>11 DEF KeptRow
  <2> QED BY <2>8, <2>9, <2>10, <2>12
<1>4. \A d \in Ids : draft'[d] \in Draft \cup {None}
  BY <1>2, <1>3
<1>5. draft' \in [Ids -> Draft \cup {None}]
  BY <1>4
<1>6. DraftsKept
  BY <1>2, <1>3, <1>5 DEF DraftsKept
<1>7. ASSUME NEW d \in Ids, g[d] # None PROVE draft'[d] # None
  BY <1>2, <1>3, <1>7
<1> QED BY <1>6, <1>7

\* A planned input forgets its words and what they refer to.
LEMMA PlannedRow ==
  ASSUME turn \in TurnRows
  PROVE  /\ Planned \in TurnRows /\ Planned.pc = "planned" /\ Planned.open = FALSE /\ Planned.snap = None
         /\ Planned.ack = turn.ack /\ Planned.ref = NoRef /\ Planned.drafts = turn.drafts
         /\ Planned.selected = turn.selected /\ Planned.command = turn.command
<1>1. PICK t : t = Ended("planned")
  OBVIOUS
<1>2. /\ t \in TurnRows /\ t.pc = "planned" /\ t.open = FALSE /\ t.snap = None /\ t.ack = turn.ack
      /\ t.drafts = turn.drafts /\ t.selected = turn.selected /\ t.command = turn.command
  BY <1>1, EndedRow
<1>3. Planned = [t EXCEPT !.kind = "OTHER", !.patches = <<>>, !.ref = NoRef]
  BY <1>1 DEF Planned
<1>4. <<>> \in Seq(Candidate) /\ NoRef \in References /\ "OTHER" \in Kinds
  BY EmptySeq, EmptyRows DEF Kinds
<1> QED BY <1>2, <1>3, <1>4 DEF TurnRows

\* An explicit wish, or no more than the reply.
LEMMA PlanRests ==
  ASSUME DInv, PlanWish \/ PlanNothing,
         UNCHANGED <<facts, product, session, offer, shown, notices, request>>
  PROVE  DInv' /\ DraftsKept
<1>1. UNCHANGED draft
  BY DEF PlanWish, PlanNothing
<1>2. PICK t : t = Planned
  OBVIOUS
<1>3. /\ t \in TurnRows /\ t.pc = "planned" /\ t.open = FALSE /\ t.snap = None /\ t.ack = turn.ack /\ t.ref = NoRef
      /\ t.drafts = turn.drafts /\ t.selected = turn.selected /\ t.command = turn.command
  BY <1>2, PlannedRow DEF DInv, Typed
<1>4. \E command \in {"QUERY", "CONFIRM", "WITHDRAW", "CLOSE"} :
         turn' = t \/ turn' = [t EXCEPT !.command = command]
  BY <1>2 DEF PlanWish, PlanNothing
<1>5. PICK command \in {"QUERY", "CONFIRM", "WITHDRAW", "CLOSE"} :
         turn' = t \/ turn' = [t EXCEPT !.command = command]
  BY <1>4
<1>6. /\ turn' \in TurnRows /\ turn'.pc = "planned" /\ turn'.open = FALSE /\ turn'.snap = None
      /\ turn'.ack = turn.ack /\ turn'.ref = NoRef /\ turn'.drafts = turn.drafts /\ turn'.selected = turn.selected
      /\ turn'.command \in {turn.command, "QUERY", "CONFIRM", "WITHDRAW", "CLOSE"}
  <2>1. CASE turn' = t
    BY <1>3, <2>1
  <2>2. CASE turn' = [t EXCEPT !.command = command]
    BY <1>3, <1>5, <2>2 DEF TurnRows
  <2> QED BY <1>5, <2>1, <2>2
<1>7. TurnGoes
  BY <1>1, <1>6 DEF TurnGoes, DInv, Choosing, Referring
<1>8. Room' /\ Held'
  BY <1>6, NoRoom, NoneHeld
<1> QED BY <1>1, <1>7, <1>8, DraftsRest, BusinessRests, TurnMoves

\* Terms: one candidate, or two that meet the drafts one after the other.
LEMMA TermsGrow ==
  ASSUME DraftConstants, DInv, turn.pc = "received", turn.snap # None, NEW unresolved,
         turn.kind \in Offering \cup {"PROVIDE_INFO"}
  PROVE  LET begun == Put([drafts |-> turn.rows, made |-> {}], Head(turn.patches), unresolved)
             end == IF Len(turn.patches) = 1 THEN begun ELSE Put(begun, turn.patches[2], unresolved)
         IN  /\ end.drafts \in [Ids -> Draft \cup {None}] /\ Grows(turn.rows, end.drafts)
             /\ end.made \subseteq Ids /\ \A d \in end.made : end.drafts[d] # None
<1>1. PICK start : start = [drafts |-> turn.rows, made |-> {}]
  OBVIOUS
<1>2. start.drafts = turn.rows /\ start.made = {}
  BY <1>1
<1>3. PICK begun : begun = Put(start, Head(turn.patches), unresolved)
  OBVIOUS
<1>4. PICK end : end = IF Len(turn.patches) = 1 THEN begun ELSE Put(begun, turn.patches[2], unresolved)
  OBVIOUS
<1>5. turn \in TurnRows /\ session.version \in Nat /\ offer \in Offers \cup {None}
      /\ turn.rows \in [Ids -> Draft \cup {None}]
  BY DEF DInv, Typed, Held
<1>6. turn.ref # NoRef => turn.ref.id \in Ids
  BY DEF DInv, Referring, RefersTo
<1>7. PICK i \in Ids, j \in Ids : i # j /\ turn.rows[i] = None /\ turn.rows[j] = None
  BY DEF DInv, Room, Held, Loaded
<1>8. turn.patches \in Seq(Candidate) /\ Len(turn.patches) \in {1, 2}
  BY <1>5, TurnColumns DEF DInv, Room
<1>9. Head(turn.patches) \in Candidate /\ (Len(turn.patches) # 1 => turn.patches[2] \in Candidate)
  BY <1>8
<1>10. /\ begun.drafts \in [Ids -> Draft \cup {None}]
       /\ begun.made \subseteq Ids /\ \A d \in begun.made : begun.drafts[d] # None
       /\ Grows(turn.rows, begun.drafts) /\ Changes(turn.rows, begun.drafts)
  BY <1>2, <1>3, <1>5, <1>6, <1>7, <1>9, PutGrows
<1>11. CASE Len(turn.patches) = 1
  BY <1>1, <1>3, <1>4, <1>10, <1>11
<1>12. CASE Len(turn.patches) # 1
  <2>1. end = Put(begun, turn.patches[2], unresolved)
    BY <1>4, <1>12
  <2>2. \E e \in Ids : begun.drafts[e] = None
    BY <1>7, <1>10 DEF Changes
  <2>3. /\ end.drafts \in [Ids -> Draft \cup {None}]
        /\ end.made \subseteq Ids /\ \A d \in end.made : end.drafts[d] # None
        /\ Grows(begun.drafts, end.drafts)
    BY <1>5, <1>6, <1>9, <1>10, <1>12, <2>1, <2>2, PutGrows
  <2>4. Grows(turn.rows, end.drafts)
    BY <1>5, <1>10, <2>3, GrowsTwice
  <2> QED BY <1>1, <1>3, <1>4, <2>3, <2>4
<1> QED BY <1>11, <1>12

\* The drafts a message made are there, and what it chose is among them.
LEMMA PlanTermsKeeps ==
  ASSUME DraftConstants, DInv, turn.pc = "received", turn.snap # None, NEW unresolved \in BOOLEAN, PlanTerms(unresolved),
         UNCHANGED <<facts, product, session, offer, shown, notices, request>>
  PROVE  DInv' /\ DraftsKept
<1> DEFINE begun == Put([drafts |-> turn.rows, made |-> {}], Head(turn.patches), unresolved)
           end == IF Len(turn.patches) = 1 THEN begun ELSE Put(begun, turn.patches[2], unresolved)
           ready == {d \in end.made : Len(turn.patches) = 1 /\ end.drafts[d].status = "READY"}
<1>1. /\ turn.kind \in Offering \cup {"PROVIDE_INFO"} 
      /\ draft' = [d \in Ids |-> Stored(turn.rows[d], end.drafts[d], draft[d])]
      /\ turn' = [Planned EXCEPT !.drafts = end.made, !.selected = ready,
                                 !.command = IF ready # {} THEN "SUBMIT" ELSE "QUERY"]
  BY DEF PlanTerms
<1>2. /\ end.drafts \in [Ids -> Draft \cup {None}] /\ Grows(turn.rows, end.drafts)
      /\ end.made \subseteq Ids /\ \A d \in end.made : end.drafts[d] # None
  BY <1>1, TermsGrow
<1>3. PICK made : made = end.made
  OBVIOUS
<1>4. PICK chosen : chosen = ready
  OBVIOUS
<1>5. DraftsKept /\ \A d \in Ids : end.drafts[d] # None => draft'[d] # None
  <2>1. PICK g : g = end.drafts
    OBVIOUS
  <2>2. g \in [Ids -> Draft \cup {None}] /\ Grows(turn.rows, g)
        /\ draft' = [d \in Ids |-> Stored(turn.rows[d], g[d], draft[d])]
    BY <1>1, <1>2, <2>1
  <2> QED BY <2>1, <2>2, StoredKept
<1>6. made \subseteq Ids /\ chosen \subseteq made /\ (\A d \in made : draft'[d] # None)
  BY <1>2, <1>3, <1>4, <1>5
<1>7. \E command \in {"QUERY", "SUBMIT"} :
        /\ turn' = [Planned EXCEPT !.drafts = made, !.selected = chosen, !.command = command]
        /\ command = "SUBMIT" => chosen # {}
  BY <1>1, <1>3, <1>4
<1> HIDE DEF begun, end, ready
<1>8. PICK command \in {"QUERY", "SUBMIT"} :
        /\ turn' = [Planned EXCEPT !.drafts = made, !.selected = chosen, !.command = command]
        /\ command = "SUBMIT" => chosen # {}
  BY <1>7
<1>9. PICK t : t = Planned
  OBVIOUS
<1>10. t \in TurnRows /\ t.pc = "planned" /\ t.open = FALSE /\ t.snap = None /\ t.ack = turn.ack /\ t.ref = NoRef
  BY <1>9, PlannedRow DEF DInv, Typed
<1>11. turn' = [t EXCEPT !.drafts = made, !.selected = chosen, !.command = command]
  BY <1>8, <1>9
<1>12. /\ turn' \in TurnRows /\ turn'.pc = "planned" /\ turn'.open = FALSE /\ turn'.snap = None
       /\ turn'.ack = turn.ack /\ turn'.ref = NoRef /\ turn'.drafts = made /\ turn'.selected = chosen /\ turn'.command = command
  BY <1>6, <1>10, <1>11 DEF TurnRows
<1>13. TurnGoes
  BY <1>6, <1>8, <1>12 DEF TurnGoes
<1>14. Room' /\ Held'
  BY <1>12, NoRoom, NoneHeld
<1> QED BY <1>5, <1>13, <1>14, BusinessRests, TurnMoves

\* semantic/service.py plan_turn.
LEMMA PlanKeeps == ASSUME DraftConstants, DInv, Plan PROVE DInv' /\ DraftsKept
<1>1. turn.pc = "received" /\ turn.snap # None
      /\ UNCHANGED <<facts, product, session, offer, shown, notices, request>>
  BY DEF Plan, DInv, Held
<1>2. CASE PlanWish \/ PlanNothing
  BY <1>1, <1>2, PlanRests
<1>3. CASE \E unresolved \in BOOLEAN : PlanTerms(unresolved)
  BY <1>1, <1>3, PlanTermsKeeps
<1> QED BY <1>2, <1>3 DEF Plan

-----------------------------------------------------------------------------
(* The commands                                                            *)

\* Drafts that change state alone are kept.
LEMMA RowsKept ==
  ASSUME DInv, draft' \in [Ids -> Draft \cup {None}],
         \A d \in Ids : IF draft[d] = None THEN draft'[d] = None
                        ELSE /\ draft'[d] \in Draft /\ draft'[d].cand = draft[d].cand
                             /\ draft'[d].version = draft[d].version
                             /\ draft'[d].notified \in {draft[d].notified, product}
  PROVE  DraftsKept
<1>1. ASSUME NEW d \in Ids PROVE KeptRow(d)
  BY <1>1, DraftColumns DEF KeptRow
<1>2. ASSUME NEW d \in Ids, draft'[d] # None PROVE draft'[d].notified <= product
  <2>1. draft[d] # None /\ draft'[d].notified \in {draft[d].notified, product}
    BY <1>2
  <2>2. draft[d].notified <= product
    BY <2>1 DEF DInv, Notified
  <2>3. product \in Nat \/ product \in 0 .. Edits
    BY DEF DInv, Typed
  <2> QED BY <2>1, <2>2, <2>3
<1> QED BY <1>1, <1>2 DEF DraftsKept

\* The same of one draft.
LEMMA OneRowKept ==
  ASSUME DInv, NEW i \in Ids, draft[i] # None, NEW row \in Draft, row.cand = draft[i].cand,
         row.version = draft[i].version, row.notified \in {draft[i].notified, product},
         draft' = [draft EXCEPT ![i] = row]
  PROVE  DraftsKept
<1>1. draft \in [Ids -> Draft \cup {None}]
  BY DEF DInv, Typed
<1>2. draft' \in [Ids -> Draft \cup {None}]
  BY <1>1
<1>3. ASSUME NEW d \in Ids, draft[d] # None
      PROVE  /\ draft'[d] \in Draft /\ draft'[d].cand = draft[d].cand
             /\ draft'[d].version = draft[d].version
             /\ draft'[d].notified \in {draft[d].notified, product}
  <2>1. draft[d] \in Draft
    BY <1>1, <1>3
  <2>2. CASE d = i
    BY <1>1, <2>2
  <2>3. CASE d # i
    BY <1>1, <2>1, <2>3
  <2> QED BY <2>2, <2>3
<1>4. ASSUME NEW d \in Ids, draft[d] = None PROVE draft'[d] = None
  BY <1>1, <1>4
<1> QED BY <1>2, <1>3, <1>4, RowsKept

\* The draft a command is about.
LEMMA SelectedDraft ==
  ASSUME DInv, turn.command = "SUBMIT"
  PROVE  Selected \in Ids /\ draft[Selected] \in Draft /\ draft[Selected] # None
         /\ (turn.snap # None => turn.rows[Selected] \in Draft)
<1>1. turn.selected # {} /\ turn.selected \subseteq turn.drafts /\ turn.drafts \subseteq Ids
  BY TurnColumns DEF DInv, Typed, Choosing
<1>2. Selected \in turn.selected
  BY <1>1 DEF Selected
<1>3. draft[Selected] # None
  BY <1>1, <1>2 DEF DInv, Referring
<1> QED BY <1>1, <1>2, <1>3 DEF DInv, Typed, Held, Loaded

\* business_command_service.py execute: an offer is made on the evidence of its transaction.
LEMMA QuotedWell ==
  ASSUME DInv, turn.snap # None, NEW cand \in Candidate, Quotable(cand),
         NEW new, new = [cand |-> cand, seen |-> [x \in Conds |-> turn.snap[x].version]]
  PROVE  /\ new \in Offers /\ Fields \subseteq new.cand.fields /\ new.cand.promises = {}
         /\ \A x \in new.cand.conds :
              /\ new.seen[x] <= product
              /\ facts[x].version = new.seen[x] => facts[x].value = "SATISFIED"
<1>1. turn.snap \in Evidence /\ Agrees(turn.snap)
  BY DEF DInv, Grounded
<1>2. \A x \in Conds : turn.snap[x].version \in Nat
  BY <1>1 DEF Evidence
<1>3. new \in Offers
  BY <1>2 DEF Offers
<1>4. Fields \subseteq cand.fields /\ cand.promises = {} /\ \A x \in cand.conds : turn.snap[x].value = "SATISFIED"
  BY DEF Quotable, Complete, Unmet
<1>5. cand.conds \subseteq Conds
  BY DEF Candidate
<1>6. new.cand = cand /\ \A x \in Conds : new.seen[x] = turn.snap[x].version
  OBVIOUS
<1> QED BY <1>1, <1>3, <1>4, <1>5, <1>6 DEF Agrees

\* A submission moves its draft, and the business if the offer is new.
LEMMA SubmitKeeps == ASSUME DraftConstants, DInv, Submit PROVE DInv' /\ DraftsKept
<1> DEFINE cand == turn.rows[Selected].cand
           made == [cand |-> cand, seen |-> [x \in Conds |-> turn.snap[x].version]]
<1>1. /\ turn.snap # None /\ turn.command = "SUBMIT" /\ Quotable(cand)
      /\ draft' = [draft EXCEPT ![Selected].status = "SUBMITTED"]
      /\ UNCHANGED <<facts, product, notices, request>>
      /\ \/ /\ turn' = [Ended("done") EXCEPT !.card = TRUE]
            /\ UNCHANGED <<session, offer, shown>>
         \/ /\ shown' = Aged
            /\ session' = [session EXCEPT !.version = @ + 1]
            /\ offer' \in {made, offer}
            /\ turn' = [Ended("done") EXCEPT !.card = offer' = made]
  BY DEF Submit, Executing, DInv, Held
<1>2. Selected \in Ids /\ draft[Selected] \in Draft /\ draft[Selected] # None
      /\ turn.rows[Selected] \in Draft
  BY <1>1, SelectedDraft
<1>3. PICK new : new = made
  OBVIOUS
<1>4. /\ new \in Offers /\ Fields \subseteq new.cand.fields /\ new.cand.promises = {}
      /\ \A x \in new.cand.conds :
           /\ new.seen[x] <= product
           /\ facts[x].version = new.seen[x] => facts[x].value = "SATISFIED"
  BY <1>1, <1>2, <1>3, DraftColumns, QuotedWell
<1>5. DraftsKept
  <2>1. PICK row : row = [draft[Selected] EXCEPT !.status = "SUBMITTED"]
    OBVIOUS
  <2>2. draft' = [draft EXCEPT ![Selected] = row]
    BY <1>1, <2>1
  <2>3. row \in Draft /\ row.cand = draft[Selected].cand /\ row.version = draft[Selected].version
        /\ row.notified = draft[Selected].notified
    BY <1>2, <2>1, DraftStatus DEF Status
  <2> QED BY <1>2, <2>2, <2>3, OneRowKept
<1>6. \E card \in BOOLEAN : turn' = [Ended("done") EXCEPT !.card = card]
  BY <1>1
<1>7. session \in [status : {"ACTIVE", "AGREED", "CLOSED"}, version : Nat]
  BY DEF DInv, Typed
<1>8. BusinessGoes
  <2>1. CASE UNCHANGED <<session, offer, shown>>
    BY <2>1, BusinessRests
  <2>2. CASE shown' = Aged /\ session' = [session EXCEPT !.version = @ + 1] /\ offer' \in {made, offer}
    <3>1. session' \in [status : {"ACTIVE", "AGREED", "CLOSED"}, version : Nat]
      BY <1>7, <2>2
    <3>2. offer' = new \/ offer' = offer
      BY <1>3, <2>2
    <3>3. CASE offer' = new
      BY <1>4, <2>2, <3>1, <3>3, AgedWell DEF BusinessGoes
    <3>4. CASE offer' = offer
      BY <2>2, <3>1, <3>4, AgedWell DEF BusinessGoes
    <3> QED BY <3>2, <3>3, <3>4
  <2> QED BY <1>1, <2>1, <2>2
<1> QED BY <1>1, <1>5, <1>6, <1>8, EndCardKeeps

\* The session after a command.
LEMMA NextSession ==
  ASSUME DInv, NEW status \in {"ACTIVE", "AGREED", "CLOSED"},
         session' = [session EXCEPT !.status = status, !.version = @ + 1]
  PROVE  session' \in [status : {"ACTIVE", "AGREED", "CLOSED"}, version : Nat]
<1>1. session \in [status : {"ACTIVE", "AGREED", "CLOSED"}, version : Nat]
  BY DEF DInv, Typed
<1>2. PICK v : v = session.version + 1
  OBVIOUS
<1>3. v \in Nat
  BY <1>1, <1>2
<1>4. session' = [session EXCEPT !.status = status, !.version = v]
  BY <1>2
<1> QED BY <1>1, <1>3, <1>4

\* A confirmation moves the session and hides its cards.
LEMMA ConfirmKeeps == ASSUME DInv, Confirm PROVE DInv' /\ DraftsKept
<1>1. /\ turn' = Ended("done") /\ shown' = Aged /\ UNCHANGED <<facts, product, offer, draft, notices, request>>
      /\ session' = [session EXCEPT !.status = "AGREED", !.version = @ + 1]
  BY DEF Confirm
<1>2. session' \in [status : {"ACTIVE", "AGREED", "CLOSED"}, version : Nat]
  BY <1>1, NextSession
<1>3. BusinessGoes
  BY <1>1, <1>2, AgedWell DEF BusinessGoes
<1> QED BY <1>1, <1>3, DraftsRest, EndKeeps

\* A withdrawal takes the offer away.
LEMMA WithdrawKeeps == ASSUME DInv, Withdraw PROVE DInv' /\ DraftsKept
<1>1. /\ turn' = Ended("done") /\ shown' = Aged /\ offer' = None
      /\ UNCHANGED <<facts, product, draft, notices, request>>
      /\ session' = [session EXCEPT !.version = @ + 1]
  BY DEF Withdraw
<1>2. session' \in [status : {"ACTIVE", "AGREED", "CLOSED"}, version : Nat]
  BY <1>1 DEF DInv, Typed
<1>3. BusinessGoes
  BY <1>1, <1>2, AgedWell DEF BusinessGoes
<1> QED BY <1>1, <1>3, DraftsRest, EndKeeps

\* A closed session closes its drafts.
LEMMA CloseKeeps == ASSUME DInv, Close PROVE DInv' /\ DraftsKept
<1>1. /\ turn' = Ended("done") /\ shown' = Aged /\ offer' = None
      /\ UNCHANGED <<facts, product, notices, request>>
      /\ session' = [session EXCEPT !.status = "CLOSED", !.version = @ + 1]
      /\ draft' = [d \in Ids |-> Closed(turn.rows[d], draft[d])]
      /\ turn.snap # None
  BY DEF Close, Executing, DInv, Held
<1>2. session' \in [status : {"ACTIVE", "AGREED", "CLOSED"}, version : Nat]
  BY <1>1, NextSession
<1>3. BusinessGoes
  BY <1>1, <1>2, AgedWell DEF BusinessGoes
<1>4. ASSUME NEW d \in Ids
      PROVE  IF draft[d] = None THEN Closed(turn.rows[d], draft[d]) = None
             ELSE /\ Closed(turn.rows[d], draft[d]) \in Draft /\ Closed(turn.rows[d], draft[d]).cand = draft[d].cand
                  /\ Closed(turn.rows[d], draft[d]).version = draft[d].version
                  /\ Closed(turn.rows[d], draft[d]).notified = draft[d].notified
  <2>1. draft[d] \in Draft \cup {None}
    BY DEF DInv, Typed
  <2>2. CASE draft[d] = None
    BY <1>1, <2>2 DEF Closed, DInv, Held, Loaded
  <2>3. CASE draft[d] # None
    BY <2>1, <2>3, DraftStatus DEF Closed, Status
  <2> QED BY <2>2, <2>3
<1>5. DraftsKept
  BY <1>1, <1>4, RowsKept
<1> QED BY <1>1, <1>3, <1>5, EndKeeps

\* abort_or_query: what the selected drafts lack is the seller's to verify.
LEMMA AbortKeeps == ASSUME DInv, Abort PROVE DInv' /\ DraftsKept
<1> DEFINE lacking(d) == d \in turn.selected /\ turn.rows[d].business = session.version
                         /\ ~Complete(turn.rows[d].cand, turn.snap)
           row(d) == IF lacking(d)
                     THEN Rechecked(turn.rows[d], draft[d], "PENDING", "OPEN", turn.rows[d].notified)
                     ELSE draft[d]
<1>1. /\ turn' = Ended("done") /\ UNCHANGED <<facts, product, session, offer, shown, notices, request>>
      /\ draft' = [d \in Ids |-> row(d)] /\ turn.snap # None
  BY DEF Abort, DInv, Held
<1>2. ASSUME NEW d \in Ids
      PROVE  IF draft[d] = None THEN row(d) = None
             ELSE /\ row(d) \in Draft /\ row(d).cand = draft[d].cand
                  /\ row(d).version = draft[d].version /\ row(d).notified = draft[d].notified
  <2>1. draft[d] \in Draft \cup {None}
    BY DEF DInv, Typed
  <2>2. CASE draft[d] = None
    <3>1. d \notin turn.selected
      BY <2>2 DEF DInv, Choosing, Referring
    <3> QED BY <2>2, <3>1
  <2>3. CASE draft[d] # None
    <3>1. PICK was : was = turn.rows[d]
      OBVIOUS
    <3>2. PICK cur : cur = draft[d]
      OBVIOUS
    <3>3. was \in Draft /\ cur \in Draft
      BY <1>1, <2>1, <2>3, <3>1, <3>2 DEF DInv, Held, Loaded
    <3>4. PICK n : n = was.notified
      OBVIOUS
    <3>5. n \in 0 .. Edits /\ "PENDING" \in Status /\ "OPEN" \in Items
      BY <3>3, <3>4, DraftColumns DEF Status, Items
    <3>6. LET x == Rechecked(was, cur, "PENDING", "OPEN", n) IN
          /\ x \in Draft /\ x.cand = cur.cand /\ x.version = cur.version
          /\ x.notified = Written(was.notified, n, cur.notified)
      BY <3>3, <3>5, RecheckedRow, Zenon
    <3>7. Written(was.notified, n, cur.notified) = cur.notified
      BY <3>4 DEF Written
    <3>8. row(d) = Rechecked(was, cur, "PENDING", "OPEN", n) \/ row(d) = cur
      BY <3>1, <3>2, <3>4
    <3> HIDE DEF row, lacking
    <3> QED BY <2>3, <3>2, <3>3, <3>6, <3>7, <3>8
  <2> QED BY <2>2, <2>3
<1> HIDE DEF row, lacking
<1>3. DraftsKept
  BY <1>1, <1>2, RowsKept
<1> QED BY <1>1, <1>3, BusinessRests, EndKeeps

\* The drafts on a card are shown as they are.
LEMMA RefsWell ==
  ASSUME DInv, turn.snap # None, NEW ds \in SUBSET Ids, NEW r \in Refs(ds)
  PROVE  r \in References /\ RefersTo(r)
<1>a. PICK d \in ds : r = [id |-> d, version |-> turn.rows[d].version, cand |-> turn.rows[d].cand]
                      /\ Usable(turn.rows[d], turn.rows[d].version)
  BY DEF Refs
<1>b. /\ turn.rows[d] # None /\ draft[d] # None
      /\ turn.rows[d].version = draft[d].version /\ turn.rows[d].cand = draft[d].cand
  BY <1>a DEF Usable, DInv, Held, Loaded
<1>1. r = [id |-> d, version |-> draft[d].version, cand |-> draft[d].cand]
  BY <1>a, <1>b
<1>2. draft[d] # None /\ draft[d] \in Draft
  BY <1>b DEF DInv, Typed
<1>3. draft[d].version \in Nat /\ draft[d].cand \in Candidate
  BY <1>2, DraftColumns
<1> QED BY <1>1, <1>2, <1>3 DEF References, RefersTo

\* The reply shows the offer or the drafts of the turn.
LEMMA PublishKeeps == ASSUME DInv, Publish PROVE DInv' /\ DraftsKept
<1> DEFINE confirmable == /\ turn.card /\ session.status = "ACTIVE"
                          /\ offer # None /\ ValidBasis(offer, turn.snap)
           card == Context(session.version, confirmable, Refs(turn.drafts))
<1>1. /\ turn' = Idle /\ UNCHANGED <<facts, product, session, offer, draft, notices, request>>
      /\ shown' = shown \/ shown' = shown \cup {card}
      /\ turn.snap # None
  BY DEF Publish, DInv, Held
<1>2. turn.drafts \in SUBSET Ids /\ session.version \in Nat
  BY TurnColumns DEF DInv, Typed
<1>3. \A r \in Refs(turn.drafts) : r \in References /\ RefersTo(r)
  BY <1>1, <1>2, RefsWell
<1>4. \A r \in Refs(turn.drafts) : RefersTo(r)'
  BY <1>1, <1>3 DEF RefersTo
<1>5. card \in Contexts
  BY <1>2, <1>3 DEF Context, Contexts
<1>6. card.refs = Refs(turn.drafts)
  BY DEF Context
<1> HIDE DEF card
<1>7. BusinessGoes
  BY <1>1, <1>4, <1>5, <1>6 DEF DInv, Typed, BusinessGoes
<1>8. TurnGoes
  BY <1>1, EmptyRows DEF TurnGoes
<1>9. Room' /\ Held'
  BY <1>1, EmptyRows, NoRoom, NoneHeld
<1> QED BY <1>1, <1>7, <1>8, <1>9, DraftsRest, TurnMoves

-----------------------------------------------------------------------------
(* The seller's requests                                                   *)

\* One request goes on to a row that stands; nobody else's changes.
LEMMA RequestMoves ==
  ASSUME DInv, DraftsKept, NEW r \in Servers, NEW q \in RequestRows, HoldsRow(q),
         request' = [request EXCEPT ![r] = q]
  PROVE  request' \in [Servers -> RequestRows] /\ \A s \in Servers : HoldsRow(request[s])'
<1>1. request \in [Servers -> RequestRows]
  BY DEF DInv, Typed
<1>2. request' \in [Servers -> RequestRows]
  BY <1>1
<1>3. ASSUME NEW s \in Servers PROVE HoldsRow(request[s])'
  <2>1. HoldsRow(request[s]) /\ request[s] \in RequestRows
    BY RequestsHeld
  <2>2. PICK p : p = IF s = r THEN q ELSE request[s]
    OBVIOUS
  <2>3. p \in RequestRows /\ HoldsRow(p)
    BY <2>1, <2>2
  <2>4. HoldsRow(p)'
    BY <2>3, RequestsHold DEF DInv
  <2>5. request'[s] = p
    BY <1>1, <2>2
  <2> QED BY <2>4, <2>5 DEF HoldsRow
<1> QED BY <1>2, <1>3

\* The drafts are the same ones, with the same words.
SameWords ==
  \A d \in Ids :
    /\ draft[d] = None <=> draft'[d] = None
    /\ draft[d] # None => draft'[d].cand = draft[d].cand /\ draft'[d].version = draft[d].version

\* Then they are the ones the buyer's transaction read.
LEMMA HeldStill == ASSUME DInv, SameWords, UNCHANGED turn PROVE Held'
<1>1. turn' = turn
  OBVIOUS
<1>2. ASSUME NEW d \in Ids, Loaded(turn.rows[d], d) PROVE Loaded(turn.rows[d], d)'
  BY <1>1, <1>2 DEF Loaded, SameWords
<1> QED BY <1>1, <1>2 DEF DInv, Held

\* A step of a request leaves the buyer's turn and the business alone, and makes no draft.
LEMMA SellerMoves ==
  ASSUME DInv, DraftsKept, SameWords,
         NEW r \in Servers, NEW q \in RequestRows, HoldsRow(q), request' = [request EXCEPT ![r] = q],
         UNCHANGED <<facts, product, session, offer, turn>>,
         shown' \subseteq Contexts, \A c \in shown' : c \in shown \/ \A ref \in c.refs : RefersTo(ref)',
         notices' \subseteq Ids \X (0 .. Edits)
  PROVE  DInv'
<1>1. request' \in [Servers -> RequestRows] /\ \A s \in Servers : HoldsRow(request[s])'
  BY RequestMoves
<1>2. Typed'
  BY <1>1 DEF DInv, Typed, DraftsKept
<1>3. Grounded'
  BY DEF DInv, Grounded, Agrees
<1>4. Referring'
  <2>1. /\ \A c \in shown : \A x \in c.refs : RefersTo(x)'
        /\ \A x \in turn.ack.refs : RefersTo(x)'
        /\ \A x : x = turn.ref /\ x # NoRef => RefersTo(x)'
        /\ \A d \in turn.drafts : draft'[d] # None
    BY ShownStill DEF DInv
  <2>2. \A c \in shown' : \A x \in c.refs : RefersTo(x)'
    BY <2>1
  <2> QED BY <1>1, <2>1, <2>2 DEF Referring, HoldsRow, RefersTo
<1>5. Room'
  <2>1. turn' = turn
    OBVIOUS
  <2> QED BY <2>1 DEF DInv, Room, SameWords
<1>6. Choosing'
  BY DEF DInv, Choosing
<1>7. Notified'
  BY DEF DraftsKept, Notified
<1>8. Held'
  BY HeldStill
<1> QED BY <1>2, <1>3, <1>4, <1>5, <1>6, <1>7, <1>8 DEF DInv

\* The same when the step touches no draft and shows nothing.
LEMMA SellerReads ==
  ASSUME DInv, NEW r \in Servers, NEW q \in RequestRows, HoldsRow(q), request' = [request EXCEPT ![r] = q],
         UNCHANGED <<facts, product, session, offer, draft, shown, notices, turn>>
  PROVE  DInv' /\ DraftsKept
<1>1. DraftsKept /\ SameWords
  BY DraftsRest DEF SameWords
<1>2. shown' \subseteq Contexts /\ (\A c \in shown' : c \in shown) /\ notices' \subseteq Ids \X (0 .. Edits)
  BY DEF DInv, Typed
<1> QED BY <1>1, <1>2, SellerMoves

\* Requests of the shape the steps give them.
LEMMA RequestRow ==
  ASSUME NEW q \in RequestRows
  PROVE  /\ \A pc \in {"idle", "list", "items"} : [q EXCEPT !.pc = pc] \in RequestRows
         /\ \A todo \in SUBSET Ids : [q EXCEPT !.pc = "items", !.todo = todo] \in RequestRows
         /\ \A todo \in SUBSET Ids, at \in Taken : [q EXCEPT !.todo = todo, !.at = at] \in RequestRows
         /\ [q EXCEPT !.at = None] \in RequestRows
         /\ [pc |-> "idle", todo |-> {}, at |-> None] \in RequestRows
BY DEF RequestRows

\* A request that ended holds nothing.
LEMMA IdleHolds == HoldsRow([pc |-> "idle", todo |-> {}, at |-> None])
BY DEF HoldsRow

\* The verifications of a recheck are of drafts there are.
LEMMA ListKeeps == ASSUME DInv, NEW r \in Servers, List(r) PROVE DInv' /\ DraftsKept
<1>1. PICK todo : todo = {d \in Ids : draft[d] # None /\ draft[d].item \in {"OPEN", "READY"}}
  OBVIOUS
<1>2. PICK q : q = [request[r] EXCEPT !.pc = "items", !.todo = todo]
  OBVIOUS
<1>3. request' = [request EXCEPT ![r] = q]
      /\ UNCHANGED <<facts, product, session, offer, draft, shown, notices, turn>>
  BY <1>1, <1>2 DEF List
<1>4. request[r] \in RequestRows /\ HoldsRow(request[r])
  BY RequestsHeld
<1>5. todo \in SUBSET Ids /\ \A d \in todo : draft[d] # None
  BY <1>1
<1>6. q \in RequestRows
  BY <1>2, <1>4, <1>5, RequestRow
<1>7. q.todo = todo /\ q.at = request[r].at
  BY <1>2, <1>4 DEF RequestRows
<1>8. HoldsRow(q)
  BY <1>4, <1>5, <1>7 DEF HoldsRow
<1> QED BY <1>3, <1>6, <1>8, SellerReads

\* A draft is taken as it is.
LEMMA TakeKeeps == ASSUME DInv, NEW r \in Servers, Take(r) PROVE DInv' /\ DraftsKept
<1>1. PICK d \in request[r].todo :
        request' = [request EXCEPT ![r].todo = @ \ {d}, ![r].at = [id |-> d, row |-> draft[d], snap |-> facts]]
  BY DEF Take
<1>2. UNCHANGED <<facts, product, session, offer, draft, shown, notices, turn>>
  BY DEF Take
<1>3. request[r] \in RequestRows /\ HoldsRow(request[r]) /\ request \in [Servers -> RequestRows]
  BY RequestsHeld DEF DInv, Typed
<1>4. PICK at : at = [id |-> d, row |-> draft[d], snap |-> facts]
  OBVIOUS
<1>5. PICK todo : todo = request[r].todo \ {d}
  OBVIOUS
<1>6. PICK q : q = [request[r] EXCEPT !.todo = todo, !.at = at]
  OBVIOUS
<1>7. request' = [request EXCEPT ![r] = q]
  BY <1>1, <1>3, <1>4, <1>5, <1>6
<1>8. todo \in SUBSET Ids /\ d \in Ids /\ (\A e \in todo : draft[e] # None) /\ draft[d] # None
  BY <1>3, <1>5 DEF RequestRows, HoldsRow
<1>9. draft[d] \in Draft /\ facts \in Evidence
  BY <1>8 DEF DInv, Typed
<1>10. at \in Taken /\ at.id = d /\ at.row = draft[d]
  BY <1>4, <1>8, <1>9 DEF Taken
<1>11. q \in RequestRows
  BY <1>3, <1>6, <1>8, <1>10, RequestRow
<1>12. q.todo = todo /\ q.at = at
  BY <1>3, <1>6 DEF RequestRows
<1>13. HoldsRow(q)
  <2>1. draft[d].version \in Nat
    BY <1>9, DraftColumns
  <2> QED BY <1>8, <1>10, <1>12, <2>1 DEF HoldsRow
<1> QED BY <1>2, <1>7, <1>11, <1>13, SellerReads

\* Answered, asked again, or dead.
LEMMA RequestEnds ==
  ASSUME DInv, NEW r \in Servers, Answered(r) \/ AskRecheck(r) \/ RequestFails(r)
  PROVE  DInv' /\ DraftsKept
<1>1. request[r] \in RequestRows /\ HoldsRow(request[r])
  BY RequestsHeld
<1>2. UNCHANGED <<facts, product, session, offer, draft, shown, notices, turn>>
  BY DEF Answered, AskRecheck, RequestFails
<1>3. \E q : /\ request' = [request EXCEPT ![r] = q]
             /\ q = [pc |-> "idle", todo |-> {}, at |-> None] \/ \E pc \in {"idle", "list"} : q = [request[r] EXCEPT !.pc = pc]
  BY DEF Answered, AskRecheck, RequestFails
<1>4. PICK q : /\ request' = [request EXCEPT ![r] = q]
               /\ q = [pc |-> "idle", todo |-> {}, at |-> None] \/ \E pc \in {"idle", "list"} : q = [request[r] EXCEPT !.pc = pc]
  BY <1>3
<1>5. q \in RequestRows
  BY <1>1, <1>4, RequestRow
<1>6. HoldsRow(q)
  <2>1. CASE q = [pc |-> "idle", todo |-> {}, at |-> None]
    BY <2>1, IdleHolds
  <2>2. CASE \E pc \in {"idle", "list"} : q = [request[r] EXCEPT !.pc = pc]
    <3>1. q.todo = request[r].todo /\ q.at = request[r].at
      BY <1>1, <2>2 DEF RequestRows
    <3> QED BY <1>1, <3>1 DEF HoldsRow
  <2> QED BY <1>4, <2>1, <2>2
<1> QED BY <1>2, <1>4, <1>5, <1>6, SellerReads

\* What a recheck writes to the draft it took.
LEMMA RecheckWrites ==
  ASSUME DInv, NEW at \in Taken, draft[at.id] # None,
         NEW status \in Status, NEW item \in {"NONE", "OPEN", "READY", "STALE"},
         NEW n \in {at.row.notified, product},
         draft' = [draft EXCEPT ![at.id] = Rechecked(at.row, draft[at.id], status, item, n)]
  PROVE  DraftsKept /\ SameWords
<1>1. at.id \in Ids /\ at.row \in Draft
  BY DEF Taken
<1>2. draft[at.id] \in Draft /\ draft \in [Ids -> Draft \cup {None}] /\ product \in 0 .. Edits
  BY <1>1 DEF DInv, Typed
<1>3. n \in 0 .. Edits
  <2>1. at.row.notified \in 0 .. Edits
    BY <1>1, DraftColumns
  <2> QED BY <1>2, <2>1
<1>4. PICK new : new = Rechecked(at.row, draft[at.id], status, item, n)
  OBVIOUS
<1>5. /\ new \in Draft /\ new.cand = draft[at.id].cand /\ new.version = draft[at.id].version
      /\ new.notified = Written(at.row.notified, n, draft[at.id].notified)
  <2>1. PICK row : row = at.row
    OBVIOUS
  <2>2. PICK cur : cur = draft[at.id]
    OBVIOUS
  <2>3. row \in Draft /\ cur \in Draft /\ new = Rechecked(row, cur, status, item, n)
    BY <1>1, <1>2, <1>4, <2>1, <2>2
  <2>4. /\ new \in Draft /\ new.cand = cur.cand /\ new.version = cur.version
        /\ new.notified = Written(row.notified, n, cur.notified)
    <3>1. status \in Status /\ item \in Items /\ n \in 0 .. Edits
      BY <1>3 DEF Items
    <3>2. LET x == Rechecked(row, cur, status, item, n) IN
          /\ x \in Draft /\ x.cand = cur.cand /\ x.version = cur.version
          /\ x.notified = Written(row.notified, n, cur.notified)
      BY <2>3, <3>1, RecheckedRow, Zenon
    <3> QED BY <2>3, <3>2
  <2> QED BY <2>1, <2>2, <2>4
<1>6. new.notified \in {draft[at.id].notified, product}
  <2>1. CASE n = at.row.notified
    BY <1>5, <2>1 DEF Written
  <2>2. CASE n # at.row.notified
    BY <1>5, <2>2 DEF Written
  <2> QED BY <2>1, <2>2
<1>7. draft' = [draft EXCEPT ![at.id] = new]
  BY <1>4
<1>8. DraftsKept
  BY <1>1, <1>5, <1>6, <1>7, OneRowKept
<1>9. ASSUME NEW d \in Ids
      PROVE  /\ draft[d] = None <=> draft'[d] = None
             /\ draft[d] # None => draft'[d].cand = draft[d].cand /\ draft'[d].version = draft[d].version
  <2>1. CASE d = at.id
    <3>1. draft'[d] = new /\ new # None
      BY <1>2, <1>5, <1>7, <2>1, DraftColumns
    <3> QED BY <1>5, <2>1, <3>1
  <2>2. CASE d # at.id
    BY <1>2, <1>7, <2>2
  <2> QED BY <2>1, <2>2
<1> QED BY <1>8, <1>9 DEF SameWords

\* maintenance.py recheck, of one verification.
LEMMA RecheckKeeps == ASSUME DInv, NEW r \in Servers, Recheck(r) PROVE DInv' /\ DraftsKept
<1> DEFINE at == request[r].at
           d == at.id
           put(row) == draft' = [draft EXCEPT ![d] = row]
           next == [request EXCEPT ![r].at = None]
           usable == Usable([at.row EXCEPT !.live = draft[d].live], at.row.version)
<1>1. at # None /\ UNCHANGED <<facts, product, session, offer, turn>>
  BY DEF Recheck
<1>2. request[r] \in RequestRows /\ HoldsRow(request[r]) /\ request \in [Servers -> RequestRows]
  BY RequestsHeld DEF DInv, Typed
<1>3. at \in Taken /\ draft[at.id] # None
  BY <1>1, <1>2 DEF RequestRows, HoldsRow
<1>4. at.id \in Ids /\ at.row \in Draft
  BY <1>3 DEF Taken
<1>5. at.row.status \in Status /\ at.row.cand \in Candidate /\ at.row.version \in Nat
  BY <1>4, DraftColumns
<1>6. notices \subseteq Ids \X (0 .. Edits) /\ product \in 0 .. Edits /\ shown \subseteq Contexts /\ session.version \in Nat
  BY DEF DInv, Typed
<1>7. \/ /\ UNCHANGED <<draft, shown, notices>>
         /\ request' = [request EXCEPT ![r] = [pc |-> "idle", todo |-> {}, at |-> None]]
      \/ /\ request' = next
         /\ \E status \in Status, item \in {"OPEN", "READY", "STALE"}, n \in {at.row.notified, product} :
               put(Rechecked(at.row, draft[d], status, item, n))
         /\ \/ UNCHANGED <<shown, notices>>
            \/ shown' = shown \cup {Notice(at)} /\ notices' = notices \cup {<<d, product>>}
  <2>1. CASE ~usable
    <3>1. request' = next /\ UNCHANGED <<shown, notices>>
          /\ put(Rechecked(at.row, draft[d], at.row.status, "STALE", at.row.notified))
      BY <2>1 DEF Recheck
    <3> HIDE DEF at, put, next, usable
    <3> QED BY <1>5, <3>1
  <2>2. CASE usable /\ ~Complete(at.row.cand, at.snap)
    <3>1. request' = next /\ UNCHANGED <<shown, notices>>
          /\ put(Rechecked(at.row, draft[d], "PENDING", "OPEN", at.row.notified))
      BY <2>2 DEF Recheck
    <3>2. "PENDING" \in Status
      BY DEF Status
    <3> HIDE DEF at, put, next, usable
    <3> QED BY <3>1, <3>2
  <2>3. CASE usable /\ Complete(at.row.cand, at.snap)
    <3>1. \/ /\ UNCHANGED <<draft, shown, notices>>
             /\ request' = [request EXCEPT ![r] = [pc |-> "idle", todo |-> {}, at |-> None]]
          \/ /\ request' = next
             /\ put(Rechecked(at.row, draft[d], "READY", "READY", product))
             /\ \/ UNCHANGED <<shown, notices>>
                \/ shown' = shown \cup {Notice(at)} /\ notices' = notices \cup {<<d, product>>}
      BY <2>3 DEF Recheck
    <3>2. "READY" \in Status
      BY DEF Status
    <3> HIDE DEF at, put, next, usable
    <3> QED BY <3>1, <3>2
  <2> QED BY <2>1, <2>2, <2>3
<1>8. CASE /\ UNCHANGED <<draft, shown, notices>>
           /\ request' = [request EXCEPT ![r] = [pc |-> "idle", todo |-> {}, at |-> None]]
  <2>1. [pc |-> "idle", todo |-> {}, at |-> None] \in RequestRows
    BY <1>2, RequestRow
  <2> QED BY <1>1, <1>8, <2>1, IdleHolds, SellerReads
<1>9. CASE /\ request' = next
           /\ \E status \in Status, item \in {"OPEN", "READY", "STALE"}, n \in {at.row.notified, product} :
                 put(Rechecked(at.row, draft[d], status, item, n))
           /\ \/ UNCHANGED <<shown, notices>>
              \/ shown' = shown \cup {Notice(at)} /\ notices' = notices \cup {<<d, product>>}
  <2>1. PICK status \in Status, item \in {"OPEN", "READY", "STALE"}, n \in {at.row.notified, product} :
                 draft' = [draft EXCEPT ![at.id] = Rechecked(at.row, draft[at.id], status, item, n)]
    BY <1>9
  <2>2. PICK t : t = at
    OBVIOUS
  <2>3. DraftsKept /\ SameWords
    <3>1. t \in Taken /\ draft[t.id] # None /\ n \in {t.row.notified, product}
          /\ item \in {"NONE", "OPEN", "READY", "STALE"}
          /\ draft' = [draft EXCEPT ![t.id] = Rechecked(t.row, draft[t.id], status, item, n)]
      BY <1>3, <2>1, <2>2
    <3> HIDE DEF at, next, put
    <3> QED BY <3>1, RecheckWrites
  <2>4. PICK q : q = [request[r] EXCEPT !.at = None]
    OBVIOUS
  <2>5. q \in RequestRows /\ request' = [request EXCEPT ![r] = q]
    BY <1>2, <1>9, <2>4, RequestRow
  <2>6. q.todo = request[r].todo /\ q.at = None
    BY <1>2, <2>4 DEF RequestRows
  <2>7. HoldsRow(q)
    BY <1>2, <2>6 DEF HoldsRow
  <2>8. shown' \subseteq Contexts /\ \A c \in shown' : c \in shown \/ \A ref \in c.refs : RefersTo(ref)'
    <3>1. PICK x : x = [id |-> at.id, version |-> at.row.version, cand |-> at.row.cand]
      OBVIOUS
    <3>2. x \in References
      BY <1>4, <1>5, <3>1 DEF References
    <3>3. RefersTo(x)
      BY <1>1, <1>2, <1>4, <3>1 DEF RefersTo, HoldsRow
    <3>4. x.version \in Nat
      BY <3>2 DEF References
    <3>5. RefersTo(x)'
      BY <2>3, <3>3, <3>4, RefersStill DEF DInv
    <3>6. PICK c : c = Notice(at)
      OBVIOUS
    <3>7. c \in Contexts /\ c.refs = {x}
      BY <1>6, <3>1, <3>2, <3>6 DEF Notice, Context, Contexts
    <3>8. shown' = shown \/ shown' = shown \cup {c}
      BY <1>9, <3>6
    <3> HIDE DEF at, next, put, d
    <3> QED BY <1>6, <3>5, <3>7, <3>8
  <2>9. notices' \subseteq Ids \X (0 .. Edits)
    BY <1>4, <1>6, <1>9
  <2> HIDE DEF at, next, put, d
  <2> QED BY <1>1, <2>3, <2>5, <2>7, <2>8, <2>9, SellerMoves
<1> QED BY <1>7, <1>8, <1>9

\* A fact changes: its version is new, so no snapshot and no offer is about it.
LEMMA SetFactKeeps ==
  ASSUME DraftConstants, DInv, NEW r \in Servers, NEW x \in Conds, SetFact(r, x)
  PROVE  DInv' /\ DraftsKept
<1>1. /\ product < Edits /\ product' = product + 1
      /\ UNCHANGED <<session, offer, draft, shown, notices, turn>>
      /\ request' = [request EXCEPT ![r].pc = "list"]
  BY DEF SetFact
<1>2. PICK value \in {"SATISFIED", "UNSATISFIED", "UNKNOWN"} :
        facts' = [facts EXCEPT ![x] = [value |-> value, version |-> product']]
  BY DEF SetFact
<1>3. product \in 0 .. Edits /\ Edits \in Nat /\ facts \in Evidence
  BY DEF DInv, Typed, DraftConstants
<1>4. product' \in 0 .. Edits /\ product < product'
  BY <1>1, <1>3
<1>5. facts' \in Evidence
  BY <1>2, <1>3, <1>4 DEF Evidence
<1>6. facts'[x].version = product' /\ \A y \in Conds : y # x => facts'[y] = facts[y]
  BY <1>2, <1>3 DEF Evidence
<1>7. DraftsKept
  BY <1>1, DraftsRest
<1>8. PICK q : q = [request[r] EXCEPT !.pc = "list"]
  OBVIOUS
<1>9. request[r] \in RequestRows /\ HoldsRow(request[r])
  BY RequestsHeld
<1>10. q \in RequestRows /\ request' = [request EXCEPT ![r] = q]
  BY <1>1, <1>8, <1>9, RequestRow
<1>11. HoldsRow(q)
  <2>1. q.todo = request[r].todo /\ q.at = request[r].at
    BY <1>8, <1>9 DEF RequestRows
  <2> QED BY <1>9, <2>1 DEF HoldsRow
<1>12. request' \in [Servers -> RequestRows] /\ \A s \in Servers : HoldsRow(request[s])'
  BY <1>7, <1>10, <1>11, RequestMoves
<1>13. Typed'
  BY <1>1, <1>4, <1>5, <1>12 DEF DInv, Typed
<1>14. Grounded'
  <2>1. \A y \in Conds : facts'[y].version <= product'
    <3>1. \A y \in Conds : facts[y].version \in Nat /\ facts[y].version <= product
      BY <1>3 DEF DInv, Grounded, Evidence
    <3> QED BY <1>3, <1>4, <1>6, <3>1
  <2>2. ASSUME NEW s \in Evidence, Agrees(s)
        PROVE  \A y \in Conds : /\ s[y].version <= product'
                                /\ s[y].version = facts'[y].version => s[y].value = facts'[y].value
    <3>1. \A y \in Conds : s[y].version \in Nat
      BY <2>2 DEF Evidence
    <3> QED BY <1>3, <1>4, <1>6, <2>2, <3>1 DEF Agrees
  <2>3. turn'.snap # None => turn'.snap \in Evidence /\ Agrees(turn.snap)'
    <3> SUFFICES ASSUME turn.snap # None PROVE turn.snap \in Evidence /\ Agrees(turn.snap)'
      BY <1>1
    <3>1. turn.snap \in Evidence /\ Agrees(turn.snap)
      BY DEF DInv, Grounded
    <3>2. PICK s : s = turn.snap
      OBVIOUS
    <3>3. turn'.snap = s
      BY <1>1, <3>2
    <3> QED BY <2>2, <3>1, <3>2, <3>3 DEF Agrees
  <2>4. ASSUME offer # None
        PROVE  /\ Fields \subseteq offer.cand.fields /\ offer.cand.promises = {}
               /\ \A y \in offer.cand.conds :
                    /\ offer.seen[y] <= product'
                    /\ facts'[y].version = offer.seen[y] => facts'[y].value = "SATISFIED"
    <3>1. offer \in Offers
      BY <2>4 DEF DInv, Typed
    <3>2. offer.cand.conds \subseteq Conds /\ \A y \in Conds : offer.seen[y] \in Nat
      BY <3>1, OfferColumns DEF Candidate
    <3>3. /\ Fields \subseteq offer.cand.fields /\ offer.cand.promises = {}
          /\ \A y \in offer.cand.conds :
               /\ offer.seen[y] <= product
               /\ facts[y].version = offer.seen[y] => facts[y].value = "SATISFIED"
      BY <2>4 DEF DInv, Grounded
    <3> QED BY <1>3, <1>4, <1>6, <3>2, <3>3
  <2> QED BY <1>1, <2>1, <2>3, <2>4 DEF Grounded, Agrees
<1>15. Referring'
  <2>1. /\ \A c \in shown : \A y \in c.refs : RefersTo(y)'
        /\ \A y \in turn.ack.refs : RefersTo(y)'
        /\ \A y : y = turn.ref /\ y # NoRef => RefersTo(y)'
        /\ \A d \in turn.drafts : draft'[d] # None
    BY <1>7, ShownStill DEF DInv
  <2> QED BY <1>1, <1>12, <2>1 DEF Referring, HoldsRow, RefersTo
<1>16. Room' /\ Choosing'
  BY <1>1 DEF DInv, Room, Choosing
<1>17. Notified'
  <2>1. \A d \in Ids : draft[d] # None => draft[d] \in Draft /\ draft[d].notified <= product
    BY DEF DInv, Notified, Typed
  <2>2. \A d \in Ids : draft[d] # None => draft[d].notified \in Nat
    BY <2>1, DraftColumns, <1>3
  <2> QED BY <1>1, <1>3, <1>4, <2>1, <2>2 DEF Notified
<1>18. Held'
  BY <1>1, HeldRests DEF DInv, Held
<1> QED BY <1>7, <1>13, <1>14, <1>15, <1>16, <1>17, <1>18 DEF DInv

\* A draft expires.
LEMMA ExpireKeeps == ASSUME DInv, NEW d \in Ids, Expire(d) PROVE DInv' /\ DraftsKept
<1>1. draft[d] # None /\ draft' = [draft EXCEPT ![d].live = FALSE]
      /\ UNCHANGED <<facts, product, session, offer, shown, notices, turn, request>>
  BY DEF Expire
<1>2. draft[d] \in Draft /\ draft \in [Ids -> Draft \cup {None}]
  BY <1>1 DEF DInv, Typed
<1>3. PICK row : row = [draft[d] EXCEPT !.live = FALSE]
  OBVIOUS
<1>4. row \in Draft /\ row.cand = draft[d].cand /\ row.version = draft[d].version /\ row.notified = draft[d].notified
  BY <1>2, <1>3, DraftLive
<1>5. draft' = [draft EXCEPT ![d] = row]
  BY <1>1, <1>3
<1>6. DraftsKept
  BY <1>1, <1>4, <1>5, OneRowKept
<1>7. SameWords
  <2>1. row # None
    BY <1>4, DraftColumns
  <2> QED BY <1>1, <1>2, <1>4, <1>5, <2>1 DEF SameWords
<1>8. /\ \A c \in shown : \A y \in c.refs : RefersTo(y)'
      /\ \A y \in turn.ack.refs : RefersTo(y)'
      /\ \A y : y = turn.ref /\ y # NoRef => RefersTo(y)'
      /\ \A e \in turn.drafts : draft'[e] # None
  BY <1>6, ShownStill DEF DInv
<1>9. \A s \in Servers : HoldsRow(request[s])'
  <2> SUFFICES ASSUME NEW s \in Servers PROVE HoldsRow(request[s])'
    OBVIOUS
  <2>1. HoldsRow(request[s]) /\ request[s] \in RequestRows
    BY RequestsHeld
  <2>2. PICK q : q = request[s]
    OBVIOUS
  <2>3. HoldsRow(q)'
    BY <1>6, <2>1, <2>2, RequestsHold DEF DInv
  <2>4. request'[s] = q
    BY <1>1, <2>2
  <2> QED BY <2>3, <2>4 DEF HoldsRow
<1>10. Typed'
  BY <1>1, <1>6 DEF DInv, Typed, DraftsKept
<1>11. Grounded' /\ Choosing'
  BY <1>1 DEF DInv, Grounded, Agrees, Choosing
<1>12. Referring'
  BY <1>1, <1>8, <1>9 DEF Referring, HoldsRow, RefersTo
<1>13. Room'
  BY <1>1, <1>7 DEF DInv, Room, SameWords
<1>14. Notified'
  BY <1>1, <1>6 DEF DraftsKept, Notified
<1>15. Held'
  BY <1>1, <1>7, HeldStill
<1> QED BY <1>6, <1>10, <1>11, <1>12, <1>13, <1>14, <1>15 DEF DInv

-----------------------------------------------------------------------------
(* Every step                                                              *)

\* At the start there is nothing.
LEMMA DraftsStart == ASSUME DraftConstants, Init PROVE DInv
<1>1. facts \in Evidence /\ \A x \in Conds : facts[x].version = 0
  BY DEF Init, Evidence, DraftConstants
<1>2. turn \in TurnRows /\ turn.drafts = {} /\ turn.selected = {} /\ turn.command = "QUERY"
      /\ turn.open = FALSE /\ turn.snap = None /\ turn.pc = "idle" /\ turn.ack.refs = {} /\ turn.ref = NoRef
  BY EmptyRows DEF Init
<1>3. request \in [Servers -> RequestRows]
      /\ \A s \in Servers : request[s].todo = {} /\ request[s].at = None
  <2>1. [pc |-> "idle", todo |-> {}, at |-> None] \in RequestRows
    BY DEF RequestRows
  <2> QED BY <2>1 DEF Init
<1>4. Typed
  <2>1. product \in 0 .. Edits /\ session \in [status : {"ACTIVE", "AGREED", "CLOSED"}, version : Nat]
    BY DEF Init, DraftConstants
  <2>2. offer \in Offers \cup {None} /\ shown \subseteq Contexts /\ notices \subseteq Ids \X (0 .. Edits)
    BY DEF Init
  <2>3. draft \in [Ids -> Draft \cup {None}]
    BY DEF Init
  <2> QED BY <1>1, <1>2, <1>3, <2>1, <2>2, <2>3 DEF Typed
<1>5. Grounded /\ Referring
  BY <1>1, <1>2, <1>3 DEF Init, Grounded, Referring
<1>6. Room /\ Choosing /\ Notified /\ Held
  BY <1>2 DEF Init, Room, Choosing, Notified, Held
<1> QED BY <1>4, <1>5, <1>6 DEF DInv

\* Other components leave the rows alone.
LEMMA DraftsStutter == ASSUME DInv, UNCHANGED vars PROVE DInv' /\ DraftsKept
<1>1. UNCHANGED <<facts, product, session, offer, draft, shown, notices, turn, request>>
  BY DEF vars
<1>2. DInv'
  BY <1>1 DEF DInv, Typed, Grounded, Agrees, Referring, RefersTo, Room, Choosing, Notified, Held, Loaded
<1> QED BY <1>1, <1>2, DraftsRest

\* The invariant is inductive, and no step loses what a draft says.
THEOREM DraftsStep == ASSUME DraftConstants, DInv, [Next]_vars PROVE DInv' /\ DraftsKept
<1>1. CASE Receive
  BY <1>1, ReceiveKeeps
<1>2. CASE Begin
  BY <1>2, BeginKeeps
<1>3. CASE Plan
  BY <1>3, PlanKeeps
<1>4. CASE Refuse
  BY <1>4, RefuseKeeps
<1>5. CASE Submit
  BY <1>5, SubmitKeeps
<1>6. CASE Confirm
  BY <1>6, ConfirmKeeps
<1>7. CASE Withdraw
  BY <1>7, WithdrawKeeps
<1>8. CASE Close
  BY <1>8, CloseKeeps
<1>9. CASE Abort
  BY <1>9, AbortKeeps
<1>10. CASE Publish
  BY <1>10, PublishKeeps
<1>11. CASE TurnFails
  BY <1>11, TurnFailsKeeps
<1>12. ASSUME NEW r \in Servers, \/ List(r) \/ Take(r) \/ Recheck(r) \/ Answered(r)
                                 \/ AskRecheck(r) \/ RequestFails(r)
                                 \/ \E x \in Conds : SetFact(r, x)
       PROVE  DInv' /\ DraftsKept
  <2>1. CASE List(r)
    BY <2>1, ListKeeps
  <2>2. CASE Take(r)
    BY <2>2, TakeKeeps
  <2>3. CASE Recheck(r)
    BY <2>3, RecheckKeeps
  <2>4. CASE Answered(r) \/ AskRecheck(r) \/ RequestFails(r)
    BY <2>4, RequestEnds
  <2>5. CASE \E x \in Conds : SetFact(r, x)
    BY <2>5, SetFactKeeps
  <2> QED BY <1>12, <2>1, <2>2, <2>3, <2>4, <2>5
<1>13. ASSUME NEW d \in Ids, Expire(d) PROVE DInv' /\ DraftsKept
  BY <1>13, ExpireKeeps
<1>14. ASSUME NEW c \in shown, Display(c) PROVE DInv' /\ DraftsKept
  BY <1>14, DisplayKeeps
<1>15. CASE Lock
  BY <1>15, LockKeeps
<1>16. CASE UNCHANGED vars
  BY <1>16, DraftsStutter
<1> QED BY <1>1, <1>2, <1>3, <1>4, <1>5, <1>6, <1>7, <1>8, <1>9, <1>10, <1>11, <1>12, <1>13, <1>14,
           <1>15, <1>16 DEF Next

\* The rows have the shape the tables give them.
LEMMA DraftsTypes == ASSUME DraftConstants, DInv PROVE TypeOK
<1>1. session.status \in {"ACTIVE", "AGREED", "CLOSED"} /\ session.version \in Nat
  BY DEF DInv, Typed
<1>2. facts \in [Conds -> [value : {"SATISFIED", "UNSATISFIED", "UNKNOWN"}, version : 0 .. Edits]]
  BY DEF DInv, Typed, Evidence
<1>3. turn.selected \subseteq turn.drafts
  BY DEF DInv, Choosing
<1>4. \A d \in Ids : draft[d] # None => draft[d].notified <= product
  BY DEF DInv, Notified
<1> QED BY <1>1, <1>2, <1>3, <1>4 DEF TypeOK, DInv, Typed

\* The conditions of the current offer were met by the very facts it was quoted on
\* (quote_in_transaction).
THEOREM OfferStandsOnFacts == ASSUME DInv PROVE OfferIsGrounded
BY DEF DInv, Grounded, OfferIsGrounded

\* A continuation never erases a condition or a commitment (semantic/service.py
\* merge_candidate), nor does a recheck or the second of two alternatives.
THEOREM ConditionsKept == ASSUME DraftsKept PROVE KeepsConditions
BY DEF DraftsKept, KeptRow, KeepsConditions

\* What a card shows is what a message that refers to it continues, once (usable_draft,
\* bound_draft).
THEOREM ContinuedAsShown == ASSUME DInv, DraftsKept PROVE ContinuesAsShown
<1> SUFFICES ASSUME NEW d \in Ids, draft[d] # None, draft'[d].version > draft[d].version
             PROVE  /\ turn.ref.id = d /\ turn.ref.cand = draft[d].cand
                    /\ draft'[d].version = draft[d].version + 1
  BY DEF ContinuesAsShown
<1>1. draft[d] \in Draft
  BY DEF DInv, Typed
<1>2. draft[d].version \in Nat
  BY <1>1, DraftColumns
<1>3. /\ draft'[d].version = draft[d].version + 1
      /\ turn.ref # NoRef /\ turn.ref.id = d /\ turn.ref.version = draft[d].version
  BY <1>2 DEF DraftsKept, KeptRow
<1>4. RefersTo(turn.ref)
  BY <1>3 DEF DInv, Referring
<1> QED BY <1>3, <1>4 DEF RefersTo

\* Only a confirmation makes an agreement, of the offer shown and on the facts its transaction
\* began with (confirm_in_transaction).
THEOREM AgreedOnEvidence == ASSUME [Next]_vars PROVE AgreesOnEvidence
<1> SUFFICES ASSUME session.status = "ACTIVE", session'.status = "AGREED"
             PROVE  ValidBasis(offer, turn.snap) /\ turn.ack.business = session.version
  BY DEF AgreesOnEvidence
<1>1. session' # session
  OBVIOUS
<1>2. Submit \/ Confirm \/ Withdraw \/ Close
  BY <1>1 DEF Next, vars, Receive, Begin, Lock, Display, Plan, Refuse, Abort, Publish, TurnFails, List, Take, Recheck,
               Answered, AskRecheck, RequestFails, SetFact, Expire
<1>3. CASE Confirm
  BY <1>3 DEF Confirm, Confirmable, Frozen
<1>4. CASE Submit
  <2>1. session' = [session EXCEPT !.version = @ + 1]
    BY <1>1, <1>4 DEF Submit
  <2> QED BY <2>1
<1>5. CASE Withdraw
  <2>1. session' = [session EXCEPT !.version = @ + 1]
    BY <1>5 DEF Withdraw
  <2> QED BY <2>1
<1>6. CASE Close
  <2>1. session' = [session EXCEPT !.status = "CLOSED", !.version = @ + 1]
    BY <1>6 DEF Close
  <2> QED BY <2>1
<1> QED BY <1>2, <1>3, <1>4, <1>5, <1>6
=============================================================================
