------------------------------ MODULE TurnsProofs ------------------------------
(* Proofs about the turns of MCTurns: a turn of the semantic graph (IInv), for  *)
(* any number of owners, calls, rounds and faults; a turn of the agent (AInv),  *)
(* for any number of processes, candidate replies, attempts and faults and any  *)
(* budgets; and what the composition keeps of them and of DraftsProofs: the     *)
(* other components leave their rows alone.                                     *)
EXTENDS MCTurns, FiniteSetTheorems, SequenceTheorems, TLAPS

(* Columns.                                                                     *)
Kinds == {"parse", "compose", "review"}
Answers == {"act", "query", "safe", "unsafe", "yes", "no"}
Stages == {"prepare", "parse", "plan", "commit", "compose", "review", "publish", "end"}
KeyRow == [kind : Kinds \union {"none"}, round : Nat, evidence : Nat, reply : Nat]
CallRow == [key : KeyRow, by : Epoch, status : {"RESERVED", "ACCEPTED", "UNKNOWN", "STALE"},
            used : {0, 1}, value : Answers \union {"none"}]
Checkpoints == [next : Stages, context : BOOLEAN, limit : BOOLEAN, answer : Nat,
                expected : Nat, round : 0..Rounds, valid : BOOLEAN, approved : BOOLEAN]
Places == {"off", "node", "stop", "ask", "wait", "got", "version", "save"}
ProcRow == [at : Places, cp : Checkpoints, try : {1, 2}, key : KeyRow, row : Nat,
            got : Answers \union {"none", "failed", "refused"}]
QualityRow == [kept : BOOLEAN, reply : Nat, evidence : Nat, approved : BOOLEAN]
Rows == [button : BOOLEAN, quality : QualityRow,
         turn : [kind : {"none", "act", "query"}, answer : Nat],
         receipt : Nat, delivery : Nat,
         message : [sent : BOOLEAN, acted : BOOLEAN, natural : Nat, version : Nat],
         resolved : BOOLEAN]
World == [version : Nat \ {0}, others : Nat, spent : BOOLEAN, due : BOOLEAN, faults : Nat]

Types ==
    /\ owner \in [epoch : 0..Owners, live : BOOLEAN, stopped : BOOLEAN]
    /\ lock \in {None, owner.epoch}
    /\ saved \in Checkpoints
    /\ proc \in [Epoch -> ProcRow]
    /\ ledger \in Seq(CallRow)
    /\ rows \in Rows
    /\ world \in World

(* The ledger: an answer is of the kind of its call.                            *)
Holding(i, kind) == i \in DOMAIN ledger /\ ledger[i].status = "ACCEPTED" /\ ledger[i].key.kind = kind
CallFits(c) ==
    /\ c.key.kind # "none"
    /\ c.status = "ACCEPTED" <=> c.value # "none"
    /\ c.value # "none" => c.value \in Values(c.key.kind)
    /\ c.status = "RESERVED" => c.used = None
LedgerFits == \A i \in DOMAIN ledger : CallFits(ledger[i])

(* What a checkpoint claims is in the rows.                                     *)
Backed(cp) ==
    /\ cp.answer # None => Holding(cp.answer, "parse")
    /\ cp.next = "plan" /\ cp.answer = None => rows.turn # NoTurn
    /\ cp.next \in {"commit", "compose", "review", "publish"} => rows.turn # NoTurn
    /\ cp.next \in {"compose", "review", "publish"} => rows.delivery # None
    /\ cp.next = "end" => rows.message.sent
    /\ cp.next \notin {"publish", "end"} => cp.round < Rounds

(* What it says of the candidate is true of the candidate in the rows.          *)
Safe(i) == Holding(i, "compose") /\ ledger[i].value = "safe"
Judged(cp) ==
    /\ cp.next = "review" /\ cp.valid /\ rows.quality.reply # None => Safe(rows.quality.reply)
    /\ cp.next = "publish" /\ cp.approved => rows.quality.approved

(* A process knows the node it asks for, and what it got is in the ledger.      *)
Sane(e) ==
    /\ Backed(proc[e].cp)
    /\ proc[e].at \in {"ask", "wait", "got"} =>
          /\ proc[e].key.kind # "none"
          /\ proc[e].key.kind = "parse" => proc[e].cp.next = "parse"
          /\ proc[e].key.kind = "compose" => proc[e].cp.next = "compose"
          /\ proc[e].key.kind = "review" => proc[e].cp.next = "review"
    /\ proc[e].at = "wait" =>
          /\ proc[e].row \in DOMAIN ledger
          /\ ledger[proc[e].row].status = "RESERVED" /\ ledger[proc[e].row].by = e
          /\ ledger[proc[e].row].key = proc[e].key
    /\ proc[e].at = "got" /\ proc[e].got \in Answers =>
          /\ proc[e].row \in DOMAIN ledger
          /\ ledger[proc[e].row].status = "ACCEPTED" /\ ledger[proc[e].row].key = proc[e].key
          /\ ledger[proc[e].row].value = proc[e].got
    /\ proc[e].at = "got" => proc[e].got # "none"
    /\ proc[e].at = "version" => rows.turn # NoTurn /\ proc[e].cp.next = "plan"

(* The newest owner stands where the checkpoint says, or is about to save; its  *)
(* unanswered call has no answer yet, and it reviews what the rows hold.        *)
Newest(e) ==
    /\ proc[e].at \notin {"off", "save"} => proc[e].cp = saved
    /\ proc[e].at = "save" => Judged(proc[e].cp)
    /\ proc[e].at = "wait" => Accepted(proc[e].key) = {}
    /\ proc[e].at \in {"ask", "wait", "got"} /\ proc[e].key.kind = "review" =>
          /\ rows.quality.reply # None /\ Safe(rows.quality.reply)
          /\ proc[e].key.reply = rows.quality.reply
          /\ proc[e].key.evidence = rows.quality.evidence

(* The candidate and the message.                                               *)
ReviewedOn(reply, version) == \E i \in DOMAIN ledger :
    /\ ledger[i].key.kind = "review" /\ ledger[i].value = "yes"
    /\ ledger[i].key.reply = reply /\ ledger[i].key.evidence = version
QualityFits == LET q == rows.quality IN
    /\ q.reply # None => Holding(q.reply, "compose")
    /\ q.approved => q.reply # None /\ Safe(q.reply) /\ ReviewedOn(q.reply, q.evidence)
MessageFits == LET m == rows.message IN
    m.natural # None => Safe(m.natural) /\ ReviewedOn(m.natural, m.version)

IInv ==
    /\ Types /\ LedgerFits /\ OneAnswerPerStep /\ SpendWithinCap
    /\ QualityFits /\ MessageFits
    /\ Backed(saved) /\ Judged(saved)
    /\ \A e \in Epoch : Sane(e)
    /\ owner.epoch # 0 => Newest(owner.epoch)

-------------------------------------------------------------------------------
(* The columns.                                                                 *)

\* The answers of the three kinds of calls.
LEMMA Valued ==
    /\ Values("parse") = {"act", "query"} /\ Values("compose") = {"safe", "unsafe"}
    /\ Values("review") = {"yes", "no"}
    /\ \A k \in Kinds : Values(k) \subseteq Answers
BY DEF Values, Kinds, Answers

\* A fresh process and the checkpoint of a fresh thread.
LEMMA Fresh ==
    /\ Start \in Checkpoints /\ Off \in ProcRow /\ NoKey \in KeyRow
    /\ Off.at = "off" /\ Off.cp = Start /\ Start.next = "prepare" /\ Start.answer = None
    /\ Start.round = 0
<1>1. 0 \in 0..Rounds
  BY TurnAssumption
<1>2. Start \in Checkpoints
  BY <1>1 DEF Start, Checkpoints, Stages, None
<1>3. NoKey \in KeyRow
  BY DEF NoKey, KeyRow, None
<1>4. Off \in ProcRow
  BY <1>2, <1>3 DEF Off, ProcRow, Places, None
<1> QED BY <1>2, <1>3, <1>4 DEF Off, Start

\* The columns of each table.
LEMMA Columns ==
    ASSUME Types
    PROVE  /\ owner.epoch \in 0..Owners /\ owner.live \in BOOLEAN /\ owner.stopped \in BOOLEAN
           /\ lock \in {None, owner.epoch} /\ saved \in Checkpoints
           /\ proc \in [Epoch -> ProcRow] /\ \A e \in Epoch : proc[e] \in ProcRow
           /\ ledger \in Seq(CallRow) /\ Len(ledger) \in Nat /\ DOMAIN ledger = 1..Len(ledger)
           /\ \A i \in DOMAIN ledger : ledger[i] \in CallRow
           /\ rows \in Rows /\ world \in World
BY DEF Types

\* The columns of a process.
LEMMA ProcColumns ==
    ASSUME NEW x \in ProcRow
    PROVE  /\ x.at \in Places /\ x.cp \in Checkpoints /\ x.try \in {1, 2} /\ x.key \in KeyRow
           /\ x.row \in Nat /\ x.got \in Answers \union {"none", "failed", "refused"}
BY DEF ProcRow

\* The columns of the rows of an input.
LEMMA RowColumns ==
    ASSUME NEW r \in Rows
    PROVE  /\ r.button \in BOOLEAN /\ r.quality \in QualityRow /\ r.receipt \in Nat
           /\ r.turn \in [kind : {"none", "act", "query"}, answer : Nat]
           /\ r.delivery \in Nat /\ r.resolved \in BOOLEAN
           /\ r.message \in [sent : BOOLEAN, acted : BOOLEAN, natural : Nat, version : Nat]
           /\ r.quality.kept \in BOOLEAN /\ r.quality.reply \in Nat
           /\ r.quality.evidence \in Nat /\ r.quality.approved \in BOOLEAN
           /\ r.message.sent \in BOOLEAN /\ r.message.natural \in Nat /\ r.message.version \in Nat
BY DEF Rows, QualityRow

\* A process record that is written leaves those of the others.
LEMMA Writing ==
    ASSUME Types, NEW e \in Epoch, NEW x \in ProcRow, proc' = [proc EXCEPT ![e] = x]
    PROVE  /\ proc' \in [Epoch -> ProcRow] /\ proc'[e] = x
           /\ \A f \in Epoch \ {e} : proc'[f] = proc[f]
BY DEF Types

-------------------------------------------------------------------------------
(* What a step never takes back.                                                *)

Grows ==
    /\ Len(ledger') \in Nat /\ Len(ledger) <= Len(ledger') /\ DOMAIN ledger' = 1..Len(ledger')
    /\ \A i \in DOMAIN ledger : /\ ledger'[i].key = ledger[i].key
                                /\ ledger[i].status # "RESERVED" => ledger'[i] = ledger[i]
Onward ==
    /\ rows.turn # NoTurn => rows'.turn = rows.turn
    /\ rows.delivery # None => rows'.delivery # None
    /\ rows.message.sent => rows'.message.sent

\* An accepted answer stays in the ledger.
LEMMA HoldingStays ==
    ASSUME Types, Grows, NEW i, NEW kind, Holding(i, kind)
    PROVE  Holding(i, kind)' /\ ledger'[i] = ledger[i]
<1>1. i \in 1..Len(ledger) /\ ledger[i].status = "ACCEPTED"
  BY Columns DEF Holding
<1>2. i \in DOMAIN ledger' /\ ledger'[i] = ledger[i]
  BY <1>1, Columns DEF Grows
<1> QED BY <1>2 DEF Holding

\* So does a safe candidate.
LEMMA SafeStays ==
    ASSUME Types, Grows, NEW i, Safe(i)
    PROVE  Safe(i)'
BY HoldingStays DEF Safe

\* So does a favourable review.
LEMMA ReviewStays ==
    ASSUME Types, LedgerFits, Grows, NEW reply, NEW version, ReviewedOn(reply, version)
    PROVE  ReviewedOn(reply, version)'
<1>1. PICK i \in DOMAIN ledger :
         /\ ledger[i].key.kind = "review" /\ ledger[i].value = "yes"
         /\ ledger[i].key.reply = reply /\ ledger[i].key.evidence = version
  BY DEF ReviewedOn
<1>2. ledger[i].status = "ACCEPTED"
  BY <1>1 DEF LedgerFits, CallFits
<1>3. Holding(i, "review")
  BY <1>1, <1>2 DEF Holding
<1>4. Holding(i, "review")' /\ ledger'[i] = ledger[i]
  BY <1>3, HoldingStays
<1> QED BY <1>1, <1>4 DEF ReviewedOn, Holding

\* What a checkpoint claims stays in the rows, whoever writes them.
LEMMA BackedStays ==
    ASSUME Types, Grows, Onward, NEW cp \in Checkpoints, Backed(cp)
    PROVE  Backed(cp)'
BY HoldingStays DEF Backed, Onward

\* So it does for a process that is not the one which acts.
LEMMA Bystander ==
    ASSUME Types, Grows, Onward, NEW e \in Epoch, Sane(e), proc'[e] = proc[e],
           proc[e].at = "wait" => ledger'[proc[e].row] = ledger[proc[e].row]
    PROVE  Sane(e)'
<1>1. proc[e] \in ProcRow /\ proc[e].cp \in Checkpoints
  BY Columns, ProcColumns
<1>2. Backed(proc[e].cp)'
  <2>1. PICK cp : cp = proc[e].cp
    OBVIOUS
  <2>2. Backed(cp)'
    BY <1>1, <2>1, BackedStays DEF Sane
  <2> QED BY <2>1, <2>2
<1>3. ASSUME proc[e].at = "wait"
      PROVE  proc[e].row \in DOMAIN ledger'
  BY <1>3, Columns DEF Sane, Grows
<1>4. ASSUME proc[e].at = "got", proc[e].got \in Answers
      PROVE  proc[e].row \in DOMAIN ledger' /\ ledger'[proc[e].row] = ledger[proc[e].row]
  BY <1>4, Columns DEF Sane, Grows
<1>5. proc[e].at = "version" => rows'.turn # NoTurn
  BY DEF Sane, Onward
<1> QED BY <1>2, <1>3, <1>4, <1>5 DEF Sane

-------------------------------------------------------------------------------
(* The ledger.                                                                  *)

\* ModelCallLedgerService.call writes a new row, or the outcome of the caller's own row.
Reserves(e) ==
    /\ ledger' = Append(ledger, NewCall(e))
    /\ proc[e].key.kind # "none" /\ Affordable(e)
Settles(e, c) ==
    /\ proc[e].at = "wait"
    /\ ledger' = [ledger EXCEPT ![proc[e].row] = c]
    /\ c \in CallRow /\ c.key = ledger[proc[e].row].key /\ c.by = e /\ CallFits(c)
    /\ c.status # "RESERVED" /\ (c.status = "ACCEPTED" => Holds(e))
Posts(e) == UNCHANGED ledger \/ Reserves(e) \/ \E c \in CallRow : Settles(e, c)

\* What has an answer afterwards had it before.
NothingNew ==
    \A i \in DOMAIN ledger' : ledger'[i].status = "ACCEPTED" =>
        i \in DOMAIN ledger /\ ledger[i] = ledger'[i]

\* A new row: nothing is answered by it.
LEMMA Reserving ==
    ASSUME Types, LedgerFits, NEW e \in Epoch, Reserves(e)
    PROVE  /\ ledger' \in Seq(CallRow) /\ Grows /\ LedgerFits' /\ NothingNew
           /\ \A i \in DOMAIN ledger : ledger'[i] = ledger[i]
           /\ Len(ledger') = Len(ledger) + 1 /\ ledger'[Len(ledger) + 1] = NewCall(e)
<1>1. proc[e] \in ProcRow /\ proc[e].key \in KeyRow
  BY Columns, ProcColumns
<1>2. PICK c : c = NewCall(e)
  OBVIOUS
<1>3. c \in CallRow /\ c.status = "RESERVED" /\ CallFits(c)
  BY <1>1, <1>2 DEF NewCall, CallRow, CallFits, Reserves, None
<1>4. ledger \in Seq(CallRow) /\ ledger' = Append(ledger, c)
  BY <1>2, Columns DEF Reserves
<1>5. /\ ledger' \in Seq(CallRow) /\ Len(ledger') = Len(ledger) + 1
      /\ \A i \in 1..Len(ledger) : ledger'[i] = ledger[i]
      /\ ledger'[Len(ledger) + 1] = c
  BY <1>3, <1>4, AppendProperties
<1>6. Len(ledger) \in Nat /\ DOMAIN ledger = 1..Len(ledger) /\ DOMAIN ledger' = 1..Len(ledger')
  BY <1>4, <1>5
<1>7. Grows
  BY <1>5, <1>6 DEF Grows
<1>8. LedgerFits'
  <2> SUFFICES ASSUME NEW i \in DOMAIN ledger' PROVE CallFits(ledger'[i])
    BY DEF LedgerFits, CallFits
  <2>1. CASE i = Len(ledger) + 1
    BY <1>3, <1>5, <2>1
  <2>2. CASE i # Len(ledger) + 1
    <3>1. i \in DOMAIN ledger
      BY <1>5, <1>6, <2>2
    <3>2. ledger'[i] = ledger[i]
      BY <1>5, <1>6, <3>1
    <3> QED BY <3>1, <3>2 DEF LedgerFits
  <2> QED BY <2>1, <2>2
<1>9. NothingNew
  <2> SUFFICES ASSUME NEW i \in DOMAIN ledger', ledger'[i].status = "ACCEPTED"
               PROVE  i \in DOMAIN ledger /\ ledger[i] = ledger'[i]
    BY DEF NothingNew
  <2>1. i # Len(ledger) + 1
    BY <1>3, <1>5
  <2> QED BY <1>5, <1>6, <2>1
<1> QED BY <1>2, <1>5, <1>6, <1>7, <1>8, <1>9

\* The outcome of a row that was out: only an owner of the run accepts an answer.
LEMMA Settling ==
    ASSUME Types, LedgerFits, NEW e \in Epoch, Sane(e), NEW c \in CallRow, Settles(e, c)
    PROVE  /\ ledger' \in Seq(CallRow) /\ Grows /\ LedgerFits'
           /\ \A i \in DOMAIN ledger : i # proc[e].row => ledger'[i] = ledger[i]
           /\ Len(ledger') = Len(ledger) /\ ledger'[proc[e].row] = c
           /\ Holds(e) \/ NothingNew
<1>1. PICK r : r = proc[e].row
  OBVIOUS
<1>2. r \in DOMAIN ledger /\ ledger[r].status = "RESERVED" /\ c.key = ledger[r].key
  BY <1>1 DEF Settles, Sane
<1>3. ledger \in Seq(CallRow) /\ ledger' = [ledger EXCEPT ![r] = c]
  BY <1>1, Columns DEF Settles
<1>4. /\ ledger' \in Seq(CallRow) /\ Len(ledger') = Len(ledger)
      /\ \A i \in 1..Len(ledger) : i # r => ledger'[i] = ledger[i]
      /\ ledger'[r] = c
  BY <1>2, <1>3, ExceptSeq
<1>5. Len(ledger) \in Nat /\ DOMAIN ledger = 1..Len(ledger) /\ DOMAIN ledger' = 1..Len(ledger')
  BY <1>3, <1>4
<1>6. Grows
  BY <1>2, <1>4, <1>5 DEF Grows
<1>7. LedgerFits'
  <2> SUFFICES ASSUME NEW i \in DOMAIN ledger' PROVE CallFits(ledger'[i])
    BY DEF LedgerFits, CallFits
  <2>1. CASE i = r
    BY <1>4, <2>1 DEF Settles
  <2>2. CASE i # r
    <3>1. i \in DOMAIN ledger /\ ledger'[i] = ledger[i]
      BY <1>4, <1>5, <2>2
    <3> QED BY <3>1 DEF LedgerFits
  <2> QED BY <2>1, <2>2
<1>8. ASSUME ~Holds(e) PROVE NothingNew
  <2> SUFFICES ASSUME NEW i \in DOMAIN ledger', ledger'[i].status = "ACCEPTED"
               PROVE  i \in DOMAIN ledger /\ ledger[i] = ledger'[i]
    BY DEF NothingNew
  <2>1. i # r
    BY <1>4, <1>8 DEF Settles
  <2> QED BY <1>4, <1>5, <2>1
<1> QED BY <1>1, <1>4, <1>5, <1>6, <1>7, <1>8

\* A step accepts at most one answer, and none of a key that has one.
LEMMA AnswersOnce ==
    ASSUME Types, LedgerFits, OneAnswerPerStep, NEW e \in Epoch, Sane(e), Posts(e),
           Holds(e) => Newest(e)
    PROVE  OneAnswerPerStep'
<1>1. CASE UNCHANGED ledger
  BY <1>1 DEF OneAnswerPerStep
<1>2. CASE NothingNew
  BY <1>2 DEF NothingNew, OneAnswerPerStep
<1>3. CASE Reserves(e)
  BY <1>2, <1>3, Reserving
<1>4. ASSUME NEW c \in CallRow, Settles(e, c), Holds(e)
      PROVE  OneAnswerPerStep'
  <2>1. PICK r : r = proc[e].row
    OBVIOUS
  <2>2. /\ r \in DOMAIN ledger /\ ledger[r].status = "RESERVED" /\ ledger[r].key = proc[e].key
        /\ c.key = proc[e].key /\ Accepted(proc[e].key) = {}
    BY <1>4, <2>1 DEF Settles, Sane, Newest
  <2>3. /\ DOMAIN ledger' = DOMAIN ledger /\ ledger'[r] = c
        /\ \A i \in DOMAIN ledger : i # r => ledger'[i] = ledger[i]
    BY <1>4, <2>1, Settling, Columns
  <2>4. ASSUME NEW i \in DOMAIN ledger', i # r, ledger'[i].key = c.key
        PROVE  ledger'[i].status # "ACCEPTED"
    BY <2>2, <2>3, <2>4 DEF Accepted
  <2> QED BY <2>2, <2>3, <2>4 DEF OneAnswerPerStep
<1> QED BY <1>1, <1>2, <1>3, <1>4, Settling DEF Posts

\* The rows of the ledger are numbered, so they can be counted.
LEMMA Counting ==
    ASSUME Types
    PROVE  /\ IsFiniteSet(DOMAIN ledger) /\ IsFiniteSet(Unsettled)
           /\ IsFiniteSet(DOMAIN ledger \ Unsettled)
           /\ Cardinality(Unsettled) \in Nat /\ Cardinality(DOMAIN ledger \ Unsettled) \in Nat
<1>1. IsFiniteSet(1..Len(ledger)) /\ DOMAIN ledger = 1..Len(ledger)
  BY Columns, FS_Interval
<1>2. Unsettled \in SUBSET (DOMAIN ledger) /\ DOMAIN ledger \ Unsettled \in SUBSET (DOMAIN ledger)
  BY DEF Unsettled
<1>3. IsFiniteSet(Unsettled)
  BY <1>1, <1>2, FS_Subset
<1>4. IsFiniteSet(DOMAIN ledger \ Unsettled)
  BY <1>1, <1>2, FS_Subset
<1> QED BY <1>1, <1>3, <1>4, FS_CardinalityType

\* The charge of U calls of unknown use and K of known use.
LEMMA Charging ==
    ASSUME NEW U \in Nat, NEW K \in Nat
    PROVE  /\ Reserve * (U + 1) + K = Reserve * U + K + Reserve
           /\ U > 0 => Reserve * (U - 1) + (K + 1) <= Reserve * U + K
           /\ Reserve * U + K \in Nat
<1>1. Reserve \in Nat /\ Reserve >= 1
  BY TurnAssumption
<1>2. Reserve * (U + 1) = Reserve * U + Reserve /\ Reserve * U \in Nat
  BY <1>1
<1>3. ASSUME U > 0 PROVE Reserve * (U - 1) + Reserve = Reserve * U /\ Reserve * (U - 1) \in Nat
  BY <1>1, <1>3
<1> QED BY <1>1, <1>2, <1>3

\* Reservations fit into the caps, outcomes never cost more than was reserved.
LEMMA SpendStays ==
    ASSUME Types, LedgerFits, SpendWithinCap, NEW e \in Epoch, Sane(e), Posts(e)
    PROVE  SpendWithinCap'
<1> DEFINE U == Cardinality(Unsettled)
           K == Cardinality(DOMAIN ledger \ Unsettled)
<1>1. U \in Nat /\ K \in Nat /\ IsFiniteSet(Unsettled) /\ IsFiniteSet(DOMAIN ledger \ Unsettled)
  BY Counting
<1>2. MaxCalls \in Nat /\ MaxTokens \in Nat /\ Reserve \in Nat
  BY TurnAssumption
<1>3. CASE UNCHANGED ledger
  BY <1>3 DEF SpendWithinCap, Charged, Unsettled
<1>4. CASE Reserves(e)
  <2>1. PICK n : n = Len(ledger) + 1
    OBVIOUS
  <2>2. /\ DOMAIN ledger = 1..Len(ledger) /\ Len(ledger) \in Nat /\ n \notin DOMAIN ledger
        /\ DOMAIN ledger' = DOMAIN ledger \union {n} /\ Len(ledger') = n
        /\ ledger'[n].used = None /\ \A i \in DOMAIN ledger : ledger'[i] = ledger[i]
    <3>1. /\ Grows /\ Len(ledger') = n /\ ledger'[n] = NewCall(e)
          /\ \A i \in DOMAIN ledger : ledger'[i] = ledger[i]
      BY <1>4, <2>1, Reserving
    <3>2. DOMAIN ledger = 1..Len(ledger) /\ Len(ledger) \in Nat /\ DOMAIN ledger' = 1..n
      BY <3>1, Columns DEF Grows
    <3>3. ledger'[n].used = None
      BY <3>1 DEF NewCall
    <3> QED BY <2>1, <3>1, <3>2, <3>3
  <2>3. Unsettled' = Unsettled \union {n} /\ n \notin Unsettled
    BY <2>2 DEF Unsettled
  <2>4. (DOMAIN ledger \ Unsettled)' = DOMAIN ledger \ Unsettled
    BY <2>2, <2>3 DEF Unsettled
  <2>5. Cardinality(Unsettled)' = U + 1
    BY <1>1, <2>3, FS_AddElement
  <2>6. Charged = Reserve * U + K /\ Charged' = Reserve * (U + 1) + K
    BY <2>4, <2>5 DEF Charged
  <2>7. Charged' = Charged + Reserve
    BY <1>1, <2>6, Charging
  <2>8. Len(ledger) < MaxCalls /\ Charged + Reserve <= MaxTokens
    BY <1>4 DEF Reserves, Affordable
  <2> QED BY <1>2, <2>1, <2>2, <2>7, <2>8 DEF SpendWithinCap
<1>5. ASSUME NEW c \in CallRow, Settles(e, c) PROVE SpendWithinCap'
  <2>1. PICK r : r = proc[e].row
    OBVIOUS
  <2>2. /\ r \in DOMAIN ledger /\ ledger[r].used = None
        /\ DOMAIN ledger' = DOMAIN ledger /\ Len(ledger') = Len(ledger) /\ ledger'[r] = c
        /\ \A i \in DOMAIN ledger : i # r => ledger'[i] = ledger[i]
    BY <1>5, <2>1, Settling, Columns DEF Settles, Sane, LedgerFits, CallFits
  <2>3. r \in Unsettled /\ Charged = Reserve * U + K
    BY <2>2 DEF Unsettled, Charged
  <2>4. CASE c.used = None
    <3>1. Unsettled' = Unsettled
      BY <2>2, <2>4 DEF Unsettled
    <3> QED BY <2>2, <3>1 DEF SpendWithinCap, Charged
  <2>5. CASE c.used # None
    <3>1. Unsettled' = Unsettled \ {r}
      BY <2>2, <2>5 DEF Unsettled
    <3>2. (DOMAIN ledger \ Unsettled)' = (DOMAIN ledger \ Unsettled) \union {r}
      BY <2>2, <3>1 DEF Unsettled
    <3>3. Cardinality(Unsettled)' = U - 1
      BY <1>1, <2>3, <3>1, FS_RemoveElement
    <3>4. Cardinality(DOMAIN ledger \ Unsettled)' = K + 1
      BY <1>1, <2>3, <3>2, FS_AddElement
    <3>5. U > 0
      BY <1>1, <2>3, FS_EmptySet
    <3>6. Charged' = Reserve * (U - 1) + (K + 1)
      BY <3>3, <3>4 DEF Charged
    <3>7. Charged' <= Charged
      BY <1>1, <2>3, <3>5, <3>6, Charging
    <3>8. Charged' \in Nat /\ Charged \in Nat
      BY <1>1, <1>2, <2>3, <3>5, <3>6, Charging
    <3> QED BY <1>2, <2>2, <3>7, <3>8 DEF SpendWithinCap
  <2> QED BY <2>4, <2>5
<1> QED BY <1>3, <1>4, <1>5 DEF Posts

-------------------------------------------------------------------------------
(* The rows of the turn.                                                        *)

QualityStays ==
    /\ rows'.quality.reply = rows.quality.reply /\ rows'.quality.evidence = rows.quality.evidence
    /\ rows'.quality.approved = rows.quality.approved
RowsFit == QualityFits /\ MessageFits

\* Where candidate and message stay, so does what the ledger holds for them.
LEMMA CandidateStays ==
    ASSUME Types, LedgerFits, Grows, QualityFits, QualityStays
    PROVE  QualityFits'
<1>1. PICK q : q = rows.quality
  OBVIOUS
<1>2. q.reply # None => Holding(q.reply, "compose")'
  BY <1>1, HoldingStays DEF QualityFits
<1>3. q.approved => q.reply # None /\ Safe(q.reply)' /\ ReviewedOn(q.reply, q.evidence)'
  BY <1>1, SafeStays, ReviewStays DEF QualityFits
<1> QED BY <1>1, <1>2, <1>3 DEF QualityFits, QualityStays

\* The same for the message.
LEMMA MessageStays ==
    ASSUME Types, LedgerFits, Grows, MessageFits, rows'.message = rows.message
    PROVE  MessageFits'
<1>1. PICK m : m = rows.message
  OBVIOUS
<1>2. m.natural # None => Safe(m.natural)' /\ ReviewedOn(m.natural, m.version)'
  BY <1>1, SafeStays, ReviewStays DEF MessageFits
<1> QED BY <1>1, <1>2 DEF MessageFits

\* A ledger that is left alone has all it had.
LEMMA LedgerStays ==
    ASSUME Types, UNCHANGED ledger
    PROVE  Grows /\ NothingNew /\ (LedgerFits => LedgerFits')
           /\ (OneAnswerPerStep => OneAnswerPerStep') /\ (SpendWithinCap => SpendWithinCap')
<1>1. Grows /\ NothingNew
  BY Columns DEF Grows, NothingNew
<1>2. LedgerFits => LedgerFits'
  BY DEF LedgerFits, CallFits
<1>3. OneAnswerPerStep => OneAnswerPerStep'
  BY DEF OneAnswerPerStep
<1>4. SpendWithinCap => SpendWithinCap'
  BY DEF SpendWithinCap, Charged, Unsettled
<1> QED BY <1>1, <1>2, <1>3, <1>4

\* plan_turn writes the plan once.
LEMMA Planning ==
    ASSUME Types, NEW kind \in {"act", "query"}, NEW answer \in Nat, rows' = Planned(kind, answer)
    PROVE  /\ rows' \in Rows /\ Onward /\ QualityStays /\ rows'.message = rows.message
           /\ rows'.turn # NoTurn
<1>1. rows \in Rows
  BY Columns
<1>2. PICK t : t = [kind |-> kind, answer |-> answer]
  OBVIOUS
<1>3. t # NoTurn /\ t \in [kind : {"none", "act", "query"}, answer : Nat]
  BY <1>2 DEF NoTurn
<1>4. CASE rows.turn # NoTurn
  BY <1>1, <1>4 DEF Planned, Onward, QualityStays
<1>5. CASE rows.turn = NoTurn
  <2>1. rows' = [rows EXCEPT !.turn = t]
    BY <1>2, <1>5 DEF Planned
  <2> QED BY <1>1, <1>3, <1>5, <2>1 DEF Rows, Onward, QualityStays
<1> QED BY <1>4, <1>5

\* The deliveries of commit and stop.
LEMMA Owing ==
    ASSUME Types, NEW r \in Nat, NEW d \in Nat \ {0},
           rows' = [rows EXCEPT !.receipt = r, !.delivery = d]
    PROVE  /\ rows' \in Rows /\ Onward /\ QualityStays /\ rows'.message = rows.message
           /\ rows'.delivery # None
BY Columns DEF Rows, Onward, QualityStays, None

\* publish: a natural text is one that the rows hold as reviewed, on this very version.
LEMMA Publishing ==
    ASSUME Types, LedgerFits, QualityFits, MessageFits, rows' = Published, UNCHANGED ledger
    PROVE  /\ rows' \in Rows /\ Onward /\ QualityStays /\ QualityFits' /\ MessageFits'
           /\ rows'.message.sent
<1>1. rows \in Rows /\ world \in World /\ Grows
  BY Columns, LedgerStays
<1>2. CASE rows.message.sent
  <2>1. rows' = rows
    BY <1>2 DEF Published
  <2>2. QualityStays /\ rows'.message = rows.message /\ Onward
    BY <2>1 DEF QualityStays, Onward
  <2> QED BY <1>1, <1>2, <2>1, <2>2, CandidateStays, MessageStays
<1>3. CASE ~rows.message.sent
  <2>1. PICK m : m = [sent |-> TRUE, acted |-> rows.receipt # None, version |-> world.version,
                      natural |-> IF Natural THEN rows.quality.reply ELSE None]
    OBVIOUS
  <2>2. rows' = [rows EXCEPT !.message = m]
    BY <1>3, <2>1 DEF Published
  <2>3. m \in [sent : BOOLEAN, acted : BOOLEAN, natural : Nat, version : Nat] /\ m.sent
    <3>1. rows.quality.reply \in Nat /\ world.version \in Nat
      BY <1>1, RowColumns DEF World
    <3>2. (IF Natural THEN rows.quality.reply ELSE None) \in Nat
      BY <3>1 DEF None
    <3> QED BY <2>1, <3>1, <3>2
  <2>4. rows' \in Rows /\ QualityStays /\ Onward /\ rows'.message = m
    BY <1>1, <1>3, <2>2, <2>3 DEF Rows, QualityStays, Onward
  <2>5. QualityFits'
    BY <1>1, <2>4, CandidateStays
  <2>6. m.natural # None => Natural /\ m.natural = rows.quality.reply /\ m.version = rows.quality.evidence
    BY <2>1 DEF Natural
  <2>7. m.natural # None => Safe(m.natural) /\ ReviewedOn(m.natural, m.version)
    BY <2>6 DEF Natural, QualityFits
  <2>8. m.natural # None => Safe(m.natural)' /\ ReviewedOn(m.natural, m.version)'
    BY <1>1, <2>7, SafeStays, ReviewStays
  <2> QED BY <2>3, <2>4, <2>5, <2>8 DEF MessageFits
<1> QED BY <1>2, <1>3

\* compose stores the answer that the process got, as a candidate nobody has reviewed.
LEMMA Composing ==
    ASSUME Types, LedgerFits, MessageFits, NEW e \in Epoch, Sane(e), proc[e].at = "got",
           proc[e].key.kind = "compose", rows' = [rows EXCEPT !.quality = Candidate(e)],
           UNCHANGED ledger
    PROVE  /\ rows' \in Rows /\ Onward /\ QualityFits' /\ MessageFits'
           /\ proc[e].got = "safe" => (rows.quality.reply # None => Safe(rows.quality.reply))'
           /\ rows'.quality.approved = FALSE
<1>1. rows \in Rows /\ Grows /\ proc[e] \in ProcRow
  BY Columns, LedgerStays
<1>2. PICK q : q = Candidate(e)
  OBVIOUS
<1>3. PICK r : r = IF proc[e].got \in Values("compose") THEN proc[e].row ELSE None
  OBVIOUS
<1>4. q = [rows.quality EXCEPT !.reply = r, !.evidence = proc[e].key.evidence, !.approved = FALSE]
  BY <1>2, <1>3 DEF Candidate
<1>5. r \in Nat /\ proc[e].key.evidence \in Nat
  BY <1>1, <1>3, ProcColumns DEF None, KeyRow
<1>6. q \in QualityRow /\ q.reply = r /\ q.approved = FALSE
  BY <1>1, <1>4, <1>5, RowColumns DEF QualityRow
<1>7. rows' = [rows EXCEPT !.quality = q]
  BY <1>2
<1>8. rows' \in Rows /\ Onward /\ rows'.message = rows.message /\ rows'.quality = q
  BY <1>1, <1>6, <1>7 DEF Rows, Onward
<1>9. r # None => proc[e].got \in {"safe", "unsafe"} /\ r = proc[e].row
  BY <1>3, Valued
<1>10. r # None => Holding(r, "compose") /\ ledger[r].value = proc[e].got
  BY <1>9 DEF Sane, Holding, Answers
<1>11. r # None => Holding(r, "compose")' /\ ledger'[r] = ledger[r]
  BY <1>1, <1>10, HoldingStays
<1>12. QualityFits'
  BY <1>6, <1>8, <1>11 DEF QualityFits
<1>13. MessageFits'
  BY <1>1, <1>8, MessageStays
<1>14. r # None /\ proc[e].got = "safe" => Safe(r)'
  BY <1>10, <1>11 DEF Safe
<1> QED BY <1>6, <1>8, <1>12, <1>13, <1>14

\* review writes a verdict on the candidate.
LEMMA Judging ==
    ASSUME Types, LedgerFits, QualityFits, MessageFits, NEW b \in BOOLEAN, UNCHANGED ledger,
           rows' = [rows EXCEPT !.quality.approved = b],
           b => /\ rows.quality.reply # None /\ Safe(rows.quality.reply)
                /\ ReviewedOn(rows.quality.reply, rows.quality.evidence)
    PROVE  /\ rows' \in Rows /\ Onward /\ QualityFits' /\ MessageFits'
           /\ rows'.quality.approved = b /\ rows'.quality.reply = rows.quality.reply
<1>1. rows \in Rows /\ Grows
  BY Columns, LedgerStays
<1>2. PICK q : q = rows.quality
  OBVIOUS
<1>3. PICK p : p = [q EXCEPT !.approved = b]
  OBVIOUS
<1>4. q \in QualityRow
  BY <1>1, <1>2, RowColumns
<1>5. p \in QualityRow /\ p.approved = b /\ p.reply = q.reply /\ p.evidence = q.evidence
  BY <1>3, <1>4 DEF QualityRow
<1>6. rows' = [rows EXCEPT !.quality = p]
  BY <1>1, <1>2, <1>3 DEF Rows
<1>7. rows' \in Rows /\ Onward /\ rows'.message = rows.message /\ rows'.quality = p
  BY <1>1, <1>5, <1>6 DEF Rows, Onward
<1>8. q.reply # None => Holding(q.reply, "compose")'
  BY <1>1, <1>2, HoldingStays DEF QualityFits
<1>9. b => q.reply # None /\ Safe(q.reply)' /\ ReviewedOn(q.reply, q.evidence)'
  BY <1>1, <1>2, SafeStays, ReviewStays
<1>10. QualityFits'
  BY <1>5, <1>7, <1>8, <1>9 DEF QualityFits
<1>11. MessageFits'
  BY <1>1, <1>7, MessageStays
<1> QED BY <1>2, <1>5, <1>7, <1>10, <1>11

-------------------------------------------------------------------------------
(* The process that acts.                                                       *)

Acts(e) ==
    /\ proc' \in [Epoch -> ProcRow] /\ \A f \in Epoch \ {e} : proc'[f] = proc[f]
    /\ Sane(e)' /\ (e = owner.epoch => Newest(e)')
RowsGo == rows' \in Rows /\ Onward /\ RowsFit'

\* Only the newest owner writes checkpoint, candidate and answers.
Moved(e) ==
    /\ Acts(e) /\ Posts(e) /\ RowsGo
    /\ saved' \in Checkpoints /\ Backed(saved)' /\ Judged(saved)'
    /\ e # owner.epoch => UNCHANGED saved /\ QualityStays

\* What a step may do to the candidate without making the checkpoint wrong.
Rewrites == \/ QualityStays
            \/ saved.next = "compose"
            \/ saved.next = "review" /\ rows'.quality.reply = rows.quality.reply

\* The checkpoint is left alone.
LEMMA SavedStays ==
    ASSUME IInv, Grows, Onward, UNCHANGED saved, Rewrites
    PROVE  saved' \in Checkpoints /\ Backed(saved)' /\ Judged(saved)'
<1>1. PICK cp : cp = saved
  OBVIOUS
<1>2. cp \in Checkpoints /\ Backed(cp) /\ Judged(cp) /\ Types
  BY <1>1, Columns DEF IInv
<1>3. Backed(cp)'
  BY <1>2, BackedStays
<1>4. ASSUME cp.next = "review", cp.valid, rows'.quality.reply # None
      PROVE  Safe(rows.quality.reply)'
  <2>1. rows'.quality.reply = rows.quality.reply
    BY <1>1, <1>4 DEF Rewrites, QualityStays
  <2>2. PICK r : r = rows.quality.reply
    OBVIOUS
  <2>3. Safe(r)
    BY <1>2, <1>4, <2>1, <2>2 DEF Judged
  <2>4. Safe(r)'
    BY <1>2, <2>3, SafeStays
  <2> QED BY <2>1, <2>2, <2>4
<1>5. ASSUME cp.next = "publish", cp.approved
      PROVE  rows'.quality.approved
  BY <1>1, <1>2, <1>5 DEF Rewrites, QualityStays, Judged
<1>6. Judged(cp)'
  BY <1>4, <1>5 DEF Judged
<1> QED BY <1>1, <1>2, <1>3, <1>6

\* A node is over: its checkpoint is true before it is written.
LEMMA EndsActs ==
    ASSUME Types, NEW e \in Epoch, NEW cp \in Checkpoints, Ends(e, cp), Backed(cp)',
           e = owner.epoch => Judged(cp)'
    PROVE  Acts(e)
<1>1. proc[e] \in ProcRow
  BY Columns
<1>2. PICK x : x = [proc[e] EXCEPT !.at = "save", !.cp = cp]
  OBVIOUS
<1>3. x \in ProcRow /\ x.at = "save" /\ x.cp = cp
  BY <1>1, <1>2 DEF ProcRow, Places
<1>4. proc' = [proc EXCEPT ![e] = x]
  BY <1>1, <1>2, Columns DEF Ends
<1>5. proc'[e] = x /\ proc' \in [Epoch -> ProcRow] /\ \A f \in Epoch \ {e} : proc'[f] = proc[f]
  BY <1>3, <1>4, Writing
<1>6. Sane(e)'
  BY <1>3, <1>5 DEF Sane
<1>7. e = owner.epoch => Newest(e)'
  BY <1>3, <1>5 DEF Newest
<1> QED BY <1>5, <1>6, <1>7 DEF Acts

\* A process that leaves remembers nothing.
LEMMA LeaveActs ==
    ASSUME Types, NEW e \in Epoch, Leave(e)
    PROVE  Acts(e)
<1>1. proc'[e] = Off /\ proc' \in [Epoch -> ProcRow] /\ \A f \in Epoch \ {e} : proc'[f] = proc[f]
  BY Fresh, Columns DEF Leave
<1>2. 0 < Rounds
  BY TurnAssumption
<1>3. Backed(Start)'
  BY <1>2, Fresh DEF Backed
<1>4. Sane(e)'
  BY <1>1, <1>3, Fresh DEF Sane
<1>5. Newest(e)'
  BY <1>1, Fresh DEF Newest
<1> QED BY <1>1, <1>4, <1>5 DEF Acts

\* A process that only moves on keeps its checkpoint.
LEMMA MovesActs ==
    ASSUME IInv, Grows, Onward, NEW e \in Epoch, NEW x \in ProcRow,
           proc' = [proc EXCEPT ![e] = x], x.cp = proc[e].cp, UNCHANGED saved,
           proc[e].at \notin {"off", "save"},
           x.at = "version" => rows'.turn # NoTurn /\ x.cp.next = "plan",
           x.at \in {"version", "ask", "got", "node", "wait"},
           x.at \in {"ask", "wait", "got"} =>
              /\ x.key.kind # "none" /\ (x.key.kind = "parse" => x.cp.next = "parse")
              /\ (x.key.kind = "compose" => x.cp.next = "compose")
              /\ (x.key.kind = "review" => x.cp.next = "review"),
           x.at = "wait" =>
              /\ x.row \in DOMAIN ledger' /\ ledger'[x.row].status = "RESERVED"
              /\ ledger'[x.row].by = e /\ ledger'[x.row].key = x.key,
           x.at = "got" => x.got # "none",
           x.at = "got" /\ x.got \in Answers =>
              /\ x.row \in DOMAIN ledger' /\ ledger'[x.row].status = "ACCEPTED"
              /\ ledger'[x.row].key = x.key /\ ledger'[x.row].value = x.got,
           e = owner.epoch /\ x.at = "wait" => Accepted(x.key)' = {},
           e = owner.epoch /\ x.at \in {"ask", "wait", "got"} /\ x.key.kind = "review" =>
              /\ (rows.quality.reply # None)' /\ Safe(rows.quality.reply)'
              /\ x.key.reply = rows'.quality.reply /\ x.key.evidence = rows'.quality.evidence
    PROVE  Acts(e)
<1>1. proc'[e] = x /\ proc' \in [Epoch -> ProcRow] /\ \A f \in Epoch \ {e} : proc'[f] = proc[f]
  BY Writing DEF IInv
<1>2. Types /\ Backed(x.cp) /\ x.cp \in Checkpoints /\ Sane(e)
  BY ProcColumns DEF IInv, Sane
<1>3. Backed(x.cp)'
  <2>1. PICK cp : cp = x.cp
    OBVIOUS
  <2> QED BY <1>2, <2>1, BackedStays
<1>4. Sane(e)'
  BY <1>1, <1>3 DEF Sane
<1>5. ASSUME e = owner.epoch PROVE Newest(e)'
  <2>1. e # 0
    BY DEF Epoch
  <2>2. x.cp = saved
    BY <1>5, <2>1 DEF IInv, Newest
  <2>3. PICK k : k = x.key
    OBVIOUS
  <2>4. x.at = "wait" => Accepted(k)' = {}
    BY <1>5, <2>3
  <2>5. proc'[e].key = k
    BY <1>1, <2>3
  <2>6. (proc'[e].at = "wait") => (Accepted(proc[e].key) = {})'
    BY <1>1, <2>4, <2>5 DEF Accepted
  <2> QED BY <1>1, <1>5, <2>2, <2>6 DEF Newest
<1> QED BY <1>1, <1>4, <1>5 DEF Acts

-------------------------------------------------------------------------------
(* One process acts, the other processes and the rest of the state.             *)

\* What a step does to the ledger, whoever takes it.
LEMMA PostsGrow ==
    ASSUME Types, LedgerFits, NEW e \in Epoch, Sane(e), Posts(e)
    PROVE  /\ Grows /\ LedgerFits' /\ ledger' \in Seq(CallRow)
           /\ \A i \in DOMAIN ledger : ledger[i].by # e => ledger'[i] = ledger[i]
           /\ Holds(e) \/ NothingNew
<1>1. CASE UNCHANGED ledger
  BY <1>1, LedgerStays, Columns
<1>2. CASE Reserves(e)
  BY <1>2, Reserving
<1>3. ASSUME NEW c \in CallRow, Settles(e, c)
      PROVE  /\ Grows /\ LedgerFits' /\ ledger' \in Seq(CallRow)
             /\ \A i \in DOMAIN ledger : ledger[i].by # e => ledger'[i] = ledger[i]
             /\ Holds(e) \/ NothingNew
  <2>1. ledger[proc[e].row].by = e
    BY <1>3 DEF Settles, Sane
  <2> QED BY <1>3, <2>1, Settling
<1> QED BY <1>1, <1>2, <1>3 DEF Posts

\* What is not answered by a step has no answer after it.
LEMMA StillOpen ==
    ASSUME NothingNew, NEW key, Accepted(key) = {}
    PROVE  Accepted(key)' = {}
BY DEF NothingNew, Accepted

\* The newest owner rests while another process acts.
LEMMA NewestRests ==
    ASSUME Types, Grows, NothingNew, NEW f \in Epoch, Newest(f), proc'[f] = proc[f],
           proc[f].at \notin {"off", "save"} => saved' = saved,
           QualityStays, proc[f].at = "save" => Judged(proc[f].cp)'
    PROVE  Newest(f)'
<1>1. PICK x : x = proc[f]
  OBVIOUS
<1>2. x.at = "wait" => Accepted(x.key)' = {}
  BY <1>1, StillOpen DEF Newest
<1>3. (proc[f].at = "wait" => Accepted(proc[f].key) = {})'
  BY <1>1, <1>2
<1>4. PICK r : r = rows.quality.reply
  OBVIOUS
<1>5. Safe(r) => Safe(r)'
  BY SafeStays
<1>6. (proc[f].at \in {"ask", "wait", "got"} /\ proc[f].key.kind = "review" =>
         /\ rows.quality.reply # None /\ Safe(rows.quality.reply)
         /\ proc[f].key.reply = rows.quality.reply
         /\ proc[f].key.evidence = rows.quality.evidence)'
  BY <1>4, <1>5 DEF Newest, QualityStays
<1>7. (proc[f].at \notin {"off", "save"} => proc[f].cp = saved)'
  BY DEF Newest
<1> QED BY <1>3, <1>6, <1>7 DEF Newest

\* A checkpoint that was judged right stays so while the candidate stays.
LEMMA JudgedStays ==
    ASSUME Types, Grows, QualityStays, NEW cp \in Checkpoints, Judged(cp)
    PROVE  Judged(cp)'
<1>1. PICK r : r = rows.quality.reply
  OBVIOUS
<1>2. Safe(r) => Safe(r)'
  BY SafeStays
<1> QED BY <1>1, <1>2 DEF Judged, QualityStays
\* The task, the thread and the world.
Placed ==
    /\ owner' \in [epoch : 0..Owners, live : BOOLEAN, stopped : BOOLEAN]
    /\ owner'.epoch = owner.epoch /\ lock' \in {None, owner.epoch}
    /\ world' \in World

\* A step of one process that keeps its promises keeps the invariant.
LEMMA MovedKeeps ==
    ASSUME IInv, NEW e \in Epoch, Moved(e), Placed
    PROVE  IInv'
<1>1. Types /\ LedgerFits /\ OneAnswerPerStep /\ SpendWithinCap
  BY DEF IInv
<1>2. Sane(e) /\ (e = owner.epoch => Newest(e)) /\ Posts(e)
  BY DEF IInv, Moved, Epoch
<1>3. /\ Grows /\ LedgerFits' /\ ledger' \in Seq(CallRow) /\ (Holds(e) \/ NothingNew)
      /\ \A i \in DOMAIN ledger : ledger[i].by # e => ledger'[i] = ledger[i]
  BY <1>1, <1>2, PostsGrow
<1>4. Types'
  BY <1>3 DEF Types, Placed, Moved, Acts, RowsGo
<1>5. OneAnswerPerStep'
  <2>1. Holds(e) => Newest(e)
    BY <1>2 DEF Holds
  <2> QED BY <1>1, <1>2, <2>1, AnswersOnce
<1>6. SpendWithinCap'
  BY <1>1, <1>2, SpendStays
<1>7. QualityFits' /\ MessageFits' /\ Backed(saved)' /\ Judged(saved)' /\ Onward
  BY DEF Moved, RowsGo, RowsFit
<1>8. ASSUME NEW f \in Epoch PROVE Sane(f)'
  <2>1. CASE f = e
    BY <2>1 DEF Moved, Acts
  <2>2. CASE f # e
    <3>1. proc'[f] = proc[f] /\ Sane(f)
      BY <2>2 DEF Moved, Acts, IInv
    <3>2. proc[f].at = "wait" => ledger'[proc[f].row] = ledger[proc[f].row]
      BY <1>3, <2>2, <3>1 DEF Sane
    <3> QED BY <1>1, <1>3, <1>7, <3>1, <3>2, Bystander
  <2> QED BY <2>1, <2>2
<1>9. ASSUME NEW f \in Epoch, f = owner.epoch PROVE Newest(f)'
  <2>1. CASE f = e
    BY <1>9, <2>1 DEF Moved, Acts
  <2>2. CASE f # e
    <3>1. proc'[f] = proc[f] /\ Newest(f) /\ saved' = saved /\ QualityStays
      BY <1>9, <2>2 DEF Moved, Acts, IInv, Epoch
    <3>2. NothingNew
      BY <1>3, <1>9, <2>2 DEF Holds
    <3>3. proc[f].at = "save" => Judged(proc[f].cp)'
      <4>1. PICK cp : cp = proc[f].cp
        OBVIOUS
      <4>2. cp \in Checkpoints
        BY <1>1, <4>1, Columns, ProcColumns
      <4>3. Judged(cp) => Judged(cp)'
        BY <1>1, <1>3, <3>1, <4>2, JudgedStays
      <4> QED BY <3>1, <4>1, <4>3 DEF Newest
    <3> QED BY <1>1, <1>3, <3>1, <3>2, <3>3, NewestRests
  <2> QED BY <2>1, <2>2
<1>10. PICK o : o = owner.epoch
  OBVIOUS
<1>11. o # 0 => o \in Epoch
  BY <1>1, <1>10, Columns DEF Epoch
<1>12. o # 0 => Newest(o)'
  BY <1>9, <1>10, <1>11
<1>13. owner'.epoch = o
  BY <1>10 DEF Placed
<1>14. (owner.epoch # 0 => Newest(owner.epoch))'
  BY <1>12, <1>13
<1> QED BY <1>3, <1>4, <1>5, <1>6, <1>7, <1>8, <1>14 DEF IInv
\* A step that leaves the checkpoint to the saver.
LEMMA StepMoved ==
    ASSUME IInv, NEW e \in Epoch, Acts(e), Posts(e), RowsGo, UNCHANGED saved,
           QualityStays \/ (e = owner.epoch /\ Rewrites)
    PROVE  Moved(e)
<1>1. Types /\ LedgerFits /\ Sane(e)
  BY DEF IInv
<1>2. Grows /\ Onward
  BY <1>1, PostsGrow DEF RowsGo
<1>3. Rewrites
  BY DEF Rewrites
<1>4. saved' \in Checkpoints /\ Backed(saved)' /\ Judged(saved)'
  BY <1>2, <1>3, SavedStays
<1> QED BY <1>4 DEF Moved

\* Rows whose candidate and message are left alone.
LEMMA RowsGoOn ==
    ASSUME IInv, Grows, rows' \in Rows, Onward, QualityStays, rows'.message = rows.message
    PROVE  RowsGo
BY CandidateStays, MessageStays DEF IInv, RowsGo, RowsFit

\* Rows that are left alone.
LEMMA RowsRest ==
    ASSUME IInv, Grows, UNCHANGED rows
    PROVE  RowsGo /\ QualityStays /\ Onward
<1>1. rows' \in Rows /\ Onward /\ QualityStays
  BY Columns DEF IInv, Onward, QualityStays
<1> QED BY <1>1, RowsGoOn

\* A node that ends without a word to the ledger.
LEMMA NodeMoved ==
    ASSUME IInv, NEW e \in Epoch, NEW cp \in Checkpoints, Ends(e, cp), Backed(cp)', Judged(cp)',
           RowsGo, UNCHANGED <<ledger, saved>>, QualityStays \/ (e = owner.epoch /\ Rewrites)
    PROVE  Moved(e)
<1>1. Acts(e)
  BY EndsActs DEF IInv
<1> QED BY <1>1, StepMoved DEF Posts

\* A process that leaves without a word to the rows.
LEMMA LeaveMoved ==
    ASSUME IInv, NEW e \in Epoch, Leave(e), Posts(e), RowsGo, QualityStays, UNCHANGED saved
    PROVE  Moved(e)
<1>1. Acts(e)
  BY LeaveActs DEF IInv
<1> QED BY <1>1, StepMoved

\* The task and the thread as they were, and after a process has left.
LEMMA PlacedRests ==
    ASSUME IInv, UNCHANGED <<owner, lock>>, world' \in World
    PROVE  Placed
BY DEF IInv, Types, Placed

\* The lease and the thread of a process that has left.
LEMMA PlacedLeft ==
    ASSUME IInv, NEW e \in Epoch, Leave(e), world' \in World
    PROVE  Placed
<1>1. /\ owner \in [epoch : 0..Owners, live : BOOLEAN, stopped : BOOLEAN]
      /\ lock \in {None, owner.epoch}
  BY DEF IInv, Types
<1>2. lock' \in {None, owner.epoch}
  BY <1>1 DEF Leave
<1>3. owner' \in [epoch : 0..Owners, live : BOOLEAN, stopped : BOOLEAN] /\ owner'.epoch = owner.epoch
  BY <1>1 DEF Leave
<1> QED BY <1>2, <1>3 DEF Placed

\* What a process knows of itself, and the newest one of the checkpoint.
LEMMA Known ==
    ASSUME IInv, NEW e \in Epoch
    PROVE  /\ Types /\ LedgerFits /\ QualityFits /\ MessageFits /\ Sane(e)
           /\ rows \in Rows /\ world \in World
           /\ proc[e] \in ProcRow /\ proc[e].cp \in Checkpoints /\ Backed(proc[e].cp)
           /\ e = owner.epoch => Newest(e)
           /\ e = owner.epoch /\ proc[e].at \notin {"off", "save"} =>
                 proc[e].cp = saved /\ Judged(proc[e].cp)
<1>1. Types /\ LedgerFits /\ QualityFits /\ MessageFits /\ Sane(e) /\ Judged(saved)
  BY DEF IInv
<1>2. rows \in Rows /\ world \in World /\ proc[e] \in ProcRow /\ proc[e].cp \in Checkpoints
  BY <1>1, Columns, ProcColumns
<1>3. e = owner.epoch => Newest(e)
  BY DEF IInv, Epoch
<1> QED BY <1>1, <1>2, <1>3 DEF Sane, Newest

\* The checkpoint of a node that ends.
LEMMA NextCheckpoint ==
    ASSUME NEW c \in Checkpoints, NEW cp, NEW next \in Stages,
           cp = [c EXCEPT !.next = next]
    PROVE  cp \in Checkpoints /\ cp.next = next /\ cp.answer = c.answer /\ cp.round = c.round
           /\ cp.valid = c.valid /\ cp.approved = c.approved
BY DEF Checkpoints
-------------------------------------------------------------------------------
(* The nodes before the commit.                                                 *)

\* prepare_context freezes the history once.
LEMMA PrepareMoves ==
    ASSUME IInv, NEW e \in Epoch, Prepare(e)
    PROVE  Moved(e) /\ Placed
<1>0. PICK fits \in BOOLEAN : LET ok == fits \/ rows.quality.kept IN
        /\ rows' = [rows EXCEPT !.quality.kept = ok]
        /\ Ends(e, [proc[e].cp EXCEPT !.next = "parse", !.context = ok, !.limit = ~ok])
  BY DEF Prepare
<1>1a. PICK ok : ok = (fits \/ rows.quality.kept)
  OBVIOUS
<1>1b. PICK cp : cp = [proc[e].cp EXCEPT !.next = "parse", !.context = ok, !.limit = ~ok]
  OBVIOUS
<1>1. /\ ok \in BOOLEAN /\ cp = [proc[e].cp EXCEPT !.next = "parse", !.context = ok, !.limit = ~ok]
      /\ rows' = [rows EXCEPT !.quality.kept = ok]
      /\ Ends(e, cp)
  BY <1>0, <1>1a, <1>1b
<1>2. Holds(e) /\ proc[e].at = "node" /\ proc[e].cp.next = "prepare"
      /\ UNCHANGED <<owner, lock, saved, ledger, world>>
  BY DEF Prepare, In
<1>3. cp \in Checkpoints /\ cp.next = "parse" /\ cp.answer = proc[e].cp.answer
      /\ cp.round = proc[e].cp.round
  BY <1>1, Known DEF Checkpoints, Stages
<1>4. Backed(cp) /\ Judged(cp)'
  BY <1>2, <1>3, Known DEF Backed, Judged
<1>5. rows' \in Rows /\ Onward /\ QualityStays /\ rows'.message = rows.message
  BY <1>1, Known DEF Rows, QualityRow, Onward, QualityStays
<1>6. Grows
  BY <1>2, Known, LedgerStays
<1>7. Backed(cp)'
  BY <1>3, <1>4, <1>5, <1>6, Known, BackedStays
<1>8. RowsGo
  BY <1>5, <1>6, RowsGoOn
<1>9. Moved(e)
  BY <1>1, <1>2, <1>3, <1>4, <1>5, <1>7, <1>8, NodeMoved
<1> QED BY <1>2, <1>9, Known, PlacedRests

\* A parse that ends with a plan in the rows.
LEMMA PlannedMoves ==
    ASSUME IInv, NEW e \in Epoch, NEW cp \in Checkpoints, NEW kind \in {"act", "query"},
           rows' = Planned(kind, None), Ends(e, cp), cp = [proc[e].cp EXCEPT !.next = "plan"],
           proc[e].cp.next = "parse", UNCHANGED <<ledger, saved>>
    PROVE  Moved(e)
<1>1. rows' \in Rows /\ Onward /\ QualityStays /\ rows'.message = rows.message /\ rows'.turn # NoTurn
  BY Known, Planning DEF None
<1>2. Grows
  BY Known, LedgerStays
<1>3. RowsGo
  BY <1>1, <1>2, RowsGoOn
<1>4. cp.next = "plan" /\ cp.answer = proc[e].cp.answer /\ cp.round = proc[e].cp.round
  BY Known, NextCheckpoint DEF Stages
<1>5. proc[e].cp.answer # None => Holding(proc[e].cp.answer, "parse")
  BY Known DEF Backed
<1>6. PICK a : a = proc[e].cp.answer
  OBVIOUS
<1>7. a # None => Holding(a, "parse")'
  BY <1>2, <1>5, <1>6, Known, HoldingStays
<1>8. Backed(cp)'
  BY <1>1, <1>4, <1>6, <1>7, Known DEF Backed
<1>9. Judged(cp)'
  BY <1>4 DEF Judged
<1> QED BY <1>1, <1>3, <1>8, <1>9, NodeMoved

\* A question is put: the process moves from its node to the ledger.
LEMMA AskMoves ==
    ASSUME IInv, NEW e \in Epoch, NEW key \in KeyRow, Asks(e, key), proc[e].at \notin {"off", "save"},
           UNCHANGED <<ledger, saved, rows>>,
           key.kind \in Kinds, proc[e].cp.next = key.kind,
           e = owner.epoch /\ key.kind = "review" =>
              /\ rows.quality.reply # None /\ Safe(rows.quality.reply)
              /\ key.reply = rows.quality.reply /\ key.evidence = rows.quality.evidence
    PROVE  Moved(e)
<1>1. proc[e] \in ProcRow /\ Types
  BY Known
<1>2. PICK x : x = [proc[e] EXCEPT !.at = "ask", !.key = key]
  OBVIOUS
<1>3. x \in ProcRow /\ x.at = "ask" /\ x.key = key /\ x.cp = proc[e].cp
  BY <1>1, <1>2 DEF ProcRow, Places
<1>4. proc' = [proc EXCEPT ![e] = x]
  BY <1>1, <1>2, Columns DEF Asks
<1>5. Grows /\ Onward /\ RowsGo /\ QualityStays
  BY <1>1, LedgerStays, RowsRest
<1>6. e = owner.epoch /\ key.kind = "review" =>
        /\ (rows.quality.reply # None)' /\ Safe(rows.quality.reply)'
        /\ key.reply = rows'.quality.reply /\ key.evidence = rows'.quality.evidence
  BY DEF Safe, Holding
<1>7. Acts(e)
  BY <1>3, <1>4, <1>5, <1>6, MovesActs DEF Kinds
<1> QED BY <1>5, <1>7, StepMoved DEF Posts

\* parse_intents: a button or an overlong context is planned at once, a text is asked about.
LEMMA ParseMoves ==
    ASSUME IInv, NEW e \in Epoch, Parse(e)
    PROVE  Moved(e) /\ Placed
<1>1. Holds(e) /\ proc[e].at = "node" /\ proc[e].cp.next = "parse"
      /\ UNCHANGED <<owner, lock, saved, ledger, world>>
  BY DEF Parse, In
<1>4. Placed
  BY <1>1, Known, PlacedRests
<1>2. CASE rows.button \/ proc[e].cp.limit
  <2>1. PICK kind, cp : /\ kind = IF rows.button THEN "act" ELSE "query"
                        /\ cp = [proc[e].cp EXCEPT !.next = "plan"]
    OBVIOUS
  <2>2. kind \in {"act", "query"} /\ cp \in Checkpoints
    BY <2>1, Known, NextCheckpoint DEF Stages
  <2>3. rows' = Planned(kind, None) /\ Ends(e, cp)
    BY <1>2, <2>1 DEF Parse
  <2> QED BY <1>1, <1>4, <2>1, <2>2, <2>3, PlannedMoves
<1>3. CASE ~(rows.button \/ proc[e].cp.limit)
  <2>1. PICK key : key = [NoKey EXCEPT !.kind = "parse"]
    OBVIOUS
  <2>2. key \in KeyRow /\ key.kind = "parse"
    BY <2>1 DEF NoKey, KeyRow, Kinds, None
  <2>3. Asks(e, key) /\ UNCHANGED rows
    BY <1>3, <2>1 DEF Parse
  <2> QED BY <1>1, <1>4, <2>2, <2>3, AskMoves DEF Kinds
<1> QED BY <1>2, <1>3
\* A parse that is answered, tried again or given up.
LEMMA ParsedMoves ==
    ASSUME IInv, NEW e \in Epoch, Parsed(e)
    PROVE  Moved(e) /\ Placed
<1>1. /\ proc[e].at = "got" /\ proc[e].key.kind = "parse" /\ proc[e].cp.next = "parse"
      /\ UNCHANGED <<owner, lock, saved, ledger, world>>
  BY Known DEF Parsed, Sane
<1>2. Placed
  BY <1>1, Known, PlacedRests
<1>3. Grows /\ proc[e].cp.round < Rounds
  BY <1>1, Known, LedgerStays DEF Backed
<1>4. CASE /\ proc[e].got \in Values("parse") /\ UNCHANGED rows
           /\ Ends(e, [proc[e].cp EXCEPT !.next = "plan", !.answer = proc[e].row])
  <2>1. PICK cp : cp = [proc[e].cp EXCEPT !.next = "plan", !.answer = proc[e].row]
    OBVIOUS
  <2>2. cp \in Checkpoints /\ cp.next = "plan" /\ cp.answer = proc[e].row
        /\ cp.round = proc[e].cp.round
    BY <2>1, Known, ProcColumns DEF Checkpoints, Stages
  <2>3. proc[e].got \in Answers
    BY <1>4, Valued DEF Answers
  <2>4. Holding(proc[e].row, "parse")
    BY <1>1, <2>3, Known DEF Sane, Holding
  <2>5. proc[e].row # None
    BY <2>4, Known, Columns DEF Holding, None
  <2>6. PICK r : r = proc[e].row
    OBVIOUS
  <2>7. Holding(r, "parse")'
    BY <1>3, <2>4, <2>6, Known, HoldingStays
  <2>8. Backed(cp)' /\ Judged(cp)'
    BY <1>3, <2>2, <2>5, <2>6, <2>7 DEF Backed, Judged
  <2>9. RowsGo /\ QualityStays
    BY <1>3, <1>4, RowsRest
  <2> QED BY <1>1, <1>2, <1>4, <2>1, <2>2, <2>8, <2>9, NodeMoved
<1>5. CASE proc' = [proc EXCEPT ![e].at = "ask", ![e].try = 2] /\ UNCHANGED rows
  <2>1. PICK x : x = [proc[e] EXCEPT !.at = "ask", !.try = 2]
    OBVIOUS
  <2>2. x \in ProcRow /\ x.at = "ask" /\ x.key = proc[e].key /\ x.cp = proc[e].cp
    BY <2>1, Known DEF ProcRow, Places
  <2>3. proc' = [proc EXCEPT ![e] = x]
    BY <1>5, <2>1, Known, Columns
  <2>4. Onward /\ RowsGo /\ QualityStays
    BY <1>3, <1>5, RowsRest
  <2>5. Acts(e)
    BY <1>1, <1>3, <2>2, <2>3, <2>4, MovesActs
  <2> QED BY <1>1, <1>2, <2>4, <2>5, StepMoved DEF Posts
<1>6. CASE rows' = Planned("query", None) /\ Ends(e, [proc[e].cp EXCEPT !.next = "plan"])
  <2>1. PICK cp : cp = [proc[e].cp EXCEPT !.next = "plan"]
    OBVIOUS
  <2>2. cp \in Checkpoints
    BY <2>1, Known, NextCheckpoint DEF Stages
  <2> QED BY <1>1, <1>2, <1>6, <2>1, <2>2, PlannedMoves
<1> QED BY <1>4, <1>5, <1>6 DEF Parsed

\* plan_turn writes the plan, the command is prepared afterwards.
LEMMA PlanMoves ==
    ASSUME IInv, NEW e \in Epoch, Plan(e)
    PROVE  Moved(e) /\ Placed
<1>1. /\ Holds(e) /\ proc[e].at = "node" /\ proc[e].cp.next = "plan"
      /\ Moves(e, "version") /\ UNCHANGED <<owner, lock, saved, ledger, world>>
  BY DEF Plan, In
<1>2. Placed
  BY <1>1, Known, PlacedRests
<1>3. Grows
  BY <1>1, Known, LedgerStays
<1>4. PICK a : a = proc[e].cp.answer
  OBVIOUS
<1>5. rows' = IF a = None THEN rows ELSE Planned(ledger[a].value, a)
  BY <1>4 DEF Plan
<1>6. rows' \in Rows /\ Onward /\ QualityStays /\ rows'.message = rows.message /\ rows'.turn # NoTurn
  <2>1. CASE a = None
    <3>1. rows.turn # NoTurn
      BY <1>1, <1>4, <2>1, Known DEF Backed
    <3> QED BY <1>5, <2>1, <3>1, Known DEF Onward, QualityStays
  <2>2. CASE a # None
    <3>1. Holding(a, "parse")
      BY <1>4, <2>2, Known DEF Backed
    <3>2. ledger[a].value \in Values("parse")
      BY <3>1, Known DEF Holding, LedgerFits, CallFits
    <3>3. a \in Nat /\ ledger[a].value \in {"act", "query"}
      BY <1>4, <3>2, Known, Valued DEF Checkpoints
    <3> QED BY <1>5, <2>2, <3>3, Known, Planning
  <2> QED BY <2>1, <2>2
<1>7. PICK x : x = [proc[e] EXCEPT !.at = "version"]
  OBVIOUS
<1>8. x \in ProcRow /\ x.at = "version" /\ x.cp = proc[e].cp
  BY <1>7, Known DEF ProcRow, Places
<1>9. proc' = [proc EXCEPT ![e] = x]
  BY <1>1, <1>7, Known, Columns DEF Moves
<1>10. Acts(e)
  BY <1>1, <1>3, <1>6, <1>8, <1>9, MovesActs
<1>11. RowsGo
  BY <1>3, <1>6, RowsGoOn
<1> QED BY <1>1, <1>2, <1>6, <1>10, <1>11, StepMoved DEF Posts

\* The version that the command will expect.
LEMMA ReadVersionMoves ==
    ASSUME IInv, NEW e \in Epoch, ReadVersion(e)
    PROVE  Moved(e) /\ Placed
<1>1. proc[e].at = "version" /\ UNCHANGED <<saved, ledger, rows, world>>
  BY DEF ReadVersion
<1>2. Grows /\ RowsGo /\ QualityStays /\ Onward
  <2>1. Grows
    BY <1>1, Known, LedgerStays
  <2> QED BY <1>1, <2>1, RowsRest
<1>3. CASE Holds(e)
  <2>1. PICK cp : cp = [proc[e].cp EXCEPT !.next = "commit", !.expected = world.version]
    OBVIOUS
  <2>2. Ends(e, cp) /\ UNCHANGED <<owner, lock>>
    BY <1>3, <2>1 DEF ReadVersion
  <2>3. cp \in Checkpoints /\ cp.next = "commit" /\ cp.answer = proc[e].cp.answer
        /\ cp.round = proc[e].cp.round
    BY <2>1, Known DEF Checkpoints, Stages, World
  <2>4. rows.turn # NoTurn /\ proc[e].cp.round < Rounds
    BY <1>1, Known DEF Sane, Backed
  <2>5. Backed(cp)
    BY <2>3, <2>4, Known DEF Backed
  <2>6. Backed(cp)'
    BY <1>2, <2>3, <2>5, Known, BackedStays
  <2>7. Judged(cp)'
    BY <2>3 DEF Judged
  <2>8. Moved(e)
    BY <1>1, <1>2, <2>2, <2>3, <2>6, <2>7, NodeMoved
  <2> QED BY <1>1, <2>2, <2>8, Known, PlacedRests
<1>4. CASE ~Holds(e)
  <2>1. Leave(e)
    BY <1>4 DEF ReadVersion
  <2> QED BY <1>1, <1>2, <2>1, Known, LeaveMoved, PlacedLeft DEF Posts
<1> QED BY <1>3, <1>4

\* execute or abort_or_query: the reply is owed from here on.
LEMMA CommitMoves ==
    ASSUME IInv, NEW e \in Epoch, Commit(e)
    PROVE  Moved(e) /\ Placed
<1>1. /\ Holds(e) /\ proc[e].at = "node" /\ proc[e].cp.next = "commit"
      /\ UNCHANGED <<owner, lock, saved, ledger>>
  BY DEF Commit, In
<1>2. PICK cp : cp = [proc[e].cp EXCEPT !.next = "compose"]
  OBVIOUS
<1>3. Ends(e, cp)
  BY <1>2 DEF Commit
<1>4. world.version \in Nat \ {0} /\ rows.receipt \in Nat /\ rows.delivery \in Nat
  BY Known, RowColumns DEF World
<1>5. \E r \in Nat, d \in Nat \ {0} : rows' = [rows EXCEPT !.receipt = r, !.delivery = d]
  <2>1. CASE rows' = [rows EXCEPT !.receipt = world.version + 1, !.delivery = world.version + 1]
    <3>1. PICK n : n = world.version + 1
      OBVIOUS
    <3>2. n \in Nat /\ n \in Nat \ {0} /\ rows' = [rows EXCEPT !.receipt = n, !.delivery = n]
      BY <1>4, <2>1, <3>1
    <3> QED BY <3>2
  <2>2. CASE rows' = [rows EXCEPT !.delivery = IF @ = None THEN world.version ELSE @]
    <3>1. PICK d : d = IF rows.delivery = None THEN world.version ELSE rows.delivery
      OBVIOUS
    <3>2. d \in Nat \ {0}
      BY <1>4, <3>1 DEF None
    <3>3. rows' = [rows EXCEPT !.receipt = rows.receipt, !.delivery = d]
      BY <2>2, <3>1, Known DEF Rows
    <3> QED BY <1>4, <3>2, <3>3
  <2> QED BY <2>1, <2>2 DEF Commit
<1>6. rows' \in Rows /\ Onward /\ QualityStays /\ rows'.message = rows.message
      /\ rows'.delivery # None
  BY <1>5, Known, Owing
<1>7. world' \in World
  BY Known DEF Commit, World
<1>8. Grows
  BY <1>1, Known, LedgerStays
<1>9. cp \in Checkpoints /\ cp.next = "compose" /\ cp.answer = proc[e].cp.answer
      /\ cp.round = proc[e].cp.round
  BY <1>2, Known, NextCheckpoint DEF Stages
<1>10. Backed(cp)' /\ Judged(cp)'
  <2>1. rows.turn # NoTurn /\ proc[e].cp.round < Rounds
    BY <1>1, Known DEF Backed
  <2>2. PICK a : a = proc[e].cp.answer
    OBVIOUS
  <2>3. a # None => Holding(a, "parse")
    BY <2>2, Known DEF Backed
  <2>4. a # None => Holding(a, "parse")'
    BY <1>8, <2>3, Known, HoldingStays
  <2> QED BY <1>6, <1>9, <2>1, <2>2, <2>4 DEF Backed, Judged, Onward
<1>11. RowsGo
  BY <1>6, <1>8, RowsGoOn
<1>12. Moved(e)
  BY <1>1, <1>3, <1>6, <1>9, <1>10, <1>11, NodeMoved
<1> QED BY <1>1, <1>7, <1>12, PlacedRests
-------------------------------------------------------------------------------
(* The reply.                                                                   *)

\* compose asks for a candidate, or has none.
LEMMA ComposeMoves ==
    ASSUME IInv, NEW e \in Epoch, Compose(e)
    PROVE  Moved(e) /\ Placed
<1>1. /\ proc[e].at = "node" /\ proc[e].cp.next = "compose"
      /\ UNCHANGED <<owner, lock, saved, ledger, rows, world>>
  BY DEF Compose, In
<1>2. Placed
  BY <1>1, Known, PlacedRests
<1>3. CASE proc[e].cp.context
  <2>1. PICK key : key = [kind |-> "compose", round |-> proc[e].cp.round, evidence |-> world.version,
                          reply |-> IF proc[e].cp.round = 0 THEN None ELSE rows.quality.reply]
    OBVIOUS
  <2>2. Asks(e, key)
    BY <1>3, <2>1 DEF Compose
  <2>3. proc[e].cp.round \in Nat /\ world.version \in Nat /\ rows.quality.reply \in Nat
    BY Known, RowColumns, TurnAssumption DEF Checkpoints, World
  <2>4. key \in KeyRow /\ key.kind = "compose"
    BY <2>1, <2>3 DEF KeyRow, Kinds, None
  <2> QED BY <1>1, <1>2, <2>2, <2>4, AskMoves DEF Kinds
<1>4. CASE ~proc[e].cp.context
  <2>1. PICK cp : cp = [proc[e].cp EXCEPT !.next = "review", !.valid = FALSE]
    OBVIOUS
  <2>2. Ends(e, cp)
    BY <1>4, <2>1 DEF Compose
  <2>3. cp \in Checkpoints /\ cp.next = "review" /\ ~cp.valid
        /\ cp.answer = proc[e].cp.answer /\ cp.round = proc[e].cp.round
    BY <2>1, Known DEF Checkpoints, Stages
  <2>4. Backed(cp) /\ Judged(cp)'
    BY <1>1, <2>3, Known DEF Backed, Judged
  <2>5. Grows /\ RowsGo /\ QualityStays /\ Onward
    BY <1>1, Known, LedgerStays, RowsRest
  <2>6. Backed(cp)'
    BY <2>3, <2>4, <2>5, Known, BackedStays
  <2> QED BY <1>1, <1>2, <2>2, <2>3, <2>4, <2>5, <2>6, NodeMoved
<1> QED BY <1>3, <1>4

\* The candidate is stored.
LEMMA ComposedMoves ==
    ASSUME IInv, NEW e \in Epoch, Composed(e)
    PROVE  Moved(e) /\ Placed
<1>1. /\ proc[e].at = "got" /\ proc[e].key.kind = "compose" /\ Holds(e)
      /\ rows' = [rows EXCEPT !.quality = Candidate(e)]
      /\ UNCHANGED <<owner, lock, saved, ledger, world>>
  BY DEF Composed
<1>2. PICK cp : cp = [proc[e].cp EXCEPT !.next = "review", !.valid = proc[e].got = "safe"]
  OBVIOUS
<1>3. Ends(e, cp)
  BY <1>2 DEF Composed
<1>4. cp \in Checkpoints /\ cp.next = "review" /\ cp.valid = (proc[e].got = "safe")
      /\ cp.answer = proc[e].cp.answer /\ cp.round = proc[e].cp.round
  BY <1>2, Known DEF Checkpoints, Stages
<1>5. proc[e].cp.next = "compose" /\ saved.next = "compose" /\ e = owner.epoch
  BY <1>1, Known DEF Sane, Holds
<1>6. /\ rows' \in Rows /\ Onward /\ QualityFits' /\ MessageFits'
      /\ proc[e].got = "safe" => (rows.quality.reply # None => Safe(rows.quality.reply))'
  BY <1>1, Known, Composing
<1>7. RowsGo /\ Rewrites /\ Grows
  BY <1>1, <1>5, <1>6, Known, LedgerStays DEF RowsGo, RowsFit, Rewrites
<1>8. Judged(cp)'
  BY <1>4, <1>6 DEF Judged
<1>9. Backed(cp)
  BY <1>4, <1>5, Known DEF Backed
<1>10. Backed(cp)'
  BY <1>4, <1>6, <1>7, <1>9, Known, BackedStays
<1>11. Moved(e)
  BY <1>1, <1>3, <1>4, <1>5, <1>7, <1>8, <1>10, NodeMoved
<1> QED BY <1>1, <1>11, Known, PlacedRests

\* Where a review leads: to the publication or into another round.
LEMMA Routing ==
    ASSUME IInv, NEW e \in Epoch, proc[e].cp.next = "review", NEW b \in BOOLEAN,
           NEW cp, cp = Route(e, b), UNCHANGED ledger, Onward
    PROVE  /\ cp \in Checkpoints /\ cp.next \in {"publish", "compose"} /\ cp.approved = b
           /\ Backed(cp)'
<1>1. PICK c, n : /\ c = proc[e].cp
                  /\ n = IF b \/ c.round + 1 >= Rounds \/ ~InTime THEN "publish" ELSE "compose"
  OBVIOUS
<1>2. cp = [c EXCEPT !.approved = b, !.round = c.round + 1, !.next = n]
  BY <1>1 DEF Route
<1>3. c \in Checkpoints /\ c.round \in Nat /\ c.round < Rounds /\ Rounds \in Nat
      /\ rows.turn # NoTurn /\ rows.delivery # None /\ Backed(c)
  BY <1>1, Known, TurnAssumption DEF Backed, Checkpoints
<1>4. c.round + 1 \in 0..Rounds /\ n \in {"publish", "compose"}
      /\ (n = "compose" => c.round + 1 < Rounds)
  BY <1>1, <1>3
<1>5. cp \in Checkpoints /\ cp.next = n /\ cp.round = c.round + 1 /\ cp.approved = b
      /\ cp.answer = c.answer
  BY <1>2, <1>3, <1>4 DEF Checkpoints, Stages
<1>6. Backed(cp)
  BY <1>3, <1>4, <1>5 DEF Backed
<1>7. Grows
  BY Known, LedgerStays
<1>8. Backed(cp)'
  BY <1>5, <1>6, <1>7, Known, BackedStays
<1> QED BY <1>4, <1>5, <1>8

\* A verdict on the candidate is written and the node is over.
LEMMA VerdictMoves ==
    ASSUME IInv, NEW e \in Epoch, Holds(e), NEW b \in BOOLEAN,
           proc[e].at \in {"node", "got"}, proc[e].cp.next = "review",
           rows' = [rows EXCEPT !.quality.approved = b], Ends(e, Route(e, b)),
           b => /\ rows.quality.reply # None /\ Safe(rows.quality.reply)
                /\ ReviewedOn(rows.quality.reply, rows.quality.evidence),
           UNCHANGED <<ledger, saved>>
    PROVE  Moved(e)
<1>1. PICK cp : cp = Route(e, b)
  OBVIOUS
<1>2. e = owner.epoch /\ saved.next = "review"
  BY Known DEF Holds
<1>3. /\ rows' \in Rows /\ Onward /\ QualityFits' /\ MessageFits'
      /\ rows'.quality.approved = b /\ rows'.quality.reply = rows.quality.reply
  BY Known, Judging
<1>4. /\ cp \in Checkpoints /\ cp.next \in {"publish", "compose"} /\ cp.approved = b
      /\ Backed(cp)'
  BY <1>1, <1>3, Routing
<1>5. Judged(cp)'
  BY <1>3, <1>4 DEF Judged
<1>6. RowsGo /\ Rewrites
  BY <1>2, <1>3 DEF RowsGo, RowsFit, Rewrites
<1> QED BY <1>1, <1>2, <1>4, <1>5, <1>6, NodeMoved

\* review asks only about a candidate on the evidence of this moment.
LEMMA ReviewMoves ==
    ASSUME IInv, NEW e \in Epoch, Review(e)
    PROVE  Moved(e) /\ Placed
<1>1. /\ proc[e].at = "node" /\ proc[e].cp.next = "review"
      /\ UNCHANGED <<owner, lock, saved, ledger, world>>
  BY DEF Review, In
<1>2. Placed
  BY <1>1, Known, PlacedRests
<1>3. CASE ~proc[e].cp.valid /\ Ends(e, Route(e, FALSE)) /\ UNCHANGED rows
  <2>1. PICK cp : cp = Route(e, FALSE)
    OBVIOUS
  <2>2. Grows /\ RowsGo /\ QualityStays /\ Onward
    BY <1>1, <1>3, Known, LedgerStays, RowsRest
  <2>3. /\ cp \in Checkpoints /\ cp.next \in {"publish", "compose"} /\ cp.approved = FALSE
        /\ Backed(cp)'
    BY <1>1, <2>1, <2>2, Routing
  <2>4. Judged(cp)'
    BY <2>3 DEF Judged
  <2> QED BY <1>1, <1>2, <1>3, <2>1, <2>2, <2>3, <2>4, NodeMoved
<1>4. CASE /\ proc[e].cp.valid /\ rows.quality.reply # None /\ rows.quality.evidence = world.version
           /\ Asks(e, [kind |-> "review", round |-> proc[e].cp.round,
                       evidence |-> world.version, reply |-> rows.quality.reply])
           /\ UNCHANGED rows
  <2>1. PICK key : key = [kind |-> "review", round |-> proc[e].cp.round,
                          evidence |-> world.version, reply |-> rows.quality.reply]
    OBVIOUS
  <2>2. proc[e].cp.round \in Nat /\ world.version \in Nat /\ rows.quality.reply \in Nat
    BY Known, RowColumns, TurnAssumption DEF Checkpoints, World
  <2>3. key \in KeyRow /\ key.kind = "review" /\ key.reply = rows.quality.reply
        /\ key.evidence = rows.quality.evidence
    BY <1>4, <2>1, <2>2 DEF KeyRow, Kinds
  <2>4. Asks(e, key)
    BY <1>4, <2>1
  <2>5. e = owner.epoch => Safe(rows.quality.reply)
    BY <1>1, <1>4, Known DEF Judged
  <2> QED BY <1>1, <1>2, <1>4, <2>3, <2>4, <2>5, AskMoves DEF Kinds
<1>5. CASE /\ proc[e].cp.valid /\ rows' = [rows EXCEPT !.quality.approved = FALSE]
           /\ Ends(e, Route(e, FALSE))
  <2>1. Holds(e)
    BY <1>5 DEF Review
  <2> QED BY <1>1, <1>2, <1>5, <2>1, VerdictMoves
<1> QED BY <1>3, <1>4, <1>5 DEF Review

\* A favourable verdict is one of the ledger.
LEMMA ReviewedMoves ==
    ASSUME IInv, NEW e \in Epoch, Reviewed(e)
    PROVE  Moved(e) /\ Placed
<1>1. /\ proc[e].at = "got" /\ proc[e].key.kind = "review" /\ Holds(e)
      /\ UNCHANGED <<owner, lock, saved, ledger, world>>
  BY DEF Reviewed
<1>2. PICK b \in BOOLEAN : b = (proc[e].got = "yes")
  OBVIOUS
<1>3. rows' = [rows EXCEPT !.quality.approved = b] /\ Ends(e, Route(e, b))
  BY <1>2 DEF Reviewed
<1>4. proc[e].cp.next = "review"
  BY <1>1, Known DEF Sane
<1>5. /\ rows.quality.reply # None /\ Safe(rows.quality.reply)
      /\ proc[e].key.reply = rows.quality.reply /\ proc[e].key.evidence = rows.quality.evidence
  BY <1>1, Known DEF Holds, Newest
<1>6. b => ReviewedOn(rows.quality.reply, rows.quality.evidence)
  <2>1. PICK i : i = proc[e].row
    OBVIOUS
  <2>2. ASSUME b
        PROVE  /\ i \in DOMAIN ledger /\ ledger[i].key = proc[e].key /\ ledger[i].value = "yes"
    BY <1>1, <1>2, <2>1, <2>2, Known DEF Sane, Answers
  <2> QED BY <1>1, <1>5, <2>2 DEF ReviewedOn
<1>7. Moved(e)
  BY <1>1, <1>3, <1>4, <1>5, <1>6, VerdictMoves
<1> QED BY <1>1, <1>7, Known, PlacedRests
-------------------------------------------------------------------------------
(* The publication and the end.                                                 *)

\* publish sends the message once.
LEMMA PublishMoves ==
    ASSUME IInv, NEW e \in Epoch, Publish(e)
    PROVE  Moved(e) /\ Placed
<1>1. /\ proc[e].at = "node" /\ proc[e].cp.next = "publish" /\ rows' = Published
      /\ UNCHANGED <<owner, lock, saved, ledger, world>>
  BY DEF Publish, In
<1>2. PICK cp : cp = [proc[e].cp EXCEPT !.next = "end"]
  OBVIOUS
<1>3. Ends(e, cp)
  BY <1>2 DEF Publish
<1>4. /\ rows' \in Rows /\ Onward /\ QualityStays /\ QualityFits' /\ MessageFits'
      /\ rows'.message.sent
  BY <1>1, Known, Publishing
<1>5. cp \in Checkpoints /\ cp.next = "end" /\ cp.answer = proc[e].cp.answer
  BY <1>2, Known, NextCheckpoint DEF Stages
<1>6. Grows
  BY <1>1, Known, LedgerStays
<1>7. PICK a : a = proc[e].cp.answer
  OBVIOUS
<1>8. a # None => Holding(a, "parse")'
  BY <1>6, <1>7, Known, HoldingStays DEF Backed
<1>9. Backed(cp)' /\ Judged(cp)'
  BY <1>4, <1>5, <1>7, <1>8 DEF Backed, Judged
<1>10. Moved(e)
  BY <1>1, <1>3, <1>4, <1>5, <1>9, NodeMoved DEF RowsGo, RowsFit
<1> QED BY <1>1, <1>10, Known, PlacedRests

\* A process that stands still while the rows go on.
LEMMA StandsActs ==
    ASSUME IInv, NEW e \in Epoch, Grows, NothingNew, Onward, QualityStays,
           UNCHANGED <<proc, saved, ledger>>
    PROVE  Acts(e)
<1>1. Sane(e)'
  BY Known, Bystander
<1>2. ASSUME proc[e].at = "save", e = owner.epoch
      PROVE  Judged(proc[e].cp)'
  <2>1. PICK cp : cp = proc[e].cp
    OBVIOUS
  <2>2. Judged(cp) /\ cp \in Checkpoints
    BY <1>2, <2>1, Known DEF Newest
  <2>3. Judged(cp)'
    BY <2>2, Known, JudgedStays
  <2> QED BY <2>1, <2>3
<1>3. e = owner.epoch => Newest(e)'
  BY <1>2, Known, NewestRests
<1> QED BY <1>1, <1>3, Known, Columns DEF Acts

\* A stopped run goes from the delivery it owes to the end.
LEMMA StopMoves ==
    ASSUME IInv, NEW e \in Epoch, Stop(e)
    PROVE  Moved(e) /\ Placed
<1>1. UNCHANGED <<owner, lock, saved, ledger, world>>
  BY DEF Stop
<1>2. Placed
  BY <1>1, Known, PlacedRests
<1>3. Grows /\ NothingNew
  BY <1>1, Known, LedgerStays
<1>4. CASE rows.delivery = None
  <2>1. rows' = [rows EXCEPT !.delivery = world.version] /\ UNCHANGED proc
    BY <1>4 DEF Stop
  <2>2. world.version \in Nat \ {0} /\ rows.receipt \in Nat
    BY Known, RowColumns DEF World
  <2>3. rows' = [rows EXCEPT !.receipt = rows.receipt, !.delivery = world.version]
    BY <2>1, Known DEF Rows
  <2>4. rows' \in Rows /\ Onward /\ QualityStays /\ rows'.message = rows.message
    BY <2>2, <2>3, Known, Owing
  <2>5. Acts(e)
    BY <1>1, <1>3, <2>1, <2>4, StandsActs
  <2>6. RowsGo
    BY <1>3, <2>4, RowsGoOn
  <2> QED BY <1>1, <1>2, <2>4, <2>5, <2>6, StepMoved DEF Posts
<1>5. CASE rows.delivery # None
  <2>1. PICK cp : cp = [Start EXCEPT !.next = "end"]
    OBVIOUS
  <2>2. rows' = Published /\ Ends(e, cp)
    BY <1>5, <2>1 DEF Stop
  <2>3. cp \in Checkpoints /\ cp.next = "end" /\ cp.answer = None
    BY <2>1, Fresh, NextCheckpoint DEF Stages
  <2>4. /\ rows' \in Rows /\ Onward /\ QualityStays /\ QualityFits' /\ MessageFits'
        /\ rows'.message.sent
    BY <1>1, <2>2, Known, Publishing
  <2>5. Backed(cp)' /\ Judged(cp)'
    BY <2>3, <2>4 DEF Backed, Judged
  <2> QED BY <1>1, <1>2, <2>2, <2>3, <2>4, <2>5, NodeMoved DEF RowsGo, RowsFit
<1> QED BY <1>4, <1>5

\* The run is resolved.
LEMMA FinalizeMoves ==
    ASSUME IInv, NEW e \in Epoch, Finalize(e)
    PROVE  Moved(e) /\ Placed
<1>1. rows' = [rows EXCEPT !.resolved = TRUE] /\ Leave(e) /\ UNCHANGED <<saved, ledger, world>>
  BY DEF Finalize
<1>2. rows' \in Rows /\ Onward /\ QualityStays /\ rows'.message = rows.message
  BY <1>1, Known DEF Rows, Onward, QualityStays
<1>3. RowsGo
  BY <1>1, <1>2, Known, LedgerStays, RowsGoOn
<1> QED BY <1>1, <1>2, <1>3, Known, LeaveMoved, PlacedLeft DEF Posts

-------------------------------------------------------------------------------
(* The ledger and the checkpointer.                                             *)

\* A process that hears of its call, or sends it.
LEMMA HearsActs ==
    ASSUME IInv, NEW e \in Epoch, Grows, UNCHANGED <<rows, saved>>, NEW x \in ProcRow,
           proc' = [proc EXCEPT ![e] = x], x.cp = proc[e].cp, x.key = proc[e].key,
           proc[e].at \in {"ask", "wait"}, x.at \in {"got", "wait"},
           x.at = "wait" =>
              /\ x.row \in DOMAIN ledger' /\ ledger'[x.row].status = "RESERVED"
              /\ ledger'[x.row].by = e /\ ledger'[x.row].key = x.key
              /\ (Accepted(x.key)' = {}),
           x.at = "got" => x.got # "none",
           x.at = "got" /\ x.got \in Answers =>
              /\ x.row \in DOMAIN ledger' /\ ledger'[x.row].status = "ACCEPTED"
              /\ ledger'[x.row].key = x.key /\ ledger'[x.row].value = x.got
    PROVE  Acts(e)
<1>1. Onward
  BY DEF Onward
<1>2. /\ x.key.kind # "none" /\ (x.key.kind = "parse" => x.cp.next = "parse")
      /\ (x.key.kind = "compose" => x.cp.next = "compose")
      /\ (x.key.kind = "review" => x.cp.next = "review")
  BY Known DEF Sane
<1>3. ASSUME e = owner.epoch, x.key.kind = "review"
      PROVE  /\ (rows.quality.reply # None)' /\ Safe(rows.quality.reply)'
             /\ x.key.reply = rows'.quality.reply /\ x.key.evidence = rows'.quality.evidence
  <2>1. PICK r : r = rows.quality.reply
    OBVIOUS
  <2>2. /\ r # None /\ Safe(r) /\ x.key.reply = r /\ x.key.evidence = rows.quality.evidence
    BY <1>3, <2>1, Known DEF Newest
  <2>3. Safe(r)'
    BY <2>2, Known, SafeStays
  <2> QED BY <2>1, <2>2, <2>3
<1> QED BY <1>1, <1>2, <1>3, MovesActs

\* call: an accepted answer is replayed, what cannot be paid refused, the rest reserved.
LEMMA ReserveMoves ==
    ASSUME IInv, NEW e \in Epoch, ReserveCall(e)
    PROVE  Moved(e) /\ Placed
<1>1. proc[e].at = "ask" /\ Holds(e) /\ UNCHANGED <<owner, lock, saved, rows, world>>
  BY DEF ReserveCall
<1>2. Placed
  BY <1>1, Known, PlacedRests
<1>3. CASE /\ Accepted(proc[e].key) # {} /\ UNCHANGED ledger
           /\ \E i \in Accepted(proc[e].key) :
                proc' = [proc EXCEPT ![e].at = "got", ![e].row = i, ![e].got = ledger[i].value]
  <2>1. PICK i \in Accepted(proc[e].key) :
          proc' = [proc EXCEPT ![e].at = "got", ![e].row = i, ![e].got = ledger[i].value]
    BY <1>3
  <2>2. PICK x : x = [proc[e] EXCEPT !.at = "got", !.row = i, !.got = ledger[i].value]
    OBVIOUS
  <2>3. /\ i \in DOMAIN ledger /\ i \in Nat /\ ledger[i].key = proc[e].key
        /\ ledger[i].status = "ACCEPTED" /\ ledger[i] \in CallRow
    BY Known, Columns DEF Accepted
  <2>4. ledger[i].value \in Answers /\ ledger[i].value # "none"
    BY <2>3, Known DEF LedgerFits, CallFits, CallRow
  <2>5. x \in ProcRow /\ x.at = "got" /\ x.key = proc[e].key /\ x.cp = proc[e].cp
        /\ x.row = i /\ x.got = ledger[i].value
    BY <2>2, <2>3, <2>4, Known DEF ProcRow, Places
  <2>6. proc' = [proc EXCEPT ![e] = x]
    BY <2>1, <2>2, Known, Columns
  <2>7. Grows /\ RowsGo /\ QualityStays
    BY <1>1, <1>3, Known, LedgerStays, RowsRest
  <2>8. Acts(e)
    BY <1>1, <1>3, <2>3, <2>4, <2>5, <2>6, <2>7, HearsActs
  <2> QED BY <1>1, <1>2, <1>3, <2>7, <2>8, StepMoved DEF Posts
<1>4. CASE /\ proc' = [proc EXCEPT ![e].at = "got", ![e].row = None, ![e].got = "refused"]
           /\ UNCHANGED ledger
  <2>1. PICK x : x = [proc[e] EXCEPT !.at = "got", !.row = None, !.got = "refused"]
    OBVIOUS
  <2>2. x \in ProcRow /\ x.at = "got" /\ x.key = proc[e].key /\ x.cp = proc[e].cp
        /\ x.got = "refused"
    BY <2>1, Known DEF ProcRow, Places, None
  <2>3. proc' = [proc EXCEPT ![e] = x]
    BY <1>4, <2>1, Known, Columns
  <2>4. Grows /\ RowsGo /\ QualityStays
    BY <1>1, <1>4, Known, LedgerStays, RowsRest
  <2>5. Acts(e)
    BY <1>1, <2>2, <2>3, <2>4, HearsActs DEF Answers
  <2> QED BY <1>1, <1>2, <1>4, <2>4, <2>5, StepMoved DEF Posts
<1>5. CASE /\ Accepted(proc[e].key) = {} /\ Affordable(e)
           /\ ledger' = Append(ledger, NewCall(e))
           /\ proc' = [proc EXCEPT ![e].at = "wait", ![e].row = Len(ledger) + 1]
  <2>1. PICK n : n = Len(ledger) + 1
    OBVIOUS
  <2>2. Reserves(e)
    BY <1>1, <1>5, Known DEF Reserves, Sane
  <2>3. /\ Grows /\ NothingNew /\ Len(ledger') = n /\ ledger'[n] = NewCall(e)
    BY <2>1, <2>2, Known, Reserving
  <2>4. n \in Nat /\ n \in DOMAIN ledger'
    BY <2>1, <2>3, Known, Columns DEF Grows
  <2>5. PICK x : x = [proc[e] EXCEPT !.at = "wait", !.row = n]
    OBVIOUS
  <2>6. x \in ProcRow /\ x.at = "wait" /\ x.key = proc[e].key /\ x.cp = proc[e].cp /\ x.row = n
    BY <2>4, <2>5, Known DEF ProcRow, Places
  <2>7. proc' = [proc EXCEPT ![e] = x]
    BY <1>5, <2>1, <2>5, Known, Columns
  <2>8. ledger'[n].status = "RESERVED" /\ ledger'[n].by = e /\ ledger'[n].key = x.key
    BY <2>3, <2>6 DEF NewCall
  <2>9. Accepted(x.key)' = {}
    <3>1. PICK k : k = proc[e].key
      OBVIOUS
    <3>2. Accepted(k)' = {}
      BY <1>5, <2>3, <3>1, StillOpen
    <3>3. x.key = k
      BY <2>6, <3>1
    <3> QED BY <3>2, <3>3
  <2>10. RowsGo /\ QualityStays
    BY <1>1, <2>3, RowsRest
  <2>11. Acts(e)
    BY <1>1, <2>3, <2>4, <2>6, <2>7, <2>8, <2>9, HearsActs
  <2> QED BY <1>1, <1>2, <2>2, <2>10, <2>11, StepMoved DEF Posts
<1> QED BY <1>3, <1>4, <1>5 DEF ReserveCall
\* An outcome that is written to the caller's own row.
LEMMA WrittenSettles ==
    ASSUME IInv, NEW e \in Epoch, proc[e].at = "wait", NEW status \in {"ACCEPTED", "UNKNOWN", "STALE"},
           NEW used \in {0, 1}, NEW value, Written(e, status, used, value),
           status = "ACCEPTED" => Holds(e) /\ value \in Values(proc[e].key.kind),
           status # "ACCEPTED" => value = "none"
    PROVE  /\ Posts(e) /\ Grows /\ proc[e].row \in DOMAIN ledger'
           /\ ledger'[proc[e].row].status = status /\ ledger'[proc[e].row].key = proc[e].key
           /\ ledger'[proc[e].row].value = value
           /\ value \in Answers \union {"none"} /\ (status = "ACCEPTED" => value # "none")
<1>1. PICK r : r = proc[e].row
  OBVIOUS
<1>2. /\ r \in DOMAIN ledger /\ ledger[r] \in CallRow /\ ledger[r].status = "RESERVED"
      /\ ledger[r].by = e /\ ledger[r].key = proc[e].key
      /\ proc[e].key.kind # "none" /\ proc[e].key.kind \in Kinds
  <2>1. r \in DOMAIN ledger /\ ledger[r].status = "RESERVED" /\ ledger[r].by = e
        /\ ledger[r].key = proc[e].key /\ proc[e].key.kind # "none"
    BY <1>1, Known DEF Sane
  <2>2. proc[e].key \in KeyRow
    BY Known, ProcColumns
  <2> QED BY <2>1, <2>2, Known, Columns DEF KeyRow
<1>3. value \in Answers \union {"none"} /\ (status = "ACCEPTED" => value # "none")
  BY <1>2, Valued DEF Answers, Kinds
<1>4. PICK c : c = [ledger[r] EXCEPT !.status = status, !.used = used, !.value = value]
  OBVIOUS
<1>5. c \in CallRow /\ c.key = ledger[r].key /\ c.by = e /\ c.status = status /\ c.value = value
  BY <1>2, <1>3, <1>4 DEF CallRow
<1>6. CallFits(c)
  BY <1>2, <1>3, <1>5 DEF CallFits
<1>7. ledger' = [ledger EXCEPT ![r] = c]
  BY <1>1, <1>2, <1>4, Known, Columns DEF Written
<1>8. Settles(e, c)
  BY <1>1, <1>2, <1>5, <1>6, <1>7 DEF Settles
<1>9. Posts(e) /\ Grows /\ Len(ledger') = Len(ledger) /\ ledger'[r] = c
  BY <1>1, <1>5, <1>8, Known, Settling DEF Posts
<1>10. r \in DOMAIN ledger'
  BY <1>2, <1>9, Known, Columns DEF Grows
<1> QED BY <1>1, <1>2, <1>3, <1>5, <1>9, <1>10

\* call: no answer, or an unusable one.
LEMMA FailMoves ==
    ASSUME IInv, NEW e \in Epoch, CallFails(e)
    PROVE  Moved(e) /\ Placed
<1>1. /\ proc[e].at = "wait" /\ Written(e, "UNKNOWN", None, "none")
      /\ UNCHANGED <<owner, lock, saved, rows, world>>
  BY DEF CallFails
<1>2. Posts(e) /\ Grows
  BY <1>1, WrittenSettles DEF None
<1>3. PICK x : x = [proc[e] EXCEPT !.at = "got", !.row = None, !.got = "failed"]
  OBVIOUS
<1>4. x \in ProcRow /\ x.at = "got" /\ x.key = proc[e].key /\ x.cp = proc[e].cp
      /\ x.got = "failed"
  BY <1>3, Known DEF ProcRow, Places, None
<1>5. proc' = [proc EXCEPT ![e] = x]
  BY <1>3, Known, Columns DEF CallFails
<1>6. RowsGo /\ QualityStays
  BY <1>1, <1>2, RowsRest
<1>7. Acts(e)
  BY <1>1, <1>2, <1>4, <1>5, HearsActs DEF Answers
<1>8. Moved(e)
  BY <1>1, <1>2, <1>6, <1>7, StepMoved
<1> QED BY <1>1, <1>8, Known, PlacedRests

\* An answer is accepted from an owner, and is only recorded from a process that has lost the run.
LEMMA AnsweredMoves ==
    ASSUME IInv, NEW e \in Epoch, CallAnswered(e)
    PROVE  Moved(e) /\ Placed
<1>1. proc[e].at = "wait" /\ UNCHANGED <<saved, rows, world>>
  BY DEF CallAnswered
<1>2. ASSUME NEW value \in Values(proc[e].key.kind), Holds(e), Written(e, "ACCEPTED", 1, value),
             proc' = [proc EXCEPT ![e].at = "got", ![e].got = value], UNCHANGED <<owner, lock>>
      PROVE  Moved(e) /\ Placed
  <2>1. /\ Posts(e) /\ Grows /\ proc[e].row \in DOMAIN ledger'
        /\ ledger'[proc[e].row].status = "ACCEPTED" /\ ledger'[proc[e].row].key = proc[e].key
        /\ ledger'[proc[e].row].value = value /\ value \in Answers \union {"none"} /\ value # "none"
    BY <1>1, <1>2, WrittenSettles
  <2>2. PICK x : x = [proc[e] EXCEPT !.at = "got", !.got = value]
    OBVIOUS
  <2>3. x \in ProcRow /\ x.at = "got" /\ x.key = proc[e].key /\ x.cp = proc[e].cp
        /\ x.got = value /\ x.row = proc[e].row
    BY <2>1, <2>2, Known DEF ProcRow, Places
  <2>4. proc' = [proc EXCEPT ![e] = x]
    BY <1>2, <2>2, Known, Columns
  <2>5. RowsGo /\ QualityStays
    BY <1>1, <2>1, RowsRest
  <2>6. Acts(e)
    BY <1>1, <2>1, <2>3, <2>4, HearsActs
  <2>7. Moved(e)
    BY <1>1, <2>1, <2>5, <2>6, StepMoved
  <2> QED BY <1>1, <1>2, <2>7, Known, PlacedRests
<1>3. ASSUME Written(e, "STALE", 1, "none"), Leave(e)
      PROVE  Moved(e) /\ Placed
  <2>1. Posts(e) /\ Grows
    BY <1>1, <1>3, WrittenSettles
  <2>2. RowsGo /\ QualityStays
    BY <1>1, <2>1, RowsRest
  <2> QED BY <1>1, <1>3, <2>1, <2>2, Known, LeaveMoved, PlacedLeft
<1> QED BY <1>2, <1>3 DEF CallAnswered

\* Only the process that holds the thread saves, and it is the newest.
LEMMA SaveMoves ==
    ASSUME IInv, NEW e \in Epoch, SaveCheckpoint(e)
    PROVE  Moved(e) /\ Placed
<1>1. proc[e].at = "save" /\ UNCHANGED <<ledger, rows, world>>
  BY DEF SaveCheckpoint
<1>2. Grows /\ RowsGo /\ QualityStays /\ Onward
  BY <1>1, Known, LedgerStays, RowsRest
<1>3. CASE lock = e
  <2>1. PICK cp : cp = proc[e].cp
    OBVIOUS
  <2>2. saved' = cp /\ proc' = [proc EXCEPT ![e] = [Off EXCEPT !.at = "node", !.cp = cp]]
        /\ UNCHANGED <<owner, lock>>
    BY <1>3, <2>1 DEF SaveCheckpoint
  <2>3. e = owner.epoch
    BY <1>3, Known, Columns DEF None, Epoch
  <2>4. cp \in Checkpoints /\ Backed(cp) /\ Judged(cp)
    BY <1>1, <2>1, <2>3, Known DEF Newest
  <2>5. Backed(cp)' /\ Judged(cp)'
    BY <1>2, <2>4, Known, BackedStays, JudgedStays
  <2>6. PICK x : x = [Off EXCEPT !.at = "node", !.cp = cp]
    OBVIOUS
  <2>7. x \in ProcRow /\ x.at = "node" /\ x.cp = cp
    BY <2>4, <2>6, Fresh DEF ProcRow, Places
  <2>8. proc'[e] = x /\ proc' \in [Epoch -> ProcRow] /\ \A f \in Epoch \ {e} : proc'[f] = proc[f]
    BY <2>2, <2>6, <2>7, Known, Writing
  <2>9. Acts(e)
    BY <2>2, <2>5, <2>7, <2>8 DEF Acts, Sane, Newest
  <2>10. saved' \in Checkpoints /\ Backed(saved)' /\ Judged(saved)'
    BY <2>2, <2>4, <2>5
  <2>11. Moved(e)
    BY <1>1, <1>2, <2>3, <2>9, <2>10 DEF Moved, Posts
  <2> QED BY <1>1, <2>2, <2>11, Known, PlacedRests
<1>4. CASE lock # e
  <2>1. Leave(e) /\ UNCHANGED saved
    BY <1>4 DEF SaveCheckpoint
  <2> QED BY <1>1, <1>2, <2>1, Known, LeaveMoved, PlacedLeft DEF Posts
<1> QED BY <1>3, <1>4

\* A process that finds the run lost, or dies.
LEMMA LeaverMoves ==
    ASSUME IInv, NEW e \in Epoch, Stale(e) \/ Crash(e)
    PROVE  Moved(e) /\ Placed
<1>1. Leave(e) /\ UNCHANGED <<saved, ledger, rows>>
  BY DEF Stale, Crash
<1>2. world' \in World
  BY Known DEF Stale, Crash, Fault, World
<1>3. RowsGo /\ QualityStays
  BY <1>1, Known, LedgerStays, RowsRest
<1> QED BY <1>1, <1>2, <1>3, LeaveMoved, PlacedLeft DEF Posts
-------------------------------------------------------------------------------
(* What happens outside of the processes.                                       *)

\* No process acts: a lease or a connection ends, time passes, others act, or the
\* dispatcher publishes.
LEMMA RestKeeps ==
    ASSUME IInv, UNCHANGED <<saved, proc, ledger>>, RowsGo, QualityStays, Placed
    PROVE  IInv'
<1>1. Types /\ LedgerFits /\ OneAnswerPerStep /\ SpendWithinCap
  BY DEF IInv
<1>2. /\ Grows /\ NothingNew /\ LedgerFits' /\ OneAnswerPerStep' /\ SpendWithinCap' /\ Onward
      /\ QualityFits' /\ MessageFits'
  BY <1>1, LedgerStays DEF RowsGo, RowsFit
<1>3. Types'
  BY <1>1, Columns DEF Types, Placed, RowsGo
<1>4. Backed(saved)' /\ Judged(saved)'
  BY <1>2, SavedStays DEF Rewrites
<1>5. \A e \in Epoch : Acts(e)
  BY <1>2, StandsActs
<1>6. \A e \in Epoch : Sane(e)'
  BY <1>5 DEF Acts
<1>7. PICK o : o = owner.epoch
  OBVIOUS
<1>8. o # 0 => o \in Epoch
  BY <1>1, <1>7, Columns DEF Epoch
<1>9. o # 0 => Newest(o)'
  BY <1>5, <1>7, <1>8 DEF Acts
<1>10. (owner.epoch # 0 => Newest(owner.epoch))'
  BY <1>7, <1>9 DEF Placed
<1> QED BY <1>2, <1>3, <1>4, <1>6, <1>10 DEF IInv

\* Leases, connections, the clock, other actions and the dispatcher.
LEMMA OutsideKeeps ==
    ASSUME IInv,
           \/ LeaseEnds \/ WatchdogRevokes \/ Terminate \/ OtherActs \/ TimeEnds
           \/ NotifierPublishes \/ \E e \in Epoch : ConnectionEnds(e)
    PROVE  IInv'
<1>1. Types /\ LedgerFits /\ QualityFits /\ MessageFits /\ world \in World
  BY Columns DEF IInv
<1>2. UNCHANGED <<saved, proc, ledger>>
  BY DEF LeaseEnds, WatchdogRevokes, Terminate, OtherActs, TimeEnds, NotifierPublishes,
         ConnectionEnds
<1>3. RowsGo /\ QualityStays
  <2>1. CASE UNCHANGED rows
    BY <1>1, <1>2, <2>1, LedgerStays, RowsRest
  <2>2. CASE NotifierPublishes
    BY <1>1, <1>2, <2>2, Publishing DEF NotifierPublishes, RowsGo, RowsFit
  <2> QED BY <2>1, <2>2 DEF LeaseEnds, WatchdogRevokes, Terminate, OtherActs, TimeEnds, ConnectionEnds
<1>4. world' \in World
  <2>1. \/ world' = world \/ world' = [world EXCEPT !.faults = @ + 1]
        \/ world' = [world EXCEPT !.version = @ + 1, !.others = @ + 1]
        \/ world' = [world EXCEPT !.spent = TRUE] \/ world' = [world EXCEPT !.due = TRUE]
    BY DEF LeaseEnds, WatchdogRevokes, Terminate, OtherActs, TimeEnds, NotifierPublishes,
           ConnectionEnds, Fault
  <2>2. world.faults \in Nat /\ world.version \in Nat \ {0} /\ world.others \in Nat
    BY <1>1 DEF World
  <2>3. CASE world' = [world EXCEPT !.faults = @ + 1]
    BY <1>1, <2>2, <2>3 DEF World
  <2>4. CASE world' = [world EXCEPT !.version = @ + 1, !.others = @ + 1]
    <3>1. PICK n \in Nat \ {0} : n = world.version + 1
      BY <2>2
    <3>2. PICK m \in Nat : m = world.others + 1
      BY <2>2
    <3>3. world' = [world EXCEPT !.version = n, !.others = m]
      BY <2>4, <3>1, <3>2
    <3> QED BY <1>1, <3>3 DEF World
  <2>5. CASE world' = world \/ world' = [world EXCEPT !.spent = TRUE]
             \/ world' = [world EXCEPT !.due = TRUE]
    BY <1>1, <2>5 DEF World
  <2> QED BY <2>1, <2>3, <2>4, <2>5
<1>5. owner' \in [epoch : 0..Owners, live : BOOLEAN, stopped : BOOLEAN] /\ owner'.epoch = owner.epoch
  <2>1. \/ owner' = owner \/ owner' = [owner EXCEPT !.live = FALSE]
        \/ owner' = [owner EXCEPT !.stopped = TRUE]
    BY DEF LeaseEnds, WatchdogRevokes, Terminate, OtherActs, TimeEnds, NotifierPublishes,
           ConnectionEnds
  <2> QED BY <1>1, <2>1 DEF Types
<1>6. lock' \in {None, owner.epoch}
  BY <1>1 DEF Types, LeaseEnds, WatchdogRevokes, Terminate, OtherActs, TimeEnds, NotifierPublishes,
         ConnectionEnds
<1> QED BY <1>2, <1>3, <1>4, <1>5, <1>6, RestKeeps DEF Placed

\* The next owner starts where the checkpoint says.
LEMMA ClaimKeeps ==
    ASSUME IInv, Claim
    PROVE  IInv'
<1>1. Types /\ LedgerFits /\ OneAnswerPerStep /\ SpendWithinCap /\ saved \in Checkpoints
      /\ owner.epoch \in 0..Owners /\ Owners \in Nat /\ Backed(saved)
  BY Columns, TurnAssumption DEF IInv
<1>2. PICK n : n = owner.epoch + 1
  OBVIOUS
<1>3. n \in Epoch /\ n # 0 /\ UNCHANGED <<saved, ledger, rows, world>>
  BY <1>1, <1>2 DEF Claim, Epoch
<1>4. owner' \in [epoch : 0..Owners, live : BOOLEAN, stopped : BOOLEAN] /\ owner'.epoch = n /\ lock' = n
  <2>1. n \in 0..Owners /\ owner \in [epoch : 0..Owners, live : BOOLEAN, stopped : BOOLEAN]
    BY <1>1, <1>3 DEF Epoch, Types
  <2>2. owner' = [owner EXCEPT !.epoch = n, !.live = TRUE] /\ lock' = n
    BY <1>2 DEF Claim
  <2> QED BY <2>1, <2>2
<1>5. PICK x : x = [Off EXCEPT !.at = IF owner.stopped THEN "stop" ELSE "node", !.cp = saved]
  OBVIOUS
<1>6. x \in ProcRow /\ x.at \in {"stop", "node"} /\ x.cp = saved
  BY <1>1, <1>5, Fresh DEF ProcRow, Places
<1>7. proc'[n] = x /\ proc' \in [Epoch -> ProcRow] /\ \A f \in Epoch \ {n} : proc'[f] = proc[f]
  BY <1>1, <1>2, <1>3, <1>5, <1>6, Writing DEF Claim
<1>8. Grows /\ LedgerFits' /\ OneAnswerPerStep' /\ SpendWithinCap' /\ RowsGo /\ Onward /\ QualityStays
  BY <1>1, <1>3, LedgerStays, RowsRest
<1>9. Types'
  BY <1>1, <1>3, <1>4, <1>7 DEF Types
<1>10. saved' \in Checkpoints /\ Backed(saved)' /\ Judged(saved)'
  BY <1>3, <1>8, SavedStays DEF Rewrites
<1>11. ASSUME NEW f \in Epoch PROVE Sane(f)'
  <2>1. CASE f = n
    BY <1>3, <1>6, <1>7, <1>10, <2>1 DEF Sane
  <2>2. CASE f # n
    BY <1>1, <1>3, <1>7, <1>8, <2>2, Bystander DEF IInv
  <2> QED BY <2>1, <2>2
<1>12. Newest(n)'
  BY <1>3, <1>6, <1>7 DEF Newest
<1>13. (owner.epoch # 0 => Newest(owner.epoch))'
  BY <1>4, <1>12
<1> QED BY <1>8, <1>9, <1>10, <1>11, <1>13 DEF IInv, RowsGo, RowsFit

-------------------------------------------------------------------------------
(* The invariant.                                                               *)

\* A turn begins with nothing claimed.
LEMMA Inits ==
    ASSUME Init
    PROVE  IInv
<1>1. Types
  <2>1. {} \in SUBSET Nat /\ Owners \in Nat /\ 0 \in 0..Owners
    BY TurnAssumption
  <2>2. rows \in Rows
    BY DEF Init, Rows, QualityRow, NoQuality, NoTurn, NoMessage, None
  <2>3. ledger \in Seq(CallRow)
    BY DEF Init
  <2> QED BY <2>1, <2>2, <2>3, Fresh DEF Init, Types, World
<1>2. DOMAIN ledger = {} /\ Len(ledger) = 0
  BY DEF Init
<1>3. LedgerFits /\ OneAnswerPerStep
  BY <1>2 DEF LedgerFits, OneAnswerPerStep
<1>4. SpendWithinCap
  <2>1. Unsettled = {} /\ DOMAIN ledger \ Unsettled = {}
    BY <1>2 DEF Unsettled
  <2>2. Cardinality({}) = 0
    BY FS_EmptySet
  <2>3. MaxCalls \in Nat /\ MaxTokens \in Nat /\ Reserve \in Nat
    BY TurnAssumption
  <2>4. Charged = Reserve * 0 + 0
    BY <2>1, <2>2 DEF Charged
  <2> QED BY <1>2, <2>3, <2>4 DEF SpendWithinCap
<1>5. rows.quality.reply = None /\ ~rows.quality.approved /\ rows.message.natural = None
  BY DEF Init, NoQuality, NoMessage
<1>6. QualityFits /\ MessageFits
  BY <1>5 DEF QualityFits, MessageFits
<1>7. 0 < Rounds
  BY TurnAssumption
<1>8. Backed(Start) /\ Judged(Start)
  BY <1>7, Fresh DEF Backed, Judged
<1>9. ASSUME NEW e \in Epoch PROVE Sane(e)
  <2>1. proc[e] = Off
    BY DEF Init
  <2> QED BY <1>8, <2>1, Fresh DEF Sane
<1>10. owner.epoch = 0 /\ saved = Start
  BY DEF Init
<1> QED BY <1>1, <1>3, <1>4, <1>6, <1>8, <1>9, <1>10 DEF IInv

\* The nodes of the graph.
LEMMA NodesMove ==
    ASSUME IInv, NEW e \in Epoch, Nodes(e)
    PROVE  Moved(e) /\ Placed
BY PrepareMoves, ParseMoves, ParsedMoves, PlanMoves, ReadVersionMoves, CommitMoves, ComposeMoves,
   ComposedMoves, ReviewMoves, ReviewedMoves, PublishMoves, StopMoves, FinalizeMoves DEF Nodes

\* Every step keeps the invariant and the plan.
LEMMA EachStep ==
    ASSUME IInv, [Next]_vars
    PROVE  IInv' /\ KeepsPlan
<1>1. ASSUME NEW e \in Epoch, Moved(e), Placed
      PROVE  IInv' /\ KeepsPlan
  BY <1>1, MovedKeeps DEF Moved, RowsGo, Onward, KeepsPlan
<1>2. CASE Claim
  BY <1>2, ClaimKeeps DEF Claim, KeepsPlan
<1>3. CASE \/ LeaseEnds \/ WatchdogRevokes \/ Terminate \/ OtherActs \/ TimeEnds
           \/ NotifierPublishes \/ \E e \in Epoch : ConnectionEnds(e)
  <2>1. rows'.turn = rows.turn
    BY <1>3, Columns DEF IInv, Rows, LeaseEnds, WatchdogRevokes, Terminate, OtherActs, TimeEnds,
       NotifierPublishes, ConnectionEnds, Published
  <2> QED BY <1>3, <2>1, OutsideKeeps DEF KeepsPlan
<1>4. ASSUME NEW e \in Epoch,
             Nodes(e) \/ LedgerStep(e) \/ SaveCheckpoint(e) \/ Stale(e) \/ Crash(e)
      PROVE  Moved(e) /\ Placed
  BY <1>4, NodesMove, ReserveMoves, FailMoves, AnsweredMoves, SaveMoves, LeaverMoves DEF LedgerStep
<1>5. CASE UNCHANGED vars
  <2>1. world' \in World
    BY <1>5, Columns DEF IInv, vars
  <2>2. UNCHANGED <<saved, proc, ledger, rows, owner, lock>>
    BY <1>5 DEF vars
  <2>3. RowsGo /\ QualityStays /\ Placed
    BY <2>1, <2>2, LedgerStays, RowsRest, PlacedRests DEF IInv
  <2> QED BY <2>2, <2>3, RestKeeps DEF KeepsPlan
<1> QED BY <1>1, <1>2, <1>3, <1>4, <1>5 DEF Next
-------------------------------------------------------------------------------
(* Theorems about a turn of the graph.                                          *)

\* The invariant holds of every turn (semantic_graph.py, model_call_ledger_service.py).
THEOREM TurnInvariant == Spec => []IInv
<1>1. Init => IInv
  BY Inits
<1>2. IInv /\ [Next]_vars => IInv'
  BY EachStep
<1> QED BY <1>1, <1>2, PTL DEF Spec

\* What the invariant says in the words of the properties.
LEMMA Shown ==
    ASSUME IInv
    PROVE  TypeOK /\ SpendWithinCap /\ OneAnswerPerStep /\ PublishedIsReviewed /\ CheckpointHasEvidence
<1>1. Types /\ LedgerFits /\ SpendWithinCap /\ OneAnswerPerStep /\ QualityFits /\ MessageFits
      /\ Backed(saved) /\ Judged(saved)
  BY DEF IInv
<1>2. TypeOK
  <2>1. owner.epoch \in 0..Owners /\ lock \in 0..owner.epoch
    BY <1>1, Columns, TurnAssumption DEF None
  <2>2. saved.round \in 0..Rounds
    BY <1>1, Columns DEF Checkpoints
  <2>3. saved.answer \in 0..Len(ledger)
    BY <1>1, Columns DEF Backed, Holding, None, Checkpoints
  <2>4. \A i \in DOMAIN ledger : ledger[i].status \in {"RESERVED", "ACCEPTED", "UNKNOWN", "STALE"}
    BY <1>1, Columns DEF CallRow
  <2>5. \A i \in DOMAIN ledger : ledger[i].status = "ACCEPTED" <=> ledger[i].value # "none"
    BY <1>1 DEF LedgerFits, CallFits
  <2>6. rows.turn.kind \in {"none", "act", "query"}
    BY <1>1, Columns, RowColumns
  <2>7. rows.quality.reply \in 0..Len(ledger)
    BY <1>1, Columns, RowColumns DEF QualityFits, Holding, None
  <2> QED BY <2>1, <2>2, <2>3, <2>4, <2>5, <2>6, <2>7 DEF TypeOK
<1>3. PublishedIsReviewed
  BY <1>1 DEF MessageFits, Safe, Holding, ReviewedOn, PublishedIsReviewed
<1>4. CheckpointHasEvidence
  BY <1>1 DEF Backed, Judged, Holding, CheckpointHasEvidence
<1> QED BY <1>1, <1>2, <1>3, <1>4

\* Every row has the shape the code gives it.
THEOREM TurnTypes == Spec => []TypeOK
BY TurnInvariant, Shown, PTL

\* However many owners a turn has had, its calls keep to the budget of the run
\* (ModelCallLedgerService.call).
THEOREM SpendIsCapped == Spec => []SpendWithinCap
BY TurnInvariant, Shown, PTL

\* No logical step of a turn has two accepted answers (ModelCallLedgerService.call).
THEOREM AnswersAreUnique == Spec => []OneAnswerPerStep
BY TurnInvariant, Shown, PTL

\* No text of a model reaches the buyer without a favourable review on the very state
\* of business it is published in (GraphReplyService.review, reviewed_reply).
THEOREM NothingUnreviewedIsSaid == Spec => []PublishedIsReviewed
BY TurnInvariant, Shown, PTL

\* What the saved checkpoint claims is in the rows, whoever wrote since
\* (semantic_graph.py).
THEOREM CheckpointsKeepEvidence == Spec => []CheckpointHasEvidence
BY TurnInvariant, Shown, PTL

\* A turn is planned once, whatever a node that runs again is told (plan_turn).
THEOREM PlansAreKept == Spec => [][KeepsPlan]_vars
<1>1. IInv /\ [Next]_vars => [KeepsPlan]_vars
  BY EachStep
<1> QED BY <1>1, TurnInvariant, PTL DEF Spec

-------------------------------------------------------------------------------
(* The run that checks the turns along with the drafts and the agent.           *)

TurnHolds == scope = "semantic" => IInv

\* The run begins with one component.
LEMMA TurnsStart ==
    ASSUME TurnsInit
    PROVE  TurnHolds
BY Inits DEF TurnsInit, TurnHolds

\* The other components leave the turn alone.
LEMMA TurnsStep ==
    ASSUME TurnHolds, [TurnsNext]_turns
    PROVE  TurnHolds'
<1> SUFFICES ASSUME scope' = "semantic" PROVE IInv'
  BY DEF TurnHolds
<1>1. scope = "semantic"
  BY DEF TurnsNext, turns
<1>2. [Next]_vars
  BY <1>1 DEF TurnsNext, turns, semantic
<1>3. IInv
  BY <1>1 DEF TurnHolds
<1> QED BY <1>2, <1>3, EachStep

\* In every behaviour of the run that is one of the semantic graph, the turn is typed,
\* within its caps, answered once per step, reviewed before it is published, and never
\* behind its checkpoint (model_call_ledger_service.py, semantic_graph.py).
THEOREM TurnAccount == TurnsSpec => []TurnIsAccountedFor
<1>1. TurnsInit => TurnHolds
  BY TurnsStart
<1>2. TurnHolds /\ [TurnsNext]_turns => TurnHolds'
  BY TurnsStep
<1>3. TurnHolds => TurnIsAccountedFor
  BY Shown DEF TurnHolds, TurnIsAccountedFor
<1> QED BY <1>1, <1>2, <1>3, PTL DEF TurnsSpec

\* In a behaviour of the drafts their invariant holds (semantic/service.py).
DraftsHold == scope = "drafts" => Draft!DInv

\* Their rows take the steps of Drafts and no others.
LEMMA DraftsRun == TurnsSpec => []DraftsHold
<1>1. TurnsInit => DraftsHold
  BY DraftValues, Draft!DraftsStart DEF TurnsInit, DraftsHold
<1>2. DraftsHold /\ [TurnsNext]_turns => DraftsHold'
  <2> SUFFICES ASSUME DraftsHold, [TurnsNext]_turns, scope' = "drafts" PROVE Draft!DInv'
    BY DEF DraftsHold
  <2>1. scope = "drafts" /\ Draft!DInv
    BY DEF DraftsHold, TurnsNext, turns
  <2>2. [Draft!Next]_(Draft!vars)
    BY <2>1 DEF TurnsNext, turns, drafts, Draft!vars
  <2> QED BY <2>1, <2>2, DraftValues, Draft!DraftsStep
<1> QED BY <1>1, <1>2, PTL DEF TurnsSpec

\* The conditions of the current offer were met by the very facts it was quoted on, whatever
\* was edited between the plan and the submission, in the composition
\* (semantic/service.py, business_command_service.py).
THEOREM OffersStandOnFacts == TurnsSpec => []OffersAreGrounded
<1>1. DraftsHold => OffersAreGrounded
  BY DraftValues, Draft!DraftsTypes, Draft!OfferStandsOnFacts DEF DraftsHold, OffersAreGrounded
<1> QED BY DraftsRun, <1>1, PTL

-------------------------------------------------------------------------------
(* The agent.  AInv: the checkpoint keeps to the budgets and the stream tells it *)
(* (Fits), what was sent is reserved and what a call used beyond its reservation *)
(* is a debt of the next question until it is counted (CallsAreCounted), leases  *)
(* differ (LeasesDiffer), and who holds the lease works on a copy of the saved   *)
(* checkpoint and asks what it calls for (Standing).                             *)

\* The columns of the rows.
Purposes == Agent!Loop \cup Agent!Maintenance \cup {"REVIEW", "none"}
Asked == Purposes \X (Nat \cup Text)
CallRows == [id : Nat \X Nat, kind : {"read", "act"}, text : {""}]
            \cup [id : Nat \X Nat, kind : {"finish"}, text : Text]
AnswerRows == [kind : {"none", "talk", "read", "act", "mixed", "bad", "yes", "no", "delta"}]
              \cup Agent!Proposals
CpRows == [steps : Nat, calls : Nat, tools : Nat, tokens : Nat, upkeep : Nat,
           reserved : SUBSET (Nat \X Nat), owed : SUBSET Asked, pending : Seq(CallRows),
           batch : BOOLEAN, repair : BOOLEAN, json : BOOLEAN, recalled : BOOLEAN,
           covered : {0, 1, 2}, reviews : [Text -> {"none", "yes", "no"}]]
SnapRows == [key : Asked, status : {"STARTED", "SUCCEEDED", "UNKNOWN"}, over : {0, 1},
             answer : AnswerRows]
RunRows == [at : {"off", "loop", "step", "tool", "send", "wait", "answered", "got", "raised"},
            token : Nat, cp : CpRows, key : Asked, row : Nat, built : BOOLEAN,
            answer : AnswerRows]
TaskRows == [status : {"PENDING", "RUNNING", "RETRY_WAIT", "FAILED", "SUCCEEDED", "STALE"},
             attempts : Nat, limit : Nat, lapsed : BOOLEAN]
OutRows == [replies : {0, 1}, acts : {0, 1}, version : {0, 1}, covered : {0, 1, 2, 3}]
Keyed == ({"step"} \X Nat) \cup ({"result"} \X (Nat \X Nat))

\* The turn ends once, within the attempts that were granted.
TurnFits(t, o) ==
  /\ t \in TaskRows /\ o \in OutRows
  /\ t.attempts <= t.limit /\ t.limit \in {Attempts, Attempts + 1}
  /\ o.acts <= o.replies /\ (o.version = 0 => o.covered = 0)
  /\ o.replies = 1 <=> t.status \in {"SUCCEEDED", "STALE"}

\* A checkpoint is within its budgets, and pending are calls of its last step.
WithinBudgets(c) ==
  /\ c \in CpRows
  /\ c.steps <= Steps /\ c.calls <= Calls /\ c.tools <= Tools /\ c.upkeep <= Upkeep
  /\ IsFiniteSet(c.reserved) /\ Cardinality(c.reserved) = c.tools
  /\ Len(c.pending) <= 2
  /\ \A i \in 1 .. Len(c.pending) : c.pending[i].id[1] = c.steps
  /\ \A i, j \in 1 .. Len(c.pending) : i # j => c.pending[i].id # c.pending[j].id

\* The next question of the loop, and whether a question is still open.
NextKey(c) == Agent!Key(c, Agent!Purpose(c), "")
OpenIn(n, key) == \A i \in 1 .. Len(n) : n[i].key = key => n[i].status # "SUCCEEDED"
OverIn(n) == {i \in 1 .. Len(n) : n[i].over = 1}

\* What was sent was reserved, what was answered is answered once, and what a call used
\* beyond its reservation is counted when the next question of the loop is answered.
Unpaid(c, n) == c.pending = <<>> /\ \E i \in OverIn(n) : n[i].key = NextKey(c) /\ n[i].key \in c.owed
CallsAreCounted(c, n) ==
  /\ n \in Seq(SnapRows) /\ Len(n) <= c.calls /\ c.calls <= c.tokens
  /\ \A i \in OverIn(n) : n[i].status = "SUCCEEDED" /\ n[i].key[1] \in Agent!Loop
  /\ \A i, j \in OverIn(n) : i = j
  /\ \A i, j \in 1 .. Len(n) :
        /\ i # j /\ n[i].key = n[j].key /\ n[i].key[1] \notin Agent!Maintenance
        /\ n[i].status = "SUCCEEDED"
        => n[j].status # "SUCCEEDED"
  /\ OverIn(n) = {} \/ c.calls + 1 <= c.tokens \/ Unpaid(c, n)
  /\ c.tokens <= Tokens \/ (c.tokens <= Tokens + 1 /\ \E i \in OverIn(n) : n[i].key \notin c.owed)

\* The stream has every event once: the steps of the checkpoint, and results of its calls.
Said(log) == {log[i] : i \in DOMAIN log}
Tells(log, steps) ==
  /\ log \in Seq(Keyed)
  /\ IsFiniteSet(Said(log)) /\ Cardinality(Said(log)) = Len(log)
  /\ \A k \in Nat : <<"step", k>> \in Said(log) <=> k \in 1 .. steps
  /\ \A e \in Said(log) : e[1] = "result" => e[2][1] <= steps
Unsaid(c, log) == \A i \in 1 .. Len(c.pending) : <<"result", c.pending[i].id>> \notin Said(log)

\* A checkpoint that may be saved.
Fits(c, n, log) ==
  WithinBudgets(c) /\ CallsAreCounted(c, n) /\ Tells(log, c.steps) /\ Unsaid(c, log)

\* An execution works on a copy of the checkpoint, in which only the recall may be new.
Copies(c, s) ==
  /\ c.steps = s.steps /\ c.calls = s.calls /\ c.tools = s.tools /\ c.tokens = s.tokens
  /\ c.upkeep = s.upkeep /\ c.reserved = s.reserved /\ c.owed = s.owed
  /\ c.pending = s.pending /\ c.batch = s.batch /\ c.repair = s.repair /\ c.json = s.json
  /\ c.covered = s.covered /\ c.reviews = s.reviews

\* It asks the next question of the loop or one for maintenance between two steps, and for a
\* review while calls are pending.
AgentAsks(key, c) ==
  /\ key[1] \in Agent!Loop => c.pending = <<>> /\ key = NextKey(c) /\ c.steps < Steps
  /\ key[1] \in Agent!Maintenance => c.pending = <<>>
  /\ key[1] \notin Agent!Loop \cup Agent!Maintenance => key[1] = "REVIEW" /\ c.pending # <<>>
AgentReserves(key, c, n) == key \in c.owed /\ (key[1] \notin Agent!Maintenance => OpenIn(n, key))

Sound(r, n) ==
  /\ r.at = "step" => r.cp.pending = <<>>
  /\ r.at = "tool" => r.cp.pending # <<>>
  /\ r.at \in {"send", "wait", "answered", "got"} => AgentAsks(r.key, r.cp)
  /\ r.at \in {"send", "wait"} => AgentReserves(r.key, r.cp, n)
  /\ r.at = "send" => Len(n) < r.cp.calls
  /\ r.at \in {"wait", "answered"} => r.row \in 1 .. Len(n) /\ n[r.row].key = r.key
  /\ r.at = "answered" => n[r.row].status = "SUCCEEDED"
  /\ r.at = "got" /\ r.key[1] \in Agent!Loop => r.key \notin r.cp.owed

\* No two executions have the same lease, and the one that holds it stands on what is saved.
LeasesDiffer ==
  /\ \A p \in Exec : run[p].token <= task.attempts /\ (run[p].at # "off" => run[p].token # 0)
  /\ \A p, q \in Exec : p # q /\ run[p].at # "off" => run[p].token # run[q].token
Standing(p) == run[p].at # "off" /\ Agent!Holds(p) => Copies(run[p].cp, agent_saved) /\ Sound(run[p], snaps)

AInv ==
  /\ TurnFits(task, out) /\ agent_world \in [moved : BOOLEAN, late : BOOLEAN, other : BOOLEAN]
  /\ Fits(agent_saved, snaps, stream)
  /\ run \in [Exec -> RunRows] /\ broken \in Nat
  /\ LeasesDiffer /\ \A p \in Exec : Standing(p)

-------------------------------------------------------------------------------
(* The stream.                                                                   *)

\* What was said stands somewhere in the stream.
LEMMA SaidSomewhere ==
  ASSUME NEW log \in Seq(Keyed)
  PROVE  \A x : x \in Said(log) <=> \E i \in 1 .. Len(log) : log[i] = x
<1>1. DOMAIN log = 1 .. Len(log)
  BY LenProperties
<1> QED BY <1>1 DEF Said

\* An event that is noted is there once.
LEMMA Noting ==
  ASSUME NEW log \in Seq(Keyed), IsFiniteSet(Said(log)), Cardinality(Said(log)) = Len(log),
         NEW e \in Keyed
  PROVE  /\ Agent!Noted(log, e) \in Seq(Keyed) /\ Said(Agent!Noted(log, e)) = Said(log) \cup {e}
         /\ IsFiniteSet(Said(Agent!Noted(log, e))) /\ Cardinality(Said(Agent!Noted(log, e))) = Len(Agent!Noted(log, e))
<1>1. CASE e \in Said(log)
  <2>1. Agent!Noted(log, e) = log
    BY <1>1 DEF Agent!Noted, Said
  <2> QED BY <1>1, <2>1
<1>2. CASE e \notin Said(log)
  <2>1. Agent!Noted(log, e) = Append(log, e)
    BY <1>2 DEF Agent!Noted, Said
  <2> DEFINE new == Append(log, e)
  <2>2. /\ new \in Seq(Keyed) /\ Len(new) = Len(log) + 1 /\ Len(log) \in Nat
        /\ \A i \in 1 .. Len(log) : new[i] = log[i]
        /\ new[Len(log) + 1] = e
    BY AppendProperties, LenProperties
  <2> HIDE DEF new
  <2>4. Said(new) = Said(log) \cup {e}
    <3>1. ASSUME NEW x \in Said(new) PROVE x \in Said(log) \cup {e}
      <4>1. PICK i \in 1 .. Len(new) : new[i] = x
        BY <2>2, SaidSomewhere
      <4>2. i \in 1 .. Len(log) \/ i = Len(log) + 1
        BY <2>2
      <4> QED BY <4>1, <4>2, <2>2, SaidSomewhere
    <3>2. ASSUME NEW x \in Said(log) PROVE x \in Said(new)
      <4>1. PICK i \in 1 .. Len(log) : log[i] = x
        BY SaidSomewhere
      <4>2. i \in 1 .. Len(new) /\ new[i] = x
        BY <4>1, <2>2
      <4> QED BY <4>2, <2>2, SaidSomewhere
    <3>3. e \in Said(new)
      <4>1. Len(log) + 1 \in 1 .. Len(new)
        BY <2>2
      <4> QED BY <4>1, <2>2, SaidSomewhere
    <3> QED BY <3>1, <3>2, <3>3
  <2>5. IsFiniteSet(Said(log) \cup {e}) /\ Cardinality(Said(log) \cup {e}) = Cardinality(Said(log)) + 1
    BY <1>2, FS_AddElement
  <2> QED BY <2>1, <2>2, <2>4, <2>5 DEF new
<1> QED BY <1>1, <1>2

\* The result of a call of a step that was saved.
LEMMA NotingResult ==
  ASSUME NEW log, NEW k \in Nat, Tells(log, k), NEW id \in Nat \X Nat, id[1] <= k
  PROVE  /\ Tells(Agent!Noted(log, <<"result", id>>), k)
         /\ Said(Agent!Noted(log, <<"result", id>>)) = Said(log) \cup {<<"result", id>>}
<1> DEFINE e == <<"result", id>>
<1>1. e \in Keyed /\ e[1] = "result" /\ e[2] = id
  BY DEF Keyed
<1> HIDE DEF e
<1>2. /\ Agent!Noted(log, e) \in Seq(Keyed) /\ Said(Agent!Noted(log, e)) = Said(log) \cup {e}
      /\ IsFiniteSet(Said(Agent!Noted(log, e))) /\ Cardinality(Said(Agent!Noted(log, e))) = Len(Agent!Noted(log, e))
  BY <1>1, Noting DEF Tells
<1>3. \A n \in Nat : <<"step", n>> # e
  BY <1>1
<1> QED BY <1>1, <1>2, <1>3 DEF Tells, e

\* The step that is saved next.
LEMMA NotingStep ==
  ASSUME NEW log, NEW k \in Nat, Tells(log, k)
  PROVE  /\ Tells(Agent!Noted(log, <<"step", k + 1>>), k + 1)
         /\ Said(Agent!Noted(log, <<"step", k + 1>>)) = Said(log) \cup {<<"step", k + 1>>}
<1> DEFINE e == <<"step", k + 1>>
<1>1. e \in Keyed /\ e[1] = "step" /\ e[2] = k + 1
  BY DEF Keyed
<1> HIDE DEF e
<1>2. /\ Agent!Noted(log, e) \in Seq(Keyed) /\ Said(Agent!Noted(log, e)) = Said(log) \cup {e}
      /\ IsFiniteSet(Said(Agent!Noted(log, e))) /\ Cardinality(Said(Agent!Noted(log, e))) = Len(Agent!Noted(log, e))
  BY <1>1, Noting DEF Tells
<1>3. \A n \in Nat : <<"step", n>> = e <=> n = k + 1
  BY DEF e
<1>4. \A n \in Nat : <<"step", n>> \in Said(Agent!Noted(log, e)) <=> n \in 1 .. k + 1
  <2>1. ASSUME NEW n \in Nat PROVE <<"step", n>> \in Said(Agent!Noted(log, e)) <=> n \in 1 .. k + 1
    <3>1. <<"step", n>> \in Said(Agent!Noted(log, e)) <=> <<"step", n>> \in Said(log) \/ <<"step", n>> = e
      BY <1>2
    <3>2. <<"step", n>> \in Said(log) <=> n \in 1 .. k
      BY DEF Tells
    <3> QED BY <3>1, <3>2, <1>3
  <2> QED BY <2>1
<1>5. \A x \in Said(Agent!Noted(log, e)) : x[1] = "result" => x[2][1] <= k + 1
  <2> SUFFICES ASSUME NEW x \in Said(log), x[1] = "result" PROVE x[2][1] <= k + 1
    BY <1>1, <1>2
  <2>1. x \in Keyed
    BY LenProperties, ElementOfSeq DEF Tells, Said
  <2>2. x[2][1] \in Nat /\ x[2][1] <= k
    BY <2>1 DEF Tells, Keyed
  <2> QED BY <2>2
<1> QED BY <1>2, <1>4, <1>5 DEF Tells, e

\* Two events at most are logged in one transaction.
LEMMA LoggedNone == ASSUME NEW events, Len(events) = 0 PROVE Agent!Logged(events) = stream
BY DEF Agent!Logged
LEMMA LoggedOne == ASSUME NEW events, Len(events) = 1 PROVE Agent!Logged(events) = Agent!Noted(stream, events[1])
BY DEF Agent!Logged
LEMMA LoggedTwo ==
  ASSUME NEW events, Len(events) = 2
  PROVE  Agent!Logged(events) = Agent!Noted(Agent!Noted(stream, events[1]), events[2])
BY DEF Agent!Logged

\* Refusing results for what is pending.
LEMMA LoggingResults ==
  ASSUME NEW c, WithinBudgets(c), Tells(stream, c.steps)
  PROVE  Tells(Agent!Logged(Agent!Results(c.pending)), c.steps)
<1> DEFINE q == c.pending
           ev == Agent!Results(q)
<1>1. q \in Seq(CallRows) /\ Len(q) \in Nat /\ Len(q) <= 2 /\ DOMAIN q = 1 .. Len(q) /\ c.steps \in Nat
  BY LenProperties DEF WithinBudgets, CpRows
<1>2. \A i \in 1 .. Len(q) : q[i].id \in Nat \X Nat /\ q[i].id[1] <= c.steps
  <2>1. ASSUME NEW i \in 1 .. Len(q) PROVE q[i].id \in Nat \X Nat /\ q[i].id[1] <= c.steps
    <3>1. q[i] \in CallRows
      BY <1>1, ElementOfSeq
    <3>2. q[i].id[1] = c.steps
      BY DEF WithinBudgets
    <3>3. q[i].id \in Nat \X Nat
      BY <3>1 DEF CallRows
    <3> QED BY <3>2, <3>3, <1>1
  <2> QED BY <2>1
<1> DEFINE Results2 == {<<"result", q[i].id>> : i \in 1 .. Len(q)}
<1>3. ev \in [1 .. Len(q) -> Results2] /\ \A i \in 1 .. Len(q) : ev[i] = <<"result", q[i].id>>
  BY <1>1 DEF Agent!Results
<1>4. ev \in Seq(Results2)
  BY <1>1, <1>3, SeqDef
<1>5. Len(ev) = Len(q)
  <2>1. DOMAIN ev = 1 .. Len(q) /\ DOMAIN ev = 1 .. Len(ev) /\ Len(ev) \in Nat
    BY <1>3, <1>4, LenProperties
  <2> QED BY <2>1, <1>1
<1> HIDE DEF q, ev, Results2
<1>6. CASE Len(q) = 0
  BY <1>5, <1>6, LoggedNone DEF ev, q
<1>7. CASE Len(q) = 1
  <2>1. ev[1] = <<"result", q[1].id>> /\ q[1].id \in Nat \X Nat /\ q[1].id[1] <= c.steps
    BY <1>2, <1>3, <1>7
  <2>2. Agent!Logged(ev) = Agent!Noted(stream, <<"result", q[1].id>>)
    BY <1>5, <1>7, <2>1, LoggedOne
  <2>3. Tells(Agent!Noted(stream, <<"result", q[1].id>>), c.steps)
    BY <1>1, <2>1, NotingResult
  <2> QED BY <2>2, <2>3 DEF ev, q
<1>8. CASE Len(q) = 2
  <2>1. /\ ev[1] = <<"result", q[1].id>> /\ q[1].id \in Nat \X Nat /\ q[1].id[1] <= c.steps
        /\ ev[2] = <<"result", q[2].id>> /\ q[2].id \in Nat \X Nat /\ q[2].id[1] <= c.steps
    BY <1>2, <1>3, <1>8
  <2>2. Agent!Logged(ev) = Agent!Noted(Agent!Noted(stream, <<"result", q[1].id>>), <<"result", q[2].id>>)
    BY <1>5, <1>8, <2>1, LoggedTwo
  <2>3. Tells(Agent!Noted(stream, <<"result", q[1].id>>), c.steps)
    BY <1>1, <2>1, NotingResult
  <2>4. Tells(Agent!Noted(Agent!Noted(stream, <<"result", q[1].id>>), <<"result", q[2].id>>), c.steps)
    BY <1>1, <2>1, <2>3, NotingResult
  <2> QED BY <2>2, <2>4 DEF ev, q
<1> QED BY <1>1, <1>6, <1>7, <1>8

-------------------------------------------------------------------------------
(* The calls.                                                                    *)

\* The next question depends on the steps and on what was wrong with the last answer.
LEMMA NextKeyIs ==
  ASSUME NEW c
  PROVE  /\ NextKey(c) = <<Agent!Purpose(c), c.steps + 1>> /\ Agent!Purpose(c) \in Agent!Loop
         /\ NextKey(c)[1] \in Agent!Loop /\ NextKey(c)[1] = Agent!Purpose(c)
BY DEF NextKey, Agent!Key, Agent!Purpose, Agent!Loop, Agent!Ending

LEMMA NextKeyStays ==
  ASSUME NEW c, NEW d, d.steps = c.steps, d.json = c.json, d.repair = c.repair
  PROVE  NextKey(d) = NextKey(c)
<1>1. Agent!Purpose(d) = Agent!Purpose(c)
  BY DEF Agent!Purpose
<1> QED BY <1>1, NextKeyIs

\* The purposes are apart.
LEMMA PurposesDiffer ==
  \A x : /\ x \in Agent!Loop => x \notin Agent!Maintenance /\ x # "REVIEW"
         /\ x \in Agent!Maintenance => x # "REVIEW"
BY DEF Agent!Loop, Agent!Ending, Agent!Maintenance

\* Nothing is spent, and no debt is forgotten.
LEMMA CountStays ==
  ASSUME NEW c, NEW d, NEW n, CallsAreCounted(c, n),
         d.calls = c.calls, d.tokens = c.tokens, d.owed = c.owed,
         c.pending # <<>> \/ NextKey(c) \notin c.owed
           \/ (d.pending = <<>> /\ NextKey(d) = NextKey(c))
  PROVE  CallsAreCounted(d, n)
<1>1. Unpaid(c, n) => Unpaid(d, n)
  BY DEF Unpaid
<1> QED BY <1>1 DEF CallsAreCounted

\* One call more is reserved.
LEMMA CountReserved ==
  ASSUME NEW c \in CpRows, NEW d, NEW n, NEW key, CallsAreCounted(c, n),
         d.calls = c.calls + 1, d.tokens = c.tokens + 1, d.owed = c.owed \cup {key},
         d.pending = c.pending, NextKey(d) = NextKey(c), d.tokens <= Tokens
  PROVE  CallsAreCounted(d, n)
<1>1. Unpaid(c, n) => Unpaid(d, n)
  BY DEF Unpaid
<1>2. c.calls \in Nat /\ c.tokens \in Nat
  BY DEF CpRows
<1>3. Len(n) \in Nat /\ Len(n) <= d.calls /\ d.calls <= d.tokens
  BY <1>2, LenProperties DEF CallsAreCounted
<1>4. OverIn(n) = {} \/ d.calls + 1 <= d.tokens \/ Unpaid(d, n)
  BY <1>1, <1>2 DEF CallsAreCounted
<1> QED BY <1>3, <1>4 DEF CallsAreCounted

\* The rows of calls.
LEMMA SnapsAre ==
  ASSUME NEW n \in Seq(SnapRows)
  PROVE  /\ Len(n) \in Nat /\ DOMAIN n = 1 .. Len(n)
         /\ \A i \in 1 .. Len(n) : n[i] \in SnapRows /\ n[i].over \in {0, 1} /\ n[i].key \in Asked
<1>1. Len(n) \in Nat /\ DOMAIN n = 1 .. Len(n)
  BY LenProperties
<1>2. ASSUME NEW i \in 1 .. Len(n) PROVE n[i] \in SnapRows
  BY ElementOfSeq
<1>3. \A r \in SnapRows : r.over \in {0, 1} /\ r.key \in Asked
  BY DEF SnapRows
<1> QED BY <1>1, <1>2, <1>3

\* What an answered call used beyond its reservation is paid once.
LEMMA CountPaid ==
  ASSUME AgentConstants, NEW c \in CpRows, NEW d, NEW n, NEW i \in 1 .. Len(n), CallsAreCounted(c, n),
         n[i].status = "SUCCEEDED",
         d.calls = c.calls, d.owed = c.owed \ {n[i].key}, d.pending = c.pending, NextKey(d) = NextKey(c),
         d.tokens = IF n[i].key \in c.owed THEN c.tokens + n[i].over ELSE c.tokens
  PROVE  CallsAreCounted(d, n)
<1>1. /\ n \in Seq(SnapRows) /\ Len(n) \in Nat /\ n[i].over \in {0, 1}
      /\ c.calls \in Nat /\ c.tokens \in Nat /\ Len(n) <= c.calls /\ c.calls <= c.tokens
  BY SnapsAre DEF CallsAreCounted, CpRows
<1>2. \A j \in OverIn(n) : n[j].key = n[i].key => j = i
  <2>1. ASSUME NEW j \in OverIn(n), n[j].key = n[i].key, j # i PROVE FALSE
    <3>1. j \in 1 .. Len(n) /\ n[j].status = "SUCCEEDED" /\ n[j].key[1] \in Agent!Loop
      BY DEF OverIn, CallsAreCounted
    <3>2. n[j].key[1] \notin Agent!Maintenance
      BY <3>1, PurposesDiffer
    <3> QED BY <2>1, <3>1, <3>2 DEF CallsAreCounted
  <2> QED BY <2>1
<1>3. CASE n[i].key \in c.owed /\ n[i].over = 1
  <2>1. i \in OverIn(n) /\ n[i].key \notin d.owed /\ d.tokens = c.tokens + 1
    BY <1>3 DEF OverIn
  <2>2. \A j \in OverIn(n) : j = i
    BY <2>1 DEF CallsAreCounted
  <2>3. c.tokens <= Tokens
    BY <2>2, <1>3 DEF CallsAreCounted
  <2>4. d.calls + 1 <= d.tokens /\ Len(n) <= d.calls /\ d.calls <= d.tokens
    BY <2>1, <1>1
  <2>5. d.tokens <= Tokens + 1 /\ \E j \in OverIn(n) : n[j].key \notin d.owed
    BY <2>1, <2>3, <1>1 DEF AgentConstants
  <2> QED BY <2>4, <2>5 DEF CallsAreCounted
<1>4. CASE n[i].key \notin c.owed \/ n[i].over = 0
  <2>1. d.tokens = c.tokens
    BY <1>4, <1>1
  <2>2. Unpaid(c, n) => Unpaid(d, n)
    <3> SUFFICES ASSUME NEW j \in OverIn(n), c.pending = <<>>, n[j].key = NextKey(c), n[j].key \in c.owed
                 PROVE  n[j].key \in d.owed
      BY DEF Unpaid
    <3>1. n[j].key # n[i].key
      BY <1>2, <1>4 DEF OverIn
    <3> QED BY <3>1
  <2>3. (\E j \in OverIn(n) : n[j].key \notin c.owed) => \E j \in OverIn(n) : n[j].key \notin d.owed
    OBVIOUS
  <2> QED BY <2>1, <2>2, <2>3 DEF CallsAreCounted
<1> QED BY <1>1, <1>3, <1>4

\* Rows in which nothing new is answered.
LEMMA CountRows ==
  ASSUME NEW c, NEW n, NEW m \in Seq(SnapRows), CallsAreCounted(c, n), Len(m) <= c.calls,
         OverIn(m) = OverIn(n), \A i \in OverIn(n) : m[i] = n[i],
         \A i \in 1 .. Len(m) : m[i].status = "SUCCEEDED" => i \in 1 .. Len(n) /\ m[i] = n[i]
  PROVE  CallsAreCounted(c, m) /\ \A k : OpenIn(n, k) => OpenIn(m, k)
<1>1. \A k : OpenIn(n, k) => OpenIn(m, k)
  BY DEF OpenIn
<1>2. Unpaid(c, n) => Unpaid(c, m)
  BY DEF Unpaid
<1>3. ASSUME NEW i \in 1 .. Len(m), NEW j \in 1 .. Len(m), i # j, m[i].key = m[j].key,
             m[i].key[1] \notin Agent!Maintenance, m[i].status = "SUCCEEDED", m[j].status = "SUCCEEDED"
      PROVE  FALSE
  BY <1>3 DEF CallsAreCounted
<1>4. \A i, j \in 1 .. Len(m) :
        /\ i # j /\ m[i].key = m[j].key /\ m[i].key[1] \notin Agent!Maintenance /\ m[i].status = "SUCCEEDED"
        => m[j].status # "SUCCEEDED"
  BY <1>3
<1> QED BY <1>1, <1>2, <1>4 DEF CallsAreCounted

\* Calls of dead executions are settled and one more is recorded.
LEMMA CountSent ==
  ASSUME NEW c \in CpRows, NEW n, NEW key \in Asked, CallsAreCounted(c, n), Len(n) < c.calls
  PROVE  LET m == Append(Agent!Unsettled(n), [key |-> key, status |-> "STARTED", over |-> 0,
                                        answer |-> [kind |-> "none"]]) IN
         /\ CallsAreCounted(c, m) /\ \A k : OpenIn(n, k) => OpenIn(m, k)
         /\ Len(n) + 1 \in 1 .. Len(m) /\ m[Len(n) + 1].key = key
<1> DEFINE row == [key |-> key, status |-> "STARTED", over |-> 0, answer |-> [kind |-> "none"]]
           u == Agent!Unsettled(n)
           m == Append(u, row)
<1>1. row \in SnapRows /\ row.key = key /\ row.status = "STARTED" /\ row.over = 0
  BY DEF SnapRows, AnswerRows
<1>2. n \in Seq(SnapRows) /\ Len(n) \in Nat /\ DOMAIN n = 1 .. Len(n) /\ c.calls \in Nat
  BY SnapsAre DEF CallsAreCounted, CpRows
<1>3. ASSUME NEW i \in 1 .. Len(n)
      PROVE  /\ u[i] \in SnapRows /\ u[i].over = n[i].over /\ u[i].status # "STARTED"
             /\ u[i].status = "SUCCEEDED" => u[i] = n[i]
             /\ n[i].status = "SUCCEEDED" => u[i] = n[i]
  <2>1. n[i] \in SnapRows
    BY <1>2, SnapsAre
  <2>2. u[i] = IF n[i].status = "STARTED" THEN [n[i] EXCEPT !.status = "UNKNOWN"] ELSE n[i]
    BY <1>2 DEF Agent!Unsettled
  <2> HIDE DEF u
  <2>3. \A r \in SnapRows : LET w == [r EXCEPT !.status = "UNKNOWN"] IN
           w \in SnapRows /\ w.over = r.over /\ w.status = "UNKNOWN"
    BY DEF SnapRows
  <2> QED BY <2>1, <2>2, <2>3
<1>4. u \in [1 .. Len(n) -> SnapRows]
  BY <1>2, <1>3 DEF Agent!Unsettled
<1>5. u \in Seq(SnapRows)
  BY <1>2, <1>4, SeqDef
<1>6. Len(u) = Len(n)
  BY <1>2, <1>4, <1>5, LenProperties
<1> HIDE DEF u, row
<1>7. /\ m \in Seq(SnapRows) /\ Len(m) = Len(n) + 1
      /\ \A i \in 1 .. Len(n) : m[i] = u[i]
      /\ m[Len(n) + 1] = row
  BY <1>1, <1>5, <1>6, AppendProperties
<1> HIDE DEF m
<1>8. Len(m) <= c.calls
  BY <1>2, <1>7
<1>9. \A i \in 1 .. Len(m) : m[i].status = "SUCCEEDED" => i \in 1 .. Len(n) /\ m[i] = n[i]
  BY <1>1, <1>2, <1>3, <1>7
<1>10. \A i \in 1 .. Len(m) : i \in OverIn(m) <=> i \in OverIn(n)
  BY <1>1, <1>2, <1>3, <1>7 DEF OverIn
<1>11. OverIn(m) = OverIn(n)
  BY <1>2, <1>7, <1>10 DEF OverIn
<1>12. \A i \in OverIn(n) : m[i] = n[i]
  BY <1>3, <1>7 DEF OverIn, CallsAreCounted
<1>13. CallsAreCounted(c, m) /\ \A k : OpenIn(n, k) => OpenIn(m, k)
  BY <1>7, <1>8, <1>9, <1>11, <1>12, CountRows
<1>14. Len(n) + 1 \in 1 .. Len(m) /\ m[Len(n) + 1].key = key
  BY <1>1, <1>2, <1>7
<1> QED BY <1>13, <1>14 DEF m, u, row

\* A question that is open did not use more than was reserved for it.
LEMMA OpenIsNotOver ==
  ASSUME NEW c, NEW n, NEW i \in 1 .. Len(n), CallsAreCounted(c, n),
         n[i].key[1] \notin Agent!Maintenance => OpenIn(n, n[i].key)
  PROVE  i \notin OverIn(n)
BY PurposesDiffer DEF CallsAreCounted, OpenIn

\* A request fails.
Failed(n, i) == [n EXCEPT ![i].status = "UNKNOWN"]
LEMMA CountFailed ==
  ASSUME NEW c, NEW n, NEW i \in 1 .. Len(n), CallsAreCounted(c, n),
         n[i].key[1] \notin Agent!Maintenance => OpenIn(n, n[i].key)
  PROVE  CallsAreCounted(c, Failed(n, i))
<1> DEFINE row == [n[i] EXCEPT !.status = "UNKNOWN"]
           m == [n EXCEPT ![i] = row]
<1>1. n \in Seq(SnapRows) /\ n[i] \in SnapRows /\ Len(n) <= c.calls
  BY SnapsAre DEF CallsAreCounted
<1>2. row \in SnapRows /\ row.status = "UNKNOWN" /\ row.over = n[i].over
  BY <1>1 DEF SnapRows
<1> HIDE DEF row
<1>3. /\ m \in Seq(SnapRows) /\ Len(m) = Len(n)
      /\ \A j \in 1 .. Len(n) : m[j] = IF j = i THEN row ELSE n[j]
  BY <1>1, <1>2, ExceptSeq
<1> HIDE DEF m
<1>4. i \notin OverIn(n)
  BY OpenIsNotOver
<1>5. OverIn(m) = OverIn(n) /\ \A j \in OverIn(n) : m[j] = n[j]
  BY <1>2, <1>3, <1>4 DEF OverIn
<1>6. \A j \in 1 .. Len(m) : m[j].status = "SUCCEEDED" => j \in 1 .. Len(n) /\ m[j] = n[j]
  BY <1>2, <1>3
<1>7. CallsAreCounted(c, m)
  BY <1>1, <1>3, <1>5, <1>6, CountRows
<1>8. Failed(n, i) = m
  BY DEF m, row, Failed
<1> QED BY <1>7, <1>8

\* A request is answered, and may have used one unit more.
Settled(n, i, answer, over) ==
  [n EXCEPT ![i] = [@ EXCEPT !.status = "SUCCEEDED", !.answer = answer, !.over = over]]
LEMMA CountAnswered ==
  ASSUME AgentConstants, NEW c \in CpRows, NEW n, NEW i \in 1 .. Len(n), CallsAreCounted(c, n),
         NEW answer \in AnswerRows, NEW over \in {0, 1},
         n[i].key[1] \notin Agent!Maintenance => OpenIn(n, n[i].key),
         over = 0 \/ (OverIn(n) = {} /\ n[i].key[1] \in Agent!Loop),
         n[i].key[1] \in Agent!Loop => c.pending = <<>> /\ n[i].key = NextKey(c) /\ n[i].key \in c.owed
  PROVE  LET m == Settled(n, i, answer, over) IN
         /\ CallsAreCounted(c, m)
         /\ i \in 1 .. Len(m) /\ m[i].key = n[i].key /\ m[i].status = "SUCCEEDED"
<1> DEFINE row == [n[i] EXCEPT !.status = "SUCCEEDED", !.answer = answer, !.over = over]
<1>1. n \in Seq(SnapRows) /\ n[i] \in SnapRows /\ Len(n) <= c.calls /\ Len(n) \in Nat
  BY SnapsAre DEF CallsAreCounted
<1>2. row \in SnapRows /\ row.status = "SUCCEEDED" /\ row.over = over /\ row.key = n[i].key
  BY <1>1 DEF SnapRows
<1> DEFINE m == [n EXCEPT ![i] = row]
<1>0. m = Settled(n, i, answer, over)
  BY DEF Settled
<1> HIDE DEF row
<1>3. /\ m \in Seq(SnapRows) /\ Len(m) = Len(n)
      /\ \A j \in 1 .. Len(n) : m[j] = IF j = i THEN row ELSE n[j]
  BY <1>1, <1>2, ExceptSeq
<1> HIDE DEF m
<1>4. i \notin OverIn(n)
  BY OpenIsNotOver
<1>5. ASSUME NEW a \in 1 .. Len(m), NEW b \in 1 .. Len(m), a # b, m[a].key = m[b].key,
             m[a].key[1] \notin Agent!Maintenance, m[a].status = "SUCCEEDED", m[b].status = "SUCCEEDED"
      PROVE  FALSE
  <2>1. m[a].key = n[a].key /\ m[b].key = n[b].key
    BY <1>2, <1>3
  <2>2. CASE a # i /\ b # i
    <3>1. m[a] = n[a] /\ m[b] = n[b] /\ a \in 1 .. Len(n) /\ b \in 1 .. Len(n)
      BY <1>3, <2>2
    <3> QED BY <1>5, <3>1 DEF CallsAreCounted
  <2>3. CASE a = i
    BY <1>3, <1>5, <2>1, <2>3 DEF OpenIn
  <2>4. CASE b = i
    BY <1>3, <1>5, <2>1, <2>4 DEF OpenIn
  <2> QED BY <2>2, <2>3, <2>4
<1>6. ASSUME over = 0 PROVE CallsAreCounted(c, m)
  <2>1. OverIn(m) = OverIn(n) /\ \A j \in OverIn(n) : m[j] = n[j]
    BY <1>2, <1>3, <1>4, <1>6 DEF OverIn
  <2>2. Unpaid(c, n) => Unpaid(c, m)
    BY <2>1 DEF Unpaid
  <2> QED BY <1>1, <1>3, <1>5, <2>1, <2>2 DEF CallsAreCounted
<1>7. ASSUME over = 1 PROVE CallsAreCounted(c, m)
  <2>1. OverIn(n) = {} /\ n[i].key[1] \in Agent!Loop
    BY <1>7
  <2>2. \A j \in 1 .. Len(n) : m[j].over = 1 <=> j = i
    BY <1>2, <1>3, <1>7, <2>1 DEF OverIn
  <2>3. OverIn(m) = {i}
    BY <1>3, <2>2 DEF OverIn
  <2>4. m[i] = row
    BY <1>3
  <2>5. Unpaid(c, m)
    BY <1>2, <2>1, <2>3, <2>4 DEF Unpaid
  <2>6. c.tokens <= Tokens
    BY <2>1 DEF CallsAreCounted
  <2>7. c.calls <= c.tokens
    BY DEF CallsAreCounted
  <2> QED BY <1>1, <1>2, <1>3, <1>5, <2>1, <2>3, <2>4, <2>5, <2>6, <2>7 DEF CallsAreCounted
<1>8. i \in 1 .. Len(m) /\ m[i].key = n[i].key /\ m[i].status = "SUCCEEDED"
  BY <1>2, <1>3
<1> QED BY <1>0, <1>6, <1>7, <1>8

-------------------------------------------------------------------------------
(* The checkpoint.                                                               *)

\* What the calls, the stream and the next question depend on.
Kept(c, d) ==
  /\ d.steps = c.steps /\ d.calls = c.calls /\ d.tokens = c.tokens /\ d.owed = c.owed
  /\ d.pending = c.pending /\ d.json = c.json /\ d.repair = c.repair

\* It stays what may be saved when the rest changes.
LEMMA KeptFits ==
  ASSUME NEW c, NEW d, NEW n, NEW log, Fits(c, n, log), WithinBudgets(d), Kept(c, d)
  PROVE  Fits(d, n, log) /\ NextKey(d) = NextKey(c)
<1>1. NextKey(d) = NextKey(c)
  BY NextKeyStays DEF Kept
<1>2. CallsAreCounted(d, n)
  <2>1. c.pending # <<>> \/ NextKey(c) \notin c.owed \/ (d.pending = <<>> /\ NextKey(d) = NextKey(c))
    BY <1>1 DEF Kept
  <2> QED BY <2>1, CountStays DEF Kept, Fits
<1>3. Tells(log, d.steps) /\ Unsaid(d, log)
  BY DEF Kept, Fits, Unsaid
<1> QED BY <1>1, <1>2, <1>3 DEF Fits

\* A copy may be saved as well as the checkpoint.
LEMMA CopyFits ==
  ASSUME NEW c \in CpRows, NEW s, NEW n, NEW log, Fits(s, n, log), Copies(c, s)
  PROVE  Fits(c, n, log) /\ NextKey(c) = NextKey(s) /\ Kept(s, c)
<1>1. WithinBudgets(c)
  BY DEF Fits, WithinBudgets, Copies
<1>2. Kept(s, c)
  BY DEF Kept, Copies
<1> QED BY <1>1, <1>2, KeptFits

\* The columns of a checkpoint.
LEMMA CpFields ==
  ASSUME NEW c \in CpRows
  PROVE  /\ c.steps \in Nat /\ c.calls \in Nat /\ c.tools \in Nat /\ c.tokens \in Nat /\ c.upkeep \in Nat
         /\ c.reserved \subseteq Nat \X Nat /\ c.owed \subseteq Asked /\ c.pending \in Seq(CallRows)
         /\ c.batch \in BOOLEAN /\ c.repair \in BOOLEAN /\ c.json \in BOOLEAN /\ c.recalled \in BOOLEAN
         /\ c.covered \in {0, 1, 2} /\ c.reviews \in [Text -> {"none", "yes", "no"}]
BY DEF CpRows

\* Memory is recalled, or covers more.
LEMMA RecalledFits ==
  ASSUME NEW c, WithinBudgets(c)
  PROVE  LET d == [c EXCEPT !.recalled = TRUE] IN WithinBudgets(d) /\ Kept(c, d) /\ Copies(d, c)
<1> DEFINE d == [c EXCEPT !.recalled = TRUE]
<1>1. d \in CpRows /\ Copies(d, c)
  BY DEF WithinBudgets, CpRows, Copies
<1> HIDE DEF d
<1>2. WithinBudgets(d) /\ Kept(c, d)
  BY <1>1 DEF WithinBudgets, Kept, Copies
<1> QED BY <1>1, <1>2 DEF d

Covering(c, v) == [c EXCEPT !.covered = v]
LEMMA CoveredFits ==
  ASSUME NEW c, WithinBudgets(c), NEW v \in {0, 1, 2}
  PROVE  LET d == Covering(c, v) IN WithinBudgets(d) /\ Kept(c, d) /\ d.covered = v
<1> DEFINE d == [c EXCEPT !.covered = v]
<1>1. /\ d \in CpRows /\ Kept(c, d) /\ d.covered = v
      /\ d.tools = c.tools /\ d.upkeep = c.upkeep /\ d.reserved = c.reserved
  BY DEF WithinBudgets, CpRows, Kept
<1> HIDE DEF d
<1>2. WithinBudgets(d)
  BY <1>1 DEF WithinBudgets, Kept
<1> QED BY <1>1, <1>2 DEF d, Covering

\* A verdict is stored.
Verdict(c, x, v) == [c EXCEPT !.reviews[x] = v]
LEMMA VerdictFits ==
  ASSUME NEW c, WithinBudgets(c), NEW x, NEW v \in {"yes", "no"}
  PROVE  LET d == Verdict(c, x, v) IN WithinBudgets(d) /\ Kept(c, d)
<1> DEFINE w == [c.reviews EXCEPT ![x] = v]
           d == [c EXCEPT !.reviews = w]
<1>1. w \in [Text -> {"none", "yes", "no"}]
  BY CpFields DEF WithinBudgets
<1> HIDE DEF w
<1>2. /\ d \in CpRows /\ Kept(c, d)
      /\ d.tools = c.tools /\ d.upkeep = c.upkeep /\ d.reserved = c.reserved
  BY <1>1 DEF WithinBudgets, CpRows, Kept
<1> HIDE DEF d
<1>3. WithinBudgets(d)
  BY <1>2 DEF WithinBudgets, Kept
<1> QED BY <1>2, <1>3 DEF d, w, Verdict

\* A tool call is reserved once.
ToolReserved(c, id) == [c EXCEPT !.tools = @ + 1, !.reserved = @ \cup {id}]
LEMMA ToolFits ==
  ASSUME NEW c, WithinBudgets(c), NEW id \in Nat \X Nat, id \notin c.reserved, AgentConstants,
         c.tools < Tools
  PROVE  LET d == ToolReserved(c, id) IN WithinBudgets(d) /\ Kept(c, d)
<1> DEFINE k == c.tools + 1
           e == c.reserved \cup {id}
           d == [c EXCEPT !.tools = k, !.reserved = e]
<1>1. c \in CpRows /\ c.tools \in Nat /\ c.reserved \subseteq Nat \X Nat
  BY CpFields DEF WithinBudgets
<1>2. k \in Nat /\ k <= Tools
  BY <1>1 DEF AgentConstants
<1>3. e \subseteq Nat \X Nat
  BY <1>1
<1>4. IsFiniteSet(e) /\ Cardinality(e) = k
  BY FS_AddElement DEF WithinBudgets
<1> HIDE DEF e, k
<1>5. d \in CpRows /\ Kept(c, d) /\ d.tools = k /\ d.upkeep = c.upkeep /\ d.reserved = e
  BY <1>1, <1>2, <1>3 DEF CpRows, Kept
<1> HIDE DEF d
<1>6. WithinBudgets(d)
  BY <1>2, <1>4, <1>5 DEF WithinBudgets, Kept
<1> QED BY <1>5, <1>6 DEF d, e, k, ToolReserved

\* A model call is reserved.
LEMMA ReservedFits ==
  ASSUME AgentConstants, NEW c, WithinBudgets(c), NEW key \in Asked, c.calls < Calls,
         key[1] \in Agent!Maintenance => c.upkeep < Upkeep
  PROVE  LET d == Agent!Reserved(c, key) IN
         /\ WithinBudgets(d) /\ d.calls = c.calls + 1 /\ d.tokens = c.tokens + 1
         /\ d.owed = c.owed \cup {key} /\ d.pending = c.pending /\ d.steps = c.steps
         /\ d.json = c.json /\ d.repair = c.repair
<1> DEFINE u == IF key[1] \in Agent!Maintenance THEN c.upkeep + 1 ELSE c.upkeep
           d == [c EXCEPT !.calls = @ + 1, !.tokens = @ + 1, !.owed = @ \cup {key}, !.upkeep = u]
<1>1. /\ c \in CpRows /\ c.calls \in Nat /\ c.tokens \in Nat /\ c.upkeep \in Nat /\ c.owed \subseteq Asked
      /\ c.upkeep <= Upkeep
  BY CpFields DEF WithinBudgets
<1>2. u \in Nat /\ u <= Upkeep
  BY <1>1 DEF AgentConstants
<1>3. d = Agent!Reserved(c, key)
  <2>1. CASE key[1] \in Agent!Maintenance
    BY <2>1 DEF Agent!Reserved
  <2>2. CASE key[1] \notin Agent!Maintenance
    BY <2>2 DEF Agent!Reserved
  <2> QED BY <2>1, <2>2
<1> HIDE DEF u
<1>4. /\ d \in CpRows /\ d.calls = c.calls + 1 /\ d.tokens = c.tokens + 1
      /\ d.owed = c.owed \cup {key} /\ d.pending = c.pending /\ d.steps = c.steps
      /\ d.json = c.json /\ d.repair = c.repair /\ d.upkeep = u
      /\ d.tools = c.tools /\ d.reserved = c.reserved
  <2>1. PICK a \in Nat : a = c.calls + 1
    BY <1>1
  <2>2. PICK b \in Nat : b = c.tokens + 1
    BY <1>1
  <2>3. PICK e \in SUBSET Asked : e = c.owed \cup {key}
    BY <1>1
  <2>4. d = [c EXCEPT !.calls = a, !.tokens = b, !.owed = e, !.upkeep = u]
    BY <2>1, <2>2, <2>3
  <2> HIDE DEF d
  <2>5. /\ d \in CpRows /\ d.calls = a /\ d.tokens = b /\ d.owed = e /\ d.upkeep = u
        /\ d.pending = c.pending /\ d.steps = c.steps /\ d.json = c.json /\ d.repair = c.repair
        /\ d.tools = c.tools /\ d.reserved = c.reserved
    BY <1>1, <1>2, <2>4 DEF CpRows
  <2> QED BY <2>1, <2>2, <2>3, <2>5
<1> HIDE DEF d
<1>5. d.calls <= Calls
  BY <1>1, <1>4 DEF AgentConstants
<1>6. WithinBudgets(d)
  BY <1>2, <1>4, <1>5 DEF WithinBudgets
<1> QED BY <1>3, <1>4, <1>6

\* What a call used is added.
Paid(c, x, key) == [c EXCEPT !.tokens = x, !.owed = @ \ {key}]
LEMMA PaidFits ==
  ASSUME NEW c, WithinBudgets(c), NEW x \in Nat, NEW key
  PROVE  LET d == Paid(c, x, key) IN
         /\ WithinBudgets(d) /\ d.calls = c.calls /\ d.tokens = x /\ d.owed = c.owed \ {key}
         /\ d.pending = c.pending /\ d.steps = c.steps /\ d.json = c.json /\ d.repair = c.repair
<1> DEFINE d == [c EXCEPT !.tokens = x, !.owed = @ \ {key}]
<1>1. c \in CpRows /\ c.owed \subseteq Asked
  BY CpFields DEF WithinBudgets
<1>2. /\ d \in CpRows /\ d.calls = c.calls /\ d.tokens = x
      /\ d.owed = c.owed \ {key} /\ d.pending = c.pending /\ d.steps = c.steps
      /\ d.json = c.json /\ d.repair = c.repair /\ d.upkeep = c.upkeep
      /\ d.tools = c.tools /\ d.reserved = c.reserved
  BY <1>1 DEF CpRows
<1> HIDE DEF d
<1>3. WithinBudgets(d)
  BY <1>2 DEF WithinBudgets
<1> QED BY <1>2, <1>3 DEF d, Paid

\* Pending calls of the last step.
LEMMA PendingFits ==
  ASSUME NEW c, WithinBudgets(c), NEW d \in CpRows,
         d.steps = c.steps, d.calls = c.calls, d.tools = c.tools, d.upkeep = c.upkeep,
         d.reserved = c.reserved, d.pending = <<>> \/ (c.pending # <<>> /\ d.pending = Tail(c.pending))
  PROVE  WithinBudgets(d)
<1>1. CASE d.pending = <<>>
  BY <1>1 DEF WithinBudgets
<1>2. CASE c.pending # <<>> /\ d.pending = Tail(c.pending)
  <2>1. c.pending \in Seq(CallRows) /\ Len(c.pending) \in Nat
    BY CpFields, LenProperties DEF WithinBudgets
  <2>2. /\ d.pending \in Seq(CallRows) /\ Len(d.pending) = Len(c.pending) - 1 /\ Len(d.pending) \in Nat
        /\ \A i \in 1 .. Len(d.pending) : d.pending[i] = c.pending[i + 1]
    BY <1>2, <2>1, HeadTailProperties, LenProperties
  <2>3. \A i \in 1 .. Len(d.pending) : i + 1 \in 1 .. Len(c.pending)
    BY <2>1, <2>2
  <2>4. Len(d.pending) <= 2
    BY <2>1, <2>2 DEF WithinBudgets
  <2>5. \A i \in 1 .. Len(d.pending) : d.pending[i].id[1] = d.steps
    BY <2>2, <2>3 DEF WithinBudgets
  <2>6. \A i, j \in 1 .. Len(d.pending) : i # j => d.pending[i].id # d.pending[j].id
    <3> SUFFICES ASSUME NEW i \in 1 .. Len(d.pending), NEW j \in 1 .. Len(d.pending), i # j
                 PROVE  d.pending[i].id # d.pending[j].id
      OBVIOUS
    <3>1. i + 1 # j + 1 /\ i + 1 \in 1 .. Len(c.pending) /\ j + 1 \in 1 .. Len(c.pending)
      BY <2>2, <2>3
    <3>2. c.pending[i + 1].id # c.pending[j + 1].id
      BY <3>1 DEF WithinBudgets
    <3> QED BY <3>2, <2>2
  <2> QED BY <2>4, <2>5, <2>6 DEF WithinBudgets
<1> QED BY <1>1, <1>2

\* The calls an answer asks for.
LEMMA CallsOfAnswer ==
  ASSUME NEW k \in Nat, NEW answer \in AnswerRows
  PROVE  LET q == Agent!CallsOf(k, answer) IN
         /\ q \in Seq(CallRows) /\ Len(q) \in Nat /\ Len(q) <= 2
         /\ \A i \in 1 .. Len(q) : q[i].id[1] = k
         /\ \A i, j \in 1 .. Len(q) : i # j => q[i].id # q[j].id
<1> DEFINE Row(i, kind) == [id |-> <<k, i>>, kind |-> kind, text |-> ""]
<1>1. \A i \in Nat : \A kind \in {"read", "act"} : Row(i, kind) \in CallRows /\ Row(i, kind).id = <<k, i>>
  BY DEF CallRows
<1> HIDE DEF Row
<1>2. CASE answer.kind = "read"
  <2>1. Agent!CallsOf(k, answer) = <<Row(1, "read")>>
    BY <1>2 DEF Agent!CallsOf, Row
  <2> QED BY <1>1, <2>1
<1>3. CASE answer.kind = "act"
  <2>1. Agent!CallsOf(k, answer) = <<Row(1, "read"), Row(2, "act")>>
    BY <1>3 DEF Agent!CallsOf, Row
  <2> QED BY <1>1, <2>1
<1>4. CASE answer.kind = "mixed"
  <2>1. Agent!CallsOf(k, answer) = <<Row(1, "act"), Row(2, "read")>>
    BY <1>4 DEF Agent!CallsOf, Row
  <2> QED BY <1>1, <2>1
<1>5. CASE answer.kind = "finish"
  <2> DEFINE u == [id |-> <<k, 1>>, kind |-> "finish", text |-> ""]
             w == [u EXCEPT !.text = answer.text]
  <2>1. Agent!CallsOf(k, answer) = <<w>>
    BY <1>5 DEF Agent!CallsOf
  <2>2. answer.text \in Text
    BY <1>5 DEF AnswerRows, Agent!Proposals
  <2>3. u \in [id : Nat \X Nat, kind : {"finish"}, text : {""}] /\ u.id = <<k, 1>>
    OBVIOUS
  <2> HIDE DEF u
  <2>4. w \in [id : Nat \X Nat, kind : {"finish"}, text : Text] /\ w.id = <<k, 1>>
    BY <2>2, <2>3
  <2> HIDE DEF w
  <2>5. w \in CallRows
    BY <2>4 DEF CallRows
  <2> QED BY <2>1, <2>4, <2>5
<1>6. CASE answer.kind \notin {"read", "act", "mixed", "finish"}
  <2>1. Agent!CallsOf(k, answer) = <<>>
    BY <1>6 DEF Agent!CallsOf
  <2> QED BY <2>1
<1> QED BY <1>2, <1>3, <1>4, <1>5, <1>6

\* A step is saved with its calls.
Stepped(c, answer, b, r, j) ==
  [c EXCEPT !.steps = c.steps + 1, !.pending = Agent!CallsOf(c.steps + 1, answer), !.batch = b,
            !.repair = r, !.json = j]
LEMMA SteppedFits ==
  ASSUME AgentConstants, NEW c, Fits(c, snaps, stream), NEW answer \in AnswerRows,
         NEW b \in BOOLEAN, NEW r \in BOOLEAN, NEW j \in BOOLEAN,
         c.steps < Steps, NextKey(c) \notin c.owed
  PROVE  LET d == Stepped(c, answer, b, r, j) IN Fits(d, snaps, Agent!Logged(<<<<"step", c.steps + 1>>>>))
<1> DEFINE k == c.steps + 1
           q == Agent!CallsOf(k, answer)
           d == [c EXCEPT !.steps = k, !.pending = q, !.batch = b, !.repair = r, !.json = j]
           log == Agent!Logged(<<<<"step", k>>>>)
<1>1. /\ c \in CpRows /\ c.steps \in Nat /\ k \in Nat /\ k <= Steps
      /\ WithinBudgets(c) /\ Tells(stream, c.steps)
  BY CpFields DEF Fits, WithinBudgets, AgentConstants
<1>2. /\ q \in Seq(CallRows) /\ Len(q) \in Nat /\ Len(q) <= 2
      /\ \A i \in 1 .. Len(q) : q[i].id[1] = k
      /\ \A i, l \in 1 .. Len(q) : i # l => q[i].id # q[l].id
  BY <1>1, CallsOfAnswer
<1>3. log = Agent!Noted(stream, <<"step", k>>)
  BY LoggedOne
<1>4. Tells(log, k) /\ Said(log) = Said(stream) \cup {<<"step", k>>}
  BY <1>1, <1>3, NotingStep
<1>5. k = c.steps + 1
  OBVIOUS
<1> HIDE DEF k, q, log
<1>6. /\ d \in CpRows /\ d.steps = k /\ d.pending = q /\ d.calls = c.calls /\ d.tokens = c.tokens
      /\ d.owed = c.owed /\ d.tools = c.tools /\ d.upkeep = c.upkeep /\ d.reserved = c.reserved
  BY <1>1, <1>2 DEF CpRows
<1> HIDE DEF d
<1>7. WithinBudgets(d)
  BY <1>1, <1>2, <1>6 DEF WithinBudgets
<1>8. CallsAreCounted(d, snaps)
  BY <1>6, CountStays DEF Fits
<1>9. Unsaid(d, log)
  <2> SUFFICES ASSUME NEW i \in 1 .. Len(q) PROVE <<"result", q[i].id>> \notin Said(log)
    BY <1>6 DEF Unsaid
  <2> DEFINE e == <<"result", q[i].id>>
  <2>1. e[1] = "result" /\ e[2][1] = k /\ e # <<"step", k>>
    BY <1>2
  <2>2. e \in Said(stream) => e[2][1] <= c.steps
    BY <1>1, <2>1 DEF Tells
  <2>3. e \notin Said(stream)
    BY <1>1, <1>5, <2>1, <2>2
  <2> QED BY <1>4, <2>1, <2>3
<1>10. Fits(d, snaps, log)
  BY <1>4, <1>6, <1>7, <1>8, <1>9 DEF Fits
<1> QED BY <1>10 DEF d, q, k, log, Stepped

\* Nothing is pending at the end.
LEMMA ClearedFits ==
  ASSUME NEW c, NEW n, NEW log, WithinBudgets(c), CallsAreCounted(c, n), Tells(log, c.steps)
  PROVE  Fits([c EXCEPT !.pending = <<>>], n, log)
<1> DEFINE d == [c EXCEPT !.pending = <<>>]
<1>1. <<>> \in Seq(CallRows)
  BY EmptySeq
<1>2. /\ d \in CpRows /\ d.steps = c.steps /\ d.pending = <<>> /\ d.calls = c.calls
      /\ d.tokens = c.tokens /\ d.owed = c.owed /\ d.tools = c.tools /\ d.upkeep = c.upkeep
      /\ d.reserved = c.reserved /\ d.json = c.json /\ d.repair = c.repair
  BY <1>1 DEF WithinBudgets, CpRows
<1> HIDE DEF d
<1>3. WithinBudgets(d)
  BY <1>2, PendingFits
<1>4. NextKey(d) = NextKey(c)
  BY <1>2, NextKeyStays
<1>5. CallsAreCounted(d, n)
  BY <1>2, <1>4, CountStays
<1>6. Unsaid(d, log)
  BY <1>2 DEF Unsaid
<1> QED BY <1>2, <1>3, <1>5, <1>6 DEF Fits, d

\* The first call is done; its result is the one that is logged.
Done(c, b) == [c EXCEPT !.pending = Tail(@), !.repair = b]
LEMMA ExecutedFits ==
  ASSUME NEW c, Fits(c, snaps, stream), c.pending # <<>>, NEW b \in BOOLEAN,
         NEW events, events = <<<<"result", Head(c.pending).id>>>>
  PROVE  LET d == Done(c, b) IN
         /\ Fits(d, snaps, Agent!Logged(events))
         /\ Head(c.pending) \in CallRows /\ Head(c.pending).id \in Nat \X Nat
<1> DEFINE q == Tail(c.pending)
           d == [c EXCEPT !.pending = q, !.repair = b]
           id == Head(c.pending).id
           log == Agent!Logged(events)
<1>1. /\ c \in CpRows /\ c.steps \in Nat /\ c.pending \in Seq(CallRows) /\ Len(c.pending) \in Nat
      /\ WithinBudgets(c) /\ Tells(stream, c.steps)
  BY CpFields, LenProperties DEF Fits, WithinBudgets
<1>2. /\ Head(c.pending) \in CallRows /\ q \in Seq(CallRows) /\ Len(q) = Len(c.pending) - 1
      /\ \A i \in 1 .. Len(q) : q[i] = c.pending[i + 1]
  BY <1>1, HeadTailProperties
<1>3. Len(q) \in Nat
  BY <1>2, LenProperties
<1>4. Head(c.pending) = c.pending[1] /\ 1 \in 1 .. Len(c.pending)
  BY <1>1, <1>2, <1>3
<1>5. id \in Nat \X Nat /\ id = c.pending[1].id /\ id[1] <= c.steps
  <2>1. id \in Nat \X Nat
    BY <1>2 DEF CallRows
  <2>2. c.pending[1].id[1] = c.steps
    BY <1>1, <1>4 DEF WithinBudgets
  <2> QED BY <1>1, <1>4, <2>1, <2>2
<1>6. log = Agent!Noted(stream, <<"result", id>>)
  BY LoggedOne
<1>7. Tells(log, c.steps) /\ Said(log) = Said(stream) \cup {<<"result", id>>}
  BY <1>1, <1>5, <1>6, NotingResult
<1> HIDE DEF q, log, id
<1>8. /\ d \in CpRows /\ d.steps = c.steps /\ d.pending = q /\ d.calls = c.calls
      /\ d.tokens = c.tokens /\ d.owed = c.owed /\ d.tools = c.tools /\ d.upkeep = c.upkeep
      /\ d.reserved = c.reserved
  BY <1>1, <1>2 DEF CpRows
<1> HIDE DEF d
<1>9. WithinBudgets(d)
  BY <1>1, <1>8, PendingFits DEF q
<1>10. CallsAreCounted(d, snaps)
  BY <1>8, CountStays DEF Fits
<1>11. Unsaid(d, log)
  <2> SUFFICES ASSUME NEW i \in 1 .. Len(q) PROVE <<"result", q[i].id>> \notin Said(log)
    BY <1>8 DEF Unsaid
  <2>1. i + 1 \in 1 .. Len(c.pending) /\ i + 1 # 1 /\ q[i] = c.pending[i + 1]
    BY <1>1, <1>2, <1>3
  <2>2. q[i].id # id
    BY <1>1, <1>4, <1>5, <2>1 DEF WithinBudgets
  <2>3. <<"result", q[i].id>> \notin Said(stream)
    BY <2>1 DEF Fits, Unsaid
  <2> QED BY <1>7, <2>2, <2>3
<1>12. Fits(d, snaps, log)
  BY <1>7, <1>8, <1>9, <1>10, <1>11 DEF Fits
<1> QED BY <1>2, <1>5, <1>12 DEF d, q, log, id, Done

-------------------------------------------------------------------------------
(* The executions.                                                               *)

\* What a step may do to the messages and acts of the session.
Honest == Agent!ActsOnFreshFacts /\ Agent!CoversMore

\* A step that leaves them alone.
LEMMA HonestRest == ASSUME AInv, UNCHANGED out PROVE Honest
<1>1. out.covered \in Nat /\ out.acts \in Nat
  BY DEF AInv, TurnFits, OutRows
<1> QED BY <1>1 DEF Honest, Agent!ActsOnFreshFacts, Agent!CoversMore

\* One that is over.
LEMMA OffIsRow == Agent!Off \in RunRows /\ Agent!Off.at = "off" /\ Agent!Off.token = 0
<1>1. <<>> \in Seq(CallRows)
  BY EmptySeq
<1>2. Agent!NoCheckpoint \in CpRows
  BY <1>1 DEF Agent!NoCheckpoint, CpRows
<1>3. <<"none", 0>> \in Asked
  BY DEF Asked, Purposes
<1>4. [kind |-> "none"] \in AnswerRows
  BY DEF AnswerRows
<1> HIDE DEF Agent!NoCheckpoint
<1> QED BY <1>2, <1>3, <1>4 DEF Agent!Off, RunRows

\* The lease has one holder.
LEMMA OneHolds ==
  ASSUME AInv, NEW p \in Exec, NEW q \in Exec, run[p].at # "off", Agent!Holds(p), Agent!Holds(q), p # q
  PROVE  FALSE
BY DEF AInv, LeasesDiffer, Agent!Holds

\* What the holder works on could be saved.
LEMMA HolderKnows ==
  ASSUME AInv, NEW p \in Exec, run[p].at # "off", Agent!Holds(p)
  PROVE  /\ run[p] \in RunRows /\ run[p].cp \in CpRows /\ Copies(run[p].cp, agent_saved) /\ Sound(run[p], snaps)
         /\ Fits(run[p].cp, snaps, stream)
<1>1. run[p] \in RunRows /\ Copies(run[p].cp, agent_saved) /\ Sound(run[p], snaps)
  BY DEF AInv, Standing
<1>2. run[p].cp \in CpRows
  BY <1>1 DEF RunRows
<1> QED BY <1>1, <1>2, CopyFits DEF AInv

\* The holder takes a step.
LEMMA Works ==
  ASSUME AInv, NEW p \in Exec, run[p].at # "off", Agent!Holds(p), NEW r \in RunRows,
         r.token = run[p].token, r.at # "off", run' = [run EXCEPT ![p] = r],
         UNCHANGED <<task, out, agent_world, broken>>, Fits(agent_saved', snaps', stream'),
         Copies(r.cp, agent_saved'), Sound(r, snaps')
  PROVE  AInv' /\ Honest
<1>1. run' \in [Exec -> RunRows] /\ run'[p] = r /\ \A q \in Exec : q # p => run'[q] = run[q]
  BY DEF AInv
<1>2. LeasesDiffer'
  BY <1>1 DEF AInv, LeasesDiffer
<1>3. ASSUME NEW q \in Exec PROVE Standing(q)'
  <2>1. CASE q = p
    BY <1>1, <2>1 DEF Standing
  <2>2. CASE q # p
    <3>1. run'[q] = run[q] /\ task' = task
      BY <1>1, <2>2
    <3>2. ~Agent!Holds(q)
      BY <2>2, OneHolds
    <3>3. ~Agent!Holds(q)'
      BY <3>1, <3>2 DEF Agent!Holds
    <3> QED BY <3>3 DEF Standing
  <2> QED BY <2>1, <2>2
<1> QED BY <1>1, <1>2, <1>3, HonestRest DEF AInv

\* An execution is over, and others do not notice.
LEMMA GoesOff ==
  ASSUME AInv, NEW p \in Exec, run' = [run EXCEPT ![p] = Agent!Off],
         UNCHANGED <<task, agent_saved, snaps, stream, out, agent_world>>, broken' \in Nat
  PROVE  AInv' /\ Honest
<1>1. run' \in [Exec -> RunRows] /\ run'[p] = Agent!Off /\ \A q \in Exec : q # p => run'[q] = run[q]
  BY OffIsRow DEF AInv
<1>2. LeasesDiffer'
  BY <1>1, OffIsRow DEF AInv, LeasesDiffer, TurnFits, TaskRows
<1>3. ASSUME NEW q \in Exec PROVE Standing(q)'
  <2>1. CASE q = p
    BY <1>1, <2>1, OffIsRow DEF Standing
  <2>2. CASE q # p
    BY <1>1, <2>2 DEF Standing, Agent!Holds, AInv
  <2> QED BY <2>1, <2>2
<1> QED BY <1>1, <1>2, <1>3, HonestRest DEF AInv

\* The task is no longer running, and nobody holds its lease.
LEMMA EndsTurn ==
  ASSUME AInv, NEW p \in Exec, run' = [run EXCEPT ![p] = Agent!Off], TurnFits(task', out'),
         task'.attempts = task.attempts, task'.status # "RUNNING", Fits(agent_saved', snaps', stream'),
         UNCHANGED <<agent_world, broken>>
  PROVE  AInv'
<1>1. run' \in [Exec -> RunRows] /\ run'[p] = Agent!Off /\ \A q \in Exec : q # p => run'[q] = run[q]
  BY OffIsRow DEF AInv
<1>2. LeasesDiffer'
  BY <1>1, OffIsRow DEF AInv, LeasesDiffer, TurnFits, TaskRows
<1>3. ASSUME NEW q \in Exec PROVE Standing(q)'
  BY DEF Standing, Agent!Holds
<1> QED BY <1>1, <1>2, <1>3 DEF AInv

\* The end of the turn: one reply, one task.
LEMMA Finishes ==
  ASSUME AInv, NEW p \in Exec, Agent!Holds(p), NEW c, NEW stale \in BOOLEAN, NEW formal \in {0, 1}, NEW events,
         Agent!Finish(p, c, stale, formal, events), WithinBudgets(c), CallsAreCounted(c, snaps),
         Tells(Agent!Logged(events), c.steps)
  PROVE  AInv' /\ out'.covered >= out.covered /\ (out'.acts > out.acts => formal = 1)
<1> DEFINE d == [c EXCEPT !.pending = <<>>]
           log == Agent!Logged(events)
<1>1. Fits(d, snaps, log)
  BY ClearedFits
<1>2. /\ task' = [task EXCEPT !.status = IF stale THEN "STALE" ELSE "SUCCEEDED"]
      /\ out' = [replies |-> out.replies + 1, acts |-> out.acts + formal,
                 version |-> IF ~stale /\ out.version = 0 THEN 1 ELSE out.version,
                 covered |-> IF ~stale /\ out.version = 0 THEN c.covered ELSE out.covered]
      /\ agent_saved' = d /\ stream' = log /\ run' = [run EXCEPT ![p] = Agent!Off]
      /\ snaps' = snaps /\ agent_world' = agent_world /\ broken' = broken
  BY DEF Agent!Finish
<1> HIDE DEF d, log
<1>3. Fits(agent_saved', snaps', stream')
  BY <1>1, <1>2
<1>4. /\ task \in TaskRows /\ out \in OutRows /\ c.covered \in {0, 1, 2}
      /\ task.status = "RUNNING" /\ out.replies = 0 /\ out.acts = 0 /\ (out.version = 0 => out.covered = 0)
  BY CpFields DEF AInv, TurnFits, Agent!Holds, OutRows, WithinBudgets
<1>5. /\ task' \in TaskRows /\ task'.status \in {"SUCCEEDED", "STALE"} /\ task'.attempts = task.attempts
      /\ task'.limit = task.limit
  BY <1>2, <1>4 DEF TaskRows
<1>6. /\ out'.replies = 1 /\ out'.acts = formal /\ out' \in OutRows
      /\ out'.version = 0 => out'.covered = 0
      /\ out'.covered >= out.covered
  BY <1>2, <1>4 DEF OutRows
<1>7. TurnFits(task', out')
  BY <1>5, <1>6 DEF AInv, TurnFits
<1>8. AInv'
  BY <1>2, <1>3, <1>5, <1>7, EndsTurn
<1> QED BY <1>4, <1>6, <1>8

\* It ends with a refusing result for what is pending.
LEMMA Stops ==
  ASSUME AInv, NEW p \in Exec, Agent!Holds(p), NEW c, NEW stale \in BOOLEAN, Agent!Stop(p, c, stale),
         Fits(c, snaps, stream)
  PROVE  AInv' /\ Honest
<1>1. WithinBudgets(c) /\ CallsAreCounted(c, snaps) /\ Tells(stream, c.steps)
  BY DEF Fits
<1>2. Tells(Agent!Logged(Agent!Results(c.pending)), c.steps)
  BY <1>1, LoggingResults
<1>3. Agent!Finish(p, c, stale, 0, Agent!Results(c.pending))
  BY DEF Agent!Stop
<1>4. AInv' /\ out'.covered >= out.covered /\ ~(out'.acts > out.acts)
  BY <1>1, <1>2, <1>3, Finishes
<1> QED BY <1>4 DEF Honest, Agent!ActsOnFreshFacts, Agent!CoversMore

-------------------------------------------------------------------------------
(* Every step.                                                                   *)

\* An execution goes on with a checkpoint.
LEMMA GoesRow ==
  ASSUME run \in [Exec -> RunRows], NEW p \in Exec, NEW c \in CpRows,
         NEW at \in {"loop", "step", "tool", "got"}, Agent!Goes(p, at, c)
  PROVE  \E r \in RunRows :
           /\ run' = [run EXCEPT ![p] = r] /\ r.at = at /\ r.cp = c
           /\ r.token = run[p].token /\ r.key = run[p].key /\ r.answer = run[p].answer
<1> DEFINE r == [run[p] EXCEPT !.at = at, !.cp = c]
<1>1. run[p] \in RunRows
  OBVIOUS
<1>2. /\ r \in RunRows /\ r.at = at /\ r.cp = c
      /\ r.token = run[p].token /\ r.key = run[p].key /\ r.answer = run[p].answer
  BY <1>1 DEF RunRows
<1>3. run' = [run EXCEPT ![p] = r]
  BY DEF Agent!Goes
<1> HIDE DEF r
<1> QED BY <1>2, <1>3

\* The holder goes on with a checkpoint.
LEMMA WorksOn ==
  ASSUME AInv, NEW p \in Exec, run[p].at # "off", Agent!Holds(p), NEW c \in CpRows,
         NEW at \in {"loop", "step", "tool", "got"}, Agent!Goes(p, at, c),
         UNCHANGED <<task, out, agent_world, broken>>, Fits(agent_saved', snaps', stream'), Copies(c, agent_saved'),
         at = "step" => c.pending = <<>>, at = "tool" => c.pending # <<>>,
         at = "got" => AgentAsks(run[p].key, c) /\ (run[p].key[1] \in Agent!Loop => run[p].key \notin c.owed)
  PROVE  AInv' /\ Honest
<1>0. run \in [Exec -> RunRows]
  BY DEF AInv
<1>1. PICK r \in RunRows :
        /\ run' = [run EXCEPT ![p] = r] /\ r.at = at /\ r.cp = c
        /\ r.token = run[p].token /\ r.key = run[p].key /\ r.answer = run[p].answer
  BY <1>0, GoesRow
<1>2. Sound(r, snaps') /\ r.at # "off"
  BY <1>1 DEF Sound
<1> QED BY <1>1, <1>2, Works

\* The lease is taken.
LEMMA StepTake == ASSUME AInv, NEW p \in Exec, Agent!Take(p) PROVE AInv' /\ Honest
<1>1. /\ UNCHANGED <<agent_saved, snaps, stream, out, agent_world, broken>>
      /\ task.status \in {"PENDING", "RETRY_WAIT", "RUNNING"} /\ run[p].at = "off"
  BY DEF Agent!Take
<1>2. task \in TaskRows /\ task.attempts \in Nat /\ task.limit \in Nat
  BY DEF AInv, TurnFits, TaskRows
<1>3. CASE task.attempts >= task.limit
  <2>1. task' = [task EXCEPT !.status = "FAILED", !.lapsed = FALSE] /\ run' = run
    BY <1>3 DEF Agent!Take
  <2>2. task' \in TaskRows /\ task'.status = "FAILED" /\ task'.attempts = task.attempts /\ task'.limit = task.limit
    BY <1>2, <2>1 DEF TaskRows
  <2>3. TurnFits(task', out')
    BY <1>1, <2>2 DEF AInv, TurnFits
  <2>4. LeasesDiffer'
    BY <2>1, <2>2 DEF AInv, LeasesDiffer
  <2>5. \A q \in Exec : Standing(q)'
    BY <2>2 DEF Standing, Agent!Holds
  <2> QED BY <1>1, <2>1, <2>3, <2>4, <2>5, HonestRest DEF AInv
<1>4. CASE ~(task.attempts >= task.limit)
  <2> DEFINE r == [Agent!Off EXCEPT !.at = "loop", !.cp = agent_saved, !.token = task.attempts + 1]
  <2>1. /\ task' = [task EXCEPT !.status = "RUNNING", !.attempts = @ + 1, !.lapsed = FALSE]
        /\ run' = [run EXCEPT ![p] = r]
    BY <1>4 DEF Agent!Take
  <2>2. PICK k \in Nat : k = task.attempts + 1
    BY <1>2
  <2>3. task' = [task EXCEPT !.status = "RUNNING", !.attempts = k, !.lapsed = FALSE]
    BY <2>1, <2>2
  <2>4. task' \in TaskRows /\ task'.status = "RUNNING" /\ task'.attempts = k /\ task'.limit = task.limit
    BY <1>2, <2>3 DEF TaskRows
  <2>5. k <= task.limit
    BY <1>2, <1>4, <2>2
  <2>6. TurnFits(task', out')
    BY <1>1, <2>4, <2>5 DEF AInv, TurnFits
  <2>7. agent_saved \in CpRows
    BY DEF AInv, Fits, WithinBudgets
  <2>8. r = [Agent!Off EXCEPT !.at = "loop", !.cp = agent_saved, !.token = k]
    BY <2>2
  <2>9. r \in RunRows /\ r.at = "loop" /\ r.cp = agent_saved /\ r.token = k
    <3> HIDE DEF r
    <3> QED BY <2>7, <2>8, OffIsRow DEF RunRows
  <2> HIDE DEF r
  <2>10. run' \in [Exec -> RunRows] /\ run'[p] = r /\ \A q \in Exec : q # p => run'[q] = run[q]
    BY <2>1, <2>9 DEF AInv
  <2>11. \A q \in Exec : run[q].token \in Nat /\ run[q].token <= task.attempts
    BY DEF AInv, LeasesDiffer, RunRows
  <2>12. \A q \in Exec : q # p => run'[q].token # k /\ run'[q].token <= k
    BY <1>2, <2>2, <2>10, <2>11
  <2>13. LeasesDiffer'
    BY <1>2, <2>2, <2>4, <2>9, <2>10, <2>12 DEF AInv, LeasesDiffer
  <2>14. ASSUME NEW q \in Exec PROVE Standing(q)'
    <3>1. CASE q = p
      BY <1>1, <2>9, <2>10, <3>1 DEF Standing, Copies, Sound
    <3>2. CASE q # p
      BY <2>4, <2>12, <3>2 DEF Standing, Agent!Holds
    <3> QED BY <3>1, <3>2
  <2> QED BY <1>1, <2>6, <2>10, <2>13, <2>14, HonestRest DEF AInv
<1> QED BY <1>3, <1>4

\* An execution without the lease ends, or a process dies.
LEMMA StepLost == ASSUME AInv, NEW p \in Exec, Agent!Lost(p) PROVE AInv' /\ Honest
BY GoesOff DEF Agent!Lost, AInv

LEMMA StepDie == ASSUME AInv, NEW p \in Exec, Agent!Die(p) PROVE AInv' /\ Honest
<1>1. broken' \in Nat
  BY DEF Agent!Die, AInv
<1> QED BY <1>1, GoesOff DEF Agent!Die

\* A round begins.
LEMMA StepCheckRound == ASSUME AInv, NEW p \in Exec, Agent!CheckRound(p) PROVE AInv' /\ Honest
<1> DEFINE c == run[p].cp
           at == IF c.pending # <<>> THEN "tool" ELSE "step"
<1>1. /\ Agent!Holds(p) /\ run[p].at # "off" /\ run[p] \in RunRows /\ c \in CpRows
      /\ Copies(c, agent_saved) /\ Fits(c, snaps, stream)
  BY HolderKnows DEF Agent!CheckRound
<1>2. CASE Agent!Stop(p, c, ~agent_world.late)
  BY <1>1, <1>2, Stops
<1>3. CASE Agent!Goes(p, at, c) /\ UNCHANGED <<task, agent_saved, snaps, stream, out, agent_world, broken>>
  <2>1. /\ at \in {"loop", "step", "tool", "got"} /\ at # "got"
        /\ at = "step" => c.pending = <<>>
        /\ at = "tool" => c.pending # <<>>
    OBVIOUS
  <2> HIDE DEF at
  <2>2. Fits(agent_saved', snaps', stream') /\ Copies(c, agent_saved')
    BY <1>1, <1>3 DEF AInv
  <2> HIDE DEF c
  <2>3. run[p].at # "off" /\ Agent!Holds(p) /\ c \in CpRows
    BY <1>1
  <2> QED BY <1>3, <2>1, <2>2, <2>3, WorksOn
<1> QED BY <1>2, <1>3 DEF Agent!CheckRound

\* Answers to a question are looked up by its key.
LEMMA AnswersAre ==
  ASSUME AInv, NEW key
  PROVE  /\ Agent!Answers(key) \subseteq 1 .. Len(snaps)
         /\ \A i \in Agent!Answers(key) : snaps[i].key = key /\ snaps[i].status = "SUCCEEDED"
         /\ Agent!Answers(key) = {} => OpenIn(snaps, key)
<1>1. DOMAIN snaps = 1 .. Len(snaps)
  BY SnapsAre DEF AInv, Fits, CallsAreCounted
<1> QED BY <1>1 DEF Agent!Answers, OpenIn

\* A call is reserved and saved, found answered, skipped or refused.
LEMMA StepAsk ==
  ASSUME AgentConstants, AInv, NEW p \in Exec, run[p].at # "off", NEW c, NEW key \in Asked,
         c \in CpRows, Agent!Holds(p) => Copies(c, agent_saved), AgentAsks(key, c), Agent!Ask(p, c, key)
  PROVE  AInv' /\ Honest
<1>1. Agent!Holds(p) /\ Copies(c, agent_saved) /\ run[p] \in RunRows
  BY DEF Agent!Ask, AInv
<1>2. Fits(c, snaps, stream)
  BY <1>1, CopyFits DEF AInv
<1>3. WithinBudgets(c) /\ CallsAreCounted(c, snaps) /\ c.calls \in Nat /\ c.tokens \in Nat /\ c.upkeep \in Nat
  BY <1>2, CpFields DEF Fits
<1>4. CASE Agent!Cached(key) = {} /\ ~Agent!Refused(c, key)
  <2> DEFINE d == Agent!Reserved(c, key)
             r == [run[p] EXCEPT !.at = "send", !.cp = d, !.key = key]
  <2>1. /\ run' = [run EXCEPT ![p] = r] /\ agent_saved' = d
        /\ UNCHANGED <<task, snaps, stream, out, agent_world, broken>>
    BY <1>4 DEF Agent!Ask
  <2>2. c.calls < Calls /\ c.tokens + 1 <= Tokens /\ (key[1] \in Agent!Maintenance => c.upkeep < Upkeep)
    BY <1>3, <1>4 DEF Agent!Refused, Agent!Spent, AgentConstants
  <2>3. /\ WithinBudgets(d) /\ d.calls = c.calls + 1 /\ d.tokens = c.tokens + 1
        /\ d.owed = c.owed \cup {key} /\ d.pending = c.pending /\ d.steps = c.steps
        /\ d.json = c.json /\ d.repair = c.repair
    BY <1>3, <2>2, ReservedFits
  <2> HIDE DEF d
  <2>4. NextKey(d) = NextKey(c)
    BY <2>3, NextKeyStays
  <2>5. CallsAreCounted(d, snaps)
    BY <1>3, <2>2, <2>3, <2>4, CountReserved
  <2>6. Fits(d, snaps, stream)
    BY <1>2, <2>3, <2>5 DEF Fits, Unsaid
  <2>7. Copies(d, d) /\ d \in CpRows
    BY <2>3 DEF Copies, WithinBudgets
  <2>8. /\ r \in RunRows /\ r.at = "send" /\ r.cp = d /\ r.key = key /\ r.token = run[p].token
    BY <1>1, <2>7 DEF RunRows
  <2> HIDE DEF r
  <2>9. AgentAsks(key, d)
    BY <2>3, <2>4 DEF AgentAsks
  <2>10. key[1] \notin Agent!Maintenance => OpenIn(snaps, key)
    BY <1>4, AnswersAre DEF Agent!Cached
  <2>11. AgentReserves(key, d, snaps)
    BY <2>3, <2>10 DEF AgentReserves
  <2>12. Len(snaps) < d.calls
    BY <1>3, <2>3, SnapsAre DEF CallsAreCounted
  <2>13. Sound(r, snaps')
    BY <2>1, <2>8, <2>9, <2>11, <2>12 DEF Sound
  <2> QED BY <2>1, <2>6, <2>7, <2>8, <2>13, <1>1, Works
<1>5. CASE Agent!Cached(key) # {} /\ ~Agent!Refused(c, key)
  <2>1. PICK i \in Agent!Cached(key) :
          run' = [run EXCEPT ![p] = [@ EXCEPT !.at = "answered", !.cp = c, !.key = key,
                                              !.row = i, !.answer = snaps[i].answer]]
    BY <1>5 DEF Agent!Ask
  <2>2. UNCHANGED <<task, agent_saved, snaps, stream, out, agent_world, broken>>
    BY <1>5 DEF Agent!Ask
  <2>3. i \in 1 .. Len(snaps) /\ snaps[i].key = key /\ snaps[i].status = "SUCCEEDED"
    BY <2>1, AnswersAre DEF Agent!Cached
  <2>4. snaps[i] \in SnapRows /\ i \in Nat
    BY <1>3, <2>3, SnapsAre DEF CallsAreCounted
  <2>5. snaps[i].answer \in AnswerRows
    BY <2>4 DEF SnapRows
  <2> DEFINE r == [run[p] EXCEPT !.at = "answered", !.cp = c, !.key = key,
                                 !.row = i, !.answer = snaps[i].answer]
  <2>6. run' = [run EXCEPT ![p] = r]
    BY <2>1
  <2>7. /\ r \in RunRows /\ r.at = "answered" /\ r.cp = c /\ r.key = key /\ r.row = i
        /\ r.token = run[p].token
    BY <1>1, <2>4, <2>5 DEF RunRows
  <2> HIDE DEF r
  <2>8. Sound(r, snaps')
    BY <2>2, <2>3, <2>7 DEF Sound
  <2>9. Fits(agent_saved', snaps', stream') /\ Copies(r.cp, agent_saved')
    BY <1>1, <2>2, <2>7 DEF AInv
  <2> QED BY <1>1, <2>2, <2>6, <2>7, <2>8, <2>9, Works
<1>6. CASE Agent!Refused(c, key) /\ key[1] \in Agent!Maintenance
  <2> DEFINE b == key[1] = "SUMMARY"
             r == [run[p] EXCEPT !.at = "step", !.cp = c, !.built = b]
  <2>1. /\ run' = [run EXCEPT ![p] = r] /\ agent_saved' \in {c, agent_saved}
        /\ UNCHANGED <<task, snaps, stream, out, agent_world, broken>>
    BY <1>6 DEF Agent!Ask
  <2>2. b \in BOOLEAN
    OBVIOUS
  <2> HIDE DEF b
  <2>3. r \in RunRows /\ r.at = "step" /\ r.cp = c /\ r.token = run[p].token
    BY <1>1, <2>2 DEF RunRows
  <2> HIDE DEF r
  <2>4. c.pending = <<>>
    BY <1>6 DEF AgentAsks
  <2>5. Sound(r, snaps')
    BY <2>3, <2>4 DEF Sound
  <2>6. Copies(c, c)
    BY DEF Copies
  <2>7. Fits(agent_saved', snaps', stream') /\ Copies(r.cp, agent_saved')
    BY <1>1, <1>2, <2>1, <2>3, <2>6 DEF AInv
  <2> QED BY <1>1, <2>1, <2>3, <2>5, <2>7, Works
<1>7. CASE Agent!Stop(p, c, FALSE)
  BY <1>1, <1>2, <1>7, Stops
<1> QED BY <1>4, <1>5, <1>6, <1>7 DEF Agent!Ask

\* The keys of questions.
LEMMA MaintenanceKey ==
  ASSUME NEW c \in CpRows, NEW purpose \in Agent!Maintenance, c.pending = <<>>
  PROVE  Agent!Key(c, purpose, "") \in Asked /\ AgentAsks(Agent!Key(c, purpose, ""), c)
<1>1. Agent!Key(c, purpose, "") = <<purpose, c.calls + 1>> /\ c.calls + 1 \in Nat
  <2>1. purpose # "REVIEW" /\ purpose \notin Agent!Loop
    BY PurposesDiffer
  <2>2. c.calls \in Nat
    BY CpFields
  <2> QED BY <2>1, <2>2 DEF Agent!Key
<1>2. <<purpose, c.calls + 1>> \in Asked
  BY <1>1 DEF Asked, Purposes
<1>3. <<purpose, c.calls + 1>>[1] = purpose
  OBVIOUS
<1> QED BY <1>1, <1>2, <1>3, PurposesDiffer DEF AgentAsks

LEMMA LoopKey ==
  ASSUME NEW c \in CpRows, c.pending = <<>>, c.steps < Steps
  PROVE  Agent!Key(c, Agent!Purpose(c), "") \in Asked /\ AgentAsks(Agent!Key(c, Agent!Purpose(c), ""), c)
<1>1. Agent!Key(c, Agent!Purpose(c), "") = NextKey(c)
  BY DEF NextKey
<1>2. NextKey(c) = <<Agent!Purpose(c), c.steps + 1>> /\ Agent!Purpose(c) \in Agent!Loop /\ NextKey(c)[1] \in Agent!Loop
  BY NextKeyIs
<1>3. c.steps + 1 \in Nat
  BY CpFields
<1>4. NextKey(c) \in Asked
  BY <1>2, <1>3 DEF Asked, Purposes
<1> QED BY <1>1, <1>2, <1>4, PurposesDiffer DEF AgentAsks

\* Memory, summary and the next model step.
LEMMA StepRound ==
  ASSUME AgentConstants, AInv, NEW p \in Exec, Agent!Recall(p) \/ Agent!Compress(p) \/ Agent!Think(p)
  PROVE  AInv' /\ Honest
<1> DEFINE c == [run[p].cp EXCEPT !.recalled = TRUE]
<1>1. run[p].at = "step" /\ run[p].cp.steps < Steps
  BY DEF Agent!Recall, Agent!Compress, Agent!Think
<1>2. \/ Agent!Ask(p, c, Agent!Key(c, "MEMORY", "")) \/ Agent!Ask(p, c, Agent!Key(c, "SUMMARY", ""))
      \/ Agent!Ask(p, c, Agent!Key(c, Agent!Purpose(c), ""))
  BY DEF Agent!Recall, Agent!Compress, Agent!Think
<1>3. Agent!Holds(p)
  BY <1>2 DEF Agent!Ask
<1>4. /\ run[p].cp \in CpRows /\ Copies(run[p].cp, agent_saved) /\ Sound(run[p], snaps)
      /\ WithinBudgets(run[p].cp)
  BY <1>1, <1>3, HolderKnows DEF Fits
<1>5. WithinBudgets(c) /\ Copies(c, run[p].cp)
  BY <1>4, RecalledFits
<1> HIDE DEF c
<1>6. c \in CpRows /\ Copies(c, agent_saved) /\ c.pending = <<>> /\ c.steps < Steps
  BY <1>1, <1>4, <1>5 DEF WithinBudgets, Copies, Sound
<1>7. CASE Agent!Ask(p, c, Agent!Key(c, "MEMORY", ""))
  <2>1. Agent!Key(c, "MEMORY", "") \in Asked /\ AgentAsks(Agent!Key(c, "MEMORY", ""), c)
    BY <1>6, MaintenanceKey DEF Agent!Maintenance
  <2> QED BY <1>1, <1>6, <1>7, <2>1, StepAsk
<1>8. CASE Agent!Ask(p, c, Agent!Key(c, "SUMMARY", ""))
  <2>1. Agent!Key(c, "SUMMARY", "") \in Asked /\ AgentAsks(Agent!Key(c, "SUMMARY", ""), c)
    BY <1>6, MaintenanceKey DEF Agent!Maintenance
  <2> QED BY <1>1, <1>6, <1>8, <2>1, StepAsk
<1>9. CASE Agent!Ask(p, c, Agent!Key(c, Agent!Purpose(c), ""))
  <2>1. Agent!Key(c, Agent!Purpose(c), "") \in Asked /\ AgentAsks(Agent!Key(c, Agent!Purpose(c), ""), c)
    BY <1>6, LoopKey
  <2> QED BY <1>1, <1>6, <1>9, <2>1, StepAsk
<1> QED BY <1>2, <1>7, <1>8, <1>9

\* The steps are used up.
LEMMA StepOutOfSteps == ASSUME AInv, NEW p \in Exec, Agent!OutOfSteps(p) PROVE AInv' /\ Honest
<1>1. Agent!Holds(p) /\ run[p].at # "off" /\ Agent!Stop(p, run[p].cp, FALSE)
  BY DEF Agent!OutOfSteps
<1>2. Fits(run[p].cp, snaps, stream)
  BY <1>1, HolderKnows
<1> QED BY <1>1, <1>2, Stops

\* The request is sent.
LEMMA StepSend == ASSUME AInv, NEW p \in Exec, Agent!Send(p) PROVE AInv' /\ Honest
<1> DEFINE c == run[p].cp
           key == run[p].key
           n == Append(Agent!Unsettled(snaps), [key |-> key, status |-> "STARTED", over |-> 0,
                                          answer |-> [kind |-> "none"]])
           k == Len(snaps) + 1
           r == [run[p] EXCEPT !.at = "wait", !.row = k]
<1>1. Agent!Holds(p) /\ run[p].at = "send"
  BY DEF Agent!Send
<1>2. /\ run[p] \in RunRows /\ c \in CpRows /\ key \in Asked /\ Copies(c, agent_saved)
      /\ Sound(run[p], snaps) /\ Fits(c, snaps, stream)
  BY <1>1, HolderKnows DEF RunRows
<1>3. AgentAsks(key, c) /\ AgentReserves(key, c, snaps) /\ Len(snaps) < c.calls
  BY <1>1, <1>2 DEF Sound
<1>4. Len(snaps) \in Nat /\ k \in Nat
  BY <1>2, SnapsAre DEF Fits, CallsAreCounted
<1>5. snaps' = n /\ UNCHANGED <<task, agent_saved, stream, out, agent_world, broken>>
  BY DEF Agent!Send
<1>6. run' = [run EXCEPT ![p] = r]
  BY DEF Agent!Send
<1>7. r \in RunRows /\ r.at = "wait" /\ r.row = k /\ r.cp = c /\ r.key = key /\ r.token = run[p].token
  BY <1>2, <1>4 DEF RunRows
<1> HIDE DEF r
<1>8. CallsAreCounted(agent_saved, snaps) /\ agent_saved \in CpRows /\ Len(snaps) < agent_saved.calls
  BY <1>2, <1>3 DEF AInv, Fits, WithinBudgets, Copies
<1>9. /\ CallsAreCounted(agent_saved, n) /\ \A x : OpenIn(snaps, x) => OpenIn(n, x)
      /\ k \in 1 .. Len(n) /\ n[k].key = key
  BY <1>2, <1>8, CountSent
<1> HIDE DEF n, k, c, key
<1>10. AgentReserves(key, c, n)
  BY <1>3, <1>9 DEF AgentReserves
<1>11. Sound(r, snaps')
  BY <1>3, <1>5, <1>7, <1>9, <1>10 DEF Sound
<1>12. Fits(agent_saved', snaps', stream')
  BY <1>5, <1>9 DEF AInv, Fits
<1> QED BY <1>1, <1>2, <1>5, <1>6, <1>7, <1>11, <1>12, Works

\* The request is answered.
LEMMA StepAnswer ==
  ASSUME AgentConstants, AInv, NEW p \in Exec, NEW answer \in AnswerRows, NEW over \in {0, 1},
         over = 0 \/ (Agent!Overrun = {} /\ run[p].key[1] \in Agent!Loop), Agent!Answer(p, answer, over)
  PROVE  AInv' /\ Honest
<1> DEFINE c == run[p].cp
           key == run[p].key
           i == run[p].row
           n == [snaps EXCEPT ![i] = [@ EXCEPT !.status = "SUCCEEDED", !.answer = answer, !.over = over]]
           r == [run[p] EXCEPT !.at = "answered", !.answer = answer]
<1>1. Agent!Holds(p) /\ run[p].at = "wait"
  BY DEF Agent!Answer
<1>2. /\ run[p] \in RunRows /\ c \in CpRows /\ Copies(c, agent_saved)
      /\ Sound(run[p], snaps) /\ Fits(c, snaps, stream)
  BY <1>1, HolderKnows
<1>3. AgentAsks(key, c) /\ AgentReserves(key, c, snaps) /\ i \in 1 .. Len(snaps) /\ snaps[i].key = key
  BY <1>1, <1>2 DEF Sound
<1>4. snaps' = n /\ UNCHANGED <<task, agent_saved, stream, out, agent_world, broken>>
  BY DEF Agent!Answer
<1>5. run' = [run EXCEPT ![p] = r]
  BY DEF Agent!Answer
<1>6. /\ r \in RunRows /\ r.at = "answered" /\ r.row = i /\ r.cp = c /\ r.key = key
      /\ r.token = run[p].token
  BY <1>2 DEF RunRows
<1> HIDE DEF r
<1>7. DOMAIN snaps = 1 .. Len(snaps)
  BY <1>2, SnapsAre DEF Fits, CallsAreCounted
<1>8. over = 0 \/ (OverIn(snaps) = {} /\ key[1] \in Agent!Loop)
  BY <1>7 DEF Agent!Overrun, OverIn
<1>9. /\ CallsAreCounted(agent_saved, snaps) /\ agent_saved \in CpRows
      /\ key[1] \in Agent!Loop => agent_saved.pending = <<>> /\ key = NextKey(agent_saved) /\ key \in agent_saved.owed
  <2>1. NextKey(c) = NextKey(agent_saved) /\ agent_saved.pending = c.pending /\ agent_saved.owed = c.owed
    BY <1>2, CopyFits DEF AInv, Copies
  <2> QED BY <1>3, <2>1 DEF AInv, Fits, WithinBudgets, AgentAsks, AgentReserves
<1>10. snaps[i].key[1] \notin Agent!Maintenance => OpenIn(snaps, snaps[i].key)
  BY <1>3 DEF AgentReserves
<1>0. n = Settled(snaps, i, answer, over)
  BY DEF Settled
<1> HIDE DEF n
<1>11. /\ CallsAreCounted(agent_saved, n)
       /\ i \in 1 .. Len(n) /\ n[i].key = key /\ n[i].status = "SUCCEEDED"
  <2>1. /\ over = 0 \/ (OverIn(snaps) = {} /\ snaps[i].key[1] \in Agent!Loop)
        /\ snaps[i].key[1] \in Agent!Loop =>
             agent_saved.pending = <<>> /\ snaps[i].key = NextKey(agent_saved) /\ snaps[i].key \in agent_saved.owed
    BY <1>3, <1>8, <1>9
  <2>2. /\ CallsAreCounted(agent_saved, n)
        /\ i \in 1 .. Len(n) /\ n[i].key = snaps[i].key /\ n[i].status = "SUCCEEDED"
    <3> HIDE DEF i, key, c
    <3> QED BY <1>0, <1>3, <1>9, <1>10, <2>1, CountAnswered
  <2> QED BY <1>3, <2>2
<1>12. Sound(r, snaps')
  BY <1>3, <1>4, <1>6, <1>11 DEF Sound
<1>13. Fits(agent_saved', snaps', stream')
  BY <1>4, <1>11 DEF AInv, Fits
<1> QED BY <1>1, <1>2, <1>4, <1>5, <1>6, <1>12, <1>13, Works

\* What it used is counted.
LEMMA StepReconcile == ASSUME AgentConstants, AInv, NEW p \in Exec, Agent!Reconcile(p) PROVE AInv' /\ Honest
<1> DEFINE c == run[p].cp
           key == run[p].key
           i == run[p].row
           x == IF key \in c.owed THEN c.tokens + snaps[i].over ELSE c.tokens
           d == [c EXCEPT !.tokens = x, !.owed = @ \ {key}]
<1>1. Agent!Holds(p) /\ run[p].at = "answered"
  BY DEF Agent!Reconcile
<1>2. /\ run[p] \in RunRows /\ c \in CpRows /\ Copies(c, agent_saved)
      /\ Sound(run[p], snaps) /\ Fits(c, snaps, stream)
  BY <1>1, HolderKnows
<1>3. AgentAsks(key, c) /\ i \in 1 .. Len(snaps) /\ snaps[i].key = key /\ snaps[i].status = "SUCCEEDED"
  BY <1>1, <1>2 DEF Sound
<1>4. Agent!Saving(p, "got", d) /\ UNCHANGED <<task, snaps, stream, out, agent_world, broken>>
  <2>1. CASE key \in c.owed
    BY <2>1 DEF Agent!Reconcile
  <2>2. CASE key \notin c.owed
    BY <2>2 DEF Agent!Reconcile
  <2> QED BY <2>1, <2>2
<1>5. WithinBudgets(c) /\ CallsAreCounted(c, snaps) /\ c.tokens \in Nat /\ snaps[i].over \in {0, 1}
  BY <1>2, <1>3, CpFields, SnapsAre DEF Fits, CallsAreCounted
<1>6. x \in Nat
  BY <1>5
<1>7. x = IF snaps[i].key \in c.owed THEN c.tokens + snaps[i].over ELSE c.tokens
  BY <1>3
<1> HIDE DEF x
<1>0. d = Paid(c, x, key)
  BY DEF Paid
<1> HIDE DEF d
<1>8. /\ WithinBudgets(d) /\ d.calls = c.calls /\ d.tokens = x /\ d.owed = c.owed \ {key}
      /\ d.pending = c.pending /\ d.steps = c.steps /\ d.json = c.json /\ d.repair = c.repair
  <2> HIDE DEF c, key
  <2> QED BY <1>0, <1>5, <1>6, PaidFits
<1>9. NextKey(d) = NextKey(c)
  BY <1>8, NextKeyStays
<1>10. CallsAreCounted(d, snaps)
  <2>1. d.owed = c.owed \ {snaps[i].key}
    BY <1>3, <1>8
  <2> HIDE DEF c, i, key
  <2> QED BY <1>2, <1>3, <1>5, <1>7, <1>8, <1>9, <2>1, CountPaid
<1>11. Fits(d, snaps, stream)
  BY <1>2, <1>8, <1>10 DEF Fits, Unsaid
<1>12. AgentAsks(key, d) /\ key \notin d.owed
  BY <1>3, <1>8, <1>9 DEF AgentAsks
<1>13. Copies(d, d) /\ d \in CpRows
  BY <1>8 DEF Copies, WithinBudgets
<1>14. Agent!Goes(p, "got", d) /\ agent_saved' = d
  BY <1>4 DEF Agent!Saving
<1> QED BY <1>1, <1>4, <1>11, <1>12, <1>13, <1>14, WorksOn

\* The request fails.
LEMMA StepCallFails == ASSUME AInv, NEW p \in Exec, Agent!CallFails(p) PROVE AInv' /\ Honest
<1> DEFINE c == run[p].cp
           key == run[p].key
           i == run[p].row
           n == Failed(snaps, i)
<1>1. Agent!Holds(p) /\ run[p].at = "wait"
  BY DEF Agent!CallFails
<1>2. /\ run[p] \in RunRows /\ c \in CpRows /\ Copies(c, agent_saved)
      /\ Sound(run[p], snaps) /\ Fits(c, snaps, stream)
  BY <1>1, HolderKnows
<1>3. AgentAsks(key, c) /\ AgentReserves(key, c, snaps) /\ i \in 1 .. Len(snaps) /\ snaps[i].key = key
  BY <1>1, <1>2 DEF Sound
<1>4. snaps' = n /\ UNCHANGED <<task, agent_saved, stream, out, agent_world, broken>>
  BY DEF Agent!CallFails, Failed
<1>5. CallsAreCounted(agent_saved, n)
  <2>1. snaps[i].key[1] \notin Agent!Maintenance => OpenIn(snaps, snaps[i].key)
    BY <1>3 DEF AgentReserves
  <2>2. CallsAreCounted(agent_saved, snaps)
    BY DEF AInv, Fits
  <2> HIDE DEF i
  <2> QED BY <1>3, <2>1, <2>2, CountFailed
<1> HIDE DEF n
<1>6. Fits(agent_saved', snaps', stream')
  BY <1>4, <1>5 DEF AInv, Fits
<1>7. CASE key[1] \in Agent!Maintenance
  <2> DEFINE b == key[1] = "SUMMARY"
             r == [run[p] EXCEPT !.at = "step", !.built = b]
  <2>1. run' = [run EXCEPT ![p] = r]
    BY <1>7 DEF Agent!CallFails
  <2>2. b \in BOOLEAN
    OBVIOUS
  <2> HIDE DEF b
  <2>3. r \in RunRows /\ r.at = "step" /\ r.cp = c /\ r.token = run[p].token
    BY <1>2, <2>2 DEF RunRows
  <2> HIDE DEF r
  <2>4. Sound(r, snaps')
    BY <1>3, <1>7, <2>3 DEF Sound, AgentAsks
  <2> QED BY <1>1, <1>2, <1>4, <1>6, <2>1, <2>3, <2>4, Works
<1>8. CASE key[1] \notin Agent!Maintenance
  <2> DEFINE r == [run[p] EXCEPT !.at = "raised"]
  <2>1. run' = [run EXCEPT ![p] = r]
    BY <1>8 DEF Agent!CallFails
  <2>3. r \in RunRows /\ r.at = "raised" /\ r.cp = c /\ r.token = run[p].token
    BY <1>2 DEF RunRows
  <2> HIDE DEF r
  <2>4. Sound(r, snaps')
    BY <2>3 DEF Sound
  <2> QED BY <1>1, <1>2, <1>4, <1>6, <2>1, <2>3, <2>4, Works
<1> QED BY <1>7, <1>8

\* The attempt is given back.
LEMMA StepGiveBack ==
  ASSUME AInv, NEW p \in Exec, NEW retryable \in BOOLEAN, Agent!GiveBack(p, retryable)
  PROVE  AInv' /\ Honest
<1>1. /\ Agent!Holds(p) /\ run' = [run EXCEPT ![p] = Agent!Off]
      /\ UNCHANGED <<agent_saved, snaps, stream, out, agent_world, broken>>
  BY DEF Agent!GiveBack
<1>2. PICK st \in {"RETRY_WAIT", "FAILED"} : task' = [task EXCEPT !.status = st]
  BY DEF Agent!GiveBack
<1>3. task \in TaskRows /\ task.status = "RUNNING"
  BY <1>1 DEF AInv, TurnFits, Agent!Holds
<1>4. task' \in TaskRows /\ task'.status = st /\ task'.attempts = task.attempts /\ task'.limit = task.limit
  BY <1>2, <1>3 DEF TaskRows
<1>5. TurnFits(task', out')
  BY <1>1, <1>3, <1>4 DEF AInv, TurnFits
<1>6. Fits(agent_saved', snaps', stream') /\ task'.status # "RUNNING"
  BY <1>1, <1>4 DEF AInv
<1> QED BY <1>1, <1>4, <1>5, <1>6, EndsTurn, HonestRest

\* The memory is refreshed.
LEMMA StepRefresh == ASSUME AInv, NEW p \in Exec, Agent!Refresh(p) PROVE AInv' /\ Honest
<1> DEFINE c == run[p].cp
           key == run[p].key
           b == key[1] = "SUMMARY"
<1>1. Agent!Holds(p) /\ run[p].at = "got" /\ key[1] \in Agent!Maintenance
  BY DEF Agent!Refresh
<1>2. /\ run[p] \in RunRows /\ c \in CpRows /\ Sound(run[p], snaps) /\ Fits(c, snaps, stream)
  BY <1>1, HolderKnows
<1>3. c.pending = <<>>
  BY <1>1, <1>2 DEF Sound, AgentAsks
<1>4. PICK d \in {c, Covering(c, 1)} :
        /\ run' = [run EXCEPT ![p].at = "step", ![p].cp = d, ![p].built = b]
        /\ agent_saved' = d
        /\ UNCHANGED <<task, snaps, stream, out, agent_world, broken>>
  BY DEF Agent!Refresh, Covering
<1>5. WithinBudgets(d) /\ Kept(c, d)
  <2>1. WithinBudgets(c) /\ Kept(c, c)
    BY <1>2 DEF Fits, Kept
  <2>2. WithinBudgets(Covering(c, 1)) /\ Kept(c, Covering(c, 1))
    BY <2>1, CoveredFits
  <2> QED BY <1>4, <2>1, <2>2
<1>6. Fits(d, snaps, stream) /\ d \in CpRows /\ d.pending = <<>> /\ Copies(d, d)
  BY <1>2, <1>3, <1>5, KeptFits DEF WithinBudgets, Kept, Copies
<1>7. b \in BOOLEAN
  OBVIOUS
<1> HIDE DEF b
<1> DEFINE r == [run[p] EXCEPT !.at = "step", !.cp = d, !.built = b]
<1>8. run' = [run EXCEPT ![p] = r]
  BY <1>4
<1>9. r \in RunRows /\ r.at = "step" /\ r.cp = d /\ r.token = run[p].token
  BY <1>2, <1>6, <1>7 DEF RunRows
<1> HIDE DEF r
<1>10. Sound(r, snaps')
  BY <1>6, <1>9 DEF Sound
<1> QED BY <1>1, <1>4, <1>6, <1>8, <1>9, <1>10, Works

\* The step is saved with its calls.
LEMMA StepSaveStep == ASSUME AgentConstants, AInv, NEW p \in Exec, Agent!SaveStep(p) PROVE AInv' /\ Honest
<1> DEFINE c == run[p].cp
           key == run[p].key
           answer == run[p].answer
           b == answer.kind = "mixed"
           x == Agent!CallsOf(c.steps + 1, answer) = <<>>
           j == c.json \/ (c.repair /\ answer.kind = "talk")
           d == Stepped(c, answer, b, x, j)
<1>1. Agent!Holds(p) /\ run[p].at = "got" /\ key[1] \in Agent!Loop
  BY DEF Agent!SaveStep
<1>2. /\ run[p] \in RunRows /\ c \in CpRows /\ answer \in AnswerRows
      /\ Sound(run[p], snaps) /\ Fits(c, snaps, stream)
  BY <1>1, HolderKnows DEF RunRows
<1>3. c.steps < Steps /\ NextKey(c) \notin c.owed
  BY <1>1, <1>2 DEF Sound, AgentAsks
<1>4. /\ agent_saved' = d /\ stream' = Agent!Logged(<<<<"step", c.steps + 1>>>>)
      /\ run' = [run EXCEPT ![p].at = "loop", ![p].cp = agent_saved', ![p].built = FALSE]
      /\ UNCHANGED <<task, snaps, out, agent_world, broken>>
  BY DEF Agent!SaveStep, Stepped
<1>5. b \in BOOLEAN /\ x \in BOOLEAN /\ j \in BOOLEAN
  BY <1>2, CpFields
<1> HIDE DEF b, x, j
<1>6. Fits(d, snaps, stream')
  BY <1>2, <1>3, <1>4, <1>5, SteppedFits
<1> HIDE DEF d
<1>7. d \in CpRows /\ Copies(d, d)
  BY <1>6 DEF Fits, WithinBudgets, Copies
<1> DEFINE r == [run[p] EXCEPT !.at = "loop", !.cp = d, !.built = FALSE]
<1>8. run' = [run EXCEPT ![p] = r]
  BY <1>4
<1>9. r \in RunRows /\ r.at = "loop" /\ r.cp = d /\ r.token = run[p].token
  BY <1>2, <1>7 DEF RunRows
<1> HIDE DEF r
<1>10. Sound(r, snaps')
  BY <1>9 DEF Sound
<1> QED BY <1>1, <1>4, <1>6, <1>7, <1>8, <1>9, <1>10, Works

\* The first of the pending calls.
LEMMA FirstCall ==
  ASSUME NEW c \in CpRows, c.pending # <<>>
  PROVE  /\ Head(c.pending) \in CallRows /\ Head(c.pending).id \in Nat \X Nat
         /\ Head(c.pending).kind = "finish" => Head(c.pending).text \in Text
<1>1. c.pending \in Seq(CallRows)
  BY CpFields
<1>2. Head(c.pending) \in CallRows
  BY <1>1, HeadTailProperties
<1> QED BY <1>2 DEF CallRows

\* The holder stands before a pending call.
LEMMA AtTool ==
  ASSUME AInv, NEW p \in Exec, Agent!Holds(p), run[p].at = "tool"
  PROVE  /\ run[p].cp \in CpRows /\ Copies(run[p].cp, agent_saved) /\ Fits(run[p].cp, snaps, stream)
         /\ run[p].cp.pending # <<>> /\ Agent!First(p) = Head(run[p].cp.pending)
         /\ Agent!First(p).id \in Nat \X Nat /\ (Agent!First(p).kind = "finish" => Agent!First(p).text \in Text)
<1>1. /\ run[p].cp \in CpRows /\ Copies(run[p].cp, agent_saved) /\ Sound(run[p], snaps)
      /\ Fits(run[p].cp, snaps, stream)
  BY HolderKnows
<1>2. run[p].cp.pending # <<>>
  BY <1>1 DEF Sound
<1> QED BY <1>1, <1>2, FirstCall DEF Agent!First

\* A tool call is reserved, or their budget ends the turn.
LEMMA StepReserveTool ==
  ASSUME AgentConstants, AInv, NEW p \in Exec, Agent!ReserveTool(p)
  PROVE  AInv' /\ Honest
<1> DEFINE c == run[p].cp
           id == Agent!First(p).id
           d == ToolReserved(c, id)
<1>1. run[p].at = "tool" /\ Agent!Holds(p) /\ id \notin c.reserved
  BY DEF Agent!ReserveTool
<1>2. c \in CpRows /\ Fits(c, snaps, stream) /\ c.pending # <<>> /\ id \in Nat \X Nat
  BY <1>1, AtTool
<1>3. CASE Agent!Stop(p, c, FALSE)
  BY <1>1, <1>2, <1>3, Stops
<1>4. CASE c.tools < Tools /\ Agent!Saving(p, "tool", d) /\ UNCHANGED <<task, snaps, stream, out, agent_world, broken>>
  <2>1. WithinBudgets(c)
    BY <1>2 DEF Fits
  <2>2. WithinBudgets(d) /\ Kept(c, d)
    BY <1>1, <1>2, <1>4, <2>1, ToolFits
  <2>3. agent_saved' = d /\ Agent!Goes(p, "tool", d) /\ UNCHANGED <<task, snaps, stream, out, agent_world, broken>>
    BY <1>4 DEF Agent!Saving
  <2> HIDE DEF d
  <2>4. Fits(d, snaps, stream)
    BY <1>2, <2>2, KeptFits
  <2>5. d \in CpRows /\ d.pending # <<>> /\ Copies(d, d)
    BY <1>2, <2>2 DEF WithinBudgets, Kept, Copies
  <2>6. Fits(agent_saved', snaps', stream') /\ Copies(d, agent_saved')
    BY <2>3, <2>4, <2>5
  <2> HIDE DEF c, id
  <2>7. run[p].at # "off" /\ Agent!Holds(p)
    BY <1>1
  <2> QED BY <2>3, <2>5, <2>6, <2>7, WorksOn
<1>5. \/ Agent!Stop(p, c, FALSE)
      \/ c.tools < Tools /\ Agent!Saving(p, "tool", d) /\ UNCHANGED <<task, snaps, stream, out, agent_world, broken>>
  BY DEF Agent!ReserveTool, ToolReserved
<1> QED BY <1>3, <1>4, <1>5

\* A reply is put before the review.
LEMMA StepReview ==
  ASSUME AgentConstants, AInv, NEW p \in Exec, Agent!Review(p)
  PROVE  AInv' /\ Honest
<1> DEFINE c == run[p].cp
           key == Agent!Key(c, "REVIEW", Agent!First(p).text)
<1>1. run[p].at = "tool" /\ Agent!First(p).kind = "finish" /\ Agent!Ask(p, c, key)
  BY DEF Agent!Review, Agent!Reviewable
<1>2. Agent!Holds(p)
  BY <1>1 DEF Agent!Ask
<1>3. c \in CpRows /\ Copies(c, agent_saved) /\ c.pending # <<>> /\ Agent!First(p).text \in Text
  BY <1>1, <1>2, AtTool
<1>4. key = <<"REVIEW", Agent!First(p).text>>
  BY DEF Agent!Key
<1>5. key \in Asked /\ key[1] = "REVIEW"
  BY <1>3, <1>4 DEF Asked, Purposes
<1> HIDE DEF key, c
<1>6. AgentAsks(key, c)
  BY <1>3, <1>5, PurposesDiffer DEF AgentAsks
<1> QED BY <1>1, <1>3, <1>5, <1>6, StepAsk DEF c

\* The verdict is stored, given by the review or by the banned words.
LEMMA StepStoreVerdict ==
  ASSUME AInv, NEW p \in Exec, NEW verdict \in {"yes", "no"}, Agent!StoreVerdict(p, verdict)
  PROVE  AInv' /\ Honest
<1> DEFINE c == run[p].cp
           d == Verdict(c, Agent!First(p).text, verdict)
<1>1. /\ Agent!Holds(p) /\ run[p].at # "off"
      /\ run[p].at = "tool" \/ (run[p].at = "got" /\ run[p].key[1] = "REVIEW")
      /\ Agent!Saving(p, "tool", d) /\ UNCHANGED <<task, snaps, stream, out, agent_world, broken>>
  BY DEF Agent!StoreVerdict, Verdict
<1>2. c \in CpRows /\ Sound(run[p], snaps) /\ Fits(c, snaps, stream)
  BY <1>1, HolderKnows
<1>3. c.pending # <<>>
  BY <1>1, <1>2, PurposesDiffer DEF Sound, AgentAsks
<1>4. WithinBudgets(d) /\ Kept(c, d)
  BY <1>2, VerdictFits DEF Fits
<1>5. agent_saved' = d /\ Agent!Goes(p, "tool", d)
  BY <1>1 DEF Agent!Saving
<1> HIDE DEF d
<1>6. Fits(d, snaps, stream)
  BY <1>2, <1>4, KeptFits
<1>7. d \in CpRows /\ d.pending # <<>> /\ Copies(d, d)
  BY <1>3, <1>4 DEF WithinBudgets, Kept, Copies
<1>8. Fits(agent_saved', snaps', stream') /\ Copies(d, agent_saved')
  BY <1>1, <1>5, <1>6, <1>7
<1> QED BY <1>1, <1>5, <1>7, <1>8, WorksOn

\* A tool is executed, and its result logged with its effect.
LEMMA StepExecute ==
  ASSUME AInv, NEW p \in Exec, NEW ok \in BOOLEAN, Agent!Execute(p, ok)
  PROVE  AInv' /\ Honest
<1> DEFINE c == run[p].cp
           x == Agent!Executed(c)
           y == Done(c, c.repair)
           acts == Agent!First(p).kind = "act" /\ ok /\ ~c.batch
           ends == Agent!First(p).kind = "finish" /\ Agent!Approved(p)
           log == Agent!Logged(Agent!Result(p))
<1>1. Agent!Holds(p) /\ run[p].at = "tool" /\ run[p].at # "off"
  BY DEF Agent!Execute, Agent!Ready
<1>2. /\ c \in CpRows /\ Fits(c, snaps, stream) /\ c.pending # <<>> /\ Agent!First(p) = Head(c.pending)
      /\ c.repair \in BOOLEAN
  BY <1>1, AtTool, CpFields
<1>3. Agent!Result(p) = <<<<"result", Head(c.pending).id>>>>
  BY <1>2 DEF Agent!Result
<1>4. \A b \in BOOLEAN : Fits(Done(c, b), snaps, log)
  BY <1>2, <1>3, ExecutedFits
<1>5. /\ x \in CpRows /\ x = y
  <2>1. c.pending \in Seq(CallRows)
    BY <1>2, CpFields
  <2>2. Tail(c.pending) \in Seq(CallRows)
    BY <1>2, <2>1, HeadTailProperties
  <2> DEFINE q == Tail(c.pending)
  <2>3. x = [c EXCEPT !.pending = q] /\ y = [c EXCEPT !.pending = q, !.repair = c.repair]
    BY DEF Agent!Executed, Done
  <2> HIDE DEF q
  <2>4. [c EXCEPT !.pending = q] = [c EXCEPT !.pending = q, !.repair = c.repair]
    BY <1>2 DEF CpRows
  <2>5. x \in CpRows
    BY <1>2, <2>2, <2>3 DEF q, CpRows
  <2> QED BY <2>3, <2>4, <2>5
<1>6. Fits(x, snaps, log)
  BY <1>2, <1>4, <1>5
<1> DEFINE z == Covering(x, IF ok THEN 2 ELSE x.covered)
<1>7. Fits(z, snaps, log)
  <2>1. (IF ok THEN 2 ELSE x.covered) \in {0, 1, 2} /\ WithinBudgets(x)
    BY <1>5, <1>6, CpFields DEF Fits
  <2> HIDE DEF x, log
  <2>2. WithinBudgets(z) /\ Kept(x, z)
    BY <2>1, CoveredFits
  <2> QED BY <1>6, <2>2, KeptFits
<1>8. CASE Agent!Stop(p, c, TRUE)
  BY <1>1, <1>2, <1>8, Stops
<1>9. CASE ~Agent!Overtaken /\ Agent!Finish(p, x, FALSE, 1, Agent!Result(p))
  <2> HIDE DEF x
  <2>1. WithinBudgets(x) /\ CallsAreCounted(x, snaps) /\ Tells(Agent!Logged(Agent!Result(p)), x.steps)
    BY <1>6 DEF Fits
  <2>2. AInv' /\ out'.covered >= out.covered
    BY <1>1, <1>9, <2>1, Finishes
  <2> QED BY <1>9, <2>2 DEF Honest, Agent!ActsOnFreshFacts, Agent!CoversMore, Agent!Overtaken
<1>10. CASE Agent!Finish(p, z, FALSE, 0, Agent!Result(p))
  <2> HIDE DEF z
  <2>1. WithinBudgets(z) /\ CallsAreCounted(z, snaps) /\ Tells(Agent!Logged(Agent!Result(p)), z.steps)
    BY <1>7 DEF Fits
  <2>2. AInv' /\ out'.covered >= out.covered /\ (out'.acts > out.acts => 0 = 1)
    BY <1>1, <1>10, <2>1, Finishes
  <2> QED BY <2>2 DEF Honest, Agent!ActsOnFreshFacts, Agent!CoversMore
<1> DEFINE w == Done(c, c.repair \/ Agent!First(p).kind = "finish")
<1>11. CASE Agent!Saving(p, "loop", w) /\ stream' = log /\ UNCHANGED <<task, snaps, out, agent_world, broken>>
  <2>1. Fits(w, snaps, log)
    BY <1>2, <1>4
  <2>2. agent_saved' = w /\ Agent!Goes(p, "loop", w)
    BY <1>11 DEF Agent!Saving
  <2> HIDE DEF w, log
  <2>3. w \in CpRows /\ Copies(w, w)
    BY <2>1 DEF Fits, WithinBudgets, Copies
  <2>4. Fits(agent_saved', snaps', stream') /\ Copies(w, agent_saved')
    BY <1>11, <2>1, <2>2, <2>3
  <2> QED BY <1>1, <1>11, <2>2, <2>3, <2>4, WorksOn
<1>12. \/ Agent!Stop(p, c, TRUE)
       \/ ~Agent!Overtaken /\ Agent!Finish(p, x, FALSE, 1, Agent!Result(p))
       \/ Agent!Finish(p, z, FALSE, 0, Agent!Result(p))
       \/ Agent!Saving(p, "loop", w) /\ stream' = log /\ UNCHANGED <<task, snaps, out, agent_world, broken>>
  <2> DEFINE x2 == [Agent!Executed(c) EXCEPT !.covered = IF ok THEN 2 ELSE @]
             w2 == [Agent!Executed(c) EXCEPT !.repair = @ \/ Agent!First(p).kind = "finish"]
  <2>1. x2 = z
    BY DEF Covering
  <2>2. w2 = w
    BY <1>2 DEF Agent!Executed, Done, CpRows
  <2>3. \/ Agent!Stop(p, c, TRUE)
        \/ ~Agent!Overtaken /\ Agent!Finish(p, x, FALSE, 1, Agent!Result(p))
        \/ Agent!Finish(p, x2, FALSE, 0, Agent!Result(p))
        \/ Agent!Saving(p, "loop", w2) /\ stream' = log /\ UNCHANGED <<task, snaps, out, agent_world, broken>>
    BY DEF Agent!Execute
  <2> HIDE DEF x2, w2, w, z, log, x
  <2> QED BY <2>1, <2>2, <2>3
<1> QED BY <1>8, <1>9, <1>10, <1>11, <1>12

\* The task changes while nobody holds its lease, or its lease ends.
LEMMA TaskMoves ==
  ASSUME AInv, UNCHANGED <<agent_saved, snaps, stream, out, agent_world, run>>, broken' \in Nat,
         TurnFits(task', out), task'.attempts = task.attempts,
         task'.status # "RUNNING" \/ task'.lapsed
  PROVE  AInv' /\ Honest
<1>1. \A q \in Exec : Standing(q)'
  BY DEF Standing, Agent!Holds
<1>2. LeasesDiffer'
  BY DEF AInv, LeasesDiffer
<1> QED BY <1>1, <1>2, HonestRest DEF AInv

\* The lease ends, or the seller retries the failed task.
LEMMA StepLeaseEnds == ASSUME AInv, Agent!LeaseEnds PROVE AInv' /\ Honest
<1>1. /\ task' = [task EXCEPT !.lapsed = TRUE] /\ task.status = "RUNNING"
      /\ UNCHANGED <<agent_saved, snaps, stream, out, agent_world, run>>
  BY DEF Agent!LeaseEnds
<1>2. broken' \in Nat
  BY DEF Agent!LeaseEnds, AInv
<1>3. task \in TaskRows
  BY DEF AInv, TurnFits
<1>4. /\ task' \in TaskRows /\ task'.lapsed /\ task'.status = task.status
      /\ task'.attempts = task.attempts /\ task'.limit = task.limit
  BY <1>1, <1>3 DEF TaskRows
<1>5. TurnFits(task', out)
  BY <1>4 DEF AInv, TurnFits
<1> QED BY <1>1, <1>2, <1>4, <1>5, TaskMoves

LEMMA StepRetryFailed == ASSUME AInv, AgentConstants, Agent!RetryFailed PROVE AInv' /\ Honest
<1> DEFINE k == task.limit + 1
<1>1. /\ task' = [task EXCEPT !.status = "PENDING", !.limit = k]
      /\ task.status = "FAILED" /\ task.limit = Attempts
      /\ UNCHANGED <<agent_saved, snaps, stream, out, agent_world, run, broken>>
  BY DEF Agent!RetryFailed
<1>2. task \in TaskRows /\ Attempts \in Nat
  BY DEF AInv, TurnFits, AgentConstants
<1>3. k \in Nat /\ k = Attempts + 1
  BY <1>1, <1>2
<1> HIDE DEF k
<1>4. /\ task' \in TaskRows /\ task'.status = "PENDING"
      /\ task'.attempts = task.attempts /\ task'.limit = k
  BY <1>1, <1>2, <1>3 DEF TaskRows
<1>5. task.attempts <= task'.limit
  <2>1. task.attempts \in Nat /\ task.attempts <= Attempts
    BY <1>1, <1>2 DEF AInv, TurnFits, TaskRows
  <2> QED BY <1>2, <1>3, <1>4, <2>1
<1>6. TurnFits(task', out)
  BY <1>1, <1>3, <1>4, <1>5 DEF AInv, TurnFits
<1>7. broken' \in Nat
  BY <1>1 DEF AInv
<1> QED BY <1>1, <1>4, <1>6, <1>7, TaskMoves

\* The world moves under the executions.
LEMMA WorldMoves ==
  ASSUME AInv, UNCHANGED <<task, agent_saved, snaps, stream, run, broken>>,
         agent_world' \in [moved : BOOLEAN, late : BOOLEAN, other : BOOLEAN], TurnFits(task, out')
  PROVE  AInv'
<1>1. \A q \in Exec : Standing(q)'
  BY DEF AInv, Standing, Agent!Holds
<1>2. LeasesDiffer'
  BY DEF AInv, LeasesDiffer
<1> QED BY <1>1, <1>2 DEF AInv

LEMMA StepWorld == ASSUME AInv, Agent!Move \/ Agent!TimeIsUp \/ Agent!OtherTurn PROVE AInv' /\ Honest
<1>1. /\ UNCHANGED <<task, agent_saved, snaps, stream, run, broken>>
      /\ agent_world' \in [moved : BOOLEAN, late : BOOLEAN, other : BOOLEAN]
  BY DEF Agent!Move, Agent!TimeIsUp, Agent!OtherTurn, AInv
<1>2. TurnFits(task, out)
  BY DEF AInv
<1>3. CASE UNCHANGED out
  BY <1>1, <1>2, <1>3, WorldMoves, HonestRest
<1>4. CASE Agent!OtherTurn
  <2>1. out \in OutRows /\ out' = [out EXCEPT !.version = 1, !.covered = 3]
    BY <1>2, <1>4 DEF TurnFits, Agent!OtherTurn
  <2>2. /\ out' \in OutRows /\ out'.replies = out.replies /\ out'.acts = out.acts
        /\ out'.version = 1 /\ out'.covered = 3
    BY <2>1 DEF OutRows
  <2>3. TurnFits(task, out')
    BY <1>2, <2>2 DEF TurnFits
  <2>4. Honest
    BY <2>1, <2>2 DEF Honest, Agent!ActsOnFreshFacts, Agent!CoversMore, OutRows
  <2> QED BY <1>1, <2>3, <2>4, WorldMoves
<1> QED BY <1>3, <1>4 DEF Agent!Move, Agent!TimeIsUp, Agent!OtherTurn

-------------------------------------------------------------------------------
(* The program.                                                                  *)

\* It holds initially.
LEMMA AgentStarts == ASSUME AgentConstants, Agent!Init PROVE AInv
<1>1. /\ task = [status |-> "PENDING", attempts |-> 0, limit |-> Attempts, lapsed |-> FALSE]
      /\ out = [replies |-> 0, acts |-> 0, version |-> 0, covered |-> 0]
      /\ agent_world = [moved |-> FALSE, late |-> FALSE, other |-> FALSE]
      /\ agent_saved = Agent!NoCheckpoint /\ snaps = <<>> /\ stream = <<>> /\ broken = 0
      /\ run = [p \in Exec |-> Agent!Off]
  BY DEF Agent!Init
<1>2. /\ Attempts \in Nat /\ Steps \in Nat /\ Calls \in Nat /\ Tools \in Nat
      /\ Upkeep \in Nat /\ Tokens \in Nat
  BY DEF AgentConstants
<1>3. TurnFits(task, out)
  BY <1>1, <1>2 DEF TurnFits, TaskRows, OutRows
<1>4. WithinBudgets(agent_saved)
  <2>1. <<>> \in Seq(CallRows) /\ Len(<<>>) = 0
    BY EmptySeq
  <2>2. IsFiniteSet({}) /\ Cardinality({}) = 0
    BY FS_EmptySet
  <2>3. agent_saved \in CpRows
    BY <1>1, <2>1 DEF Agent!NoCheckpoint, CpRows
  <2>4. agent_saved.pending = <<>> /\ agent_saved.reserved = {}
    BY <1>1 DEF Agent!NoCheckpoint
  <2>5. agent_saved.steps = 0 /\ agent_saved.calls = 0 /\ agent_saved.tools = 0 /\ agent_saved.upkeep = 0
    BY <1>1 DEF Agent!NoCheckpoint
  <2> QED BY <1>2, <2>1, <2>2, <2>3, <2>4, <2>5 DEF WithinBudgets
<1>5. CallsAreCounted(agent_saved, snaps)
  <2>1. snaps \in Seq(SnapRows) /\ Len(snaps) = 0
    BY <1>1, EmptySeq
  <2>2. OverIn(snaps) = {}
    BY <2>1 DEF OverIn
  <2>3. agent_saved.calls = 0 /\ agent_saved.tokens = 0
    BY <1>1 DEF Agent!NoCheckpoint
  <2> QED BY <1>2, <2>1, <2>2, <2>3 DEF CallsAreCounted
<1>6. Tells(stream, agent_saved.steps)
  <2>1. stream \in Seq(Keyed) /\ Len(stream) = 0
    BY <1>1, EmptySeq
  <2>2. Said(stream) = {}
    <3>1. \A x : x \in Said(stream) <=> \E i \in 1 .. Len(stream) : stream[i] = x
      BY <2>1, SaidSomewhere
    <3>2. \A i \in 1 .. Len(stream) : FALSE
      BY <2>1
    <3> QED BY <3>1, <3>2
  <2>3. agent_saved.steps = 0
    BY <1>1 DEF Agent!NoCheckpoint
  <2> QED BY <2>1, <2>2, <2>3, FS_EmptySet DEF Tells
<1>7. Unsaid(agent_saved, stream)
  <2>1. Len(agent_saved.pending) = 0
    BY <1>1 DEF Agent!NoCheckpoint
  <2> QED BY <2>1 DEF Unsaid
<1>8. run \in [Exec -> RunRows] /\ \A p \in Exec : run[p].at = "off" /\ run[p].token = 0
  BY <1>1, OffIsRow
<1>9. LeasesDiffer /\ \A p \in Exec : Standing(p)
  BY <1>1, <1>8 DEF LeasesDiffer, Standing
<1> QED BY <1>1, <1>3, <1>4, <1>5, <1>6, <1>7, <1>8, <1>9 DEF AInv, Fits

\* What the model may answer is an answer.
LEMMA RepliesAreAnswers == \A purpose : Agent!Replies(purpose) \subseteq AnswerRows
BY DEF Agent!Replies, AnswerRows, Agent!Proposals

\* Nothing happens.
LEMMA AgentStutters == ASSUME AInv, UNCHANGED agent PROVE AInv' /\ Honest
<1>1. UNCHANGED <<task, agent_saved, snaps, stream, run, broken>> /\ UNCHANGED out /\ UNCHANGED agent_world
  BY DEF agent
<1>2. TurnFits(task, out') /\ agent_world' \in [moved : BOOLEAN, late : BOOLEAN, other : BOOLEAN]
  BY <1>1 DEF AInv
<1> QED BY <1>1, <1>2, WorldMoves, HonestRest

\* Every step of an execution.
LEMMA StepWork == ASSUME AgentConstants, AInv, NEW p \in Exec, Agent!Work(p) PROVE AInv' /\ Honest
<1>1. CASE \E over \in 0..1, answer \in Agent!Replies(run[p].key[1]) :
             /\ over = 0 \/ (Agent!Overrun = {} /\ run[p].key[1] \in Agent!Loop)
             /\ Agent!Answer(p, answer, over)
  <2>1. PICK over \in {0, 1}, answer \in AnswerRows :
          /\ over = 0 \/ (Agent!Overrun = {} /\ run[p].key[1] \in Agent!Loop)
          /\ Agent!Answer(p, answer, over)
    <3>1. 0 .. 1 = {0, 1}
      OBVIOUS
    <3> QED BY <1>1, <3>1, RepliesAreAnswers
  <2> QED BY <2>1, StepAnswer
<1>2. CASE Agent!Take(p) \/ Agent!Lost(p) \/ Agent!CheckRound(p) \/ Agent!Send(p) \/ Agent!Reconcile(p) \/ Agent!CallFails(p)
  BY <1>2, StepTake, StepLost, StepCheckRound, StepSend, StepReconcile, StepCallFails
<1>3. CASE \E retryable \in BOOLEAN : Agent!GiveBack(p, retryable)
  BY <1>3, StepGiveBack
<1>4. CASE Agent!Recall(p) \/ Agent!Compress(p) \/ Agent!Think(p)
  BY <1>4, StepRound
<1>5. CASE Agent!OutOfSteps(p) \/ Agent!Refresh(p) \/ Agent!SaveStep(p)
  BY <1>5, StepOutOfSteps, StepRefresh, StepSaveStep
<1>6. CASE Agent!ReserveTool(p) \/ Agent!Review(p)
  BY <1>6, StepReserveTool, StepReview
<1>7. CASE \E verdict \in {"yes", "no"} : Agent!StoreVerdict(p, verdict)
  BY <1>7, StepStoreVerdict
<1>8. CASE \E ok \in BOOLEAN : Agent!Execute(p, ok)
  BY <1>8, StepExecute
<1> QED BY <1>1, <1>2, <1>3, <1>4, <1>5, <1>6, <1>7, <1>8 DEF Agent!Work

\* Every step.
LEMMA AgentStep == ASSUME AgentConstants, AInv, Agent!Next \/ UNCHANGED agent PROVE AInv' /\ Honest
<1>1. CASE \E p \in Exec : Agent!Work(p) \/ Agent!Die(p)
  BY <1>1, StepWork, StepDie
<1>2. CASE Agent!Move \/ Agent!TimeIsUp \/ Agent!OtherTurn
  BY <1>2, StepWorld
<1>3. CASE Agent!RetryFailed \/ Agent!LeaseEnds
  BY <1>3, StepRetryFailed, StepLeaseEnds
<1>4. CASE UNCHANGED agent
  BY <1>4, AgentStutters
<1> QED BY <1>1, <1>2, <1>3, <1>4 DEF Agent!Next

-------------------------------------------------------------------------------
(* What the invariant says.                                                      *)

\* The instance counts as this module does.
LEMMA CountsAgree == \A S : Agent!Cardinality(S) = Cardinality(S)
BY DEF Agent!Cardinality, Cardinality

\* The rows and the budgets.
LEMMA AgentRows == ASSUME AgentConstants, AInv PROVE Agent!TypeOK
<1>1. /\ task \in TaskRows /\ out \in OutRows /\ agent_saved \in CpRows /\ WithinBudgets(agent_saved)
      /\ CallsAreCounted(agent_saved, snaps)
  BY DEF AInv, TurnFits, Fits, WithinBudgets
<1>2. /\ task.status \in {"PENDING", "RUNNING", "RETRY_WAIT", "FAILED", "SUCCEEDED", "STALE"}
      /\ task.attempts \in Nat /\ task.limit \in Nat /\ task.attempts <= task.limit
      /\ task.limit \in {Attempts, Attempts + 1}
  BY <1>1 DEF TaskRows, AInv, TurnFits
<1>3. /\ Attempts \in Nat /\ Steps \in Nat /\ Calls \in Nat /\ Tools \in Nat
      /\ Upkeep \in Nat /\ Tokens \in Nat /\ Tokens # 0
  BY DEF AgentConstants
<1>4. task.attempts \in 0..task.limit /\ task.limit \in Attempts..(Attempts + 1)
  BY <1>2, <1>3
<1>5. /\ agent_saved.steps \in 0..Steps /\ agent_saved.calls \in 0..Calls /\ agent_saved.tools \in 0..Tools
      /\ agent_saved.upkeep \in 0..Upkeep /\ Cardinality(agent_saved.reserved) = agent_saved.tools
  BY <1>1, <1>3, CpFields DEF WithinBudgets
<1>6. agent_saved.tokens \in 0..(2 * Tokens)
  <2>1. agent_saved.tokens \in Nat /\ agent_saved.tokens <= Tokens + 1
    BY <1>1, <1>3, CpFields DEF CallsAreCounted
  <2> QED BY <1>3, <2>1
<1>7. out.replies \in 0..1 /\ out.acts \in 0..out.replies
  BY <1>1 DEF OutRows, AInv, TurnFits
<1> QED BY <1>2, <1>4, <1>5, <1>6, <1>7, CountsAgree DEF Agent!TypeOK

\* What one call used beyond its reservation is counted when the next question is asked.
LEMMA SpendCounts == ASSUME AInv PROVE Agent!SpendIsCounted
<1> SUFFICES ASSUME NEW p \in Exec, run[p].at = "wait", run[p].key[1] \notin Agent!Maintenance, Agent!Holds(p)
             PROVE  Len(snaps) + Cardinality(Agent!Overrun) <= agent_saved.tokens
  BY CountsAgree DEF Agent!SpendIsCounted
<1>1. /\ run[p].cp \in CpRows /\ Copies(run[p].cp, agent_saved) /\ Sound(run[p], snaps)
      /\ Fits(agent_saved, snaps, stream)
  BY HolderKnows DEF AInv
<1>2. AgentAsks(run[p].key, run[p].cp) /\ OpenIn(snaps, run[p].key)
  BY <1>1 DEF Sound, AgentReserves
<1>3. CallsAreCounted(agent_saved, snaps) /\ agent_saved \in CpRows
  BY <1>1 DEF Fits, WithinBudgets
<1>4. /\ Len(snaps) \in Nat /\ DOMAIN snaps = 1 .. Len(snaps) /\ agent_saved.calls \in Nat
      /\ agent_saved.tokens \in Nat
  BY <1>3, SnapsAre, CpFields DEF CallsAreCounted
<1>5. Agent!Overrun = OverIn(snaps)
  BY <1>4 DEF Agent!Overrun, OverIn
<1>6. NextKey(run[p].cp) = NextKey(agent_saved)
  BY <1>1, NextKeyStays DEF Copies
<1>7. ~Unpaid(agent_saved, snaps)
  <2> SUFFICES ASSUME agent_saved.pending = <<>>, NEW i \in OverIn(snaps), snaps[i].key = NextKey(agent_saved)
               PROVE  FALSE
    BY DEF Unpaid
  <2>1. i \in 1 .. Len(snaps) /\ snaps[i].status = "SUCCEEDED"
    BY <1>3 DEF OverIn, CallsAreCounted
  <2>2. run[p].key[1] \in Agent!Loop
    BY <1>1, <1>2 DEF AgentAsks, Copies
  <2>3. snaps[i].key = run[p].key
    BY <1>2, <1>6, <2>2 DEF AgentAsks
  <2> QED BY <1>2, <2>1, <2>3 DEF OpenIn
<1>8. CASE Agent!Overrun = {}
  <2>1. Cardinality(Agent!Overrun) = 0
    BY <1>8, FS_EmptySet
  <2> QED BY <1>3, <1>4, <2>1 DEF CallsAreCounted
<1>9. CASE Agent!Overrun # {}
  <2>1. PICK i \in Agent!Overrun : TRUE
    BY <1>9
  <2>2. Agent!Overrun = {i}
    BY <1>3, <1>5, <2>1 DEF CallsAreCounted
  <2>3. Cardinality(Agent!Overrun) = 1
    BY <2>2, FS_Singleton
  <2>4. Len(snaps) <= agent_saved.calls /\ agent_saved.calls + 1 <= agent_saved.tokens
    BY <1>3, <1>5, <1>7, <1>9 DEF CallsAreCounted
  <2> QED BY <1>4, <2>3, <2>4
<1> QED BY <1>8, <1>9

\* The stream and the checkpoint.
LEMMA StreamTells == ASSUME AgentConstants, AInv PROVE Agent!StreamMatchesCheckpoint
<1>1. Tells(stream, agent_saved.steps) /\ Unsaid(agent_saved, stream) /\ WithinBudgets(agent_saved)
  BY DEF AInv, Fits
<1>2. stream \in Seq(Keyed) /\ Cardinality(Said(stream)) = Len(stream)
  BY <1>1 DEF Tells
<1>3. agent_saved.steps \in Nat /\ agent_saved.steps <= Steps /\ Steps \in Nat
  BY <1>1, CpFields DEF WithinBudgets, AgentConstants
<1>4. DOMAIN agent_saved.pending = 1 .. Len(agent_saved.pending)
  BY <1>1, CpFields, LenProperties DEF WithinBudgets
<1>5. Cardinality({stream[i] : i \in DOMAIN stream}) = Len(stream)
  BY <1>2 DEF Said
<1>6. {n \in 1..Steps : \E i \in DOMAIN stream : stream[i] = <<"step", n>>} = 1..agent_saved.steps
  <2>1. \A n \in Nat : (\E i \in DOMAIN stream : stream[i] = <<"step", n>>) <=> n \in 1 .. agent_saved.steps
    <3>1. \A x : x \in Said(stream) <=> \E i \in DOMAIN stream : stream[i] = x
      BY DEF Said
    <3> QED BY <1>1, <3>1 DEF Tells
  <2> QED BY <1>3, <2>1
<1>7. \A i \in DOMAIN stream : stream[i][1] = "result" => Agent!Issued(stream[i])
  <2> SUFFICES ASSUME NEW i \in DOMAIN stream, stream[i][1] = "result"
               PROVE  stream[i][2][1] <= agent_saved.steps
    BY DEF Agent!Issued
  <2>1. stream[i] \in Said(stream)
    BY DEF Said
  <2> QED BY <1>1, <2>1 DEF Tells
<1>8. \A c \in DOMAIN agent_saved.pending : \A i \in DOMAIN stream : stream[i] # <<"result", agent_saved.pending[c].id>>
  <2> SUFFICES ASSUME NEW c \in 1 .. Len(agent_saved.pending), NEW i \in DOMAIN stream
               PROVE  stream[i] # <<"result", agent_saved.pending[c].id>>
    BY <1>4
  <2>1. stream[i] \in Said(stream)
    BY DEF Said
  <2> QED BY <1>1, <2>1 DEF Unsaid
<1> QED BY <1>5, <1>6, <1>7, <1>8, CountsAgree DEF Agent!StreamMatchesCheckpoint

\* Requests are reserved, answers bought once, and the turn ends once.
LEMMA CallsKept == ASSUME AInv PROVE Agent!RequestsAreReserved /\ Agent!OneAnswerPerStep /\ Agent!EndsOnce
<1>1. CallsAreCounted(agent_saved, snaps)
  BY DEF AInv, Fits
<1>2. DOMAIN snaps = 1 .. Len(snaps)
  BY <1>1, SnapsAre DEF CallsAreCounted
<1>3. Agent!RequestsAreReserved
  BY <1>1 DEF CallsAreCounted, Agent!RequestsAreReserved
<1>4. Agent!OneAnswerPerStep
  BY <1>1, <1>2 DEF CallsAreCounted, Agent!OneAnswerPerStep
<1>5. Agent!EndsOnce
  BY DEF AInv, TurnFits, Agent!EndsOnce
<1> QED BY <1>3, <1>4, <1>5

-------------------------------------------------------------------------------
(* The run, with the agent.                                                     *)

\* In a behaviour of the agent its invariant holds (agent_runtime_service.py).
AgentHolds == scope = "agent" => AInv

\* Its rows take the steps of AgentRuntime and no others.
LEMMA AgentRuns == TurnsSpec => []AgentHolds
<1>1. TurnsInit => AgentHolds
  BY AgentValues, AgentStarts DEF TurnsInit, AgentHolds
<1>2. AgentHolds /\ [TurnsNext]_turns => AgentHolds'
  <2> SUFFICES ASSUME AgentHolds, [TurnsNext]_turns, scope' = "agent" PROVE AInv'
    BY DEF AgentHolds
  <2>1. scope = "agent" /\ AInv
    BY DEF AgentHolds, TurnsNext, turns
  <2>2. Agent!Next \/ UNCHANGED agent
    BY <2>1 DEF TurnsNext, turns
  <2> QED BY <2>1, <2>2, AgentValues, AgentStep
<1> QED BY <1>1, <1>2, PTL DEF TurnsSpec

\* However many executions share a turn of the agent and wherever they die, it reserves
\* what it sends, buys an answer once, logs every step and result once, pays what its calls
\* used and ends once (agent_runtime_service.py, agent/runtime.py).
THEOREM AgentAccount == TurnsSpec => []AgentIsAccountedFor
<1>1. AgentHolds => AgentIsAccountedFor
  BY AgentValues, AgentRows, CallsKept, StreamTells, SpendCounts DEF AgentHolds, AgentIsAccountedFor
<1> QED BY AgentRuns, <1>1, PTL

\* What was planned, said or shown is kept in every behaviour of the run: the plan of a turn,
\* the conditions and commitments of a draft and the card they were shown on, the evidence of
\* an agreement, the facts of a formal act and what the shared memory covers (semantic_graph.py,
\* semantic/service.py, agent_runtime_service.py).
THEOREM WordsKept == TurnsSpec => WordsAreKept
<1> DEFINE Keeping == CASE scope = "semantic" -> KeepsPlan
                        [] scope = "drafts" -> Draft!KeepsConditions /\ Draft!ContinuesAsShown
                                               /\ Draft!AgreesOnEvidence
                        [] scope = "agent" -> Agent!ActsOnFreshFacts /\ Agent!CoversMore
<1>1. TurnsInit => TurnHolds
  BY TurnsStart
<1>2. TurnHolds /\ [TurnsNext]_turns => TurnHolds'
  BY TurnsStep
<1>3. TurnHolds /\ DraftsHold /\ AgentHolds /\ [TurnsNext]_turns => [Keeping]_turns
  <2> SUFFICES ASSUME TurnHolds, DraftsHold, AgentHolds, TurnsNext PROVE Keeping
    OBVIOUS
  <2>1. CASE scope = "semantic"
    <3>1. IInv /\ Next
      BY <2>1 DEF TurnHolds, TurnsNext
    <3>2. KeepsPlan
      BY <3>1, EachStep
    <3> QED BY <2>1, <3>2
  <2>2. CASE scope = "drafts"
    <3>1. Draft!DInv /\ Draft!Next
      BY <2>2 DEF DraftsHold, TurnsNext
    <3>2. Draft!DraftsKept
      BY <3>1, DraftValues, Draft!DraftsStep
    <3>3. Draft!KeepsConditions
      BY <3>2, DraftValues, Draft!ConditionsKept
    <3>4. Draft!ContinuesAsShown
      BY <3>1, <3>2, DraftValues, Draft!ContinuedAsShown
    <3>5. Draft!AgreesOnEvidence
      BY <3>1, DraftValues, Draft!AgreedOnEvidence
    <3> QED BY <2>2, <3>3, <3>4, <3>5
  <2>3. CASE scope = "agent"
    <3>1. AInv /\ Agent!Next
      BY <2>3 DEF AgentHolds, TurnsNext
    <3>2. Honest
      BY <3>1, AgentValues, AgentStep
    <3> QED BY <2>3, <3>2 DEF Honest
  <2>4. scope \in {"semantic", "drafts", "agent"}
    BY DEF TurnsNext
  <2> QED BY <2>1, <2>2, <2>3, <2>4
<1>4. TurnsSpec => [][Keeping]_turns
  <2> HIDE DEF Keeping
  <2> QED BY <1>1, <1>2, <1>3, DraftsRun, AgentRuns, PTL DEF TurnsSpec
<1> QED BY <1>4 DEF WordsAreKept
===============================================================================
