-------------------------- MODULE GraphRuntimeProofs --------------------------
(***************************************************************************)
(* Proofs about the Graph runtime for any number of processes, inputs,     *)
(* attempts, faults and seller actions: first ownership and the number of  *)
(* attempts, then the order in which the inputs of a session are handled.  *)
(*                                                                         *)
(* For the order, every step of the runtime is reduced to what it does to  *)
(* the rows of the inputs (Minor, or the Resolves of a finalization) and to*)
(* what it does to processes, lock and checkpoint (Moves, Leaves).  The    *)
(* inductive invariant IInv, the action properties and the refinement of   *)
(* TurnProtocol are then proved from those few relations.                  *)
(***************************************************************************)
EXTENDS GraphRuntime, SequenceTheorems, TLAPS

-------------------------------------------------------------------------------
(* Updating one field of one row keeps a table well formed.                *)

\* The process rows.
LEMMA ProcessFields ==
    ASSUME NEW f \in [Instance -> ProcessRow], NEW k \in Instance
    PROVE  /\ \A v \in Step : [f EXCEPT ![k].pc = v] \in [Instance -> ProcessRow]
           /\ \A v \in Inputs : [f EXCEPT ![k].run = v] \in [Instance -> ProcessRow]
           /\ \A v \in Stages : [f EXCEPT ![k].node = v] \in [Instance -> ProcessRow]
           /\ \A v \in Nat : [f EXCEPT ![k].owner = v] \in [Instance -> ProcessRow]
           /\ \A v \in {"NONE", "REGISTERED", "REVOKED"} : [f EXCEPT ![k].row = v] \in [Instance -> ProcessRow]
           /\ \A v \in Nat : [f EXCEPT ![k].token = v] \in [Instance -> ProcessRow]
           /\ \A v \in BOOLEAN : [f EXCEPT ![k].young = v] \in [Instance -> ProcessRow]
           /\ \A v \in BOOLEAN : [f EXCEPT ![k].conn = v] \in [Instance -> ProcessRow]
           /\ \A v \in {"off", "watch", "expired", "fenced"} : [f EXCEPT ![k].watch = v] \in [Instance -> ProcessRow]
<1>1. f[k] \in ProcessRow
  OBVIOUS
<1>2. \A v \in Step : [f EXCEPT ![k].pc = v] \in [Instance -> ProcessRow]
  BY <1>1 DEF ProcessRow
<1>3. \A v \in Inputs : [f EXCEPT ![k].run = v] \in [Instance -> ProcessRow]
  BY <1>1 DEF ProcessRow
<1>4. \A v \in Stages : [f EXCEPT ![k].node = v] \in [Instance -> ProcessRow]
  BY <1>1 DEF ProcessRow
<1>5. \A v \in Nat : [f EXCEPT ![k].owner = v] \in [Instance -> ProcessRow]
  BY <1>1 DEF ProcessRow
<1>6. \A v \in {"NONE", "REGISTERED", "REVOKED"} : [f EXCEPT ![k].row = v] \in [Instance -> ProcessRow]
  BY <1>1 DEF ProcessRow
<1>7. \A v \in Nat : [f EXCEPT ![k].token = v] \in [Instance -> ProcessRow]
  BY <1>1 DEF ProcessRow
<1>8. \A v \in BOOLEAN : [f EXCEPT ![k].young = v] \in [Instance -> ProcessRow]
  BY <1>1 DEF ProcessRow
<1>9. \A v \in BOOLEAN : [f EXCEPT ![k].conn = v] \in [Instance -> ProcessRow]
  BY <1>1 DEF ProcessRow
<1>10. \A v \in {"off", "watch", "expired", "fenced"} : [f EXCEPT ![k].watch = v] \in [Instance -> ProcessRow]
  BY <1>1 DEF ProcessRow
<1> QED
  BY <1>2, <1>3, <1>4, <1>5, <1>6, <1>7, <1>8, <1>9, <1>10

\* The task rows.
LEMMA TaskFields ==
    ASSUME NEW f \in [Inputs -> TaskRow], NEW k \in Inputs
    PROVE  /\ \A v \in TaskStatus : [f EXCEPT ![k].status = v] \in [Inputs -> TaskRow]
           /\ \A v \in Nat : [f EXCEPT ![k].token = v] \in [Inputs -> TaskRow]
           /\ \A v \in BOOLEAN : [f EXCEPT ![k].live = v] \in [Inputs -> TaskRow]
           /\ \A v \in BOOLEAN : [f EXCEPT ![k].grace = v] \in [Inputs -> TaskRow]
           /\ \A v \in BOOLEAN : [f EXCEPT ![k].retryAt = v] \in [Inputs -> TaskRow]
           /\ \A v \in Nat : [f EXCEPT ![k].attempts = v] \in [Inputs -> TaskRow]
           /\ \A v \in Nat : [f EXCEPT ![k].max = v] \in [Inputs -> TaskRow]
           /\ \A v \in {"NONE", "RETRY", "TERMINATE"} : [f EXCEPT ![k].action = v] \in [Inputs -> TaskRow]
<1>1. f[k] \in TaskRow
  OBVIOUS
<1>2. \A v \in TaskStatus : [f EXCEPT ![k].status = v] \in [Inputs -> TaskRow]
  BY <1>1 DEF TaskRow
<1>3. \A v \in Nat : [f EXCEPT ![k].token = v] \in [Inputs -> TaskRow]
  BY <1>1 DEF TaskRow
<1>4. \A v \in BOOLEAN : [f EXCEPT ![k].live = v] \in [Inputs -> TaskRow]
  BY <1>1 DEF TaskRow
<1>5. \A v \in BOOLEAN : [f EXCEPT ![k].grace = v] \in [Inputs -> TaskRow]
  BY <1>1 DEF TaskRow
<1>6. \A v \in BOOLEAN : [f EXCEPT ![k].retryAt = v] \in [Inputs -> TaskRow]
  BY <1>1 DEF TaskRow
<1>7. \A v \in Nat : [f EXCEPT ![k].attempts = v] \in [Inputs -> TaskRow]
  BY <1>1 DEF TaskRow
<1>8. \A v \in Nat : [f EXCEPT ![k].max = v] \in [Inputs -> TaskRow]
  BY <1>1 DEF TaskRow
<1>9. \A v \in {"NONE", "RETRY", "TERMINATE"} : [f EXCEPT ![k].action = v] \in [Inputs -> TaskRow]
  BY <1>1 DEF TaskRow
<1> QED
  BY <1>2, <1>3, <1>4, <1>5, <1>6, <1>7, <1>8, <1>9

\* The input rows.
LEMMA InputFields ==
    ASSUME NEW f \in [Inputs -> InputRow], NEW k \in Inputs
    PROVE  /\ \A v \in {"open", "closing", "closed"} : [f EXCEPT ![k].window = v] \in [Inputs -> InputRow]
           /\ \A v \in BOOLEAN : [f EXCEPT ![k].active = v] \in [Inputs -> InputRow]
           /\ \A v \in BOOLEAN : [f EXCEPT ![k].recovery = v] \in [Inputs -> InputRow]
           /\ \A v \in BOOLEAN : [f EXCEPT ![k].evidence = v] \in [Inputs -> InputRow]
<1>1. f[k] \in InputRow
  OBVIOUS
<1>2. \A v \in {"open", "closing", "closed"} : [f EXCEPT ![k].window = v] \in [Inputs -> InputRow]
  BY <1>1 DEF InputRow
<1>3. \A v \in BOOLEAN : [f EXCEPT ![k].active = v] \in [Inputs -> InputRow]
  BY <1>1 DEF InputRow
<1>4. \A v \in BOOLEAN : [f EXCEPT ![k].recovery = v] \in [Inputs -> InputRow]
  BY <1>1 DEF InputRow
<1>5. \A v \in BOOLEAN : [f EXCEPT ![k].evidence = v] \in [Inputs -> InputRow]
  BY <1>1 DEF InputRow
<1> QED
  BY <1>2, <1>3, <1>4, <1>5

\* The delivery rows.
LEMMA DeliveryFields ==
    ASSUME NEW f \in [Inputs -> DeliveryRow], NEW k \in Inputs
    PROVE  /\ \A v \in DeliveryStatus : [f EXCEPT ![k].status = v] \in [Inputs -> DeliveryRow]
           /\ \A v \in BOOLEAN : [f EXCEPT ![k].due = v] \in [Inputs -> DeliveryRow]
           /\ \A v \in Notifier \cup {Free} : [f EXCEPT ![k].token = v] \in [Inputs -> DeliveryRow]
           /\ \A v \in BOOLEAN : [f EXCEPT ![k].live = v] \in [Inputs -> DeliveryRow]
           /\ \A v \in Nat : [f EXCEPT ![k].attempts = v] \in [Inputs -> DeliveryRow]
<1>1. f[k] \in DeliveryRow
  OBVIOUS
<1>2. \A v \in DeliveryStatus : [f EXCEPT ![k].status = v] \in [Inputs -> DeliveryRow]
  BY <1>1 DEF DeliveryRow
<1>3. \A v \in BOOLEAN : [f EXCEPT ![k].due = v] \in [Inputs -> DeliveryRow]
  BY <1>1 DEF DeliveryRow
<1>4. \A v \in Notifier \cup {Free} : [f EXCEPT ![k].token = v] \in [Inputs -> DeliveryRow]
  BY <1>1 DEF DeliveryRow
<1>5. \A v \in BOOLEAN : [f EXCEPT ![k].live = v] \in [Inputs -> DeliveryRow]
  BY <1>1 DEF DeliveryRow
<1>6. \A v \in Nat : [f EXCEPT ![k].attempts = v] \in [Inputs -> DeliveryRow]
  BY <1>1 DEF DeliveryRow
<1> QED
  BY <1>2, <1>3, <1>4, <1>5, <1>6

-------------------------------------------------------------------------------
(* Type correctness.                                                       *)

\* The rows as first written are well formed.
LEMMA FirstRows ==
    /\ NewTask \in TaskRow
    /\ NewInput \in InputRow
    /\ NoDelivery \in DeliveryRow
    /\ NoProcess \in ProcessRow
    /\ \A outcome \in Outcome : NewDelivery(outcome) \in DeliveryRow
<1>1. /\ MaxAttempts \in Nat /\ MaxInputs \in Nat \ {0}
  BY ConstantsAssumption
<1>2. NewTask \in TaskRow
  BY <1>1 DEF NewTask, TaskRow, TaskStatus
<1>3. NewInput \in InputRow
  BY DEF NewInput, InputRow
<1>4. NoDelivery \in DeliveryRow
  BY DEF NoDelivery, DeliveryRow, DeliveryStatus, Outcome
<1>5. NoProcess \in ProcessRow
  BY <1>1 DEF NoProcess, ProcessRow, Inputs, Stages, Step
<1>6. \A outcome \in Outcome : NewDelivery(outcome) \in DeliveryRow
  BY DEF NewDelivery, NoDelivery, DeliveryRow, DeliveryStatus
<1> QED BY <1>2, <1>3, <1>4, <1>5, <1>6

\* The initial state is well formed.
LEMMA TypeInit == Init => TypeOK
<1> SUFFICES ASSUME Init PROVE TypeOK
  OBVIOUS
<1>1. MaxInputs \in Nat \ {0} /\ MaxFaults \in Nat /\ MaxManual \in Nat
  BY ConstantsAssumption
<1> QED BY <1>1, FirstRows DEF Init, TypeOK, Inputs, Holder, Stages

\* A task that stops running, and an attempt that is settled, are well formed.
LEMMA Unleasing ==
    ASSUME NEW t \in TaskRow,
           NEW status \in {"PENDING", "RETRY_WAIT", "FAILED", "SUCCEEDED"}
    PROVE  Unleased(t, status) \in TaskRow
BY DEF Unleased, TaskRow, TaskStatus

LEMMA Settling ==
    ASSUME NEW c \in InputRow
    PROVE  /\ Settle(c) \in InputRow
           /\ \A b \in BOOLEAN : [Settle(c) EXCEPT !.recovery = b] \in InputRow
BY DEF Settle, InputRow

\* A process that ends leaves well formed rows and frees at most its own lock.
LEMMA Exiting ==
    ASSUME TypeOK, NEW i \in Instance, NEW t, Exit(i, t)
    PROVE  exec' \in [Instance -> ProcessRow] /\ lock' \in Holder \cup {Free}
<1>1. exec[i] \in ProcessRow
  BY DEF TypeOK
<1>2. [exec[i] EXCEPT !.pc = "off", !.conn = FALSE, !.watch = "off",
                      !.owner = 0, !.node = "parse"] \in ProcessRow
  BY <1>1 DEF ProcessRow, Stages, Step
<1>3. exec' \in [Instance -> ProcessRow]
  BY <1>1, <1>2, FirstRows DEF TypeOK, Exit
<1> QED BY <1>3 DEF TypeOK, Exit

\* A step of the process itself.
LEMMA Moving ==
    ASSUME TypeOK, NEW i \in Instance, NEW pc \in Step
    PROVE  /\ Goto(i, pc) => exec' \in [Instance -> ProcessRow]
           /\ Fail(i, pc) => exec' \in [Instance -> ProcessRow]
<1>1. exec \in [Instance -> ProcessRow]
  BY DEF TypeOK
<1>2. "parse" \in Stages
  BY DEF Stages
<1>3. [exec EXCEPT ![i].pc = pc] \in [Instance -> ProcessRow]
  BY <1>1, ProcessFields
<1>4. [exec EXCEPT ![i].pc = pc, ![i].node = "parse"] \in [Instance -> ProcessRow]
  BY <1>2, <1>3, ProcessFields
<1> QED BY <1>3, <1>4 DEF Goto, Fail

\* Giving up, and revoking an owner, write well formed rows.
LEMMA GivingUp ==
    ASSUME TypeOK, NEW r \in Inputs, NEW row \in TaskRow, GiveUp(r, row)
    PROVE  task' \in [Inputs -> TaskRow] /\ input' \in [Inputs -> InputRow]
<1>1. input[r] \in InputRow
  BY DEF TypeOK
<1> QED BY <1>1, Settling DEF GiveUp, TypeOK

LEMMA Revoking ==
    ASSUME TypeOK, NEW i \in Instance, Revoke(i)
    PROVE  task' \in [Inputs -> TaskRow] /\ input' \in [Inputs -> InputRow]
<1>1. exec[i].run \in Inputs
  BY DEF TypeOK, ProcessRow
<1>2. task[exec[i].run] \in TaskRow /\ input[exec[i].run] \in InputRow
  BY <1>1 DEF TypeOK
<1> QED BY <1>1, <1>2, Unleasing, Settling DEF Revoke, TypeOK

\* A reply is created or published once.
LEMMA Replying ==
    ASSUME TypeOK, NEW r \in Inputs
    PROVE  /\ NoActionReply(r) => delivery' \in [Inputs -> DeliveryRow]
           /\ PublishReply(r) => /\ delivery' \in [Inputs -> DeliveryRow]
                                 /\ messages' \in Seq(Message)
<1>1. delivery[r] \in DeliveryRow
  BY DEF TypeOK
<1>2. NoActionReply(r) => delivery' \in [Inputs -> DeliveryRow]
  BY FirstRows DEF NoActionReply, TypeOK, Outcome
<1>3. /\ delivery \in [Inputs -> DeliveryRow] /\ messages \in Seq(Message)
      /\ "PUBLISHED" \in DeliveryStatus /\ Free \in Notifier \cup {Free}
  BY DEF TypeOK, DeliveryStatus
<1>4. PublishReply(r) => delivery' \in [Inputs -> DeliveryRow]
  BY <1>3, DeliveryFields DEF PublishReply, replyVars
<1>5. [run |-> r, outcome |-> delivery[r].outcome] \in Message
  BY <1>1 DEF Message, DeliveryRow
<1>6. PublishReply(r) => messages' \in Seq(Message)
  BY <1>3, <1>5 DEF PublishReply, replyVars
<1> QED BY <1>2, <1>4, <1>6

\* Every operation keeps every row well formed.
LEMMA TypeNext == TypeOK /\ [Next]_vars => TypeOK'
<1> SUFFICES ASSUME TypeOK, [Next]_vars PROVE TypeOK'
  OBVIOUS
<1> USE ConstantsAssumption DEF queueVars, replyVars, boundVars
<1> DEFINE RowsOK == /\ exec \in [Instance -> ProcessRow] /\ task \in [Inputs -> TaskRow]
                    /\ input \in [Inputs -> InputRow] /\ delivery \in [Inputs -> DeliveryRow]
<1>1. RowsOK
  BY DEF TypeOK
<1>2. ASSUME NEW i \in Instance
      PROVE  /\ exec[i] \in ProcessRow /\ exec[i].run \in Inputs
             /\ task[exec[i].run] \in TaskRow /\ input[exec[i].run] \in InputRow
  BY <1>1 DEF ProcessRow
<1>3. CASE Enqueue
  BY <1>3 DEF Enqueue, TypeOK
<1>4. ASSUME NEW i \in Instance, Spawn(i) PROVE TypeOK'
  <2>1. PICK r \in Inputs : exec' = [exec EXCEPT ![i] = [NoProcess EXCEPT !.pc = "start", !.run = r,
                                    !.watch = IF Quality THEN "watch" ELSE "off"]]
    BY <1>4 DEF Spawn, Child
  <2>2. [NoProcess EXCEPT !.pc = "start", !.run = r,
                          !.watch = IF Quality THEN "watch" ELSE "off"] \in ProcessRow
    BY FirstRows DEF ProcessRow, Step
  <2>3. exec' \in [Instance -> ProcessRow]
    BY <1>1, <2>1, <2>2
  <2> QED BY <1>4, <2>3 DEF Spawn, TypeOK
<1>5. ASSUME NEW i \in Instance, Connect(i) PROVE TypeOK'
  <2>1. exec' \in [Instance -> ProcessRow]
    BY <1>5, <1>1, ProcessFields DEF Connect, Step
  <2> QED BY <1>5, <2>1 DEF Connect, TypeOK
<1>6. ASSUME NEW i \in Instance, TryLock(i) PROVE TypeOK'
  <2>1. exec' \in [Instance -> ProcessRow]
    BY <1>6, <1>1, ProcessFields DEF TryLock, Goto, Step
  <2>2. lock' \in Holder \cup {Free}
    BY <1>6, <1>1 DEF TryLock, Holder
  <2> QED BY <1>6, <2>1, <2>2 DEF TryLock, TypeOK
<1>7. ASSUME NEW i \in Instance, ThreadBusy(i) PROVE TypeOK'
  <2>1. exec' \in [Instance -> ProcessRow] /\ lock' \in Holder \cup {Free}
    BY <1>7, <1>1, Exiting DEF ThreadBusy
  <2> QED BY <1>7, <2>1 DEF ThreadBusy, TypeOK
<1>8. ASSUME NEW i \in Instance, ClaimRefused(i) PROVE TypeOK'
  <2>1. exec' \in [Instance -> ProcessRow] /\ lock' \in Holder \cup {Free}
    BY <1>8, <1>1, Exiting DEF ClaimRefused
  <2> QED BY <1>8, <2>1 DEF ClaimRefused, TypeOK
<1>9. ASSUME NEW i \in Instance, ClaimExpired(i) PROVE TypeOK'
  <2>1. exec' \in [Instance -> ProcessRow] /\ lock' \in Holder \cup {Free}
    BY <1>9, <1>1, Exiting DEF ClaimExpired
  <2>2. Unleased(task[exec[i].run], "FAILED") \in TaskRow /\ task[exec[i].run].retryAt \in BOOLEAN
    BY <1>9, <1>2, Unleasing DEF TaskRow
  <2>3. ExpiredRow(exec[i].run) \in TaskRow
    BY <1>9, <1>1, <2>2 DEF ExpiredRow, TaskRow
  <2>4. task' \in [Inputs -> TaskRow] /\ input' \in [Inputs -> InputRow]
    BY <1>9, <1>1, <1>2, <2>3, GivingUp DEF ClaimExpired
  <2> QED BY <1>9, <2>1, <2>4 DEF ClaimExpired, TypeOK
<1>10. ASSUME NEW i \in Instance, ClaimExhausted(i) PROVE TypeOK'
  <2>1. exec' \in [Instance -> ProcessRow] /\ lock' \in Holder \cup {Free}
    BY <1>10, <1>1, Exiting DEF ClaimExhausted
  <2>2. ExhaustedRow(exec[i].run) \in TaskRow
    BY <1>10, <1>2, Unleasing DEF ExhaustedRow
  <2>3. task' \in [Inputs -> TaskRow] /\ input' \in [Inputs -> InputRow]
    BY <1>10, <1>2, <2>2, GivingUp DEF ClaimExhausted
  <2> QED BY <1>10, <2>1, <2>3 DEF ClaimExhausted, TypeOK
<1>11. ASSUME NEW i \in Instance, Claim(i) PROVE TypeOK'
  <2>1. task[exec[i].run].attempts + 1 \in Nat
    BY <1>11, <1>2 DEF TaskRow
  <2>2. CleanupOnly(exec[i].run) \in BOOLEAN
    BY <1>11, <1>1 DEF CleanupOnly
  <2>3. [task[exec[i].run] EXCEPT !.status = "RUNNING", !.token = task[exec[i].run].attempts + 1,
          !.live = TRUE, !.grace = CleanupOnly(exec[i].run), !.retryAt = FALSE,
          !.attempts = task[exec[i].run].attempts + 1] \in TaskRow
    BY <1>11, <1>2, <2>1, <2>2 DEF TaskRow, TaskStatus
  <2>4. task' \in [Inputs -> TaskRow]
    BY <1>11, <1>1, <1>2, <2>3 DEF Claim
  <2>5. input' \in [Inputs -> InputRow]
    BY <1>11, <1>1, <1>2, InputFields DEF Claim
  <2>6. exec' \in [Instance -> ProcessRow]
    BY <1>11, <1>1, ProcessFields, <2>1 DEF Claim, Step
  <2> QED BY <1>11, <2>4, <2>5, <2>6 DEF Claim, TypeOK
<1>12. ASSUME NEW i \in Instance, Attach(i) PROVE TypeOK'
  <2>1. exec[i].owner \in Nat
    BY <1>12, <1>2 DEF ProcessRow
  <2>2. [exec EXCEPT ![i].pc = "attached", ![i].token = exec[i].owner, ![i].young = FALSE]
         \in [Instance -> ProcessRow]
    BY <1>12, <1>1, ProcessFields, <2>1 DEF Step
  <2>3. Fail(i, "release") => exec' \in [Instance -> ProcessRow]
    BY <1>12, <1>1, Moving DEF Step
  <2>4. exec' \in [Instance -> ProcessRow]
    BY <1>12, <1>1, <2>2, <2>3 DEF Attach
  <2> QED BY <1>12, <2>3, <2>4 DEF Attach, TypeOK
<1>13. ASSUME NEW i \in Instance, Enter(i) PROVE TypeOK'
  <2>1. \A pc \in {"abort", "finalize", "node", "release", "conflict"}, node \in Stages :
             [exec EXCEPT ![i].pc = pc, ![i].node = node] \in [Instance -> ProcessRow]
    BY <1>1, ProcessFields DEF Step
  <2>2. exec[i].node \in Stages
    BY <1>2 DEF ProcessRow
  <2>3. checkpoint.next # "END" => checkpoint.next \in Stages
    BY DEF TypeOK
  <2>4. exec' \in [Instance -> ProcessRow]
    <3>1. {"abort", "finalize", "node", "release", "conflict"} \subseteq Step /\ "parse" \in Stages
      BY DEF Step, Stages
    <3>2. \/ Goto(i, "abort") \/ Fail(i, "release") \/ Fail(i, "conflict")
          \/ \E pc \in {"finalize", "node"}, node \in Stages :
                exec' = [exec EXCEPT ![i].pc = pc, ![i].node = node]
      BY <1>13, <2>2, <2>3, <3>1 DEF Enter
    <3>3. (\E pc \in {"finalize", "node"}, node \in Stages :
                exec' = [exec EXCEPT ![i].pc = pc, ![i].node = node])
          => exec' \in [Instance -> ProcessRow]
      BY <2>1
    <3>4. (Goto(i, "abort") \/ Fail(i, "release") \/ Fail(i, "conflict"))
          => exec' \in [Instance -> ProcessRow]
      BY <3>1, Moving
    <3> QED BY <3>2, <3>3, <3>4
  <2>5. checkpoint' \in [run : 0..MaxInputs, next : Stages \cup {"END"}]
    BY <1>13, <1>2 DEF Enter, Stages, Inputs, TypeOK
  <2> QED BY <1>13, <2>4, <2>5 DEF Enter, TypeOK
<1>14. ASSUME NEW i \in Instance, StageStale(i) PROVE TypeOK'
  <2>1. exec' \in [Instance -> ProcessRow]
    BY <1>14, <1>1, ProcessFields DEF StageStale, Fail, Step, Stages
  <2> QED BY <1>14, <2>1 DEF StageStale, TypeOK
<1>15. ASSUME NEW i \in Instance, Parse(i) PROVE TypeOK'
  <2>1. exec' \in [Instance -> ProcessRow]
    BY <1>15, <1>1, ProcessFields DEF Parse, Goto, Step
  <2>2. input' \in [Inputs -> InputRow]
    BY <1>15, <1>1, <1>2, InputFields DEF Parse
  <2> QED BY <1>15, <2>1, <2>2 DEF Parse, TypeOK
<1>16. ASSUME NEW i \in Instance, CheckBudget(i) PROVE TypeOK'
  <2>1. exec' \in [Instance -> ProcessRow]
    BY <1>16, <1>1, Moving DEF CheckBudget, Step
  <2>2. delivery' \in [Inputs -> DeliveryRow]
    BY <1>16, <1>2, Replying DEF CheckBudget, TypeOK
  <2> QED BY <1>16, <2>1, <2>2 DEF CheckBudget, TypeOK
<1>17. ASSUME NEW i \in Instance, CommitAction(i) PROVE TypeOK'
  <2>1. exec' \in [Instance -> ProcessRow]
    BY <1>17, <1>1, Moving DEF CommitAction, Step
  <2>2. delivery' \in [Inputs -> DeliveryRow]
    BY <1>17, FirstRows, <1>2 DEF CommitAction, TypeOK, Outcome
  <2>3. receipts' \subseteq Inputs
    BY <1>17, <1>2 DEF CommitAction, TypeOK
  <2> QED BY <1>17, <2>1, <2>2, <2>3 DEF CommitAction, TypeOK
<1>18. ASSUME NEW i \in Instance, CommitNothing(i) PROVE TypeOK'
  <2>1. exec' \in [Instance -> ProcessRow]
    BY <1>18, <1>1, ProcessFields DEF CommitNothing, Goto, Step
  <2>2. delivery' \in [Inputs -> DeliveryRow]
    BY <1>18, <1>2, Replying DEF CommitNothing
  <2> QED BY <1>18, <2>1, <2>2 DEF CommitNothing, TypeOK
<1>19. ASSUME NEW i \in Instance, Compose(i) PROVE TypeOK'
  <2>1. exec' \in [Instance -> ProcessRow]
    BY <1>19, <1>1, ProcessFields DEF Compose, Goto, Step
  <2> QED BY <1>19, <2>1 DEF Compose, TypeOK
<1>20. ASSUME NEW i \in Instance, Publish(i) PROVE TypeOK'
  <2>1. exec' \in [Instance -> ProcessRow]
    BY <1>20, <1>1, ProcessFields DEF Publish, Goto, Step
  <2>2. delivery' \in [Inputs -> DeliveryRow] /\ messages' \in Seq(Message)
    BY <1>20, <1>2, Replying DEF Publish
  <2> QED BY <1>20, <2>1, <2>2 DEF Publish, TypeOK
<1>21. ASSUME NEW i \in Instance, SaveCheckpoint(i) PROVE TypeOK'
  <2>1. After(exec[i].node) \in Stages \cup {"END"}
    BY <1>21, <1>2 DEF After, Stages, ProcessRow
  <2>2. After(exec[i].node) # "END" => After(exec[i].node) \in Stages
    BY <1>21, <1>1, <2>1
  <2>3. "parse" \in Stages /\ {"finalize", "node"} \subseteq Step
    BY <1>21, <1>1 DEF Stages, Step
  <2>4. \/ Fail(i, "release")
        \/ \E pc \in {"finalize", "node"}, node \in Stages :
              exec' = [exec EXCEPT ![i].pc = pc, ![i].node = node]
    <3> DEFINE pc == IF After(exec[i].node) = "END" THEN "finalize" ELSE "node"
               node == IF After(exec[i].node) = "END" THEN "parse" ELSE After(exec[i].node)
    <3>1. exec[i].conn => exec' = [exec EXCEPT ![i].pc = pc, ![i].node = node]
      BY <1>21 DEF SaveCheckpoint
    <3>2. ~exec[i].conn => Fail(i, "release")
      BY <1>21 DEF SaveCheckpoint
    <3>3. pc \in {"finalize", "node"} /\ node \in Stages
      BY <2>2, <2>3
    <3> HIDE DEF pc, node
    <3> QED BY <3>1, <3>2, <3>3
  <2>5. \A pc \in {"finalize", "node"}, node \in Stages :
             [exec EXCEPT ![i].pc = pc, ![i].node = node] \in [Instance -> ProcessRow]
    BY <1>21, <1>1, ProcessFields, <2>3
  <2>6. Fail(i, "release") => exec' \in [Instance -> ProcessRow]
    BY <1>21, <1>1, Moving DEF Step
  <2>7. exec' \in [Instance -> ProcessRow]
    <3>1. CASE Fail(i, "release")
      BY <2>6, <3>1
    <3>2. ASSUME NEW pc \in {"finalize", "node"}, NEW node \in Stages,
                 exec' = [exec EXCEPT ![i].pc = pc, ![i].node = node]
          PROVE  exec' \in [Instance -> ProcessRow]
      <4>1. [exec EXCEPT ![i].pc = pc, ![i].node = node] \in [Instance -> ProcessRow]
        BY <2>5
      <4> QED BY <3>2, <4>1
    <3> QED BY <2>4, <3>1, <3>2
  <2>8. checkpoint' \in [run : 0..MaxInputs, next : Stages \cup {"END"}]
    BY <1>21, <1>2, <2>1 DEF SaveCheckpoint, Inputs, TypeOK
  <2> QED BY <1>21, <2>6, <2>7, <2>8 DEF SaveCheckpoint, TypeOK
<1>22. ASSUME NEW i \in Instance, Abort(i) PROVE TypeOK'
  <2>1. exec' \in [Instance -> ProcessRow]
    BY <1>22, <1>1, Moving DEF Abort, Step
  <2>2. delivery' \in [Inputs -> DeliveryRow]
    BY <1>22, <1>2, Replying DEF Abort, TypeOK
  <2> QED BY <1>22, <2>1, <2>2 DEF Abort, TypeOK
<1>23. ASSUME NEW i \in Instance, AbortPublish(i) PROVE TypeOK'
  <2>1. exec' \in [Instance -> ProcessRow]
    BY <1>23, <1>1, Moving DEF AbortPublish, Step
  <2>2. delivery' \in [Inputs -> DeliveryRow] /\ messages' \in Seq(Message)
    BY <1>23, <1>2, Replying DEF AbortPublish, TypeOK
  <2> QED BY <1>23, <2>1, <2>2 DEF AbortPublish, TypeOK
<1>24. ASSUME NEW i \in Instance, AbortSave(i) PROVE TypeOK'
  <2>1. exec' \in [Instance -> ProcessRow]
    BY <1>24, <1>1, Moving DEF AbortSave, Step
  <2>2. checkpoint' \in [run : 0..MaxInputs, next : Stages \cup {"END"}]
    BY <1>24, <1>2 DEF AbortSave, Inputs, TypeOK
  <2> QED BY <1>24, <2>1, <2>2 DEF AbortSave, TypeOK
<1>25. ASSUME NEW i \in Instance, Finalize(i) PROVE TypeOK'
  <2>1. CASE exec' = [exec EXCEPT ![i].pc = "release", ![i].node = "parse"] /\ UNCHANGED <<resolved, input, task, lock>>
    <3>1. exec' \in [Instance -> ProcessRow]
      BY <1>1, <2>1, ProcessFields DEF Step, Stages
    <3> QED BY <1>25, <2>1, <3>1 DEF Finalize, TypeOK
  <2>2. CASE /\ Exit(i, task'[exec[i].run]) /\ resolved' = exec[i].run
             /\ input' = [input EXCEPT ![exec[i].run] = Settle(input[exec[i].run])]
             /\ task' = [task EXCEPT ![exec[i].run] = Unleased(task[exec[i].run], "SUCCEEDED")]
    <3>1. exec' \in [Instance -> ProcessRow] /\ lock' \in Holder \cup {Free}
      BY <2>2, Exiting
    <3>2. task' \in [Inputs -> TaskRow]
      BY <1>1, <1>2, <2>2, Unleasing
    <3>3. input' \in [Inputs -> InputRow]
      BY <1>1, <1>2, <2>2, Settling
    <3>4. resolved' \in 0..MaxInputs
      BY <1>2, <2>2 DEF Inputs
    <3> QED BY <1>25, <3>1, <3>2, <3>3, <3>4 DEF Finalize, TypeOK
  <2> QED BY <1>25, <2>1, <2>2 DEF Finalize, Fail
<1>26. ASSUME NEW i \in Instance, Release(i) PROVE TypeOK'
  <2>1. exec' \in [Instance -> ProcessRow] /\ lock' \in Holder \cup {Free}
    BY <1>26, <1>1, Exiting DEF Release
  <2>2. Unleased(task[exec[i].run], "RETRY_WAIT") \in TaskRow
    BY <1>26, <1>2, Unleasing
  <2>3. (exec[i].pc = "conflict") \in BOOLEAN
    BY <1>26, <1>1
  <2>4. [Settle(input[exec[i].run]) EXCEPT !.recovery = (exec[i].pc = "conflict")] \in InputRow
    BY <1>26, <1>2, <2>3, Settling
  <2>5. task' \in [Inputs -> TaskRow] /\ input' \in [Inputs -> InputRow]
    BY <1>26, <1>1, <1>2, <2>2, <2>4 DEF Release
  <2> QED BY <1>26, <2>1, <2>5 DEF Release, TypeOK
<1>27. ASSUME NEW i \in Instance, Hang(i) PROVE TypeOK'
  <2>1. exec' \in [Instance -> ProcessRow]
    BY <1>27, <1>1, ProcessFields DEF Hang, Goto, Step
  <2> QED BY <1>27, <2>1 DEF Hang, Fault, TypeOK
<1>28. ASSUME NEW i \in Instance, Crash(i) PROVE TypeOK'
  <2>1. exec' \in [Instance -> ProcessRow]
    BY <1>28, <1>1, ProcessFields DEF Crash, Die, Step, Stages
  <2> QED BY <1>28, <2>1 DEF Crash, Fault, TypeOK
<1>29. ASSUME NEW i \in Instance, Orphan(i) PROVE TypeOK'
  <2>1. exec' \in [Instance -> ProcessRow]
    BY <1>29, <1>1, ProcessFields DEF Orphan
  <2> QED BY <1>29, <2>1 DEF Orphan, Fault, TypeOK
<1>30. ASSUME NEW i \in Instance, LoseConnection(i) PROVE TypeOK'
  <2>1. exec' \in [Instance -> ProcessRow]
    BY <1>30, <1>1, ProcessFields DEF LoseConnection
  <2> QED BY <1>30, <2>1 DEF LoseConnection, Fault, TypeOK
<1>31. ASSUME NEW i \in Instance, Raise(i) PROVE TypeOK'
  <2>1. exec' \in [Instance -> ProcessRow]
    BY <1>31, <1>1, ProcessFields DEF Raise, Fail, Step, Stages
  <2> QED BY <1>31, <2>1 DEF Raise, Fault, TypeOK
<1>32. ASSUME NEW i \in Instance, ConnectionEnds(i) PROVE TypeOK'
  <2>1. exec' \in [Instance -> ProcessRow] /\ lock' \in Holder \cup {Free}
    BY <1>32, <1>1, Exiting DEF ConnectionEnds
  <2> QED BY <1>32, <2>1 DEF ConnectionEnds, TypeOK
<1>33. ASSUME NEW i \in Instance, SupervisorLooks(i) PROVE TypeOK'
  <2>1. exec' \in [Instance -> ProcessRow]
    BY <1>33, <1>1, ProcessFields DEF SupervisorLooks
  <2> QED BY <1>33, <2>1 DEF SupervisorLooks, TypeOK
<1>34. ASSUME NEW i \in Instance, SupervisorFences(i) PROVE TypeOK'
  <2>1. exec' \in [Instance -> ProcessRow]
    BY <1>34, <1>1, ProcessFields DEF SupervisorFences
  <2>2. task' \in [Inputs -> TaskRow] /\ input' \in [Inputs -> InputRow]
    BY <1>34, <1>1, Revoking DEF SupervisorFences
  <2> QED BY <1>34, <2>1, <2>2 DEF SupervisorFences, TypeOK
<1>35. ASSUME NEW i \in Instance, SupervisorKills(i) PROVE TypeOK'
  <2>1. exec' \in [Instance -> ProcessRow]
    BY <1>35, <1>1, ProcessFields DEF SupervisorKills, Die, Step, Stages
  <2> QED BY <1>35, <2>1 DEF SupervisorKills, TypeOK
<1>36. ASSUME NEW i \in Instance, WatchdogRevokes(i) PROVE TypeOK'
  <2>1. exec' \in [Instance -> ProcessRow]
    BY <1>36, <1>1, ProcessFields DEF WatchdogRevokes
  <2>2. task' \in [Inputs -> TaskRow] /\ input' \in [Inputs -> InputRow]
    BY <1>36, <1>1, Revoking DEF WatchdogRevokes
  <2> QED BY <1>36, <2>1, <2>2 DEF WatchdogRevokes, TypeOK
<1>37. ASSUME NEW i \in Instance, WatchdogReleases(i) PROVE TypeOK'
  <2>1. [exec[i] EXCEPT !.conn = FALSE, !.row = "NONE", !.token = 0, !.young = FALSE] \in ProcessRow
    BY <1>2 DEF ProcessRow
  <2>2. exec' \in [Instance -> ProcessRow]
    BY <1>37, <1>1, <2>1, FirstRows DEF WatchdogReleases
  <2> QED BY <1>37, <2>2 DEF WatchdogReleases, TypeOK
<1>38. ASSUME NEW i \in Instance, RegistrationAges(i) PROVE TypeOK'
  <2>1. exec' \in [Instance -> ProcessRow]
    BY <1>38, <1>1, ProcessFields DEF RegistrationAges
  <2> QED BY <1>38, <2>1 DEF RegistrationAges, Passes, TypeOK
<1>39. ASSUME NEW n \in Notifier, NotifyClaim(n) PROVE TypeOK'
  <2>1. PICK r \in Inputs : delivery' =
          [delivery EXCEPT ![r].status = "RUNNING", ![r].token = n, ![r].live = TRUE,
                           ![r].attempts = IF delivery[r].attempts < MaxNotify
                                           THEN delivery[r].attempts + 1
                                           ELSE delivery[r].attempts]
    BY <1>39 DEF NotifyClaim
  <2>2. (IF delivery[r].attempts < MaxNotify THEN delivery[r].attempts + 1
         ELSE delivery[r].attempts) \in Nat
    BY <1>1 DEF DeliveryRow
  <2>3. [delivery EXCEPT ![r].status = "RUNNING", ![r].token = n, ![r].live = TRUE]
          \in [Inputs -> DeliveryRow]
    BY <1>1, DeliveryFields DEF DeliveryStatus
  <2>4. delivery' \in [Inputs -> DeliveryRow]
    BY <2>1, <2>2, <2>3, DeliveryFields
  <2>5. notifier' \in [Notifier -> 0..MaxInputs] /\ lock' \in Holder \cup {Free}
    BY <1>39, <1>1 DEF NotifyClaim, TypeOK, Inputs, Holder
  <2> QED BY <1>39, <2>1, <2>4, <2>5 DEF NotifyClaim, TypeOK
<1>40. ASSUME NEW n \in Notifier, NotifyPublish(n) PROVE TypeOK'
  <2>1. notifier[n] \in Inputs
    BY <1>40, <1>1 DEF NotifyPublish, TypeOK, Inputs
  <2>2. delivery' \in [Inputs -> DeliveryRow] /\ messages' \in Seq(Message)
    BY <1>40, <1>1, <2>1, Replying DEF NotifyPublish
  <2>3. notifier' \in [Notifier -> 0..MaxInputs] /\ lock' \in Holder \cup {Free}
    BY <1>40, <1>1 DEF NotifyPublish, NotifyEnd, TypeOK
  <2> QED BY <1>40, <2>2, <2>3 DEF NotifyPublish, NotifyEnd, TypeOK
<1>41. ASSUME NEW n \in Notifier, NotifyStale(n) PROVE TypeOK'
  <2>1. notifier[n] \in Inputs
    BY <1>41, <1>1 DEF NotifyStale, TypeOK, Inputs
  <2>2. delivery' \in [Inputs -> DeliveryRow]
    BY <1>41, <1>1, <2>1, DeliveryFields DEF NotifyStale, NotifyRetry, DeliveryStatus
  <2>3. notifier' \in [Notifier -> 0..MaxInputs] /\ lock' \in Holder \cup {Free}
    BY <1>41, <1>1 DEF NotifyStale, NotifyRetry, NotifyEnd, TypeOK
  <2> QED BY <1>41, <2>2, <2>3 DEF NotifyStale, NotifyRetry, NotifyEnd, Fault, TypeOK
<1>42. ASSUME NEW n \in Notifier, NotifyRaise(n) PROVE TypeOK'
  <2>1. notifier[n] \in Inputs
    BY <1>42, <1>1 DEF NotifyRaise, TypeOK, Inputs
  <2>2. delivery' \in [Inputs -> DeliveryRow]
    BY <1>42, <1>1, <2>1, DeliveryFields DEF NotifyRaise, NotifyRetry, DeliveryStatus
  <2>3. notifier' \in [Notifier -> 0..MaxInputs] /\ lock' \in Holder \cup {Free}
    BY <1>42, <1>1 DEF NotifyRaise, NotifyRetry, NotifyEnd, TypeOK
  <2> QED BY <1>42, <2>2, <2>3 DEF NotifyRaise, NotifyRetry, NotifyEnd, Fault, TypeOK
<1>43. ASSUME NEW n \in Notifier, NotifyCrash(n) PROVE TypeOK'
  <2>1. notifier' \in [Notifier -> 0..MaxInputs] /\ lock' \in Holder \cup {Free}
    BY <1>43, <1>1 DEF NotifyCrash, NotifyEnd, TypeOK
  <2> QED BY <1>43, <2>1 DEF NotifyCrash, Fault, TypeOK
<1>44. ASSUME NEW n \in Notifier, NotifyLosesConnection(n) PROVE TypeOK'
  BY <1>44 DEF NotifyLosesConnection, Fault, TypeOK
<1>45. ASSUME NEW r \in Inputs, NEW action \in {"RETRY", "TERMINATE"}, Recover(r, action) PROVE TypeOK'
  <2>1. Unleased(task[r], "PENDING") \in TaskRow /\ task[r] \in TaskRow
    BY <1>1, Unleasing
  <2>2. (IF task[r].max > task[r].attempts THEN task[r].max ELSE task[r].attempts + 1) \in Nat
    BY <2>1 DEF TaskRow
  <2>3. task' \in [Inputs -> TaskRow]
    BY <1>45, <1>1, <2>1, <2>2 DEF Recover, TaskRow
  <2>4. input' \in [Inputs -> InputRow]
    BY <1>45, <1>1, InputFields DEF Recover
  <2> QED BY <1>45, <2>3, <2>4 DEF Recover, SellerActs, TypeOK
<1>46. ASSUME NEW r \in Inputs, RecoverNotification(r) PROVE TypeOK'
  <2>1. delivery' \in [Inputs -> DeliveryRow]
    BY <1>46, <1>1, DeliveryFields DEF RecoverNotification, DeliveryStatus
  <2> QED BY <1>46, <2>1 DEF RecoverNotification, SellerActs, TypeOK
<1>47. ASSUME NEW r \in Inputs, LeaseExpires(r) PROVE TypeOK'
  <2>1. task' \in [Inputs -> TaskRow]
    BY <1>47, <1>1, TaskFields DEF LeaseExpires
  <2> QED BY <1>47, <2>1 DEF LeaseExpires, Passes, TypeOK
<1>48. ASSUME NEW r \in Inputs, BudgetEnds(r) PROVE TypeOK'
  <2>1. input' \in [Inputs -> InputRow]
    BY <1>48, <1>1, InputFields DEF BudgetEnds
  <2> QED BY <1>48, <2>1 DEF BudgetEnds, Passes, TypeOK
<1>49. ASSUME NEW r \in Inputs, ReplyDeadlinePasses(r) PROVE TypeOK'
  <2>1. input[r].window \in {"open", "closing", "closed"}
    BY <1>49, <1>1 DEF InputRow
  <2>2. input' \in [Inputs -> InputRow]
    BY <1>49, <1>1, <2>1, InputFields DEF ReplyDeadlinePasses
  <2>3. delivery' \in [Inputs -> DeliveryRow]
    BY <1>49, <1>1, DeliveryFields DEF ReplyDeadlinePasses
  <2> QED BY <1>49, <2>2, <2>3 DEF ReplyDeadlinePasses, Passes, TypeOK
<1>50. ASSUME NEW r \in Inputs, WindowCloses(r) PROVE TypeOK'
  <2>1. (task[r].live /\ task[r].grace) \in BOOLEAN
    BY <1>50, <1>1 DEF TaskRow
  <2>2. task' \in [Inputs -> TaskRow]
    BY <1>50, <1>1, <2>1, TaskFields DEF WindowCloses
  <2>3. input' \in [Inputs -> InputRow]
    BY <1>50, <1>1, InputFields DEF WindowCloses
  <2> QED BY <1>50, <2>2, <2>3 DEF WindowCloses, Passes, TypeOK
<1>51. ASSUME NEW r \in Inputs, NotifyLeaseExpires(r) PROVE TypeOK'
  <2>1. delivery' \in [Inputs -> DeliveryRow]
    BY <1>51, <1>1, DeliveryFields DEF NotifyLeaseExpires
  <2> QED BY <1>51, <2>1 DEF NotifyLeaseExpires, Passes, TypeOK
<1>52. CASE UNCHANGED vars
  BY <1>52 DEF vars, TypeOK
<1> QED
  BY <1>3, <1>4, <1>5, <1>6, <1>7, <1>8, <1>9, <1>10, <1>11, <1>12, <1>13, <1>14, <1>15, <1>16, <1>17, <1>18, <1>19, <1>20, <1>21, <1>22, <1>23, <1>24, <1>25, <1>26, <1>27, <1>28, <1>29, <1>30, <1>31, <1>32, <1>33, <1>34, <1>35, <1>36, <1>37, <1>38, <1>39, <1>40, <1>41, <1>42, <1>43, <1>44, <1>45, <1>46, <1>47, <1>48, <1>49, <1>50, <1>51, <1>52
  DEF Next, Run, ClaimAttempt, Break, Supervise, Watch, Notify, BreakNotify, Seller, Clock

\* In every reachable state every row of the protocol tables, of the process registry
\* and of the checkpoint is well formed.
THEOREM TypeCorrect == Spec => []TypeOK
<1> QED BY TypeInit, TypeNext, PTL DEF Spec

-------------------------------------------------------------------------------
(* Ownership of a run, and the number of its attempts.                     *)

\* No process gains an ownership and no attempt is counted or granted.
OwnersKept ==
    \A i \in Instance : exec'[i].owner # 0 =>
        exec'[i].owner = exec[i].owner /\ exec'[i].run = exec[i].run
AttemptsKept ==
    \A r \in Inputs : task'[r].attempts = task[r].attempts /\ task'[r].max = task[r].max
ManualKept == manual' = manual \/ manual' = manual + 1
Kept == OwnersKept /\ AttemptsKept /\ ManualKept

\* Each attempt has the number of its claim, and no two processes have the same.
OwnersDiffer ==
    /\ \A i \in Instance : exec[i].owner <= task[exec[i].run].attempts
    /\ \A i, j \in Instance : i # j /\ exec[i].run = exec[j].run /\ exec[i].owner # 0 =>
          exec[i].owner # exec[j].owner

\* No task has had more attempts than it was granted, and the seller grants one at a time.
Limits ==
    \A r \in Inputs : task[r].attempts <= task[r].max /\ task[r].max <= MaxAttempts + manual

\* A task row that was unleased keeps its counters.
LEMMA CountersKept ==
    ASSUME NEW t \in TaskRow, NEW status
    PROVE  /\ Unleased(t, status).attempts = t.attempts
           /\ Unleased(t, status).max = t.max
BY DEF Unleased, TaskRow

\* A row of the process table after an update that leaves run and owner alone.
LEMMA OwnerKept ==
    ASSUME NEW p \in ProcessRow
    PROVE  /\ \A v : [p EXCEPT !.pc = v].owner = p.owner /\ [p EXCEPT !.pc = v].run = p.run
           /\ \A v, w : /\ [p EXCEPT !.pc = v, !.node = w].owner = p.owner
                        /\ [p EXCEPT !.pc = v, !.node = w].run = p.run
           /\ \A v : [p EXCEPT !.row = v].owner = p.owner /\ [p EXCEPT !.row = v].run = p.run
           /\ \A v : [p EXCEPT !.watch = v].owner = p.owner /\ [p EXCEPT !.watch = v].run = p.run
           /\ \A v : [p EXCEPT !.conn = v].owner = p.owner /\ [p EXCEPT !.conn = v].run = p.run
           /\ \A v : [p EXCEPT !.young = v].owner = p.owner /\ [p EXCEPT !.young = v].run = p.run
BY DEF ProcessRow

\* Moving on, failing and ending gain no ownership; giving up and revoking count nothing.
LEMMA MovingKeepsOwners ==
    ASSUME TypeOK, NEW i \in Instance, NEW pc, NEW t
    PROVE  Goto(i, pc) \/ Fail(i, pc) \/ Exit(i, t) => OwnersKept
<1>1. exec \in [Instance -> ProcessRow]
  BY DEF TypeOK
<1>2. Goto(i, pc) => OwnersKept
  BY <1>1, OwnerKept DEF Goto, OwnersKept
<1>3. Fail(i, pc) => OwnersKept
  BY <1>1, OwnerKept DEF Fail, OwnersKept
<1>4. Exit(i, t) => OwnersKept
  BY <1>1 DEF Exit, OwnersKept, NoProcess, ProcessRow
<1> QED BY <1>2, <1>3, <1>4

LEMMA EndingKeepsAttempts ==
    ASSUME TypeOK, NEW i \in Instance, NEW r \in Inputs
    PROVE  /\ Revoke(i) => AttemptsKept
           /\ GiveUp(r, ExpiredRow(r)) \/ GiveUp(r, ExhaustedRow(r)) => AttemptsKept
<1>1. task \in [Inputs -> TaskRow] /\ exec[i].run \in Inputs
  BY DEF TypeOK, ProcessRow
<1>2. ExpiredRow(r).attempts = task[r].attempts /\ ExpiredRow(r).max = task[r].max
  BY <1>1 DEF ExpiredRow, Unleased, TaskRow
<1>3. ExhaustedRow(r).attempts = task[r].attempts /\ ExhaustedRow(r).max = task[r].max
  BY <1>1, CountersKept DEF ExhaustedRow
<1>4. Revoke(i) => AttemptsKept
  BY <1>1, CountersKept DEF Revoke, AttemptsKept
<1> QED BY <1>1, <1>2, <1>3, <1>4 DEF GiveUp, AttemptsKept

\* Only a claim gains an ownership, and only a seller's recovery grants an attempt.
LEMMA OnlyClaimGainsOwnership ==
    ASSUME TypeOK, [Next]_vars
    PROVE  \/ Kept
           \/ \E i \in Instance : Claim(i)
           \/ \E r \in Inputs, action \in {"RETRY", "TERMINATE"} : Recover(r, action)
<1>1. exec \in [Instance -> ProcessRow] /\ task \in [Inputs -> TaskRow]
  BY DEF TypeOK
<1>2. ASSUME NEW i \in Instance
      PROVE  exec[i] \in ProcessRow /\ exec[i].run \in Inputs /\ task[exec[i].run] \in TaskRow
  BY <1>1 DEF ProcessRow
<1>3. ASSUME Enqueue PROVE Kept
  BY <1>3
  DEF Enqueue, Kept, OwnersKept, AttemptsKept, ManualKept, boundVars
<1>4. ASSUME NEW i \in Instance, Spawn(i) PROVE Kept
  BY <1>4
  DEF Spawn, Child, NoProcess, Kept, OwnersKept, AttemptsKept, ManualKept, boundVars
<1>5. ASSUME NEW i \in Instance, Connect(i) PROVE Kept
  BY <1>1, <1>5, OwnerKept
  DEF Connect, Kept, OwnersKept, AttemptsKept, ManualKept, boundVars
<1>6. ASSUME NEW i \in Instance, TryLock(i) PROVE Kept
  BY <1>6
  DEF TryLock, Goto, Kept, OwnersKept, AttemptsKept, ManualKept, boundVars
<1>7. ASSUME NEW i \in Instance, ThreadBusy(i) PROVE Kept
  BY <1>7
  DEF ThreadBusy, Exit, NoProcess, Kept, OwnersKept, AttemptsKept, ManualKept, boundVars
<1>8. ASSUME NEW i \in Instance, ClaimRefused(i) PROVE Kept
  BY <1>8
  DEF ClaimRefused, Exit, NoProcess, Kept, OwnersKept, AttemptsKept, ManualKept, boundVars
<1>9. ASSUME NEW i \in Instance, ClaimExpired(i) PROVE Kept
  <2>1. OwnersKept
    BY <1>9, MovingKeepsOwners DEF ClaimExpired
  <2>2. AttemptsKept
    BY <1>9, <1>2, EndingKeepsAttempts DEF ClaimExpired, AttemptsKept
  <2> QED BY <1>9, <2>1, <2>2 DEF ClaimExpired, Kept, ManualKept, queueVars, replyVars, boundVars
<1>10. ASSUME NEW i \in Instance, ClaimExhausted(i) PROVE Kept
  BY <1>1, <1>2, <1>10, OwnerKept, CountersKept
  DEF ClaimExhausted, GiveUp, ExhaustedRow, Exit, NoProcess, Kept, OwnersKept, AttemptsKept, ManualKept, boundVars
<1>11. ASSUME NEW i \in Instance, Attach(i) PROVE Kept
  BY <1>1, <1>2, <1>11, OwnerKept, CountersKept
  DEF Attach, Fail, Kept, OwnersKept, AttemptsKept, ManualKept, ProcessRow, TaskRow, boundVars
<1>12. ASSUME NEW i \in Instance, Enter(i) PROVE Kept
  <2>1. task' = task
    BY <1>12 DEF Enter
  <2>2. ASSUME NEW pc, NEW node, exec' = [exec EXCEPT ![i].pc = pc, ![i].node = node]
        PROVE  OwnersKept
    BY <1>1, <2>2, OwnerKept DEF OwnersKept
  <2>3. OwnersKept
    BY <1>12, <2>2, MovingKeepsOwners DEF Enter
  <2> QED BY <1>12, <2>1, <2>3 DEF Enter, Kept, AttemptsKept, ManualKept, queueVars, replyVars, boundVars
<1>13. ASSUME NEW i \in Instance, StageStale(i) PROVE Kept
  BY <1>1, <1>13, OwnerKept
  DEF StageStale, Fail, Kept, OwnersKept, AttemptsKept, ManualKept, boundVars
<1>14. ASSUME NEW i \in Instance, Parse(i) PROVE Kept
  BY <1>14
  DEF Parse, Goto, Kept, OwnersKept, AttemptsKept, ManualKept, boundVars
<1>15. ASSUME NEW i \in Instance, CheckBudget(i) PROVE Kept
  <2>1. OwnersKept /\ task' = task
    BY <1>15, MovingKeepsOwners DEF CheckBudget
  <2> QED BY <1>15, <2>1 DEF CheckBudget, Kept, AttemptsKept, ManualKept, queueVars, replyVars, boundVars
<1>16. ASSUME NEW i \in Instance, CommitAction(i) PROVE Kept
  BY <1>1, <1>2, <1>16, OwnerKept, CountersKept
  DEF CommitAction, Goto, Fail, Kept, OwnersKept, AttemptsKept, ManualKept, ProcessRow, TaskRow, boundVars
<1>17. ASSUME NEW i \in Instance, CommitNothing(i) PROVE Kept
  BY <1>17
  DEF CommitNothing, Goto, Kept, OwnersKept, AttemptsKept, ManualKept, boundVars
<1>18. ASSUME NEW i \in Instance, Compose(i) PROVE Kept
  BY <1>18
  DEF Compose, Goto, Kept, OwnersKept, AttemptsKept, ManualKept, boundVars
<1>19. ASSUME NEW i \in Instance, Publish(i) PROVE Kept
  BY <1>19
  DEF Publish, Goto, Kept, OwnersKept, AttemptsKept, ManualKept, boundVars
<1>20. ASSUME NEW i \in Instance, SaveCheckpoint(i) PROVE Kept
  BY <1>1, <1>2, <1>20, OwnerKept, CountersKept
  DEF SaveCheckpoint, Fail, Kept, OwnersKept, AttemptsKept, ManualKept, ProcessRow, TaskRow, boundVars
<1>21. ASSUME NEW i \in Instance, Abort(i) PROVE Kept
  BY <1>1, <1>2, <1>21, OwnerKept, CountersKept
  DEF Abort, Goto, Fail, Kept, OwnersKept, AttemptsKept, ManualKept, ProcessRow, TaskRow, boundVars
<1>22. ASSUME NEW i \in Instance, AbortPublish(i) PROVE Kept
  BY <1>1, <1>2, <1>22, OwnerKept, CountersKept
  DEF AbortPublish, Goto, Fail, Kept, OwnersKept, AttemptsKept, ManualKept, ProcessRow, TaskRow, boundVars
<1>23. ASSUME NEW i \in Instance, AbortSave(i) PROVE Kept
  <2>1. OwnersKept /\ task' = task
    BY <1>23, MovingKeepsOwners DEF AbortSave, queueVars, replyVars
  <2> QED BY <1>23, <2>1 DEF AbortSave, Kept, AttemptsKept, ManualKept, queueVars, replyVars, boundVars
<1>24. ASSUME NEW i \in Instance, Finalize(i) PROVE Kept
  <2>1. OwnersKept
    BY <1>24, MovingKeepsOwners DEF Finalize
  <2>2. AttemptsKept
    BY <1>24, <1>1, <1>2, CountersKept DEF Finalize, AttemptsKept
  <2> QED BY <1>24, <2>1, <2>2 DEF Finalize, Kept, ManualKept, queueVars, replyVars, boundVars
<1>25. ASSUME NEW i \in Instance, Release(i) PROVE Kept
  BY <1>1, <1>2, <1>25, OwnerKept, CountersKept
  DEF Release, Exit, NoProcess, Kept, OwnersKept, AttemptsKept, ManualKept, boundVars
<1>26. ASSUME NEW i \in Instance, Hang(i) PROVE Kept
  BY <1>26
  DEF Hang, Goto, Kept, OwnersKept, AttemptsKept, ManualKept, boundVars
<1>27. ASSUME NEW i \in Instance, Crash(i) PROVE Kept
  BY <1>1, <1>27, OwnerKept
  DEF Crash, Die, Kept, OwnersKept, AttemptsKept, ManualKept, boundVars
<1>28. ASSUME NEW i \in Instance, Orphan(i) PROVE Kept
  BY <1>28
  DEF Orphan, Kept, OwnersKept, AttemptsKept, ManualKept, boundVars
<1>29. ASSUME NEW i \in Instance, LoseConnection(i) PROVE Kept
  BY <1>29
  DEF LoseConnection, Kept, OwnersKept, AttemptsKept, ManualKept, boundVars
<1>30. ASSUME NEW i \in Instance, Raise(i) PROVE Kept
  BY <1>1, <1>30, OwnerKept
  DEF Raise, Fail, Kept, OwnersKept, AttemptsKept, ManualKept, boundVars
<1>31. ASSUME NEW i \in Instance, ConnectionEnds(i) PROVE Kept
  BY <1>31
  DEF ConnectionEnds, Exit, NoProcess, Kept, OwnersKept, AttemptsKept, ManualKept, boundVars
<1>32. ASSUME NEW i \in Instance, SupervisorLooks(i) PROVE Kept
  BY <1>32
  DEF SupervisorLooks, Kept, OwnersKept, AttemptsKept, ManualKept, boundVars
<1>33. ASSUME NEW i \in Instance, SupervisorFences(i) PROVE Kept
  <2>1. OwnersKept
    BY <1>33, <1>1, OwnerKept DEF SupervisorFences, OwnersKept
  <2>2. AttemptsKept
    BY <1>33, <1>1, <1>2, EndingKeepsAttempts DEF SupervisorFences
  <2> QED BY <1>33, <2>1, <2>2 DEF SupervisorFences, Kept, ManualKept, queueVars, replyVars, boundVars
<1>34. ASSUME NEW i \in Instance, SupervisorKills(i) PROVE Kept
  BY <1>1, <1>34, OwnerKept
  DEF SupervisorKills, Die, Kept, OwnersKept, AttemptsKept, ManualKept, boundVars
<1>35. ASSUME NEW i \in Instance, WatchdogRevokes(i) PROVE Kept
  BY <1>1, <1>2, <1>35, OwnerKept, CountersKept
  DEF WatchdogRevokes, Revoke, Kept, OwnersKept, AttemptsKept, ManualKept, boundVars
<1>36. ASSUME NEW i \in Instance, WatchdogReleases(i) PROVE Kept
  BY <1>36
  DEF WatchdogReleases, NoProcess, Kept, OwnersKept, AttemptsKept, ManualKept, boundVars
<1>37. ASSUME NEW i \in Instance, RegistrationAges(i) PROVE Kept
  BY <1>37
  DEF RegistrationAges, Passes, Kept, OwnersKept, AttemptsKept, ManualKept, boundVars
<1>38. ASSUME NEW n \in Notifier, NotifyClaim(n) PROVE Kept
  BY <1>38
  DEF NotifyClaim, Kept, OwnersKept, AttemptsKept, ManualKept, boundVars
<1>39. ASSUME NEW n \in Notifier, NotifyPublish(n) PROVE Kept
  BY <1>39
  DEF NotifyPublish, Kept, OwnersKept, AttemptsKept, ManualKept, boundVars
<1>40. ASSUME NEW n \in Notifier, NotifyStale(n) PROVE Kept
  BY <1>40
  DEF NotifyStale, NotifyRetry, Kept, OwnersKept, AttemptsKept, ManualKept, boundVars
<1>41. ASSUME NEW n \in Notifier, NotifyRaise(n) PROVE Kept
  BY <1>41
  DEF NotifyRaise, NotifyRetry, Kept, OwnersKept, AttemptsKept, ManualKept, boundVars
<1>42. ASSUME NEW n \in Notifier, NotifyCrash(n) PROVE Kept
  BY <1>42
  DEF NotifyCrash, Kept, OwnersKept, AttemptsKept, ManualKept, boundVars
<1>43. ASSUME NEW n \in Notifier, NotifyLosesConnection(n) PROVE Kept
  BY <1>43
  DEF NotifyLosesConnection, Kept, OwnersKept, AttemptsKept, ManualKept, boundVars
<1>44. ASSUME NEW r \in Inputs, RecoverNotification(r) PROVE Kept
  BY <1>44
  DEF RecoverNotification, SellerActs, Kept, OwnersKept, AttemptsKept, ManualKept, boundVars
<1>45. ASSUME NEW r \in Inputs, LeaseExpires(r) PROVE Kept
  BY <1>45
  DEF LeaseExpires, Passes, Kept, OwnersKept, AttemptsKept, ManualKept, boundVars
<1>46. ASSUME NEW r \in Inputs, BudgetEnds(r) PROVE Kept
  BY <1>46
  DEF BudgetEnds, Passes, Kept, OwnersKept, AttemptsKept, ManualKept, boundVars
<1>47. ASSUME NEW r \in Inputs, ReplyDeadlinePasses(r) PROVE Kept
  BY <1>47
  DEF ReplyDeadlinePasses, Passes, Kept, OwnersKept, AttemptsKept, ManualKept, boundVars
<1>48. ASSUME NEW r \in Inputs, WindowCloses(r) PROVE Kept
  BY <1>48
  DEF WindowCloses, Passes, Kept, OwnersKept, AttemptsKept, ManualKept, boundVars
<1>49. ASSUME NEW r \in Inputs, NotifyLeaseExpires(r) PROVE Kept
  BY <1>49
  DEF NotifyLeaseExpires, Passes, Kept, OwnersKept, AttemptsKept, ManualKept, boundVars
<1>50. ASSUME UNCHANGED vars PROVE Kept
  BY <1>50 DEF vars, Kept, OwnersKept, AttemptsKept, ManualKept
<1> QED
  BY <1>3, <1>4, <1>5, <1>6, <1>7, <1>8, <1>9, <1>10, <1>11, <1>12, <1>13, <1>14, <1>15, <1>16, <1>17, <1>18, <1>19, <1>20, <1>21, <1>22, <1>23, <1>24, <1>25, <1>26, <1>27, <1>28, <1>29, <1>30, <1>31, <1>32, <1>33, <1>34, <1>35, <1>36, <1>37, <1>38, <1>39, <1>40, <1>41, <1>42, <1>43, <1>44, <1>45, <1>46, <1>47, <1>48, <1>49, <1>50
  DEF Next, Run, ClaimAttempt, Break, Supervise, Watch, Notify, BreakNotify, Seller, Clock

\* At the start nobody owns anything.
LEMMA OwnersInit == Init => OwnersDiffer /\ Limits
<1> SUFFICES ASSUME Init PROVE OwnersDiffer /\ Limits
  OBVIOUS
<1>1. MaxAttempts \in Nat /\ 1 \in Inputs
  BY ConstantsAssumption DEF Inputs
<1>2. \A i \in Instance : exec[i].owner = 0 /\ exec[i].run = 1
  BY DEF Init, NoProcess
<1>3. \A r \in Inputs : task[r].attempts = 0 /\ task[r].max = MaxAttempts /\ manual = 0
  BY DEF Init, NewTask
<1> QED BY <1>1, <1>2, <1>3 DEF OwnersDiffer, Limits

\* A claim takes the next number, which no process can hold yet.
LEMMA ClaimTakesFreshNumber ==
    ASSUME TypeOK, OwnersDiffer, Limits, NEW k \in Instance, Claim(k)
    PROVE  OwnersDiffer' /\ Limits'
<1> DEFINE run == exec[k].run
<1>1. exec \in [Instance -> ProcessRow] /\ task \in [Inputs -> TaskRow]
  BY DEF TypeOK
<1>2. /\ run \in Inputs /\ manual' = manual /\ manual \in Nat
      /\ task[run].attempts < task[run].max
  BY <1>1, ConstantsAssumption DEF ProcessRow, Claim, boundVars, TypeOK
<1>3. \A i \in Instance : exec[i].run \in Inputs /\ exec[i].owner \in Nat
  BY <1>1 DEF ProcessRow
<1>4. \A r \in Inputs : task[r].attempts \in Nat /\ task[r].max \in Nat
  BY <1>1 DEF TaskRow
<1>5. /\ exec'[k].owner = task[run].attempts + 1 /\ exec'[k].run = run
      /\ \A i \in Instance \ {k} : exec'[i] = exec[i]
  BY <1>1 DEF Claim, ProcessRow
<1>6. task'[run].attempts = task[run].attempts + 1 /\ task'[run].max = task[run].max
  BY <1>1, <1>2 DEF Claim, TaskRow
<1>7. \A r \in Inputs \ {run} : task'[r] = task[r]
  BY <1>1 DEF Claim
<1> HIDE DEF run
<1>8. \A i \in Instance : exec'[i].owner <= task'[exec'[i].run].attempts
  <2> SUFFICES ASSUME NEW i \in Instance
               PROVE  exec'[i].owner <= task'[exec'[i].run].attempts
    OBVIOUS
  <2>1. CASE i = k
    BY <2>1, <1>2, <1>4, <1>5, <1>6
  <2>2. CASE i # k /\ exec[i].run = run
    BY <2>2, <1>2, <1>3, <1>4, <1>5, <1>6 DEF OwnersDiffer
  <2>3. CASE i # k /\ exec[i].run # run
    BY <2>3, <1>3, <1>5, <1>7 DEF OwnersDiffer
  <2> QED BY <2>1, <2>2, <2>3
<1>9. ASSUME NEW i \in Instance, NEW j \in Instance, i # j,
             exec'[i].run = exec'[j].run, exec'[i].owner # 0
      PROVE  exec'[i].owner # exec'[j].owner
  <2>1. CASE i # k /\ j # k
    BY <2>1, <1>5, <1>9 DEF OwnersDiffer
  <2>2. CASE i = k
    BY <2>2, <1>2, <1>3, <1>4, <1>5, <1>9 DEF OwnersDiffer
  <2>3. CASE j = k
    BY <2>3, <1>2, <1>3, <1>4, <1>5, <1>9 DEF OwnersDiffer
  <2> QED BY <2>1, <2>2, <2>3
<1>10. Limits'
  BY <1>2, <1>4, <1>6, <1>7 DEF Limits
<1> QED BY <1>8, <1>9, <1>10 DEF OwnersDiffer

\* A recovery grants one attempt more, and only when none is left.
LEMMA RecoverGrantsOneAttempt ==
    ASSUME TypeOK, OwnersDiffer, Limits, NEW k \in Inputs, NEW action, Recover(k, action)
    PROVE  OwnersDiffer' /\ Limits'
<1>1. task \in [Inputs -> TaskRow] /\ exec' = exec /\ manual' = manual + 1 /\ manual \in Nat
  BY ConstantsAssumption DEF TypeOK, Recover, SellerActs
<1>2. \A r \in Inputs : task[r].attempts \in Nat /\ task[r].max \in Nat
  BY <1>1 DEF TaskRow
<1>3. /\ task'[k].attempts = task[k].attempts
      /\ task'[k].max = IF task[k].max > task[k].attempts
                        THEN task[k].max ELSE task[k].attempts + 1
  BY <1>1, CountersKept, Unleasing DEF Recover, TaskRow
<1>4. \A r \in Inputs \ {k} : task'[r] = task[r]
  BY <1>1 DEF Recover
<1>5. \A i \in Instance : exec[i].run \in Inputs
  BY DEF TypeOK, ProcessRow
<1>6. MaxAttempts \in Nat
  BY ConstantsAssumption
<1>7. \A r \in Inputs : task'[r].attempts = task[r].attempts
  BY <1>3, <1>4
<1>8. Limits'
  BY <1>1, <1>2, <1>3, <1>4, <1>6 DEF Limits
<1> QED BY <1>1, <1>5, <1>7, <1>8 DEF OwnersDiffer

\* Every operation keeps the numbers of the owners different and the attempts limited.
LEMMA OwnersNext ==
    TypeOK /\ OwnersDiffer /\ Limits /\ [Next]_vars => OwnersDiffer' /\ Limits'
<1> SUFFICES ASSUME TypeOK, OwnersDiffer, Limits, [Next]_vars
             PROVE  OwnersDiffer' /\ Limits'
  OBVIOUS
<1>1. CASE Kept
  <2>1. \A i \in Instance : exec[i].run \in Inputs /\ exec[i].owner \in Nat
    BY DEF TypeOK, ProcessRow
  <2>2. \A r \in Inputs : task[r].attempts \in Nat /\ task[r].max \in Nat
    BY DEF TypeOK, TaskRow
  <2>3. \A i \in Instance : exec'[i].run \in Inputs /\ exec'[i].owner \in Nat
    BY TypeNext DEF TypeOK, ProcessRow
  <2>4. \A i \in Instance : exec'[i].owner <= task'[exec'[i].run].attempts
    BY <1>1, <2>1, <2>2, <2>3 DEF Kept, OwnersKept, AttemptsKept, OwnersDiffer
  <2>5. \A i, j \in Instance : i # j /\ exec'[i].run = exec'[j].run /\ exec'[i].owner # 0 =>
            exec'[i].owner # exec'[j].owner
    BY <1>1 DEF Kept, OwnersKept, OwnersDiffer
  <2>6. manual \in Nat /\ MaxAttempts \in Nat
    BY ConstantsAssumption DEF TypeOK
  <2>7. Limits'
    BY <1>1, <2>2, <2>6 DEF Kept, AttemptsKept, ManualKept, Limits
  <2> QED BY <2>4, <2>5, <2>7 DEF OwnersDiffer
<1>2. CASE \E i \in Instance : Claim(i)
  BY <1>2, ClaimTakesFreshNumber
<1>3. CASE \E r \in Inputs, action \in {"RETRY", "TERMINATE"} : Recover(r, action)
  BY <1>3, RecoverGrantsOneAttempt
<1> QED BY <1>1, <1>2, <1>3, OnlyClaimGainsOwnership

\* Whatever is lost, duplicated, killed or taken over: two execution processes never
\* both pass lock_owner for the same run (InputQueue.lock_owner, claim).
THEOREM OwnershipIsExclusive == Spec => []OneOwner
<1>1. Init => TypeOK /\ OwnersDiffer /\ Limits
  BY TypeInit, OwnersInit
<1>2. (TypeOK /\ OwnersDiffer /\ Limits) /\ [Next]_vars => (TypeOK /\ OwnersDiffer /\ Limits)'
  BY TypeNext, OwnersNext
<1>3. TypeOK /\ OwnersDiffer => OneOwner
  BY DEF OneOwner, OwnersDiffer, Owns
<1> QED BY <1>1, <1>2, <1>3, PTL DEF Spec

\* A run is never executed more often than the automatic attempts and those the
\* seller ordered one by one (InputQueue.claim, GraphRecoveryService.act).
THEOREM AttemptsStayBounded == Spec => []AttemptsAreBounded
<1>1. Init => TypeOK /\ OwnersDiffer /\ Limits
  BY TypeInit, OwnersInit
<1>2. (TypeOK /\ OwnersDiffer /\ Limits) /\ [Next]_vars => (TypeOK /\ OwnersDiffer /\ Limits)'
  BY TypeNext, OwnersNext
<1>3. TypeOK /\ Limits => AttemptsAreBounded
  <2> SUFFICES ASSUME TypeOK, Limits, NEW r \in Inputs
               PROVE  task[r].attempts <= MaxAttempts + manual
    BY DEF AttemptsAreBounded
  <2>1. task[r].attempts \in Nat /\ task[r].max \in Nat /\ manual \in Nat /\ MaxAttempts \in Nat
    BY ConstantsAssumption DEF TypeOK, TaskRow
  <2> QED BY <2>1 DEF Limits
<1> QED BY <1>1, <1>2, <1>3, PTL DEF Spec

-------------------------------------------------------------------------------
(* The inductive invariant.                                                *)

\* Steps of a process that took the thread lock, that claimed its run, that is
\* inside the graph, and that terminates the run.
Holding == Step \ {"off", "start", "connected"}
Attempting == Holding \ {"locked"}
InGraph == {"node", "execute", "save", "hung"}
Aborting == {"abort", "abortPublish", "abortSave"}

\* The connection and the lock of a process live and end together.
LockIsHeld ==
    \A i \in Instance :
        /\ lock = i => exec[i].conn
        /\ exec[i].conn /\ exec[i].pc \in Holding => lock = i

\* A process works for the head of the queue, or for a run that is over; as long as
\* its connection lives, it is the head.
RunsAreHeads ==
    \A i \in Instance :
        /\ exec[i].run <= resolved + 1
        /\ exec[i].pc # "off" => exec[i].run < nextSeq
        /\ exec[i].conn /\ exec[i].pc \in Attempting => exec[i].run = resolved + 1

\* The checkpoint is that of the head, or the END of the run before it.
ThreadIsOrdered ==
    /\ checkpoint.run \in {resolved, resolved + 1}
    /\ checkpoint.run = resolved => checkpoint.next = "END"

\* A process inside the graph has written the checkpoint of its run, and while its
\* connection lives it is still where it left it.
ThreadIsFollowed ==
    \A i \in Instance :
        /\ exec[i].pc \in InGraph => checkpoint.run >= exec[i].run
        /\ exec[i].conn /\ exec[i].pc \in InGraph =>
              checkpoint = [run |-> exec[i].run, next |-> exec[i].node]
        /\ exec[i].pc \in Aborting => task[exec[i].run].action # "NONE"

Untouched(r) ==
    /\ task[r] = NewTask /\ input[r] = NewInput /\ delivery[r] = NoDelivery
    /\ r \notin receipts

\* The tasks before the head have succeeded, those behind it are as first written.
TaskInOrder(r) ==
    /\ task[r].status = "SUCCEEDED" <=> r <= resolved
    /\ r > resolved + 1 \/ r >= nextSeq => Untouched(r)
    /\ task[r].live => task[r].status = "RUNNING"

TasksInOrder == resolved < nextSeq /\ \A r \in Inputs : TaskInOrder(r)

\* The k-th message answers the k-th input, and the replies are truthful.
MessagesInOrder ==
    /\ Len(messages) <= MaxInputs
    /\ \A k \in 1..Len(messages) : messages[k].run = k

ReplyInOrder(r) ==
    /\ delivery[r].status = "PUBLISHED" <=> r <= Len(messages)
    /\ r <= resolved => delivery[r].status = "PUBLISHED"
    /\ r \in receipts <=> delivery[r].outcome = "ACTION"
    /\ r \in receipts => delivery[r].status # "NONE"
    /\ delivery[r].token # Free => delivery[r].status = "RUNNING"
    /\ delivery[r].live => delivery[r].token # Free

RepliesInOrder == MessagesInOrder /\ \A r \in Inputs : ReplyInOrder(r)

\* A head that never reached the checkpoint has left no artifact and no receipt, and
\* owes a reply only because the seller intervened.
StartsLeaveTraces ==
    \A r \in Inputs : r = resolved + 1 /\ checkpoint.run = resolved =>
        /\ ~input[r].evidence /\ r \notin receipts
        /\ delivery[r].status # "NONE" => task[r].action # "NONE"

Rows == TasksInOrder /\ RepliesInOrder
Machine == LockIsHeld /\ RunsAreHeads /\ ThreadIsOrdered /\ ThreadIsFollowed
IInv == TypeOK /\ Rows /\ Machine /\ StartsLeaveTraces

-------------------------------------------------------------------------------
(* What a step does to the rows.                                           *)

RowsStay == UNCHANGED <<nextSeq, resolved, task, input, delivery, receipts, messages>>

Accepts ==
    /\ nextSeq <= MaxInputs /\ nextSeq' = nextSeq + 1
    /\ UNCHANGED <<resolved, task, input, delivery, receipts, messages>>

\* Only the rows of r may change.
Elsewhere(r) ==
    \A s \in Inputs \ {r} : task'[s] = task[s] /\ input'[s] = input[s] /\ delivery'[s] = delivery[s]

\* The task of r goes on; only the graph leaves artifacts.
TaskGoesOn(r) ==
    /\ task'[r].status # "SUCCEEDED"
    /\ task'[r].live => task'[r].status = "RUNNING"
    /\ task[r].action # "NONE" => task'[r].action # "NONE"
    /\ input'[r].evidence => input[r].evidence \/ checkpoint.run = r

\* The reply of r remains what it is, owed or not.
SameReply(r) ==
    /\ delivery'[r].outcome = delivery[r].outcome
    /\ delivery'[r].status = "NONE" <=> delivery[r].status = "NONE"
    /\ delivery'[r].status = "PUBLISHED" <=> delivery[r].status = "PUBLISHED"
    /\ delivery'[r].token # Free => delivery'[r].status = "RUNNING"
    /\ delivery'[r].live => delivery'[r].token # Free

Tends(r) ==
    /\ QueueHead(r) /\ Elsewhere(r) /\ TaskGoesOn(r) /\ SameReply(r)
    /\ UNCHANGED <<nextSeq, resolved, receipts, messages>>

\* The reply of r becomes owed, with an action committed or without one.
Owes(r, outcome) ==
    /\ QueueHead(r) /\ delivery[r].status = "NONE"
    /\ delivery' = [delivery EXCEPT ![r] = NewDelivery(outcome)]
    /\ receipts' = IF outcome = "ACTION" THEN receipts \cup {r} ELSE receipts
    /\ checkpoint.run = r \/ (outcome = "NOACTION" /\ task[r].action # "NONE")
    /\ UNCHANGED <<nextSeq, resolved, task, input, messages>>

\* The reply of r becomes a public message.
Answers(r) ==
    /\ QueueHead(r) /\ delivery[r].status # "PUBLISHED"
    /\ messages' = Append(messages, [run |-> r, outcome |-> delivery[r].outcome])
    /\ delivery' = [delivery EXCEPT ![r].status = "PUBLISHED", ![r].token = Free,
                                    ![r].live = FALSE]
    /\ checkpoint.run = r \/ task[r].action # "NONE" \/ delivery[r].status # "NONE"
    /\ UNCHANGED <<nextSeq, resolved, task, input, receipts>>

\* The cursor moves past r.
Resolves(r) ==
    /\ QueueHead(r) /\ Elsewhere(r) /\ resolved' = r
    /\ task'[r].status = "SUCCEEDED" /\ ~task'[r].live
    /\ task'[r].action = task[r].action
    /\ delivery[r].status = "PUBLISHED" /\ checkpoint = [run |-> r, next |-> "END"]
    /\ UNCHANGED <<nextSeq, delivery, receipts, messages, checkpoint>>

Minor ==
    \/ RowsStay \/ Accepts
    \/ \E r \in Inputs : Tends(r) \/ Answers(r) \/ \E outcome \in Outcome : Owes(r, outcome)

-------------------------------------------------------------------------------
(* What a step does to processes, lock and checkpoint.                     *)

\* No process takes part.
Idles ==
    /\ exec' = exec /\ checkpoint' = checkpoint
    /\ \A i \in Instance : lock' = i <=> lock = i

\* Step q requires no more than step p.
Falls(p, q) ==
    /\ q # "off" => p # "off"
    /\ q \in Holding => p \in Holding
    /\ q \in Attempting => p \in Attempting
    /\ q \in InGraph => p \in InGraph
    /\ q \in Aborting => p \in Aborting
    /\ q = "conflict" => p = "conflict"

\* Process i goes on without touching the checkpoint, or ends.
Continues(i) ==
    /\ \A j \in Instance \ {i} : exec'[j] = exec[j] /\ (lock' = j <=> lock = j)
    /\ exec'[i].run = exec[i].run \/ (exec'[i].pc = "off" /\ exec'[i].run = 1)
    /\ Falls(exec[i].pc, exec'[i].pc)
    /\ exec'[i].pc \in InGraph => exec'[i].node = exec[i].node
    /\ exec'[i].conn /\ exec'[i].pc \in Holding => exec[i].conn /\ (lock = i => lock' = i)
    /\ lock' = i => lock = i /\ exec'[i].conn
    /\ checkpoint' = checkpoint

\* Process i finishes its run: it gives the lock back.
Leaves(i) ==
    /\ \A j \in Instance \ {i} : exec'[j] = exec[j] /\ lock' # j
    /\ lock = i /\ lock' # i
    /\ exec'[i].run \in {1, exec[i].run} /\ exec'[i].pc = "off"

Moves ==
    \/ Idles
    \/ \E i \in Instance :
          \/ Continues(i) \/ Spawn(i) \/ TryLock(i) \/ Claim(i) \/ Enter(i)
          \/ SaveCheckpoint(i) \/ AbortSave(i)

Calm == Minor /\ Moves
Final == \E i \in Instance : Resolves(exec[i].run) /\ Leaves(i)

-------------------------------------------------------------------------------
(* Facts about the head of the queue.                                      *)

\* Whatever has a running task, or a reply that is owed, is the head.
LEMMA HeadIsRunning ==
    ASSUME IInv, NEW r \in Inputs, task[r].status = "RUNNING"
    PROVE  QueueHead(r)
<1>1. ~(r > resolved + 1 \/ r >= nextSeq)
  BY DEF IInv, Rows, TasksInOrder, TaskInOrder, Untouched, NewTask
<1>2. ~(r <= resolved)
  BY DEF IInv, Rows, TasksInOrder, TaskInOrder
<1>3. r \in Nat /\ resolved \in Nat /\ nextSeq \in Nat
  BY ConstantsAssumption DEF IInv, TypeOK, Inputs
<1> QED BY <1>1, <1>2, <1>3 DEF QueueHead

LEMMA HeadIsOwed ==
    ASSUME IInv, NEW r \in Inputs, delivery[r].status \notin {"NONE", "PUBLISHED"}
    PROVE  QueueHead(r)
<1>1. ~(r > resolved + 1 \/ r >= nextSeq)
  BY DEF IInv, Rows, TasksInOrder, TaskInOrder, Untouched, NoDelivery
<1>2. ~(r <= resolved)
  BY DEF IInv, Rows, RepliesInOrder, ReplyInOrder
<1>3. r \in Nat /\ resolved \in Nat /\ nextSeq \in Nat
  BY ConstantsAssumption DEF IInv, TypeOK, Inputs
<1> QED BY <1>1, <1>2, <1>3 DEF QueueHead

\* The rows of the head, and of what a process works for.
LEMMA HeadRows ==
    ASSUME IInv, NEW r \in Inputs
    PROVE  /\ task[r] \in TaskRow /\ input[r] \in InputRow /\ delivery[r] \in DeliveryRow
           /\ QueueHead(r) => task[r].status # "SUCCEEDED"
           /\ task[r].live => task[r].status = "RUNNING"
           /\ delivery[r].token # Free => delivery[r].status = "RUNNING"
           /\ delivery[r].live => delivery[r].token # Free
<1>1. task[r] \in TaskRow /\ input[r] \in InputRow /\ delivery[r] \in DeliveryRow
  BY DEF IInv, TypeOK
<1>2. resolved \in Nat /\ r \in Nat
  BY ConstantsAssumption DEF IInv, TypeOK, Inputs
<1>3. QueueHead(r) => ~(r <= resolved)
  BY <1>2 DEF QueueHead
<1>4. task[r].status = "SUCCEEDED" <=> r <= resolved
  BY DEF IInv, Rows, TasksInOrder, TaskInOrder
<1>5. task[r].live => task[r].status = "RUNNING"
  BY DEF IInv, Rows, TasksInOrder, TaskInOrder
<1>6. /\ delivery[r].token # Free => delivery[r].status = "RUNNING"
      /\ delivery[r].live => delivery[r].token # Free
  BY DEF IInv, Rows, RepliesInOrder, ReplyInOrder
<1> QED BY <1>1, <1>3, <1>4, <1>5, <1>6

\* What process i knows.
LEMMA ProcessFacts ==
    ASSUME IInv, NEW i \in Instance
    PROVE  /\ exec \in [Instance -> ProcessRow] /\ exec[i] \in ProcessRow
           /\ exec[i].run \in Inputs
           /\ lock = i => exec[i].conn
           /\ Owns(i) => QueueHead(exec[i].run)
           /\ exec[i].pc \in InGraph /\ Owns(i) => checkpoint.run = exec[i].run
           /\ exec[i].pc \in Aborting => task[exec[i].run].action # "NONE"
<1>1. /\ exec \in [Instance -> ProcessRow] /\ exec[i] \in ProcessRow
      /\ exec[i].run \in Inputs
  BY DEF IInv, TypeOK, ProcessRow
<1>2. lock = i => exec[i].conn
  BY DEF IInv, Machine, LockIsHeld
<1>3. Owns(i) => QueueHead(exec[i].run)
  BY <1>1, HeadIsRunning DEF Owns
<1>4. exec[i].pc \in Aborting => task[exec[i].run].action # "NONE"
  BY DEF IInv, Machine, ThreadIsFollowed
<1>5. /\ exec[i].pc \in InGraph => checkpoint.run >= exec[i].run
      /\ checkpoint.run \in {resolved, resolved + 1}
  BY DEF IInv, Machine, ThreadIsFollowed, ThreadIsOrdered
<1>6. resolved \in Nat /\ exec[i].run \in Nat
  BY <1>1, ConstantsAssumption DEF IInv, TypeOK, Inputs
<1>7. ASSUME exec[i].pc \in InGraph, Owns(i) PROVE checkpoint.run = exec[i].run
  BY <1>3, <1>5, <1>6, <1>7 DEF QueueHead
<1> QED BY <1>1, <1>2, <1>3, <1>4, <1>7

-------------------------------------------------------------------------------
(* The moves of a process.                                                 *)

\* A process that goes to another step, raises, ends or dies.
LEMMA Going ==
    ASSUME IInv, NEW i \in Instance, NEW q, Goto(i, q), Falls(exec[i].pc, q),
           lock' = lock, checkpoint' = checkpoint
    PROVE  Continues(i)
<1>1. /\ \A j \in Instance \ {i} : exec'[j] = exec[j]
      /\ exec'[i] = [exec[i] EXCEPT !.pc = q]
  BY ProcessFacts DEF Goto
<1>2. /\ exec'[i].run = exec[i].run /\ exec'[i].pc = q /\ exec'[i].node = exec[i].node
      /\ exec'[i].conn = exec[i].conn
  BY <1>1, ProcessFacts DEF ProcessRow
<1> QED BY <1>1, <1>2, ProcessFacts DEF Continues

LEMMA Failing ==
    ASSUME IInv, NEW i \in Instance, NEW q, Fail(i, q), Falls(exec[i].pc, q), q \notin InGraph,
           lock' = lock, checkpoint' = checkpoint
    PROVE  Continues(i)
<1>1. /\ \A j \in Instance \ {i} : exec'[j] = exec[j]
      /\ exec'[i] = [exec[i] EXCEPT !.pc = q, !.node = "parse"]
  BY ProcessFacts DEF Fail
<1>2. /\ exec'[i].run = exec[i].run /\ exec'[i].pc = q /\ exec'[i].conn = exec[i].conn
  BY <1>1, ProcessFacts DEF ProcessRow
<1>3. exec'[i].pc \notin InGraph
  BY <1>2
<1>4. lock' = i => lock = i /\ exec'[i].conn
  BY <1>2, ProcessFacts
<1>5. \A j \in Instance \ {i} : exec'[j] = exec[j] /\ (lock' = j <=> lock = j)
  BY <1>1
<1>6. Falls(exec[i].pc, exec'[i].pc)
  BY <1>2
<1>7. exec'[i].conn /\ exec'[i].pc \in Holding => exec[i].conn /\ (lock = i => lock' = i)
  BY <1>2
<1> QED BY <1>2, <1>3, <1>4, <1>5, <1>6, <1>7 DEF Continues

LEMMA Ending ==
    ASSUME IInv, NEW i \in Instance, NEW t, Exit(i, t), checkpoint' = checkpoint
    PROVE  Continues(i) /\ (lock = i => Leaves(i))
<1>1. /\ \A j \in Instance \ {i} : exec'[j] = exec[j]
      /\ \/ exec'[i] = [exec[i] EXCEPT !.pc = "off", !.conn = FALSE, !.watch = "off",
                                       !.owner = 0, !.node = "parse"]
         \/ exec'[i] = NoProcess
  BY ProcessFacts DEF Exit
<1>2. /\ exec'[i].pc = "off" /\ ~exec'[i].conn /\ exec'[i].run \in {1, exec[i].run}
  <2>1. CASE exec'[i] = NoProcess
    BY <2>1 DEF NoProcess
  <2>2. CASE exec'[i] = [exec[i] EXCEPT !.pc = "off", !.conn = FALSE, !.watch = "off",
                                        !.owner = 0, !.node = "parse"]
    <3>1. exec[i] \in ProcessRow
      BY ProcessFacts
    <3> QED BY <2>2, <3>1 DEF ProcessRow
  <2> QED BY <1>1, <2>1, <2>2
<1>3. lock' = IF lock = i THEN Free ELSE lock
  BY DEF Exit
<1>4. \A j \in Instance : Free # j
  BY ConstantsAssumption
<1>5. Falls(exec[i].pc, "off") /\ "off" \notin InGraph
  BY DEF Falls, Holding, Attempting, InGraph, Aborting
<1>6. \A j \in Instance \ {i} : lock' = j <=> lock = j
  BY <1>3, <1>4
<1>7. lock' # i
  BY <1>3, <1>4
<1>8. Continues(i)
  BY <1>1, <1>2, <1>5, <1>6, <1>7 DEF Continues
<1> QED BY <1>1, <1>2, <1>6, <1>7, <1>8 DEF Leaves

LEMMA Dying ==
    ASSUME IInv, NEW i \in Instance, Die(i), lock' = lock, checkpoint' = checkpoint
    PROVE  Continues(i)
<1>1. /\ \A j \in Instance \ {i} : exec'[j] = exec[j]
      /\ exec'[i] = [exec[i] EXCEPT !.pc = "off", !.watch = "off", !.owner = 0,
                                    !.node = "parse"]
  BY ProcessFacts DEF Die
<1>2. /\ exec'[i].pc = "off" /\ exec'[i].run = exec[i].run /\ exec'[i].conn = exec[i].conn
  BY <1>1, ProcessFacts DEF ProcessRow
<1>3. Falls(exec[i].pc, "off") /\ "off" \notin InGraph /\ "off" \notin Holding
  BY DEF Falls, Holding, Attempting, InGraph, Aborting
<1> QED BY <1>1, <1>2, <1>3, ProcessFacts DEF Continues

\* The supervisor's and the watchdog's marks on a process.
LEMMA Marking ==
    ASSUME IInv, NEW i \in Instance, lock' = lock, checkpoint' = checkpoint,
           \/ \E w : exec' = [exec EXCEPT ![i].watch = w]
           \/ \E w : exec' = [exec EXCEPT ![i].row = w]
           \/ \E w : exec' = [exec EXCEPT ![i].young = w]
    PROVE  Continues(i)
<1>1. PICK w : \/ exec' = [exec EXCEPT ![i].watch = w]
               \/ exec' = [exec EXCEPT ![i].row = w]
               \/ exec' = [exec EXCEPT ![i].young = w]
  OBVIOUS
<1>2. /\ \A j \in Instance \ {i} : exec'[j] = exec[j]
      /\ \/ exec'[i] = [exec[i] EXCEPT !.watch = w]
         \/ exec'[i] = [exec[i] EXCEPT !.row = w]
         \/ exec'[i] = [exec[i] EXCEPT !.young = w]
  BY <1>1, ProcessFacts
<1>3. /\ exec'[i].pc = exec[i].pc /\ exec'[i].run = exec[i].run
      /\ exec'[i].conn = exec[i].conn /\ exec'[i].node = exec[i].node
  BY <1>2, ProcessFacts DEF ProcessRow
<1> QED BY <1>2, <1>3, ProcessFacts DEF Continues, Falls

\* Steps without the rows, or without the processes, are calm.
LEMMA Resting ==
    /\ \A i \in Instance : RowsStay /\ Continues(i) => Calm
    /\ RowsStay /\ Idles => Calm
    /\ \A r \in Inputs : (Tends(r) \/ Answers(r)) /\ Idles => Calm
    /\ \A i \in Instance, r \in Inputs :
          (Tends(r) \/ Answers(r) \/ \E outcome \in Outcome : Owes(r, outcome)) /\ Continues(i) => Calm
BY DEF Calm, Minor, Moves

-------------------------------------------------------------------------------
(* What the transactions do to the rows.                                   *)

\* The task and the input of the head are written, its reply is not.
LEMMA Tending ==
    ASSUME IInv, NEW r \in Inputs, QueueHead(r), NEW t \in TaskRow, NEW c \in InputRow,
           task' = [task EXCEPT ![r] = t], input' = [input EXCEPT ![r] = c],
           t.status # "SUCCEEDED", t.live => t.status = "RUNNING",
           task[r].action # "NONE" => t.action # "NONE",
           c.evidence => input[r].evidence \/ checkpoint.run = r,
           UNCHANGED <<nextSeq, resolved, delivery, receipts, messages>>
    PROVE  Tends(r)
<1>1. task \in [Inputs -> TaskRow] /\ input \in [Inputs -> InputRow]
  BY DEF IInv, TypeOK
<1>2. Elsewhere(r)
  BY <1>1 DEF Elsewhere
<1>3. TaskGoesOn(r)
  BY <1>1 DEF TaskGoesOn
<1>4. SameReply(r)
  BY HeadRows DEF SameReply
<1> QED BY <1>2, <1>3, <1>4 DEF Tends

\* The reply of the head is written, what it says and whether it is out stays.
LEMMA Handing ==
    ASSUME IInv, NEW r \in Inputs, QueueHead(r), NEW d \in DeliveryRow, NEW c \in InputRow,
           delivery' = [delivery EXCEPT ![r] = d], input' = [input EXCEPT ![r] = c],
           c.evidence = input[r].evidence, d.outcome = delivery[r].outcome,
           d.status = "NONE" <=> delivery[r].status = "NONE",
           d.status = "PUBLISHED" <=> delivery[r].status = "PUBLISHED",
           d.token # Free => d.status = "RUNNING", d.live => d.token # Free,
           UNCHANGED <<nextSeq, resolved, task, receipts, messages>>
    PROVE  Tends(r)
<1>1. delivery \in [Inputs -> DeliveryRow] /\ input \in [Inputs -> InputRow]
  BY DEF IInv, TypeOK
<1>2. Elsewhere(r)
  BY <1>1 DEF Elsewhere
<1>3. TaskGoesOn(r)
  BY <1>1, HeadRows DEF TaskGoesOn
<1>4. SameReply(r)
  BY <1>1 DEF SameReply
<1> QED BY <1>2, <1>3, <1>4 DEF Tends

\* A task that is given up, released or recovered keeps what the seller ordered.
LEMMA Unleasable ==
    ASSUME NEW t \in TaskRow, NEW status \in {"PENDING", "RETRY_WAIT", "FAILED", "SUCCEEDED"}
    PROVE  LET u == Unleased(t, status) IN
           u \in TaskRow /\ u.status = status /\ ~u.live /\ u.action = t.action
<1>1. Unleased(t, status) \in TaskRow
  BY Unleasing
<1>2. /\ Unleased(t, status).status = status /\ ~Unleased(t, status).live
      /\ Unleased(t, status).action = t.action
  BY DEF Unleased, TaskRow
<1> QED BY <1>1, <1>2

LEMMA Settlable ==
    ASSUME NEW c \in InputRow, NEW b \in BOOLEAN
    PROVE  /\ Settle(c) \in InputRow /\ Settle(c).evidence = c.evidence
           /\ [Settle(c) EXCEPT !.recovery = b] \in InputRow
           /\ [Settle(c) EXCEPT !.recovery = b].evidence = c.evidence
<1>1. Settle(c) \in InputRow /\ [Settle(c) EXCEPT !.recovery = b] \in InputRow
  BY Settling
<1>2. Settle(c).evidence = c.evidence
  BY DEF Settle, InputRow
<1>3. [Settle(c) EXCEPT !.recovery = b].evidence = Settle(c).evidence
  BY <1>1 DEF InputRow
<1> QED BY <1>1, <1>2, <1>3

\* A refused claim gives up the head.
LEMMA Refusing ==
    ASSUME IInv, NEW r \in Inputs, QueueHead(r), NEW row \in TaskRow, GiveUp(r, row),
           row.status = "FAILED", ~row.live, row.action = task[r].action,
           UNCHANGED <<nextSeq, resolved, delivery, receipts, messages>>
    PROVE  Tends(r)
<1>1. PICK c \in InputRow : /\ input' = [input EXCEPT ![r] = c]
                            /\ c.evidence = input[r].evidence
  BY HeadRows, Settlable DEF GiveUp
<1>2. task' = [task EXCEPT ![r] = row]
  BY DEF GiveUp
<1> QED BY <1>1, <1>2, Tending

\* Supervisor and watchdog revoke at most the running head.
LEMMA Revokes ==
    ASSUME IInv, NEW i \in Instance, Revoke(i),
           UNCHANGED <<nextSeq, resolved, delivery, receipts, messages>>
    PROVE  RowsStay \/ Tends(exec[i].run)
<1>1. PICK r \in Inputs : r = exec[i].run
  BY ProcessFacts
<1>2. CASE UNCHANGED <<task, input>>
  BY <1>2 DEF RowsStay
<1>3. CASE /\ task[r].status = "RUNNING"
           /\ task' = [task EXCEPT ![r] = Unleased(task[r], "RETRY_WAIT")]
           /\ input' = [input EXCEPT ![r] = Settle(input[r])]
  <2>1. QueueHead(r)
    BY <1>3, HeadIsRunning
  <2>2. PICK c \in InputRow : /\ input' = [input EXCEPT ![r] = c]
                              /\ c.evidence = input[r].evidence
    BY <1>3, HeadRows, Settlable
  <2>3. PICK t \in TaskRow : /\ task' = [task EXCEPT ![r] = t] /\ t.status = "RETRY_WAIT"
                             /\ ~t.live /\ t.action = task[r].action
    BY <1>3, HeadRows, Unleasable
  <2>4. Tends(r)
    BY <2>1, <2>2, <2>3, Tending
  <2> QED BY <1>1, <2>4
<1> QED BY <1>1, <1>2, <1>3 DEF Revoke

\* The reply of the head is owed or published at most once.
LEMMA OwesOnce ==
    ASSUME IInv, NEW r \in Inputs, QueueHead(r), NoActionReply(r),
           checkpoint.run = r \/ task[r].action # "NONE",
           UNCHANGED <<nextSeq, resolved, task, input, receipts, messages>>
    PROVE  RowsStay \/ \E outcome \in Outcome : Owes(r, outcome)
<1>1. CASE delivery[r].status = "NONE"
  <2>1. "NOACTION" \in Outcome /\ "NOACTION" # "ACTION"
    BY DEF Outcome
  <2>2. Owes(r, "NOACTION")
    BY <1>1 DEF Owes, NoActionReply
  <2> QED BY <2>1, <2>2
<1>2. CASE delivery[r].status # "NONE"
  BY <1>2 DEF NoActionReply, RowsStay
<1> QED BY <1>1, <1>2

LEMMA AnswersOnce ==
    ASSUME IInv, NEW r \in Inputs, QueueHead(r), PublishReply(r),
           checkpoint.run = r \/ task[r].action # "NONE" \/ delivery[r].status # "NONE",
           UNCHANGED <<nextSeq, resolved, task, input, receipts>>
    PROVE  RowsStay \/ Answers(r)
BY DEF PublishReply, RowsStay, Answers, replyVars

\* The lock of a notification attempt is not that of a process.
LEMMA NotifiersAside ==
    ASSUME NEW n \in Notifier,
           \/ lock' = lock \/ (lock = Free /\ lock' = n) \/ (lock = n /\ lock' = Free),
           exec' = exec, checkpoint' = checkpoint
    PROVE  Idles
<1>1. \A i \in Instance : Free # i /\ n # i
  BY ConstantsAssumption
<1> QED BY <1>1 DEF Idles

-------------------------------------------------------------------------------
(* Every step is calm or finishes a run.                                   *)

\* The head of the queue, seen by the process that may claim it.
LEMMA ClaimableIsHead ==
    ASSUME IInv, NEW i \in Instance, exec[i].pc # "off", Claimable(exec[i].run)
    PROVE  QueueHead(exec[i].run)
BY DEF IInv, Machine, RunsAreHeads, Claimable, QueueHead

\* From the start of a process to its entry into the graph.
LEMMA EntrySteps ==
    ASSUME IInv, NEW i \in Instance,
           \/ Spawn(i) \/ Connect(i) \/ TryLock(i) \/ ThreadBusy(i) \/ ClaimAttempt(i)
           \/ Attach(i) \/ Enter(i)
    PROVE  Calm
<1> USE DEF queueVars, replyVars, boundVars
<1> DEFINE r == exec[i].run
<1>0. r \in Inputs /\ exec[i] \in ProcessRow /\ task[r] \in TaskRow /\ input[r] \in InputRow
  BY ProcessFacts, HeadRows
<1>1. CASE Spawn(i)
  BY <1>1 DEF Spawn, Calm, Minor, Moves, RowsStay
<1>2. CASE Connect(i)
  <2>1. /\ \A j \in Instance \ {i} : exec'[j] = exec[j]
        /\ exec'[i] = [exec[i] EXCEPT !.pc = "connected", !.conn = TRUE, !.row = "REGISTERED",
                                      !.token = 0, !.young = TRUE]
    BY <1>2, ProcessFacts DEF Connect
  <2>2. /\ exec'[i].pc = "connected" /\ exec'[i].run = exec[i].run /\ exec'[i].conn
    BY <1>0, <2>1 DEF ProcessRow
  <2>3. Falls(exec[i].pc, "connected") /\ "connected" \notin InGraph /\ "connected" \notin Holding
    BY <1>2 DEF Falls, Holding, Attempting, InGraph, Aborting, Connect
  <2>4. RowsStay /\ lock' = lock /\ checkpoint' = checkpoint
    BY <1>2 DEF Connect, RowsStay
  <2>5. Continues(i)
    BY <2>1, <2>2, <2>3, <2>4, ProcessFacts DEF Continues
  <2> QED BY <2>4, <2>5, Resting
<1>3. CASE TryLock(i)
  BY <1>3 DEF TryLock, Calm, Minor, Moves, RowsStay
<1>4. CASE ThreadBusy(i)
  <2>1. RowsStay
    BY <1>4 DEF ThreadBusy, RowsStay
  <2>2. Continues(i)
    BY <1>4, Ending DEF ThreadBusy
  <2> QED BY <2>1, <2>2, Resting
<1>5. CASE ClaimRefused(i)
  <2>1. RowsStay
    BY <1>5 DEF ClaimRefused, RowsStay
  <2>2. Continues(i)
    BY <1>5, Ending DEF ClaimRefused
  <2> QED BY <2>1, <2>2, Resting
<1>6. CASE ClaimExpired(i)
  <2>1. Continues(i)
    BY <1>6, Ending DEF ClaimExpired
  <2>2. QueueHead(r)
    BY <1>6, ClaimableIsHead DEF ClaimExpired
  <2>3. PICK row : row = ExpiredRow(r)
    OBVIOUS
  <2>4. row \in TaskRow /\ row.status = "FAILED" /\ ~row.live /\ row.action = task[r].action
    <3>1. PICK u \in TaskRow : /\ u = Unleased(task[r], "FAILED") /\ u.status = "FAILED"
                               /\ ~u.live /\ u.action = task[r].action
      BY <1>0, Unleasable
    <3>2. row = [u EXCEPT !.retryAt = task[r].retryAt] /\ task[r].retryAt \in BOOLEAN
      BY <1>0, <2>3, <3>1 DEF ExpiredRow, TaskRow
    <3> QED BY <3>1, <3>2 DEF TaskRow
  <2>5. \/ GiveUp(r, row) \/ UNCHANGED <<task, input>>
    BY <1>6, <2>3 DEF ClaimExpired
  <2>6. UNCHANGED <<nextSeq, resolved, delivery, receipts, messages>>
    BY <1>6 DEF ClaimExpired
  <2>7. CASE UNCHANGED <<task, input>>
    BY <2>1, <2>6, <2>7, Resting DEF RowsStay
  <2>8. CASE GiveUp(r, row)
    <3>1. Tends(r)
      BY <1>0, <2>2, <2>4, <2>6, <2>8, Refusing
    <3> QED BY <1>0, <2>1, <3>1, Resting
  <2> QED BY <2>5, <2>7, <2>8
<1>7. CASE ClaimExhausted(i)
  <2>1. Continues(i)
    BY <1>7, Ending DEF ClaimExhausted
  <2>2. QueueHead(r)
    BY <1>7, ClaimableIsHead DEF ClaimExhausted
  <2>3. PICK row \in TaskRow : /\ row = ExhaustedRow(r) /\ row.status = "FAILED"
                               /\ ~row.live /\ row.action = task[r].action
    BY <1>0, Unleasable DEF ExhaustedRow
  <2>4. Tends(r)
    BY <1>0, <1>7, <2>2, <2>3, Refusing DEF ClaimExhausted
  <2> QED BY <1>0, <2>1, <2>4, Resting
<1>8. CASE Claim(i)
  <2>1. QueueHead(r)
    BY <1>8, ClaimableIsHead DEF Claim
  <2>2. PICK t : t = [task[r] EXCEPT !.status = "RUNNING", !.token = task[r].attempts + 1,
                          !.live = TRUE, !.grace = CleanupOnly(r), !.retryAt = FALSE,
                          !.attempts = task[r].attempts + 1]
    OBVIOUS
  <2>3. CleanupOnly(r) \in BOOLEAN /\ task[r].attempts + 1 \in Nat
    BY <1>0 DEF CleanupOnly, TaskRow
  <2>4. t \in TaskRow /\ t.status = "RUNNING" /\ t.action = task[r].action
    BY <1>0, <2>2, <2>3 DEF TaskRow, TaskStatus
  <2>5. task' = [task EXCEPT ![r] = t]
    BY <1>8, <2>2 DEF Claim
  <2>6. PICK c \in InputRow : /\ input' = [input EXCEPT ![r] = c]
                              /\ c.evidence = input[r].evidence
    <3>1. /\ input' = [input EXCEPT ![r] = [input[r] EXCEPT !.active = TRUE]]
          /\ [input[r] EXCEPT !.active = TRUE] \in InputRow
          /\ [input[r] EXCEPT !.active = TRUE].evidence = input[r].evidence
      BY <1>0, <1>8 DEF Claim, InputRow
    <3> QED BY <3>1
  <2>7. Tends(r)
    BY <1>0, <1>8, <2>1, <2>4, <2>5, <2>6, Tending DEF Claim
  <2> QED BY <1>0, <1>8, <2>7 DEF Calm, Minor, Moves
<1>9. CASE Attach(i)
  <2>1. RowsStay /\ lock' = lock /\ checkpoint' = checkpoint
    BY <1>9 DEF Attach, RowsStay
  <2>2. CASE Fail(i, "release")
    <3>1. Falls(exec[i].pc, "release") /\ "release" \notin InGraph
      BY <1>9 DEF Falls, Holding, Attempting, InGraph, Aborting, Attach, Step
    <3>2. Continues(i)
      BY <2>1, <2>2, <3>1, Failing
    <3> QED BY <2>1, <3>2, Resting
  <2>3. CASE exec' = [exec EXCEPT ![i].pc = "attached", ![i].token = exec[i].owner,
                                  ![i].young = FALSE]
    <3>1. /\ \A j \in Instance \ {i} : exec'[j] = exec[j]
          /\ exec'[i] = [exec[i] EXCEPT !.pc = "attached", !.token = exec[i].owner, !.young = FALSE]
      BY <2>3, ProcessFacts
    <3>2. /\ exec'[i].pc = "attached" /\ exec'[i].run = exec[i].run
          /\ exec'[i].conn = exec[i].conn
      BY <1>0, <3>1 DEF ProcessRow
    <3>3. Falls(exec[i].pc, "attached") /\ "attached" \notin InGraph
      BY <1>9 DEF Falls, Holding, Attempting, InGraph, Aborting, Attach, Step
    <3>4. Continues(i)
      BY <2>1, <3>1, <3>2, <3>3, ProcessFacts DEF Continues
    <3> QED BY <2>1, <3>4, Resting
  <2> QED BY <1>9, <2>2, <2>3 DEF Attach
<1>10. CASE Enter(i)
  BY <1>10 DEF Enter, Calm, Minor, Moves, RowsStay
<1> QED BY <1>1, <1>2, <1>3, <1>4, <1>5, <1>6, <1>7, <1>8, <1>9, <1>10 DEF ClaimAttempt

\* The stages of the graph and the termination of a run.
LEMMA StageSteps ==
    ASSUME IInv, NEW i \in Instance,
           \/ StageStale(i) \/ Parse(i) \/ CheckBudget(i) \/ CommitAction(i) \/ CommitNothing(i)
           \/ Compose(i) \/ Publish(i) \/ SaveCheckpoint(i)
           \/ Abort(i) \/ AbortPublish(i) \/ AbortSave(i)
    PROVE  Calm
<1> USE DEF queueVars, replyVars, boundVars
<1> DEFINE r == exec[i].run
<1>0. r \in Inputs /\ exec[i] \in ProcessRow /\ task[r] \in TaskRow /\ input[r] \in InputRow
  BY ProcessFacts, HeadRows
<1>a. ASSUME exec[i].pc \in {"node", "execute"} PROVE Falls(exec[i].pc, "save")
  BY <1>a DEF Falls, Holding, Attempting, InGraph, Aborting, Step
<1>b. ASSUME exec[i].pc \in {"node", "execute", "save", "abort", "abortPublish"}
      PROVE  Falls(exec[i].pc, "release") /\ "release" \notin InGraph
  BY <1>b DEF Falls, Holding, Attempting, InGraph, Aborting, Step
<1>c. ASSUME exec[i].pc \in {"node", "execute"}, Owns(i)
      PROVE  QueueHead(r) /\ checkpoint.run = r
  BY <1>c, ProcessFacts DEF InGraph
<1>d. ASSUME exec[i].pc \in {"abort", "abortPublish"}, Owns(i)
      PROVE  QueueHead(r) /\ task[r].action # "NONE"
  BY <1>d, ProcessFacts DEF Aborting
<1>1. CASE StageStale(i)
  <2>1. RowsStay
    BY <1>1 DEF StageStale, RowsStay
  <2>2. Continues(i)
    BY <1>1, <1>b, Failing DEF StageStale
  <2> QED BY <2>1, <2>2, Resting
<1>2. CASE Parse(i)
  <2>1. Continues(i)
    BY <1>2, <1>a, Going DEF Parse, Stage
  <2>2. QueueHead(r) /\ checkpoint.run = r
    BY <1>2, <1>c DEF Parse, Stage
  <2>3. PICK c \in InputRow : input' = [input EXCEPT ![r] = c]
    <3>1. /\ input' = [input EXCEPT ![r] = [input[r] EXCEPT !.evidence = TRUE]]
          /\ [input[r] EXCEPT !.evidence = TRUE] \in InputRow
      BY <1>0, <1>2 DEF Parse, InputRow
    <3> QED BY <3>1
  <2>4. task' = [task EXCEPT ![r] = task[r]]
    BY <1>2 DEF Parse, IInv, TypeOK
  <2>5. Tends(r)
    BY <1>0, <1>2, <2>2, <2>3, <2>4, HeadRows, Tending DEF Parse
  <2> QED BY <1>0, <2>1, <2>5, Resting
<1>3. CASE CheckBudget(i)
  <2>1. lock' = lock /\ checkpoint' = checkpoint
        /\ UNCHANGED <<nextSeq, resolved, task, input, receipts, messages>>
    BY <1>3 DEF CheckBudget
  <2>2. QueueHead(r) /\ checkpoint.run = r
    BY <1>3, <1>c DEF CheckBudget, Stage
  <2>3. CASE NoActionReply(r) /\ Goto(i, "save")
    <3>1. Continues(i)
      BY <1>3, <1>a, <2>1, <2>3, Going DEF CheckBudget, Stage
    <3>2. RowsStay \/ \E outcome \in Outcome : Owes(r, outcome)
      BY <1>0, <2>1, <2>2, <2>3, OwesOnce
    <3> QED BY <1>0, <3>1, <3>2, Resting
  <2>4. CASE UNCHANGED delivery /\ Goto(i, "execute")
    <3>1. Falls(exec[i].pc, "execute")
      BY <1>3 DEF Falls, Holding, Attempting, InGraph, Aborting, Step, CheckBudget, Stage
    <3>2. Continues(i)
      BY <2>1, <2>4, <3>1, Going
    <3> QED BY <2>1, <2>4, <3>2, Resting DEF RowsStay
  <2> QED BY <1>3, <2>3, <2>4 DEF CheckBudget
<1>4. CASE CommitAction(i)
  <2>1. lock' = lock /\ checkpoint' = checkpoint
        /\ UNCHANGED <<nextSeq, resolved, task, input, messages>>
    BY <1>4 DEF CommitAction
  <2>2. QueueHead(r) /\ checkpoint.run = r
    BY <1>4, <1>c DEF CommitAction
  <2>3. CASE (Goto(i, "save") \/ Fail(i, "release")) /\ UNCHANGED <<delivery, receipts>>
    <3>1. Continues(i)
      BY <1>4, <1>a, <1>b, <2>1, <2>3, Going, Failing DEF CommitAction
    <3> QED BY <2>1, <2>3, <3>1, Resting DEF RowsStay
  <2>4. CASE /\ delivery[r].status = "NONE" /\ receipts' = receipts \cup {r}
             /\ delivery' = [delivery EXCEPT ![r] = NewDelivery("ACTION")]
             /\ Goto(i, "save")
    <3>1. Continues(i)
      BY <1>4, <1>a, <2>1, <2>4, Going DEF CommitAction
    <3>2. Owes(r, "ACTION") /\ "ACTION" \in Outcome
      BY <2>1, <2>2, <2>4 DEF Owes, Outcome
    <3> QED BY <1>0, <3>1, <3>2, Resting
  <2> QED BY <1>4, <2>3, <2>4 DEF CommitAction
<1>5. CASE CommitNothing(i)
  <2>1. Continues(i)
    BY <1>5, <1>a, Going DEF CommitNothing
  <2>2. QueueHead(r) /\ checkpoint.run = r
    BY <1>5, <1>c DEF CommitNothing
  <2>3. RowsStay \/ \E outcome \in Outcome : Owes(r, outcome)
    BY <1>0, <1>5, <2>2, OwesOnce DEF CommitNothing
  <2> QED BY <1>0, <2>1, <2>3, Resting
<1>6. CASE Compose(i)
  <2>1. RowsStay
    BY <1>6 DEF Compose, RowsStay
  <2>2. Continues(i)
    BY <1>6, <1>a, Going DEF Compose, Stage
  <2> QED BY <2>1, <2>2, Resting
<1>7. CASE Publish(i)
  <2>1. Continues(i)
    BY <1>7, <1>a, Going DEF Publish, Stage
  <2>2. QueueHead(r) /\ checkpoint.run = r
    BY <1>7, <1>c DEF Publish, Stage
  <2>3. RowsStay \/ Answers(r)
    BY <1>0, <1>7, <2>2, AnswersOnce DEF Publish
  <2> QED BY <1>0, <2>1, <2>3, Resting
<1>8. CASE SaveCheckpoint(i)
  BY <1>8 DEF SaveCheckpoint, Calm, Minor, Moves, RowsStay
<1>9. CASE Abort(i)
  <2>1. lock' = lock /\ checkpoint' = checkpoint
        /\ UNCHANGED <<nextSeq, resolved, task, input, receipts, messages>>
    BY <1>9 DEF Abort
  <2>2. CASE Owns(i) /\ NoActionReply(r) /\ Goto(i, "abortPublish")
    <3>1. Falls(exec[i].pc, "abortPublish")
      BY <1>9 DEF Falls, Holding, Attempting, InGraph, Aborting, Step, Abort
    <3>2. Continues(i)
      BY <2>1, <2>2, <3>1, Going
    <3>3. QueueHead(r) /\ task[r].action # "NONE"
      BY <1>9, <2>2, <1>d DEF Abort
    <3>4. RowsStay \/ \E outcome \in Outcome : Owes(r, outcome)
      BY <1>0, <2>1, <2>2, <3>3, OwesOnce
    <3> QED BY <1>0, <3>2, <3>4, Resting
  <2>3. CASE UNCHANGED delivery /\ Fail(i, "release")
    <3>1. Continues(i)
      BY <1>9, <1>b, <2>1, <2>3, Failing DEF Abort
    <3> QED BY <2>1, <2>3, <3>1, Resting DEF RowsStay
  <2> QED BY <1>9, <2>2, <2>3 DEF Abort
<1>10. CASE AbortPublish(i)
  <2>1. lock' = lock /\ checkpoint' = checkpoint
        /\ UNCHANGED <<nextSeq, resolved, task, input, receipts>>
    BY <1>10 DEF AbortPublish
  <2>2. CASE Owns(i) /\ PublishReply(r) /\ Goto(i, "abortSave")
    <3>1. Falls(exec[i].pc, "abortSave")
      BY <1>10 DEF Falls, Holding, Attempting, InGraph, Aborting, Step, AbortPublish
    <3>2. Continues(i)
      BY <2>1, <2>2, <3>1, Going
    <3>3. QueueHead(r) /\ task[r].action # "NONE"
      BY <1>10, <2>2, <1>d DEF AbortPublish
    <3>4. RowsStay \/ Answers(r)
      BY <1>0, <2>1, <2>2, <3>3, AnswersOnce
    <3> QED BY <1>0, <3>2, <3>4, Resting
  <2>3. CASE UNCHANGED replyVars /\ Fail(i, "release")
    <3>1. Continues(i)
      BY <1>10, <1>b, <2>1, <2>3, Failing DEF AbortPublish
    <3> QED BY <2>1, <2>3, <3>1, Resting DEF RowsStay
  <2> QED BY <1>10, <2>2, <2>3 DEF AbortPublish
<1>11. CASE AbortSave(i)
  BY <1>11 DEF AbortSave, Calm, Minor, Moves, RowsStay
<1> QED BY <1>1, <1>2, <1>3, <1>4, <1>5, <1>6, <1>7, <1>8, <1>9, <1>10, <1>11

\* The end of a run: finalized, released, or failed to.
LEMMA EndSteps ==
    ASSUME IInv, NEW i \in Instance, Finalize(i) \/ Release(i)
    PROVE  Calm \/ Final
<1> USE DEF queueVars, replyVars, boundVars
<1> DEFINE r == exec[i].run
<1>0. r \in Inputs /\ exec[i] \in ProcessRow /\ task[r] \in TaskRow /\ input[r] \in InputRow
  BY ProcessFacts, HeadRows
<1>1. CASE Finalize(i)
  <2>1. UNCHANGED <<nextSeq, delivery, receipts, messages, checkpoint>>
    BY <1>1 DEF Finalize
  <2>2. CASE Fail(i, "release") /\ UNCHANGED <<resolved, input, task, lock>>
    <3>1. Falls(exec[i].pc, "release") /\ "release" \notin InGraph
      BY <1>1 DEF Falls, Holding, Attempting, InGraph, Aborting, Step, Finalize
    <3>2. Continues(i)
      BY <2>1, <2>2, <3>1, Failing
    <3> QED BY <2>1, <2>2, <3>2, Resting DEF RowsStay
  <2>3. CASE /\ exec[i].conn /\ Owns(i) /\ checkpoint = [run |-> r, next |-> "END"]
             /\ delivery[r].status = "PUBLISHED" /\ resolved' = r
             /\ input' = [input EXCEPT ![r] = Settle(input[r])]
             /\ task' = [task EXCEPT ![r] = Unleased(task[r], "SUCCEEDED")]
             /\ Exit(i, task'[r])
    <3>1. lock = i
      <4>1. exec[i].pc \in Holding
        BY <1>1 DEF Finalize, Holding, Step
      <4> QED BY <2>3, <4>1 DEF IInv, Machine, LockIsHeld
    <3>2. Leaves(i)
      BY <2>1, <2>3, <3>1, Ending
    <3>3. PICK t \in TaskRow : /\ task' = [task EXCEPT ![r] = t] /\ t.status = "SUCCEEDED"
                               /\ ~t.live /\ t.action = task[r].action
      BY <1>0, <2>3, Unleasable
    <3>4. task \in [Inputs -> TaskRow] /\ input \in [Inputs -> InputRow]
      BY DEF IInv, TypeOK
    <3>5. Elsewhere(r)
      BY <2>1, <2>3, <3>3, <3>4 DEF Elsewhere
    <3>6. /\ task'[r].status = "SUCCEEDED" /\ ~task'[r].live /\ task'[r].action = task[r].action
      BY <1>0, <3>3, <3>4
    <3>7. QueueHead(r)
      BY <2>3, ProcessFacts
    <3>8. Resolves(r)
      BY <2>1, <2>3, <3>5, <3>6, <3>7 DEF Resolves
    <3> QED BY <3>2, <3>8 DEF Final
  <2> QED BY <1>1, <2>2, <2>3 DEF Finalize
<1>2. CASE Release(i)
  <2>1. Continues(i)
    BY <1>2, Ending DEF Release
  <2>2. UNCHANGED <<nextSeq, resolved, delivery, receipts, messages>>
    BY <1>2 DEF Release
  <2>3. CASE UNCHANGED <<task, input>>
    BY <2>1, <2>2, <2>3, Resting DEF RowsStay
  <2>4. CASE Owns(i)
    <3>1. QueueHead(r)
      BY <2>4, ProcessFacts
    <3>2. PICK t \in TaskRow : /\ task' = [task EXCEPT ![r] = t] /\ t.status = "RETRY_WAIT"
                               /\ ~t.live /\ t.action = task[r].action
      BY <1>0, <1>2, <2>4, Unleasable DEF Release
    <3>3. (exec[i].pc = "conflict") \in BOOLEAN
      OBVIOUS
    <3>4. PICK c \in InputRow : /\ input' = [input EXCEPT ![r] = c]
                                /\ c.evidence = input[r].evidence
      BY <1>0, <1>2, <2>4, <3>3, Settlable DEF Release
    <3>5. Tends(r)
      BY <1>0, <2>2, <3>1, <3>2, <3>4, Tending
    <3> QED BY <1>0, <2>1, <3>5, Resting
  <2> QED BY <1>2, <2>3, <2>4 DEF Release
<1> QED BY <1>1, <1>2

\* Faults, and what supervisor, watchdog and time do to a process.
LEMMA ProcessSteps ==
    ASSUME IInv, NEW i \in Instance,
           \/ Break(i) \/ ConnectionEnds(i) \/ Supervise(i) \/ Watch(i) \/ RegistrationAges(i)
    PROVE  Calm
<1> USE DEF queueVars, replyVars, boundVars
<1> DEFINE r == exec[i].run
<1>0. r \in Inputs /\ exec[i] \in ProcessRow
  BY ProcessFacts
<1>1. CASE Hang(i)
  <2>1. Falls(exec[i].pc, "hung")
    BY <1>1 DEF Falls, Holding, Attempting, InGraph, Aborting, Step, Hang
  <2>2. Continues(i)
    BY <1>1, <2>1, Going DEF Hang
  <2> QED BY <1>1, <2>2, Resting DEF Hang, RowsStay
<1>2. CASE Crash(i)
  <2>1. Continues(i)
    BY <1>2, Dying DEF Crash
  <2> QED BY <1>2, <2>1, Resting DEF Crash, RowsStay
<1>3. CASE Orphan(i)
  <2>1. Continues(i)
    BY <1>3, Marking DEF Orphan
  <2> QED BY <1>3, <2>1, Resting DEF Orphan, RowsStay
<1>4. CASE LoseConnection(i)
  <2>1. /\ \A j \in Instance \ {i} : exec'[j] = exec[j]
        /\ exec'[i] = [exec[i] EXCEPT !.conn = FALSE]
        /\ lock' = IF lock = i THEN Free ELSE lock
        /\ checkpoint' = checkpoint
    BY <1>4, ProcessFacts DEF LoseConnection
  <2>2. /\ exec'[i].pc = exec[i].pc /\ exec'[i].run = exec[i].run
        /\ ~exec'[i].conn /\ exec'[i].node = exec[i].node
    BY <1>0, <2>1 DEF ProcessRow
  <2>3. \A j \in Instance : Free # j
    BY ConstantsAssumption
  <2>4. Continues(i)
    BY <2>1, <2>2, <2>3 DEF Continues, Falls
  <2> QED BY <1>4, <2>4, Resting DEF LoseConnection, RowsStay
<1>5. CASE Raise(i)
  <2>1. Falls(exec[i].pc, "release") /\ "release" \notin InGraph
    BY <1>5 DEF Falls, Holding, Attempting, InGraph, Aborting, Step, Raise
  <2>2. Continues(i)
    BY <1>5, <2>1, Failing DEF Raise
  <2> QED BY <1>5, <2>2, Resting DEF Raise, RowsStay
<1>6. CASE ConnectionEnds(i)
  <2>1. Continues(i)
    BY <1>6, Ending DEF ConnectionEnds
  <2> QED BY <1>6, <2>1, Resting DEF ConnectionEnds, RowsStay
<1>7. CASE SupervisorLooks(i)
  <2>1. Continues(i)
    BY <1>7, Marking DEF SupervisorLooks
  <2> QED BY <1>7, <2>1, Resting DEF SupervisorLooks, RowsStay
<1>8. CASE SupervisorFences(i)
  <2>1. Continues(i)
    BY <1>8, Marking DEF SupervisorFences
  <2>2. RowsStay \/ Tends(r)
    BY <1>8, Revokes DEF SupervisorFences
  <2> QED BY <1>0, <2>1, <2>2, Resting
<1>9. CASE SupervisorKills(i)
  <2>1. Continues(i)
    BY <1>9, Dying DEF SupervisorKills
  <2> QED BY <1>9, <2>1, Resting DEF SupervisorKills, RowsStay
<1>10. CASE WatchdogRevokes(i)
  <2>1. Continues(i)
    BY <1>10, Marking DEF WatchdogRevokes
  <2>2. RowsStay \/ Tends(r)
    BY <1>10, Revokes DEF WatchdogRevokes
  <2> QED BY <1>0, <2>1, <2>2, Resting
<1>11. CASE WatchdogReleases(i)
  <2>1. /\ \A j \in Instance \ {i} : exec'[j] = exec[j]
        /\ exec'[i] = IF exec[i].pc = "off" THEN NoProcess
                      ELSE [exec[i] EXCEPT !.conn = FALSE, !.row = "NONE", !.token = 0, !.young = FALSE]
        /\ lock' = IF lock = i THEN Free ELSE lock
        /\ checkpoint' = checkpoint
    BY <1>11, ProcessFacts DEF WatchdogReleases
  <2>2. ASSUME exec[i].pc = "off"
        PROVE  /\ exec'[i].pc = "off" /\ exec'[i].run = 1 /\ ~exec'[i].conn
               /\ Falls(exec[i].pc, exec'[i].pc) /\ exec'[i].pc \notin InGraph
    <3>1. exec'[i].pc = "off" /\ exec'[i].run = 1 /\ ~exec'[i].conn
      BY <2>1, <2>2 DEF NoProcess
    <3>2. Falls(exec[i].pc, exec'[i].pc) /\ exec'[i].pc \notin InGraph
      BY <3>1 DEF Falls, Holding, Attempting, InGraph, Aborting
    <3> QED BY <3>1, <3>2
  <2>3. ASSUME exec[i].pc # "off"
        PROVE  /\ exec'[i].run = exec[i].run /\ ~exec'[i].conn
               /\ exec'[i].node = exec[i].node /\ Falls(exec[i].pc, exec'[i].pc)
    <3>1. exec'[i] = [exec[i] EXCEPT !.conn = FALSE, !.row = "NONE", !.token = 0, !.young = FALSE]
      BY <2>1, <2>3
    <3>2. /\ exec'[i].pc = exec[i].pc /\ exec'[i].run = exec[i].run
          /\ ~exec'[i].conn /\ exec'[i].node = exec[i].node
      BY <1>0, <3>1 DEF ProcessRow
    <3>3. Falls(exec[i].pc, exec'[i].pc)
      BY <3>2 DEF Falls
    <3> QED BY <3>2, <3>3
  <2>4. \A j \in Instance : Free # j
    BY ConstantsAssumption
  <2>5. /\ exec'[i].run = exec[i].run \/ (exec'[i].pc = "off" /\ exec'[i].run = 1)
        /\ Falls(exec[i].pc, exec'[i].pc) /\ ~exec'[i].conn
        /\ exec'[i].pc \in InGraph => exec'[i].node = exec[i].node
    BY <2>2, <2>3
  <2>6. Continues(i)
    BY <2>1, <2>4, <2>5 DEF Continues
  <2> QED BY <1>11, <2>6, Resting DEF WatchdogReleases, RowsStay
<1>12. CASE RegistrationAges(i)
  <2>1. Continues(i)
    BY <1>12, Marking DEF RegistrationAges, Passes
  <2> QED BY <1>12, <2>1, Resting DEF RegistrationAges, Passes, RowsStay
<1> QED BY <1>1, <1>2, <1>3, <1>4, <1>5, <1>6, <1>7, <1>8, <1>9, <1>10, <1>11, <1>12
        DEF Break, Supervise, Watch

\* The dispatcher: it claims what is owed, publishes it once, and gives it back.
LEMMA NotifierSteps ==
    ASSUME IInv, NEW n \in Notifier, Notify(n) \/ BreakNotify(n)
    PROVE  Calm
<1> USE DEF queueVars, replyVars, boundVars
<1>0. \A k \in Inputs : input' = input => input' = [input EXCEPT ![k] = input[k]]
  BY DEF IInv, TypeOK
<1>r. notifier[n] # 0 => notifier[n] \in Inputs
  BY DEF IInv, TypeOK, Inputs
<1>1. CASE NotifyClaim(n)
  <2>1. PICK r \in Inputs : /\ Notifiable(r)
          /\ delivery' = [delivery EXCEPT ![r].status = "RUNNING", ![r].token = n, ![r].live = TRUE,
                             ![r].attempts = IF delivery[r].attempts < MaxNotify
                                             THEN delivery[r].attempts + 1
                                             ELSE delivery[r].attempts]
    BY <1>1 DEF NotifyClaim
  <2>2. PICK a \in Nat : a = IF delivery[r].attempts < MaxNotify THEN delivery[r].attempts + 1
                             ELSE delivery[r].attempts
    BY HeadRows DEF DeliveryRow
  <2>3. PICK d : d = [delivery[r] EXCEPT !.status = "RUNNING", !.token = n, !.live = TRUE,
                                         !.attempts = a]
    OBVIOUS
  <2>4. /\ d \in DeliveryRow /\ d.outcome = delivery[r].outcome /\ d.status = "RUNNING"
    BY <2>3, HeadRows DEF DeliveryRow, DeliveryStatus
  <2>5. delivery' = [delivery EXCEPT ![r] = d]
    BY <2>1, <2>2, <2>3
  <2>6. delivery[r].status \notin {"NONE", "PUBLISHED"}
    BY <2>1 DEF Notifiable
  <2>7. QueueHead(r)
    BY <2>6, HeadIsOwed
  <2>8. UNCHANGED <<nextSeq, resolved, task, input, receipts, messages>>
    BY <1>1 DEF NotifyClaim
  <2>9. d.token # Free
    BY <2>3, HeadRows, ConstantsAssumption DEF DeliveryRow
  <2>10. Tends(r)
    BY <1>0, <2>4, <2>5, <2>6, <2>7, <2>8, <2>9, HeadRows, Handing
  <2>11. Idles
    BY <1>1, NotifiersAside DEF NotifyClaim
  <2> QED BY <2>10, <2>11, Resting
<1>2. CASE NotifyPublish(n)
  <2>1. PICK r \in Inputs : r = notifier[n]
    BY <1>2, <1>r DEF NotifyPublish
  <2>2. delivery[r].status = "RUNNING"
    BY <1>2, <2>1, HeadRows DEF NotifyPublish, NotifyOwns
  <2>3. QueueHead(r)
    BY <2>2, HeadIsOwed
  <2>4. RowsStay \/ Answers(r)
    BY <1>2, <2>1, <2>2, <2>3, AnswersOnce DEF NotifyPublish
  <2>5. Idles
    BY <1>2, NotifiersAside DEF NotifyPublish, NotifyEnd
  <2> QED BY <2>4, <2>5, Resting
<1>3. CASE NotifyStale(n) \/ NotifyRaise(n)
  <2>1. NotifyRetry(n)
    BY <1>3 DEF NotifyStale, NotifyRaise
  <2>2. PICK r \in Inputs : r = notifier[n]
    BY <1>3, <1>r DEF NotifyStale, NotifyRaise
  <2>3. UNCHANGED <<nextSeq, resolved, task, input, receipts, messages>>
    BY <2>1 DEF NotifyRetry
  <2>4. Idles
    BY <2>1, NotifiersAside DEF NotifyRetry, NotifyEnd
  <2>5. CASE delivery[r].token # n
    BY <2>1, <2>2, <2>3, <2>4, <2>5, Resting DEF NotifyRetry, RowsStay
  <2>6. CASE delivery[r].token = n
    <3>1. delivery[r].status = "RUNNING"
      BY <2>6, HeadRows, ConstantsAssumption
    <3>2. QueueHead(r)
      BY <3>1, HeadIsOwed
    <3>3. PICK q \in {"MANUAL_REQUIRED", "RETRY_WAIT"} :
             q = IF delivery[r].attempts >= MaxNotify THEN "MANUAL_REQUIRED" ELSE "RETRY_WAIT"
      OBVIOUS
    <3>4. PICK d : d = [delivery[r] EXCEPT !.token = Free, !.live = FALSE, !.status = q]
      OBVIOUS
    <3>5. d \in DeliveryRow /\ d.outcome = delivery[r].outcome /\ d.status = q
          /\ d.token = Free /\ ~d.live
      BY <3>3, <3>4, HeadRows DEF DeliveryRow, DeliveryStatus
    <3>6. delivery' = [delivery EXCEPT ![r] = d]
      BY <2>1, <2>2, <2>6, <3>3, <3>4 DEF NotifyRetry
    <3>7. Tends(r)
      BY <1>0, <2>3, <3>1, <3>2, <3>3, <3>5, <3>6, HeadRows, Handing
    <3> QED BY <2>4, <3>7, Resting
  <2> QED BY <2>5, <2>6
<1>4. CASE NotifyCrash(n)
  <2>1. Idles
    BY <1>4, NotifiersAside DEF NotifyCrash, NotifyEnd
  <2> QED BY <1>4, <2>1, Resting DEF NotifyCrash, RowsStay
<1>5. CASE NotifyLosesConnection(n)
  <2>1. Idles
    BY <1>5, NotifiersAside DEF NotifyLosesConnection
  <2> QED BY <1>5, <2>1, Resting DEF NotifyLosesConnection, RowsStay
<1> QED BY <1>1, <1>2, <1>3, <1>4, <1>5 DEF Notify, BreakNotify

\* The seller's recovery desk and the passing of deadlines.
LEMMA DeskAndClockSteps ==
    ASSUME IInv, NEW r \in Inputs,
           \/ Recover(r, "RETRY") \/ Recover(r, "TERMINATE") \/ RecoverNotification(r)
           \/ Clock(r)
    PROVE  Calm
<1> USE DEF queueVars, replyVars, boundVars
<1>0. /\ input' = input => input' = [input EXCEPT ![r] = input[r]]
      /\ task' = task => task' = [task EXCEPT ![r] = task[r]]
  BY DEF IInv, TypeOK
<1>1. ASSUME NEW action \in {"RETRY", "TERMINATE"}, Recover(r, action) PROVE Calm
  <2>1. PICK m \in Nat : m = IF task[r].max > task[r].attempts
                             THEN task[r].max ELSE task[r].attempts + 1
    BY HeadRows DEF TaskRow
  <2>2. PICK u \in TaskRow : /\ u = Unleased(task[r], "PENDING") /\ u.status = "PENDING"
                             /\ ~u.live /\ u.action = task[r].action
    BY HeadRows, Unleasable
  <2>3. PICK t : t = [u EXCEPT !.action = action, !.max = m]
    OBVIOUS
  <2>4. t \in TaskRow /\ t.status = "PENDING" /\ ~t.live /\ t.action = action
    BY <2>2, <2>3 DEF TaskRow
  <2>5. task' = [task EXCEPT ![r] = t]
    BY <1>1, <2>1, <2>2, <2>3 DEF Recover
  <2>6. PICK c : c = [input[r] EXCEPT !.recovery = FALSE]
    OBVIOUS
  <2>7. c \in InputRow /\ c.evidence = input[r].evidence
    BY <2>6, HeadRows DEF InputRow
  <2>8. input' = [input EXCEPT ![r] = c]
    BY <1>1, <2>6 DEF Recover
  <2>9. /\ QueueHead(r) /\ UNCHANGED <<nextSeq, resolved, delivery, receipts, messages>>
        /\ lock' = lock /\ exec' = exec /\ checkpoint' = checkpoint
    BY <1>1 DEF Recover
  <2>10. Tends(r)
    BY <2>4, <2>5, <2>7, <2>8, <2>9, Tending
  <2> QED BY <2>9, <2>10, Resting DEF Idles
<1>2. CASE RecoverNotification(r)
  <2>1. PICK d : d = [delivery[r] EXCEPT !.status = "PENDING", !.token = Free, !.live = FALSE]
    OBVIOUS
  <2>2. d \in DeliveryRow /\ d.outcome = delivery[r].outcome /\ d.status = "PENDING"
        /\ d.token = Free /\ ~d.live
    BY <2>1, HeadRows DEF DeliveryRow, DeliveryStatus
  <2>3. delivery' = [delivery EXCEPT ![r] = d] /\ delivery[r].status = "MANUAL_REQUIRED"
    BY <1>2, <2>1 DEF RecoverNotification
  <2>4. QueueHead(r)
    BY <2>3, HeadIsOwed
  <2>5. /\ UNCHANGED <<nextSeq, resolved, task, input, receipts, messages>>
        /\ lock' = lock /\ exec' = exec /\ checkpoint' = checkpoint
    BY <1>2 DEF RecoverNotification
  <2>6. Tends(r)
    BY <1>0, <2>2, <2>3, <2>4, <2>5, HeadRows, Handing
  <2> QED BY <2>5, <2>6, Resting DEF Idles
<1>3. ASSUME Clock(r) PROVE Calm
  <2>0. /\ UNCHANGED <<nextSeq, resolved, receipts, messages>>
        /\ lock' = lock /\ exec' = exec /\ checkpoint' = checkpoint
    BY <1>3 DEF Clock, LeaseExpires, BudgetEnds, ReplyDeadlinePasses, WindowCloses,
                NotifyLeaseExpires, Passes
  <2>1. CASE LeaseExpires(r)
    <3>1. QueueHead(r)
      BY <2>1, HeadRows, HeadIsRunning DEF LeaseExpires
    <3>2. PICK t : t = [task[r] EXCEPT !.live = FALSE]
      OBVIOUS
    <3>3. t \in TaskRow /\ ~t.live /\ t.status = task[r].status /\ t.action = task[r].action
      BY <3>2, HeadRows DEF TaskRow
    <3>4. task' = [task EXCEPT ![r] = t] /\ delivery' = delivery
          /\ input' = [input EXCEPT ![r] = input[r]]
      BY <1>0, <2>1, <3>2 DEF LeaseExpires
    <3>5. /\ input[r] \in InputRow /\ t.status # "SUCCEEDED"
          /\ task[r].action # "NONE" => t.action # "NONE"
      BY <3>1, <3>3, HeadRows
    <3>6. Tends(r)
      BY <2>0, <3>1, <3>3, <3>4, <3>5, Tending
    <3> QED BY <2>0, <3>6, Resting DEF Idles
  <2>2. CASE BudgetEnds(r)
    <3>1. QueueHead(r)
      BY <2>2, HeadRows, HeadIsRunning DEF BudgetEnds
    <3>2. PICK c : c = [input[r] EXCEPT !.window = "closing"]
      OBVIOUS
    <3>3. c \in InputRow /\ c.evidence = input[r].evidence
      BY <3>2, HeadRows DEF InputRow
    <3>4. input' = [input EXCEPT ![r] = c] /\ delivery' = delivery
          /\ task' = [task EXCEPT ![r] = task[r]]
      BY <1>0, <2>2, <3>2 DEF BudgetEnds
    <3>5. /\ task[r] \in TaskRow /\ task[r].status # "SUCCEEDED"
          /\ task[r].live => task[r].status = "RUNNING"
      BY <3>1, HeadRows
    <3>6. Tends(r)
      BY <2>0, <3>1, <3>3, <3>4, <3>5, Tending
    <3> QED BY <2>0, <3>6, Resting DEF Idles
  <2>3. CASE ReplyDeadlinePasses(r)
    <3>1. QueueHead(r)
      BY <2>3 DEF ReplyDeadlinePasses
    <3>2. PICK c : c = [input[r] EXCEPT !.window = IF input[r].window = "open" THEN "closing"
                                                   ELSE input[r].window]
      OBVIOUS
    <3>3. c \in InputRow /\ c.evidence = input[r].evidence
      BY <3>2, HeadRows DEF InputRow
    <3>4. PICK d : d = [delivery[r] EXCEPT !.due = TRUE]
      OBVIOUS
    <3>5. d \in DeliveryRow /\ d.outcome = delivery[r].outcome /\ d.status = delivery[r].status
          /\ d.token = delivery[r].token /\ d.live = delivery[r].live
      BY <3>4, HeadRows DEF DeliveryRow
    <3>6. input' = [input EXCEPT ![r] = c] /\ task' = task
          /\ delivery' = [delivery EXCEPT ![r] = d]
      BY <2>3, <3>2, <3>4 DEF ReplyDeadlinePasses
    <3>7. Tends(r)
      BY <2>0, <3>1, <3>3, <3>5, <3>6, HeadRows, Handing
    <3> QED BY <2>0, <3>7, Resting DEF Idles
  <2>4. CASE WindowCloses(r)
    <3>1. QueueHead(r)
      BY <2>4 DEF WindowCloses
    <3>2. PICK c : c = [input[r] EXCEPT !.window = "closed"]
      OBVIOUS
    <3>3. c \in InputRow /\ c.evidence = input[r].evidence
      BY <3>2, HeadRows DEF InputRow
    <3>4. PICK b \in BOOLEAN : b = (task[r].live /\ task[r].grace)
      OBVIOUS
    <3>5. PICK t : t = [task[r] EXCEPT !.live = b]
      OBVIOUS
    <3>6. /\ t \in TaskRow /\ t.status = task[r].status /\ t.action = task[r].action /\ t.live = b
      BY <3>5, HeadRows DEF TaskRow
    <3>7. t.live => t.status = "RUNNING"
      BY <3>4, <3>6, HeadRows
    <3>8. input' = [input EXCEPT ![r] = c] /\ task' = [task EXCEPT ![r] = t]
          /\ delivery' = delivery
      BY <2>4, <3>2, <3>4, <3>5 DEF WindowCloses
    <3>9. Tends(r)
      BY <2>0, <3>1, <3>3, <3>6, <3>7, <3>8, HeadRows, Tending
    <3> QED BY <2>0, <3>9, Resting DEF Idles
  <2>5. CASE NotifyLeaseExpires(r)
    <3>1. delivery[r].status = "RUNNING"
      BY <2>5, HeadRows DEF NotifyLeaseExpires
    <3>2. QueueHead(r)
      BY <3>1, HeadIsOwed
    <3>3. PICK d : d = [delivery[r] EXCEPT !.live = FALSE]
      OBVIOUS
    <3>4. d \in DeliveryRow /\ d.outcome = delivery[r].outcome /\ d.status = delivery[r].status
          /\ d.token = delivery[r].token /\ ~d.live
      BY <3>3, HeadRows DEF DeliveryRow
    <3>5. delivery' = [delivery EXCEPT ![r] = d] /\ task' = task /\ input' = input
      BY <2>5, <3>3 DEF NotifyLeaseExpires
    <3>6. Tends(r)
      BY <1>0, <2>0, <3>2, <3>4, <3>5, HeadRows, Handing
    <3> QED BY <2>0, <3>6, Resting DEF Idles
  <2> QED BY <1>3, <2>1, <2>2, <2>3, <2>4, <2>5 DEF Clock
<1> QED BY <1>1, <1>2, <1>3

\* Every step of the runtime.
LEMMA Steps == IInv /\ [Next]_vars => Calm \/ Final
<1> SUFFICES ASSUME IInv, [Next]_vars PROVE Calm \/ Final
  OBVIOUS
<1>1. CASE Enqueue
  BY <1>1 DEF Enqueue, Calm, Minor, Moves, Accepts, Idles, replyVars, boundVars
<1>2. CASE UNCHANGED vars
  BY <1>2 DEF vars, Calm, Minor, Moves, RowsStay, Idles
<1>3. ASSUME NEW i \in Instance,
             \/ Spawn(i) \/ Run(i) \/ RegistrationAges(i) \/ Break(i) \/ ConnectionEnds(i)
             \/ Supervise(i) \/ Watch(i)
      PROVE  Calm \/ Final
  BY <1>3, EntrySteps, StageSteps, EndSteps, ProcessSteps DEF Run
<1>4. ASSUME NEW n \in Notifier, Notify(n) \/ BreakNotify(n) PROVE Calm
  BY <1>4, NotifierSteps
<1>5. CASE Seller
  BY <1>5, DeskAndClockSteps DEF Seller
<1>6. ASSUME NEW r \in Inputs, Clock(r) PROVE Calm
  BY <1>6, DeskAndClockSteps
<1> QED BY <1>1, <1>2, <1>3, <1>4, <1>5, <1>6 DEF Next

-------------------------------------------------------------------------------
(* The invariant is kept.                                                  *)

\* The numbers the rows are compared with.
LEMMA Numbers ==
    ASSUME IInv
    PROVE  /\ resolved \in Nat /\ nextSeq \in Nat /\ resolved < nextSeq /\ resolved <= MaxInputs
           /\ nextSeq <= MaxInputs + 1 /\ MaxInputs \in Nat /\ checkpoint.run \in Nat
           /\ messages \in Seq(Message) /\ Len(messages) \in Nat /\ Len(messages) <= MaxInputs
           /\ \A r \in Inputs : r \in Nat /\ 1 <= r /\ r <= MaxInputs
           /\ \A r \in Nat : 1 <= r /\ r <= MaxInputs => r \in Inputs
BY ConstantsAssumption DEF IInv, TypeOK, Rows, TasksInOrder, RepliesInOrder, MessagesInOrder, Inputs

\* An unanswered head is answered next: all replies before it are out.
LEMMA AnsweredSoFar ==
    ASSUME IInv, NEW r \in Inputs, QueueHead(r), delivery[r].status # "PUBLISHED"
    PROVE  Len(messages) = resolved
<1>1. ~(r <= Len(messages)) /\ r = resolved + 1
  BY DEF IInv, Rows, RepliesInOrder, ReplyInOrder, QueueHead
<1>2. CASE resolved = 0
  BY <1>1, <1>2, Numbers
<1>3. CASE resolved # 0
  <2>1. resolved \in Inputs
    BY <1>3, Numbers
  <2>2. resolved <= Len(messages)
    BY <2>1, Numbers DEF IInv, Rows, RepliesInOrder, ReplyInOrder
  <2> QED BY <1>1, <2>2, Numbers
<1> QED BY <1>2, <1>3

\* The rows of the tasks.
LEMMA TasksKept ==
    ASSUME IInv, Minor
    PROVE  TasksInOrder'
<1>1. \A s \in Inputs : TaskInOrder(s)
  BY DEF IInv, Rows, TasksInOrder
<1>2. CASE RowsStay
  <2>1. \A s \in Inputs : TaskInOrder(s)'
    BY <1>1, <1>2 DEF RowsStay, TaskInOrder, Untouched
  <2>2. (resolved < nextSeq)'
    BY <1>2, Numbers DEF RowsStay
  <2> QED BY <2>1, <2>2 DEF TasksInOrder
<1>3. CASE Accepts
  <2>1. nextSeq' = nextSeq + 1 /\ UNCHANGED <<resolved, task, input, delivery, receipts>>
    BY <1>3 DEF Accepts
  <2>2. \A s \in Inputs : TaskInOrder(s)'
    <3> SUFFICES ASSUME NEW s \in Inputs PROVE TaskInOrder(s)'
      OBVIOUS
    <3>1. TaskInOrder(s) /\ s \in Nat
      BY <1>1, Numbers
    <3>2. (s >= nextSeq)' => s >= nextSeq
      BY <2>1, <3>1, Numbers
    <3> QED BY <2>1, <3>1, <3>2 DEF TaskInOrder, Untouched
  <2>3. (resolved < nextSeq)'
    BY <2>1, Numbers
  <2> QED BY <2>2, <2>3 DEF TasksInOrder
<1>4. ASSUME NEW r \in Inputs,
             Tends(r) \/ Answers(r) \/ \E outcome \in Outcome : Owes(r, outcome)
      PROVE  TasksInOrder'
  <2>1. /\ QueueHead(r) /\ resolved' = resolved /\ nextSeq' = nextSeq
        /\ receipts' \subseteq receipts \cup {r} /\ receipts \subseteq receipts'
    BY <1>4 DEF Tends, Answers, Owes
  <2>2. Elsewhere(r)
    <3>1. delivery \in [Inputs -> DeliveryRow]
      BY DEF IInv, TypeOK
    <3> QED BY <1>4, <3>1 DEF Tends, Answers, Owes, Elsewhere
  <2>3. task'[r].status # "SUCCEEDED" /\ (task'[r].live => task'[r].status = "RUNNING")
    BY <1>4, <2>1, HeadRows DEF Tends, Answers, Owes, TaskGoesOn
  <2>4. r = resolved + 1 /\ r < nextSeq /\ r \in Nat /\ resolved \in Nat /\ nextSeq \in Nat
    BY <2>1, Numbers DEF QueueHead
  <2>5. TaskInOrder(r)'
    BY <2>1, <2>3, <2>4 DEF TaskInOrder
  <2>6. \A s \in Inputs \ {r} : TaskInOrder(s)'
    <3> SUFFICES ASSUME NEW s \in Inputs \ {r} PROVE TaskInOrder(s)'
      OBVIOUS
    <3>1. TaskInOrder(s)
      BY <1>1
    <3>2. task'[s] = task[s] /\ input'[s] = input[s] /\ delivery'[s] = delivery[s]
      BY <2>2 DEF Elsewhere
    <3>3. s \in receipts <=> s \in receipts'
      BY <2>1
    <3> QED BY <2>1, <3>1, <3>2, <3>3 DEF TaskInOrder, Untouched
  <2>7. (resolved < nextSeq)'
    BY <2>1, Numbers
  <2> QED BY <2>5, <2>6, <2>7 DEF TasksInOrder
<1> QED BY <1>2, <1>3, <1>4 DEF Minor

\* The rows of the replies, and the messages.
LEMMA RepliesKept ==
    ASSUME IInv, Minor
    PROVE  RepliesInOrder'
<1>1. MessagesInOrder /\ \A s \in Inputs : ReplyInOrder(s)
  BY DEF IInv, Rows, RepliesInOrder
<1>0. delivery \in [Inputs -> DeliveryRow]
  BY DEF IInv, TypeOK
<1>2. CASE RowsStay \/ Accepts
  <2>1. UNCHANGED <<resolved, delivery, receipts, messages>>
    BY <1>2 DEF RowsStay, Accepts
  <2> QED BY <1>1, <2>1 DEF RepliesInOrder, ReplyInOrder, MessagesInOrder
<1>3. ASSUME NEW r \in Inputs, Tends(r) PROVE RepliesInOrder'
  <2>1. UNCHANGED <<resolved, receipts, messages>> /\ SameReply(r) /\ Elsewhere(r)
    BY <1>3 DEF Tends
  <2>2. ReplyInOrder(r)'
    BY <1>1, <2>1 DEF ReplyInOrder, SameReply
  <2>3. \A s \in Inputs \ {r} : ReplyInOrder(s)'
    BY <1>1, <2>1 DEF ReplyInOrder, Elsewhere
  <2> QED BY <1>1, <2>1, <2>2, <2>3 DEF RepliesInOrder, MessagesInOrder
<1>4. ASSUME NEW r \in Inputs, NEW outcome \in Outcome, Owes(r, outcome) PROVE RepliesInOrder'
  <2>1. /\ UNCHANGED <<resolved, messages>> /\ delivery[r].status = "NONE"
        /\ delivery' = [delivery EXCEPT ![r] = NewDelivery(outcome)]
        /\ receipts' = IF outcome = "ACTION" THEN receipts \cup {r} ELSE receipts
    BY <1>4 DEF Owes
  <2>2. /\ delivery'[r].status = "PENDING" /\ delivery'[r].outcome = outcome
        /\ delivery'[r].token = Free /\ ~delivery'[r].live
    BY <1>0, <2>1 DEF NewDelivery, NoDelivery
  <2>3. r \notin receipts /\ ~(r <= Len(messages)) /\ ~(r <= resolved)
    BY <1>1, <2>1 DEF ReplyInOrder
  <2>4. ReplyInOrder(r)'
    BY <2>1, <2>2, <2>3 DEF ReplyInOrder
  <2>5. \A s \in Inputs \ {r} : ReplyInOrder(s)'
    BY <1>0, <1>1, <2>1 DEF ReplyInOrder
  <2> QED BY <1>1, <2>1, <2>4, <2>5 DEF RepliesInOrder, MessagesInOrder
<1>5. ASSUME NEW r \in Inputs, Answers(r) PROVE RepliesInOrder'
  <2>1. /\ UNCHANGED <<resolved, receipts>> /\ QueueHead(r)
        /\ messages' = Append(messages, [run |-> r, outcome |-> delivery[r].outcome])
        /\ delivery' = [delivery EXCEPT ![r].status = "PUBLISHED", ![r].token = Free,
                                        ![r].live = FALSE]
    BY <1>5 DEF Answers
  <2>2. PICK m : m = [run |-> r, outcome |-> delivery[r].outcome]
    OBVIOUS
  <2>3. m \in Message /\ m.run = r
    BY <2>2, HeadRows DEF Message, DeliveryRow
  <2>4. Len(messages) = resolved /\ r = resolved + 1
    BY <1>5, <2>1, AnsweredSoFar DEF Answers, QueueHead
  <2>5. /\ Len(messages') = r
        /\ \A k \in 1..Len(messages) : messages'[k] = messages[k]
        /\ messages'[r] = m
    BY <2>1, <2>2, <2>3, <2>4, Numbers
  <2>6. MessagesInOrder'
    <3>1. Len(messages') <= MaxInputs
      BY <2>5, Numbers
    <3>2. ASSUME NEW k \in 1..r PROVE messages'[k].run = k
      <4>1. CASE k = r
        BY <2>3, <2>5, <4>1
      <4>2. CASE k # r
        <5>1. k \in 1..Len(messages)
          BY <2>4, <4>2, Numbers
        <5> QED BY <1>1, <2>5, <5>1 DEF MessagesInOrder
      <4> QED BY <4>1, <4>2
    <3> QED BY <2>5, <3>1, <3>2 DEF MessagesInOrder
  <2>7. /\ delivery'[r].status = "PUBLISHED" /\ delivery'[r].token = Free /\ ~delivery'[r].live
        /\ delivery'[r].outcome = delivery[r].outcome
    BY <1>0, <2>1, HeadRows DEF DeliveryRow
  <2>8. ReplyInOrder(r)'
    BY <1>1, <2>1, <2>5, <2>7, Numbers DEF ReplyInOrder
  <2>9. ASSUME NEW s \in Inputs \ {r} PROVE ReplyInOrder(s)'
    <3>1. delivery'[s] = delivery[s]
      BY <1>0, <2>1
    <3>2. s <= Len(messages') <=> s <= Len(messages)
      BY <2>4, <2>5, Numbers
    <3>3. ReplyInOrder(s)
      BY <1>1
    <3> QED BY <2>1, <3>1, <3>2, <3>3 DEF ReplyInOrder
  <2> QED BY <2>6, <2>8, <2>9 DEF RepliesInOrder
<1> QED BY <1>2, <1>3, <1>4, <1>5 DEF Minor

\* What the processes rely on when the rows change.
LEMMA Quiet ==
    ASSUME IInv, Minor
    PROVE  /\ resolved' = resolved /\ nextSeq' \in Nat /\ nextSeq' >= nextSeq
           /\ \A r \in Inputs : task[r].action # "NONE" => task'[r].action # "NONE"
<1>1. CASE RowsStay \/ Accepts
  BY <1>1, Numbers DEF RowsStay, Accepts
<1>2. ASSUME NEW r \in Inputs, Tends(r)
      PROVE  /\ resolved' = resolved /\ nextSeq' = nextSeq
             /\ \A s \in Inputs : task[s].action # "NONE" => task'[s].action # "NONE"
  BY <1>2 DEF Tends, TaskGoesOn, Elsewhere
<1>3. ASSUME NEW r \in Inputs, Answers(r) \/ \E outcome \in Outcome : Owes(r, outcome)
      PROVE  resolved' = resolved /\ nextSeq' = nextSeq /\ task' = task
  BY <1>3 DEF Answers, Owes
<1> QED BY <1>1, <1>2, <1>3, Numbers DEF Minor

\* What the invariant says of one process.
LEMMA OneProcess ==
    ASSUME IInv, NEW i \in Instance
    PROVE  /\ exec[i] \in ProcessRow /\ exec[i].run \in Nat /\ exec[i].run \in Inputs
           /\ lock = i => exec[i].conn
           /\ exec[i].conn /\ exec[i].pc \in Holding => lock = i
           /\ exec[i].run <= resolved + 1
           /\ exec[i].pc # "off" => exec[i].run < nextSeq
           /\ exec[i].conn /\ exec[i].pc \in Attempting => exec[i].run = resolved + 1
           /\ exec[i].pc \in InGraph => checkpoint.run >= exec[i].run
           /\ exec[i].conn /\ exec[i].pc \in InGraph =>
                 checkpoint = [run |-> exec[i].run, next |-> exec[i].node]
           /\ exec[i].pc \in Aborting => task[exec[i].run].action # "NONE"
<1>1. exec[i] \in ProcessRow /\ exec[i].run \in Inputs /\ exec[i].run \in Nat
  BY ProcessFacts, Numbers
<1>2. /\ lock = i => exec[i].conn
      /\ exec[i].conn /\ exec[i].pc \in Holding => lock = i
  BY DEF IInv, Machine, LockIsHeld
<1>3. /\ exec[i].run <= resolved + 1
      /\ exec[i].pc # "off" => exec[i].run < nextSeq
      /\ exec[i].conn /\ exec[i].pc \in Attempting => exec[i].run = resolved + 1
  BY DEF IInv, Machine, RunsAreHeads
<1>4. /\ exec[i].pc \in InGraph => checkpoint.run >= exec[i].run
      /\ exec[i].conn /\ exec[i].pc \in InGraph =>
            checkpoint = [run |-> exec[i].run, next |-> exec[i].node]
      /\ exec[i].pc \in Aborting => task[exec[i].run].action # "NONE"
  BY DEF IInv, Machine, ThreadIsFollowed
<1> QED BY <1>1, <1>2, <1>3, <1>4

\* Machine, process by process.
Sane(i) ==
    /\ lock = i => exec[i].conn
    /\ exec[i].conn /\ exec[i].pc \in Holding => lock = i
    /\ exec[i].run <= resolved + 1
    /\ exec[i].pc # "off" => exec[i].run < nextSeq
    /\ exec[i].conn /\ exec[i].pc \in Attempting => exec[i].run = resolved + 1
    /\ exec[i].pc \in InGraph => checkpoint.run >= exec[i].run
    /\ exec[i].conn /\ exec[i].pc \in InGraph =>
          checkpoint = [run |-> exec[i].run, next |-> exec[i].node]
    /\ exec[i].pc \in Aborting => task[exec[i].run].action # "NONE"

LEMMA SaneMachine ==
    ASSUME ThreadIsOrdered', \A i \in Instance : Sane(i)'
    PROVE  Machine'
<1>1. LockIsHeld'
  BY DEF Sane, LockIsHeld
<1>2. RunsAreHeads'
  BY DEF Sane, RunsAreHeads
<1>3. ThreadIsFollowed'
  BY DEF Sane, ThreadIsFollowed
<1> QED BY <1>1, <1>2, <1>3 DEF Machine

\* A process that takes no part stays sane while its lock and the checkpoint do.
LEMMA Bystander ==
    ASSUME IInv, Minor, NEW j \in Instance, exec'[j] = exec[j], lock' = j <=> lock = j,
           checkpoint' = checkpoint \/ (checkpoint'.run >= checkpoint.run /\ lock # j),
           checkpoint'.run \in Nat
    PROVE  Sane(j)'
<1>1. /\ resolved' = resolved /\ nextSeq' >= nextSeq /\ nextSeq' \in Nat
      /\ task[exec[j].run].action # "NONE" => task'[exec[j].run].action # "NONE"
  BY Quiet, OneProcess
<1>2. InGraph \subseteq Holding
  BY DEF InGraph, Holding, Step
<1>3. exec'[j].pc # "off" => exec'[j].run < nextSeq'
  BY <1>1, OneProcess, Numbers
<1>4. exec'[j].pc \in InGraph => checkpoint'.run >= exec'[j].run
  BY OneProcess, Numbers
<1>5. exec'[j].conn /\ exec'[j].pc \in InGraph =>
            checkpoint' = [run |-> exec'[j].run, next |-> exec'[j].node]
  BY <1>2, OneProcess
<1>6. exec'[j].pc \in Aborting => task'[exec'[j].run].action # "NONE"
  BY <1>1, OneProcess
<1>7. /\ lock' = j => exec'[j].conn
      /\ exec'[j].conn /\ exec'[j].pc \in Holding => lock' = j
      /\ exec'[j].run <= resolved' + 1
      /\ exec'[j].conn /\ exec'[j].pc \in Attempting => exec'[j].run = resolved' + 1
  BY <1>1, OneProcess
<1> QED BY <1>3, <1>4, <1>5, <1>6, <1>7 DEF Sane

\* The checkpoint moves only to the head, and only in the hands of the lock's holder.
LEMMA ThreadMoves ==
    ASSUME IInv, NEW i \in Instance, Enter(i) \/ SaveCheckpoint(i) \/ AbortSave(i)
    PROVE  \/ checkpoint' = checkpoint
           \/ /\ checkpoint'.run = resolved + 1 /\ checkpoint'.run = exec[i].run
              /\ lock = i /\ checkpoint'.run >= checkpoint.run
<1>1. /\ exec[i].pc = "attached" => exec[i].pc \in Holding /\ exec[i].pc \in Attempting
      /\ exec[i].pc = "save" => exec[i].pc \in Holding /\ exec[i].pc \in Attempting
      /\ exec[i].pc = "abortSave" => exec[i].pc \in Holding /\ exec[i].pc \in Attempting
  BY DEF Holding, Attempting, Step
<1>2. checkpoint.run <= resolved + 1
  BY Numbers DEF IInv, Machine, ThreadIsOrdered
<1>3. CASE checkpoint' = checkpoint
  BY <1>3
<1>4. CASE checkpoint' # checkpoint
  <2>1. /\ exec[i].conn /\ exec[i].pc \in {"attached", "save", "abortSave"}
        /\ checkpoint'.run = exec[i].run
    BY <1>4 DEF Enter, SaveCheckpoint, AbortSave
  <2>2. lock = i /\ exec[i].run = resolved + 1
    BY <1>1, <2>1, OneProcess
  <2> QED BY <1>2, <2>1, <2>2
<1> QED BY <1>3, <1>4

LEMMA ThreadStaysOrdered ==
    ASSUME IInv, Minor, Moves
    PROVE  ThreadIsOrdered'
<1>1. resolved' = resolved /\ resolved \in Nat
  BY Quiet, Numbers
<1>2. CASE checkpoint' = checkpoint
  BY <1>1, <1>2 DEF IInv, Machine, ThreadIsOrdered
<1>3. CASE checkpoint' # checkpoint
  <2>1. PICK i \in Instance : Enter(i) \/ SaveCheckpoint(i) \/ AbortSave(i)
    BY <1>3 DEF Moves, Idles, Continues, Spawn, TryLock, Claim
  <2>2. checkpoint'.run = resolved + 1
    BY <1>3, <2>1, ThreadMoves
  <2> QED BY <1>1, <2>2 DEF ThreadIsOrdered
<1> QED BY <1>2, <1>3

\* The others when process i writes the checkpoint.
LEMMA Bystanders ==
    ASSUME IInv, Minor, Moves, NEW i \in Instance, Enter(i) \/ SaveCheckpoint(i) \/ AbortSave(i),
           NEW j \in Instance \ {i}
    PROVE  Sane(j)'
<1>1. exec \in [Instance -> ProcessRow]
  BY ProcessFacts
<1>2. exec'[j] = exec[j] /\ lock' = lock
  BY <1>1 DEF Enter, SaveCheckpoint, AbortSave, Goto, Fail
<1>3. checkpoint'.run \in Nat
  BY ThreadStaysOrdered, Quiet, Numbers DEF ThreadIsOrdered
<1>4. checkpoint' = checkpoint \/ (checkpoint'.run >= checkpoint.run /\ lock # j)
  BY ThreadMoves
<1> QED BY <1>2, <1>3, <1>4, Bystander

\* A process whose step, connection, lock and checkpoint are known is sane.
LEMMA Entering ==
    ASSUME IInv, Minor, Moves, NEW i \in Instance, Enter(i)
    PROVE  Sane(i)'
<1> DEFINE r == exec[i].run
<1>0. exec \in [Instance -> ProcessRow] /\ exec[i] \in ProcessRow
  BY ProcessFacts
<1>a. ASSUME NEW pc, NEW node, exec' = [exec EXCEPT ![i].pc = pc, ![i].node = node]
      PROVE  /\ exec'[i].run = r /\ exec'[i].conn = exec[i].conn
             /\ exec'[i].pc = pc /\ exec'[i].node = node
  BY <1>0, <1>a DEF ProcessRow
<1>b. \/ task[r].action = "TERMINATE" /\ exec' = [exec EXCEPT ![i].pc = "abort"]
      \/ exec' = [exec EXCEPT ![i].pc = "release", ![i].node = "parse"]
      \/ exec' = [exec EXCEPT ![i].pc = "conflict", ![i].node = "parse"]
      \/ exec' = [exec EXCEPT ![i].pc = "finalize", ![i].node = exec[i].node]
      \/ /\ checkpoint.run = r /\ checkpoint' = checkpoint /\ exec[i].conn
         /\ exec' = [exec EXCEPT ![i].pc = "node", ![i].node = checkpoint.next]
      \/ /\ checkpoint' = [run |-> r, next |-> "parse"] /\ exec[i].conn
         /\ exec' = [exec EXCEPT ![i].pc = "node", ![i].node = "parse"]
  BY DEF Enter, Goto, Fail
<1>c. checkpoint = [run |-> checkpoint.run, next |-> checkpoint.next]
  BY DEF IInv, TypeOK
<1>d. lock' = lock
  BY DEF Enter
<1>1. /\ lock' = lock /\ exec'[i].run = r /\ exec'[i].conn = exec[i].conn
      /\ exec'[i].pc \in {"release", "abort", "finalize", "node", "conflict"}
      /\ exec'[i].pc = "abort" => task[r].action # "NONE"
      /\ exec'[i].pc = "node" =>
            exec[i].conn /\ checkpoint'.run = r /\ checkpoint' = [run |-> r, next |-> exec'[i].node]
  <2>1. CASE task[r].action = "TERMINATE" /\ exec' = [exec EXCEPT ![i].pc = "abort"]
    <3>1. exec'[i] = [exec[i] EXCEPT !.pc = "abort"]
      BY <1>0, <2>1
    <3>2. /\ exec'[i].run = r /\ exec'[i].conn = exec[i].conn /\ exec'[i].pc = "abort"
      BY <1>0, <3>1 DEF ProcessRow
    <3> QED BY <1>d, <2>1, <3>2
  <2>2. CASE \/ exec' = [exec EXCEPT ![i].pc = "release", ![i].node = "parse"]
             \/ exec' = [exec EXCEPT ![i].pc = "conflict", ![i].node = "parse"]
             \/ exec' = [exec EXCEPT ![i].pc = "finalize", ![i].node = exec[i].node]
    BY <1>a, <1>d, <2>2
  <2>3. CASE /\ checkpoint.run = r /\ checkpoint' = checkpoint /\ exec[i].conn
             /\ exec' = [exec EXCEPT ![i].pc = "node", ![i].node = checkpoint.next]
    BY <1>a, <1>c, <1>d, <2>3
  <2>4. CASE /\ checkpoint' = [run |-> r, next |-> "parse"] /\ exec[i].conn
             /\ exec' = [exec EXCEPT ![i].pc = "node", ![i].node = "parse"]
    BY <1>a, <1>d, <2>4
  <2> QED BY <1>b, <2>1, <2>2, <2>3, <2>4
<1>2. exec[i].pc = "attached" /\ exec[i].pc \in Holding /\ exec[i].pc \in Attempting
  BY DEF Enter, Holding, Attempting, Step
<1>3. /\ resolved' = resolved /\ nextSeq' >= nextSeq /\ nextSeq' \in Nat
      /\ task[r].action # "NONE" => task'[r].action # "NONE"
  BY Quiet, OneProcess
<1>6. exec'[i].pc \in Aborting => task'[r].action # "NONE"
  BY <1>1, <1>3 DEF Aborting
<1>7. exec'[i].pc \in InGraph => /\ checkpoint'.run >= r /\ exec[i].conn
                                 /\ checkpoint' = [run |-> r, next |-> exec'[i].node]
  BY <1>1, OneProcess DEF InGraph
<1>8. r < nextSeq'
  BY <1>2, <1>3, OneProcess, Numbers
<1>9. /\ lock' = i => exec'[i].conn
      /\ exec'[i].conn => lock' = i
      /\ exec'[i].run <= resolved' + 1
      /\ exec'[i].conn => exec'[i].run = resolved' + 1
  BY <1>1, <1>2, <1>3, OneProcess
<1> QED BY <1>1, <1>6, <1>7, <1>8, <1>9 DEF Sane

\* Saving the checkpoint of a stage or of a termination.
LEMMA SavingStage ==
    ASSUME IInv, Minor, Moves, NEW i \in Instance, SaveCheckpoint(i) \/ AbortSave(i)
    PROVE  Sane(i)'
<1> DEFINE r == exec[i].run
<1>0. exec \in [Instance -> ProcessRow] /\ exec[i] \in ProcessRow
  BY ProcessFacts
<1>1. \/ /\ exec' = [exec EXCEPT ![i].pc = "release", ![i].node = "parse"]
         /\ checkpoint' = checkpoint
      \/ /\ exec' = [exec EXCEPT ![i].pc = "finalize"]
      \/ /\ exec[i].conn
         /\ \/ exec' = [exec EXCEPT ![i].pc = "finalize", ![i].node = "parse"]
            \/ exec' = [exec EXCEPT ![i].pc = "node", ![i].node = After(exec[i].node)]
         /\ checkpoint' = [run |-> r, next |-> After(exec[i].node)]
  BY DEF SaveCheckpoint, AbortSave, Fail, Goto
<1>2. /\ exec'[i].run = r /\ exec'[i].conn = exec[i].conn
      /\ exec'[i].pc \in {"release", "finalize", "node"}
      /\ exec'[i].pc = "node" => checkpoint' = [run |-> r, next |-> exec'[i].node]
  <2>1. CASE exec' = [exec EXCEPT ![i].pc = "finalize"]
    BY <1>0, <2>1 DEF ProcessRow
  <2>2. ASSUME NEW pc, NEW node, exec' = [exec EXCEPT ![i].pc = pc, ![i].node = node]
        PROVE  /\ exec'[i].run = r /\ exec'[i].conn = exec[i].conn
               /\ exec'[i].pc = pc /\ exec'[i].node = node
    BY <1>0, <2>2 DEF ProcessRow
  <2>3. CASE exec' = [exec EXCEPT ![i].pc = "release", ![i].node = "parse"]
    BY <2>2, <2>3
  <2>4. CASE exec' = [exec EXCEPT ![i].pc = "finalize", ![i].node = "parse"]
    BY <2>2, <2>4
  <2>5. CASE /\ exec' = [exec EXCEPT ![i].pc = "node", ![i].node = After(exec[i].node)]
             /\ checkpoint' = [run |-> r, next |-> After(exec[i].node)]
    BY <2>2, <2>5
  <2> QED BY <1>1, <2>1, <2>3, <2>4, <2>5
<1>3. exec[i].pc # "off" /\ exec[i].pc \in Holding /\ exec[i].pc \in Attempting /\ lock' = lock
  BY DEF SaveCheckpoint, AbortSave, Holding, Attempting, Step
<1>4. /\ resolved' = resolved /\ nextSeq' >= nextSeq /\ nextSeq' \in Nat
  BY Quiet
<1>5. exec'[i].pc \in InGraph => checkpoint'.run >= r
  BY <1>2, OneProcess DEF InGraph
<1>6. /\ exec'[i].pc \in InGraph => checkpoint' = [run |-> r, next |-> exec'[i].node]
      /\ exec'[i].pc \notin Aborting
  BY <1>2 DEF InGraph, Aborting
<1>7. r < nextSeq'
  BY <1>3, <1>4, OneProcess, Numbers
<1>8. /\ lock' = i => exec'[i].conn
      /\ exec'[i].conn => lock' = i
      /\ exec'[i].run <= resolved' + 1
      /\ exec'[i].conn => exec'[i].run = resolved' + 1
  BY <1>2, <1>3, <1>4, OneProcess
<1> QED BY <1>2, <1>5, <1>6, <1>7, <1>8 DEF Sane

\* A process that goes on, is started, locks or claims.
LEMMA GoingOn ==
    ASSUME IInv, Minor, NEW i \in Instance, Continues(i)
    PROVE  Sane(i)'
<1>1. /\ resolved' = resolved /\ nextSeq' >= nextSeq /\ nextSeq' \in Nat
      /\ task[exec[i].run].action # "NONE" => task'[exec[i].run].action # "NONE"
  BY Quiet, OneProcess
<1>2. /\ "off" \notin Holding /\ "off" \notin Attempting /\ "off" \notin InGraph
      /\ "off" \notin Aborting /\ InGraph \subseteq Holding
  BY DEF Holding, Attempting, InGraph, Aborting, Step
<1>3. /\ Falls(exec[i].pc, exec'[i].pc) /\ checkpoint' = checkpoint
      /\ lock' = i => lock = i /\ exec'[i].conn
      /\ exec'[i].pc \in InGraph => exec'[i].node = exec[i].node
      /\ exec'[i].conn /\ exec'[i].pc \in Holding => exec[i].conn /\ (lock = i => lock' = i)
  BY DEF Continues
<1>4. CASE exec'[i].pc = "off" /\ exec'[i].run = 1
  BY <1>1, <1>2, <1>3, <1>4, Numbers DEF Sane
<1>5. CASE exec'[i].run = exec[i].run
  <2>1. exec'[i].pc # "off" => exec'[i].run < nextSeq'
    BY <1>1, <1>3, <1>5, OneProcess, Numbers DEF Falls
  <2>2. /\ exec'[i].conn /\ exec'[i].pc \in Holding => lock' = i
        /\ exec'[i].run <= resolved' + 1
    BY <1>1, <1>3, <1>5, OneProcess DEF Falls
  <2>3. exec'[i].conn /\ exec'[i].pc \in Attempting => exec'[i].run = resolved' + 1
    <3>1. Attempting \subseteq Holding
      BY DEF Attempting
    <3> QED BY <1>1, <1>3, <1>5, <3>1, OneProcess DEF Falls
  <2>4. exec'[i].pc \in InGraph => checkpoint'.run >= exec'[i].run
    BY <1>3, <1>5, OneProcess DEF Falls
  <2>5. exec'[i].conn /\ exec'[i].pc \in InGraph =>
            checkpoint' = [run |-> exec'[i].run, next |-> exec'[i].node]
    BY <1>2, <1>3, <1>5, OneProcess DEF Falls
  <2>6. exec'[i].pc \in Aborting => task'[exec'[i].run].action # "NONE"
    BY <1>1, <1>3, <1>5, OneProcess DEF Falls
  <2> QED BY <1>3, <2>1, <2>2, <2>3, <2>4, <2>5, <2>6 DEF Sane
<1> QED BY <1>4, <1>5 DEF Continues

LEMMA Starting ==
    ASSUME IInv, Minor, NEW i \in Instance, Spawn(i) \/ TryLock(i) \/ Claim(i)
    PROVE  Sane(i)'
<1>0. exec \in [Instance -> ProcessRow] /\ exec[i] \in ProcessRow
  BY ProcessFacts
<1>1. resolved' = resolved /\ nextSeq' >= nextSeq /\ nextSeq' \in Nat
  BY Quiet
<1>2. /\ "start" \notin Holding /\ "start" \notin Attempting
      /\ "locked" \notin Attempting /\ "connected" # "off" /\ "locked" # "off"
      /\ \A p \in {"start", "locked", "claimed"} : p \notin InGraph /\ p \notin Aborting
      /\ "locked" \in Holding
  BY DEF Holding, Attempting, InGraph, Aborting, Step
<1>3. CASE Spawn(i)
  <2>1. PICK r \in Inputs : Candidate(r) /\ exec' = [exec EXCEPT ![i] = Child(r)]
    BY <1>3 DEF Spawn
  <2>2. ~exec[i].conn /\ lock' = lock
    BY <1>3 DEF Spawn
  <2>3. exec'[i].pc = "start" /\ exec'[i].run = r /\ ~exec'[i].conn
    BY <1>0, <2>1 DEF Child, NoProcess
  <2>4. r <= resolved + 1 /\ r < nextSeq'
    BY <1>1, <2>1, Numbers DEF Candidate, QueueHead
  <2>5. lock' # i
    BY <2>2, OneProcess
  <2> QED BY <1>1, <1>2, <2>3, <2>4, <2>5 DEF Sane
<1>4. CASE TryLock(i)
  <2>1. /\ exec[i].pc = "connected" /\ exec[i].conn /\ lock' = i
        /\ exec'[i] = [exec[i] EXCEPT !.pc = "locked"]
    BY <1>0, <1>4 DEF TryLock, Goto
  <2>2. exec'[i].pc = "locked" /\ exec'[i].run = exec[i].run /\ exec'[i].conn
    BY <1>0, <2>1 DEF ProcessRow
  <2>3. exec[i].run < nextSeq' /\ exec[i].run <= resolved' + 1
    BY <1>1, <1>2, <2>1, OneProcess, Numbers
  <2> QED BY <1>2, <2>1, <2>2, <2>3 DEF Sane
<1>5. CASE Claim(i)
  <2>1. /\ exec[i].pc = "locked" /\ lock' = lock /\ Claimable(exec[i].run)
        /\ exec'[i] = [exec[i] EXCEPT !.pc = "claimed", !.owner = task[exec[i].run].attempts + 1]
    BY <1>0, <1>5 DEF Claim
  <2>2. exec'[i].pc = "claimed" /\ exec'[i].run = exec[i].run /\ exec'[i].conn = exec[i].conn
    BY <1>0, <2>1 DEF ProcessRow
  <2>3. exec[i].run < nextSeq' /\ exec[i].run = resolved' + 1
    BY <1>1, <1>2, <2>1, OneProcess, Numbers DEF Claimable
  <2>4. exec'[i].conn => lock' = i
    BY <1>2, <2>1, <2>2, OneProcess
  <2>5. lock' = i => exec'[i].conn
    BY <2>1, <2>2, OneProcess
  <2> QED BY <1>1, <1>2, <2>2, <2>3, <2>4, <2>5, Numbers DEF Sane
<1> QED BY <1>3, <1>4, <1>5

\* Processes, lock and checkpoint, after any calm step.
LEMMA MachineKept ==
    ASSUME IInv, Minor, Moves
    PROVE  Machine'
<1>0. checkpoint.run \in Nat /\ exec \in [Instance -> ProcessRow]
  BY Numbers DEF IInv, TypeOK
<1>1. CASE Idles
  <2>1. \A j \in Instance : Sane(j)'
    BY <1>0, <1>1, Bystander DEF Idles
  <2> QED BY <2>1, ThreadStaysOrdered, SaneMachine
<1>2. ASSUME NEW i \in Instance, Continues(i) PROVE Machine'
  <2>1. \A j \in Instance \ {i} : Sane(j)'
    BY <1>0, <1>2, Bystander DEF Continues
  <2>2. Sane(i)'
    BY <1>2, GoingOn
  <2> QED BY <2>1, <2>2, ThreadStaysOrdered, SaneMachine
<1>3. ASSUME NEW i \in Instance, Spawn(i) \/ TryLock(i) \/ Claim(i) PROVE Machine'
  <2>1. \A j \in Instance : Free # j
    BY ConstantsAssumption
  <2>2. \A j \in Instance \ {i} : exec'[j] = exec[j] /\ (lock' = j <=> lock = j)
    BY <1>0, <1>3, <2>1 DEF Spawn, TryLock, Claim, Goto
  <2>3. checkpoint' = checkpoint
    BY <1>3 DEF Spawn, TryLock, Claim
  <2>4. \A j \in Instance \ {i} : Sane(j)'
    BY <1>0, <2>2, <2>3, Bystander
  <2>5. Sane(i)'
    BY <1>3, Starting
  <2> QED BY <2>4, <2>5, ThreadStaysOrdered, SaneMachine
<1>4. ASSUME NEW i \in Instance, Enter(i) \/ SaveCheckpoint(i) \/ AbortSave(i) PROVE Machine'
  <2>1. \A j \in Instance \ {i} : Sane(j)'
    BY <1>4, Bystanders
  <2>2. Sane(i)'
    BY <1>4, Entering, SavingStage
  <2> QED BY <2>1, <2>2, ThreadStaysOrdered, SaneMachine
<1> QED BY <1>1, <1>2, <1>3, <1>4 DEF Moves

\* A head that was never entered keeps no trace of a start.
LEMMA StartsKept ==
    ASSUME IInv, Minor, Moves
    PROVE  StartsLeaveTraces'
<1>0. resolved' = resolved /\ resolved \in Nat /\ delivery \in [Inputs -> DeliveryRow]
  BY Quiet, Numbers DEF IInv, TypeOK
<1> SUFFICES ASSUME NEW r \in Inputs, r = resolved + 1, checkpoint'.run = resolved
             PROVE  /\ ~input'[r].evidence /\ r \notin receipts'
                    /\ delivery'[r].status # "NONE" => task'[r].action # "NONE"
  BY <1>0 DEF StartsLeaveTraces
<1>1. checkpoint.run = resolved
  <2>1. CASE checkpoint' = checkpoint
    BY <2>1
  <2>2. CASE checkpoint' # checkpoint
    <3>1. PICK i \in Instance : Enter(i) \/ SaveCheckpoint(i) \/ AbortSave(i)
      BY <2>2 DEF Moves, Idles, Continues, Spawn, TryLock, Claim
    <3> QED BY <1>0, <2>2, <3>1, ThreadMoves
  <2> QED BY <2>1, <2>2
<1>2. /\ ~input[r].evidence /\ r \notin receipts /\ checkpoint.run # r
      /\ delivery[r].status # "NONE" => task[r].action # "NONE"
  BY <1>0, <1>1 DEF IInv, StartsLeaveTraces
<1>3. CASE RowsStay \/ Accepts
  BY <1>2, <1>3 DEF RowsStay, Accepts
<1>4. ASSUME NEW s \in Inputs,
             Tends(s) \/ Answers(s) \/ \E outcome \in Outcome : Owes(s, outcome)
      PROVE  /\ ~input'[r].evidence /\ r \notin receipts'
             /\ delivery'[r].status # "NONE" => task'[r].action # "NONE"
  <2>1. s = r
    BY <1>4 DEF Tends, Answers, Owes, QueueHead
  <2>2. CASE Tends(r)
    BY <1>2, <2>2 DEF Tends, TaskGoesOn, SameReply
  <2>3. CASE Answers(r)
    <3>1. UNCHANGED <<task, input, receipts>> /\ task[r].action # "NONE"
      BY <1>2, <2>3 DEF Answers
    <3> QED BY <1>2, <3>1
  <2>4. ASSUME NEW outcome \in Outcome, Owes(r, outcome)
        PROVE  /\ ~input'[r].evidence /\ r \notin receipts'
               /\ delivery'[r].status # "NONE" => task'[r].action # "NONE"
    <3>1. UNCHANGED <<task, input>> /\ outcome = "NOACTION" /\ task[r].action # "NONE"
      BY <1>2, <2>4 DEF Owes
    <3>2. receipts' = receipts
      BY <2>4, <3>1 DEF Owes
    <3> QED BY <1>2, <3>1, <3>2
  <2> QED BY <1>4, <2>1, <2>2, <2>3, <2>4
<1> QED BY <1>3, <1>4 DEF Minor

\* The cursor moves: the head is settled, the next one is as first written.
LEMMA RowsResolved ==
    ASSUME IInv, NEW r \in Inputs, Resolves(r)
    PROVE  Rows' /\ StartsLeaveTraces'
<1>1. /\ r = resolved + 1 /\ r < nextSeq /\ resolved' = r /\ nextSeq' = nextSeq
      /\ delivery[r].status = "PUBLISHED"
      /\ UNCHANGED <<delivery, receipts, messages>>
  BY DEF Resolves, QueueHead
<1>2. \A s \in Inputs : TaskInOrder(s) /\ ReplyInOrder(s) /\ s \in Nat
  BY Numbers DEF IInv, Rows, TasksInOrder, RepliesInOrder
<1>3. ASSUME NEW s \in Inputs PROVE TaskInOrder(s)'
  <2>1. CASE s = r
    <3>1. task'[r].status = "SUCCEEDED" /\ ~task'[r].live
      BY DEF Resolves
    <3> QED BY <1>1, <2>1, <3>1, Numbers DEF TaskInOrder
  <2>2. CASE s # r
    <3>1. task'[s] = task[s] /\ input'[s] = input[s]
      BY <2>2 DEF Resolves, Elsewhere
    <3>2. s <= resolved' <=> s <= resolved
      BY <1>1, <1>2, <2>2, Numbers
    <3>3. s > resolved' + 1 => s > resolved + 1
      BY <1>1, <1>2, Numbers
    <3>4. TaskInOrder(s)
      BY <1>2
    <3> QED BY <1>1, <3>1, <3>2, <3>3, <3>4 DEF TaskInOrder, Untouched
  <2> QED BY <2>1, <2>2
<1>4. ASSUME NEW s \in Inputs PROVE ReplyInOrder(s)'
  <2>1. ReplyInOrder(s)
    BY <1>2
  <2>2. s <= resolved' => delivery[s].status = "PUBLISHED"
    BY <1>1, <1>2, <2>1, Numbers DEF ReplyInOrder
  <2> QED BY <1>1, <2>1, <2>2 DEF ReplyInOrder
<1>5. MessagesInOrder'
  BY <1>1 DEF IInv, Rows, RepliesInOrder, MessagesInOrder
<1>6. (resolved < nextSeq)'
  BY <1>1
<1>7. Rows'
  BY <1>3, <1>4, <1>5, <1>6 DEF Rows, TasksInOrder, RepliesInOrder
<1>8. ASSUME NEW s \in Inputs, s = resolved' + 1
      PROVE  ~input'[s].evidence /\ s \notin receipts' /\ delivery'[s].status = "NONE"
  <2>1. s > resolved + 1 /\ s # r
    BY <1>1, <1>8, Numbers
  <2>2. Untouched(s)
    BY <1>2, <2>1 DEF TaskInOrder
  <2>3. input'[s] = input[s]
    BY <2>1 DEF Resolves, Elsewhere
  <2> QED BY <1>1, <2>2, <2>3 DEF Untouched, NewInput, NoDelivery
<1> QED BY <1>7, <1>8 DEF StartsLeaveTraces

LEMMA MachineResolved ==
    ASSUME IInv, NEW i \in Instance, Resolves(exec[i].run), Leaves(i)
    PROVE  Machine'
<1> DEFINE r == exec[i].run
<1>1. /\ r = resolved + 1 /\ resolved' = r /\ nextSeq' = nextSeq
      /\ checkpoint = [run |-> r, next |-> "END"] /\ checkpoint' = checkpoint
  BY DEF Resolves, QueueHead
<1>2. \A s \in Inputs : task'[s].action = task[s].action
  BY DEF Resolves, Elsewhere
<1>3. ThreadIsOrdered'
  BY <1>1 DEF ThreadIsOrdered
<1>4. ASSUME NEW j \in Instance \ {i} PROVE Sane(j)'
  <2>1. exec'[j] = exec[j] /\ lock' # j /\ lock # j
    BY DEF Leaves
  <2>2. InGraph \subseteq Holding /\ Attempting \subseteq Holding
    BY DEF InGraph, Attempting, Holding, Step
  <2>3. ~(exec[j].conn /\ exec[j].pc \in Holding)
    BY <2>1, OneProcess
  <2>4. exec[j].run <= resolved' + 1
    <3>1. exec[j].run \in Nat /\ exec[j].run <= resolved + 1 /\ resolved \in Nat
      BY OneProcess, Numbers
    <3>2. resolved' = resolved + 1
      BY <1>1
    <3> QED BY <3>1, <3>2
  <2>5. exec[j].pc \in Aborting => task'[exec[j].run].action # "NONE"
    BY <1>2, OneProcess
  <2>6. exec[j].pc # "off" => exec[j].run < nextSeq'
    BY <1>1, OneProcess
  <2>7. exec[j].pc \in InGraph => checkpoint'.run >= exec[j].run
    BY <1>1, OneProcess
  <2> QED BY <2>1, <2>2, <2>3, <2>4, <2>5, <2>6, <2>7 DEF Sane
<1>5. Sane(i)'
  <2>1. exec'[i].pc = "off" /\ lock' # i /\ exec'[i].run \in {1, r}
    BY DEF Leaves
  <2>2. "off" \notin Holding /\ "off" \notin Attempting /\ "off" \notin InGraph /\ "off" \notin Aborting
    BY DEF Holding, Attempting, InGraph, Aborting
  <2>3. exec'[i].run <= resolved' + 1
    BY <1>1, <2>1, Numbers
  <2> QED BY <2>1, <2>2, <2>3 DEF Sane
<1> QED BY <1>3, <1>4, <1>5, SaneMachine

LEMMA InvInit == Init => IInv
<1> SUFFICES ASSUME Init PROVE IInv
  OBVIOUS
<1>1. TypeOK
  BY TypeInit
<1>0. MaxInputs \in Nat \ {0} /\ (\A r \in Inputs : r \in Nat /\ r >= 1)
      /\ \A i \in Instance : Free # i
  BY ConstantsAssumption DEF Inputs
<1>2. resolved = 0 /\ nextSeq = 1 /\ receipts = {} /\ messages = <<>>
      /\ checkpoint = [run |-> 0, next |-> "END"] /\ lock = Free
  BY DEF Init
<1>3. \A r \in Inputs : task[r] = NewTask /\ input[r] = NewInput /\ delivery[r] = NoDelivery
  BY DEF Init
<1>4. \A i \in Instance : exec[i] = NoProcess
  BY DEF Init
<1>5. \A r \in Inputs : TaskInOrder(r)
  <2> SUFFICES ASSUME NEW r \in Inputs PROVE TaskInOrder(r)
    OBVIOUS
  <2>1. Untouched(r)
    BY <1>2, <1>3 DEF Untouched
  <2>2. task[r].status = "PENDING" /\ ~task[r].live
    BY <1>3 DEF NewTask
  <2>3. ~(r <= resolved)
    BY <1>0, <1>2
  <2> QED BY <2>1, <2>2, <2>3 DEF TaskInOrder
<1>6. Len(messages) = 0
  BY <1>2
<1>7. \A r \in Inputs : ReplyInOrder(r)
  BY <1>0, <1>2, <1>3, <1>6 DEF ReplyInOrder, NoDelivery
<1>8. MessagesInOrder
  BY <1>0, <1>6 DEF MessagesInOrder
<1>9. Rows
  BY <1>2, <1>5, <1>7, <1>8 DEF Rows, TasksInOrder, RepliesInOrder
<1>10. \A i \in Instance : exec[i].pc = "off" /\ exec[i].run = 1 /\ ~exec[i].conn
  BY <1>4 DEF NoProcess
<1>11. "off" \notin Holding /\ "off" \notin Attempting /\ "off" \notin InGraph /\ "off" \notin Aborting
  BY DEF Holding, Attempting, InGraph, Aborting
<1>12. LockIsHeld /\ RunsAreHeads /\ ThreadIsFollowed
  BY <1>0, <1>2, <1>10, <1>11 DEF LockIsHeld, RunsAreHeads, ThreadIsFollowed
<1>13. ThreadIsOrdered
  BY <1>2 DEF ThreadIsOrdered
<1>14. StartsLeaveTraces
  BY <1>2, <1>3 DEF StartsLeaveTraces, NewInput, NoDelivery
<1> QED BY <1>1, <1>9, <1>12, <1>13, <1>14 DEF IInv, Machine

LEMMA InvNext == IInv /\ [Next]_vars => IInv'
<1> SUFFICES ASSUME IInv, [Next]_vars PROVE IInv'
  OBVIOUS
<1>1. TypeOK'
  BY TypeNext DEF IInv
<1>2. CASE Calm
  BY <1>1, <1>2, TasksKept, RepliesKept, MachineKept, StartsKept DEF Calm, IInv, Rows
<1>3. CASE Final
  BY <1>1, <1>3, ProcessFacts, RowsResolved, MachineResolved DEF Final, IInv
<1> QED BY <1>2, <1>3, Steps

\* The inductive invariant holds in every state.
THEOREM TurnInvariant == Spec => []IInv
BY InvInit, InvNext, PTL DEF Spec

-------------------------------------------------------------------------------
(* What the runs check, for every value of the constants.                  *)

\* The FIFO barrier: enqueue, claim, finalize, the commit and publish transactions,
\* whatever process performs them, leave nothing behind the head and nothing open
\* before it.
THEOREM InputsAreHandledInOrder == Spec => []FifoBarrier
<1>1. IInv => FifoBarrier
  <2> SUFFICES ASSUME IInv PROVE FifoBarrier
    OBVIOUS
  <2>1. \A r \in Inputs : TaskInOrder(r) /\ ReplyInOrder(r)
    BY DEF IInv, Rows, TasksInOrder, RepliesInOrder
  <2>2. \A r \in 1..resolved : r \in Inputs /\ r <= resolved
    BY Numbers
  <2>3. \A r \in 1..resolved : task[r].status = "SUCCEEDED" /\ delivery[r].status = "PUBLISHED"
    BY <2>1, <2>2 DEF TaskInOrder, ReplyInOrder
  <2>4. \A r \in Inputs : r > resolved + 1 =>
          /\ task[r] = NewTask /\ input[r] = NewInput /\ delivery[r] = NoDelivery
          /\ r \notin receipts
    BY <2>1 DEF TaskInOrder, Untouched
  <2>5. DOMAIN messages = 1..Len(messages)
    BY Numbers
  <2>6. \A k \in DOMAIN messages : messages[k].run = k
    BY <2>5 DEF IInv, Rows, RepliesInOrder, MessagesInOrder
  <2> QED BY <2>3, <2>4, <2>6 DEF FifoBarrier, IInv, Machine, ThreadIsOrdered
<1> QED BY <1>1, TurnInvariant, PTL

\* The thread lock serialises the writers of the shared checkpoint: while the saver's
\* connection lives, every stage finds the thread where it left it (locked_saver).
THEOREM CheckpointHasOneWriter == Spec => []CheckpointUndisturbed
<1>1. IInv => CheckpointUndisturbed
  <2> SUFFICES ASSUME IInv, NEW i \in Instance, exec[i].conn, exec[i].pc \in InGraph
               PROVE  lock = i /\ checkpoint = [run |-> exec[i].run, next |-> exec[i].node]
    BY DEF CheckpointUndisturbed, InGraph
  <2>1. InGraph \subseteq Holding
    BY DEF InGraph, Holding, Step
  <2> QED BY <2>1, OneProcess
<1> QED BY <1>1, TurnInvariant, PTL

\* No late process, dispatcher, supervisor, watchdog or seller touches a finished run.
THEOREM FinishedRunsAreLeftAlone == Spec => FinishedIsFinal
<1> DEFINE Final1 == \A r \in Inputs : task[r].status = "SUCCEEDED" =>
             UNCHANGED <<task[r], input[r], delivery[r]>> /\ (r \in receipts <=> r \in receipts')
<1>1. IInv /\ [Next]_vars => Final1
  <2> SUFFICES ASSUME IInv, [Next]_vars, NEW s \in Inputs, task[s].status = "SUCCEEDED"
               PROVE  /\ UNCHANGED <<task[s], input[s], delivery[s]>>
                      /\ (s \in receipts <=> s \in receipts')
    OBVIOUS
  <2>1. s <= resolved /\ s \in Nat /\ resolved \in Nat
    BY Numbers DEF IInv, Rows, TasksInOrder, TaskInOrder
  <2>2. \A r \in Inputs : QueueHead(r) => r # s
    BY <2>1 DEF QueueHead
  <2>3. CASE RowsStay \/ Accepts
    BY <2>3 DEF RowsStay, Accepts
  <2>4. ASSUME NEW r \in Inputs, Tends(r) \/ Resolves(r)
        PROVE  /\ UNCHANGED <<task[s], input[s], delivery[s]>>
               /\ (s \in receipts <=> s \in receipts')
    BY <2>2, <2>4 DEF Tends, Resolves, Elsewhere
  <2>5. ASSUME NEW r \in Inputs, Answers(r) \/ \E outcome \in Outcome : Owes(r, outcome)
        PROVE  /\ UNCHANGED <<task[s], input[s], delivery[s]>>
               /\ (s \in receipts <=> s \in receipts')
    <3>1. r # s /\ delivery \in [Inputs -> DeliveryRow]
      BY <2>2, <2>5 DEF Answers, Owes, IInv, TypeOK
    <3> QED BY <2>5, <3>1 DEF Answers, Owes
  <2>6. CASE Final
    <3>1. PICK i \in Instance : Resolves(exec[i].run)
      BY <2>6 DEF Final
    <3> QED BY <2>4, <3>1, ProcessFacts
  <2> QED BY <2>3, <2>4, <2>5, <2>6, Steps DEF Calm, Minor
<1> QED BY <1>1, TurnInvariant, PTL DEF Spec, FinishedIsFinal

\* choose_entry meets a foreign or missing checkpoint only after a TERMINATE of the
\* seller was interrupted and followed by a RETRY: faults alone never lead there.
LEMMA OnlyEntryConflicts ==
    ASSUME IInv, Moves, NEW i \in Instance, exec[i].pc # "conflict", exec'[i].pc = "conflict"
    PROVE  Enter(i)
<1>0. exec \in [Instance -> ProcessRow] /\ exec[i] \in ProcessRow
  BY ProcessFacts
<1>1. CASE Idles
  BY <1>1 DEF Idles
<1>2. PICK j \in Instance : \/ Continues(j) \/ Spawn(j) \/ TryLock(j) \/ Claim(j) \/ Enter(j)
                            \/ SaveCheckpoint(j) \/ AbortSave(j)
  BY <1>1 DEF Moves, Idles
<1>3. j = i
  BY <1>0, <1>2 DEF Continues, Spawn, TryLock, Claim, Enter, SaveCheckpoint, AbortSave, Goto, Fail
<1>4. ~Continues(i)
  BY DEF Continues, Falls
<1>5. ~Spawn(i)
  <2>1. \A r \in Inputs : Child(r).pc = "start"
    BY DEF Child, NoProcess
  <2> QED BY <1>0, <2>1 DEF Spawn
<1>6. ~TryLock(i) /\ ~Claim(i)
  <2>1. \A q : exec' = [exec EXCEPT ![i].pc = q] => exec'[i].pc = q
    BY <1>0 DEF ProcessRow
  <2>2. \A q, o : exec' = [exec EXCEPT ![i].pc = q, ![i].owner = o] => exec'[i].pc = q
    BY <1>0 DEF ProcessRow
  <2> QED BY <2>1, <2>2 DEF TryLock, Claim, Goto
<1>7. ~SaveCheckpoint(i) /\ ~AbortSave(i)
  <2>1. \A q : exec' = [exec EXCEPT ![i].pc = q] => exec'[i].pc = q
    BY <1>0 DEF ProcessRow
  <2>2. \A q, v : exec' = [exec EXCEPT ![i].pc = q, ![i].node = v] => exec'[i].pc = q
    BY <1>0 DEF ProcessRow
  <2>3. ~AbortSave(i)
    BY <2>1, <2>2 DEF AbortSave, Goto, Fail
  <2>4. ASSUME SaveCheckpoint(i) PROVE FALSE
    <3>1. \E v : \E q \in {"finalize", "node", "release"} :
             exec' = [exec EXCEPT ![i].pc = q, ![i].node = v]
      BY <2>4 DEF SaveCheckpoint, Fail
    <3> QED BY <2>2, <3>1
  <2> QED BY <2>3, <2>4
<1> QED BY <1>2, <1>3, <1>4, <1>5, <1>6, <1>7

\* A conflict is reported only for a run that a seller's RETRY took up after an
\* interrupted TERMINATE, which is why the code asks the seller again.
THEOREM ConflictsAreReal == Spec => NoFalseConflict
<1> DEFINE Real == \A i \in Instance : exec[i].pc # "conflict" /\ exec'[i].pc = "conflict" =>
             LET r == exec[i].run IN
             task[r].action = "RETRY" /\ delivery[r].outcome = "NOACTION" /\ ~input[r].evidence
<1>1. IInv /\ [Next]_vars => Real
  <2> SUFFICES ASSUME IInv, [Next]_vars, NEW i \in Instance,
                      exec[i].pc # "conflict", exec'[i].pc = "conflict"
               PROVE  /\ task[exec[i].run].action = "RETRY"
                      /\ delivery[exec[i].run].outcome = "NOACTION"
                      /\ ~input[exec[i].run].evidence
    OBVIOUS
  <2>1. PICK r \in Inputs : r = exec[i].run
    BY ProcessFacts
  <2>2. ~Final
    BY DEF Final, Leaves
  <2>3. Enter(i)
    BY <2>2, Steps, OnlyEntryConflicts DEF Calm
  <2>4. \A q, v : exec' = [exec EXCEPT ![i].pc = q, ![i].node = v] => exec'[i].pc = q
    BY ProcessFacts DEF ProcessRow
  <2>5. \A q : exec' = [exec EXCEPT ![i].pc = q] => exec'[i].pc = q
    BY ProcessFacts DEF ProcessRow
  <2>6. /\ exec[i].conn /\ checkpoint.run # r
        /\ task[r].action # "TERMINATE" =>
              \/ checkpoint.run > r \/ checkpoint.next # "END" \/ Started(r) \/ r # resolved + 1
        /\ task[r].action = "TERMINATE" => checkpoint.next # "END"
    BY <2>1, <2>3, <2>4, <2>5 DEF Enter, Goto, Fail
  <2>7. exec[i].pc \in Attempting
    BY <2>3 DEF Enter, Attempting, Holding, Step
  <2>8. r = resolved + 1
    BY <2>1, <2>6, <2>7, OneProcess
  <2>9. checkpoint.run = resolved /\ checkpoint.next = "END"
    BY <2>6, <2>8 DEF IInv, Machine, ThreadIsOrdered
  <2>10. /\ ~input[r].evidence /\ r \notin receipts
         /\ delivery[r].status # "NONE" => task[r].action # "NONE"
    BY <2>8, <2>9 DEF IInv, StartsLeaveTraces
  <2>11. task[r].action # "TERMINATE" /\ Started(r)
    BY <2>6, <2>8, <2>9, Numbers
  <2>12. task[r].action = "RETRY"
    BY <2>10, <2>11, HeadRows DEF Started, TaskRow
  <2>13. delivery[r].outcome = "NOACTION"
    <3>1. delivery[r].outcome # "ACTION"
      BY <2>10 DEF IInv, Rows, RepliesInOrder, ReplyInOrder
    <3> QED BY <3>1, HeadRows DEF DeliveryRow, Outcome
  <2> QED BY <2>1, <2>10, <2>12, <2>13
<1> QED BY <1>1, TurnInvariant, PTL DEF Spec, NoFalseConflict

-------------------------------------------------------------------------------
(* The runtime implements TurnProtocol.                                    *)

OutcomesOf(ms) == [k \in DOMAIN ms |-> ms[k].outcome]

\* What the outcomes of the messages are when a message is appended.
LEMMA OutcomesAppend ==
    ASSUME NEW ms \in Seq(Message), NEW m \in Message
    PROVE  OutcomesOf(Append(ms, m)) = Append(OutcomesOf(ms), m.outcome)
<1>1. /\ Append(ms, m) \in Seq(Message) /\ Len(Append(ms, m)) = Len(ms) + 1
      /\ \A k \in 1..Len(ms) : Append(ms, m)[k] = ms[k]
      /\ Append(ms, m)[Len(ms) + 1] = m /\ Len(ms) \in Nat
  BY AppendProperties, LenProperties
<1>2. ASSUME NEW q \in Seq(Message)
      PROVE  /\ OutcomesOf(q) \in Seq(Outcome) /\ Len(OutcomesOf(q)) = Len(q)
             /\ \A k \in 1..Len(q) : OutcomesOf(q)[k] = q[k].outcome
  <2>1. Len(q) \in Nat /\ DOMAIN q = 1..Len(q) /\ q \in [1..Len(q) -> Message]
    BY LenProperties
  <2>2. \A k \in 1..Len(q) : q[k].outcome \in Outcome
    BY <2>1 DEF Message
  <2>3. OutcomesOf(q) = [k \in 1..Len(q) |-> q[k].outcome]
    BY <2>1 DEF OutcomesOf
  <2> QED BY <2>1, <2>2, <2>3
<1>3. m.outcome \in Outcome
  BY DEF Message
<1>4. PICK s \in Seq(Outcome) : s = OutcomesOf(Append(ms, m))
  BY <1>1, <1>2
<1>5. PICK o \in Seq(Outcome) : o = OutcomesOf(ms)
  BY <1>2
<1>6. /\ Append(o, m.outcome) \in Seq(Outcome) /\ Len(Append(o, m.outcome)) = Len(o) + 1
      /\ \A k \in 1..Len(o) : Append(o, m.outcome)[k] = o[k]
      /\ Append(o, m.outcome)[Len(o) + 1] = m.outcome
  BY <1>3, AppendProperties
<1>7. Len(o) = Len(ms) /\ Len(s) = Len(ms) + 1
  BY <1>1, <1>2, <1>4, <1>5
<1>8. ASSUME NEW k \in 1..Len(s) PROVE s[k] = Append(o, m.outcome)[k]
  <2>1. s[k] = Append(ms, m)[k].outcome
    BY <1>1, <1>2, <1>4, <1>7
  <2>2. CASE k = Len(ms) + 1
    BY <1>1, <1>6, <1>7, <2>1, <2>2
  <2>3. CASE k # Len(ms) + 1
    <3>1. k \in 1..Len(ms)
      BY <1>1, <1>7, <2>3
    <3> QED BY <1>1, <1>2, <1>5, <1>6, <1>7, <2>1, <3>1
  <2> QED BY <2>2, <2>3
<1> QED BY <1>4, <1>5, <1>6, <1>7, <1>8, SeqEqual

\* A published head is answered by the last message there is.
LEMMA AnsweredUpTo ==
    ASSUME IInv, NEW r \in Inputs, QueueHead(r), delivery[r].status = "PUBLISHED"
    PROVE  Len(messages) = resolved + 1
<1>1. r <= Len(messages) /\ r = resolved + 1
  BY DEF IInv, Rows, RepliesInOrder, ReplyInOrder, QueueHead
<1>2. ASSUME r < Len(messages) PROVE FALSE
  <2>1. r + 1 \in Inputs /\ r + 1 > resolved + 1 /\ r + 1 <= Len(messages)
    BY <1>1, <1>2, Numbers
  <2>2. delivery[r + 1].status = "NONE"
    BY <2>1 DEF IInv, Rows, TasksInOrder, TaskInOrder, Untouched, NoDelivery
  <2>3. delivery[r + 1].status = "PUBLISHED"
    BY <2>1 DEF IInv, Rows, RepliesInOrder, ReplyInOrder
  <2> QED BY <2>2, <2>3
<1> QED BY <1>1, <1>2, Numbers

LEMMA TurnsStartEmpty == Init => Turn!Init
<1> SUFFICES ASSUME Init PROVE Turn!Init
  OBVIOUS
<1>1. nextSeq - 1 = 0 /\ resolved = 0 /\ receipts = {} /\ messages = <<>>
  BY DEF Init
<1>2. OutcomesOf(<<>>) = <<>>
  BY DEF OutcomesOf
<1> QED BY <1>1, <1>2 DEF Turn!Init, OutcomesOf

\* Every step of the runtime is a step of the protocol, or none.
LEMMA TurnSteps == IInv /\ [Next]_vars => [Turn!Next]_(Turn!vars)
<1> SUFFICES ASSUME IInv, [Next]_vars PROVE Turn!Next \/ UNCHANGED Turn!vars
  OBVIOUS
<1>0. Turn!Open <=> resolved < nextSeq - 1 /\ Len(OutcomesOf(messages)) = resolved
  BY DEF Turn!Open, OutcomesOf
<1>1. Len(OutcomesOf(messages)) = Len(messages)
  BY Numbers DEF OutcomesOf
<1>2. CASE RowsStay
  BY <1>2 DEF RowsStay, Turn!vars
<1>3. CASE Accepts
  <2>1. nextSeq - 1 < MaxInputs /\ (nextSeq - 1)' = nextSeq - 1 + 1
    BY <1>3, Numbers DEF Accepts
  <2>2. Turn!Accept
    BY <1>3, <2>1 DEF Turn!Accept, Accepts
  <2> QED BY <2>2 DEF Turn!Next
<1>4. ASSUME NEW r \in Inputs, Tends(r) PROVE UNCHANGED Turn!vars
  BY <1>4 DEF Tends, Turn!vars
<1>5. ASSUME NEW r \in Inputs, NEW outcome \in Outcome, Owes(r, outcome)
      PROVE  Turn!Next \/ UNCHANGED Turn!vars
  <2>1. /\ QueueHead(r) /\ r = resolved + 1 /\ delivery[r].status = "NONE"
        /\ receipts' = IF outcome = "ACTION" THEN receipts \cup {r} ELSE receipts
        /\ UNCHANGED <<nextSeq, resolved, messages>>
    BY <1>5 DEF Owes, QueueHead
  <2>2. CASE outcome # "ACTION"
    BY <2>1, <2>2 DEF Turn!vars
  <2>3. CASE outcome = "ACTION"
    <3>1. Len(messages) = resolved /\ resolved < nextSeq - 1
      BY <2>1, AnsweredSoFar, Numbers DEF QueueHead
    <3>2. r \notin receipts
      BY <2>1 DEF IInv, Rows, RepliesInOrder, ReplyInOrder
    <3>3. Turn!Open
      BY <1>0, <1>1, <3>1
    <3>4. Turn!Commit
      BY <2>1, <2>3, <3>2, <3>3 DEF Turn!Commit
    <3> QED BY <3>4 DEF Turn!Next
  <2> QED BY <2>2, <2>3
<1>6. ASSUME NEW r \in Inputs, Answers(r) PROVE Turn!Next
  <2>1. /\ QueueHead(r) /\ r = resolved + 1 /\ delivery[r].status # "PUBLISHED"
        /\ messages' = Append(messages, [run |-> r, outcome |-> delivery[r].outcome])
        /\ UNCHANGED <<nextSeq, resolved, receipts>>
    BY <1>6 DEF Answers, QueueHead
  <2>2. Len(messages) = resolved /\ resolved < nextSeq - 1
    BY <2>1, AnsweredSoFar, Numbers DEF QueueHead
  <2>3. delivery[r].outcome = IF r \in receipts THEN "ACTION" ELSE "NOACTION"
    <3>1. r \in receipts <=> delivery[r].outcome = "ACTION"
      BY DEF IInv, Rows, RepliesInOrder, ReplyInOrder
    <3> QED BY <3>1, HeadRows DEF DeliveryRow, Outcome
  <2>4. PICK m : m = [run |-> r, outcome |-> delivery[r].outcome]
    OBVIOUS
  <2>5. m \in Message /\ m.outcome = delivery[r].outcome
    BY <2>4, HeadRows DEF Message, DeliveryRow
  <2>6. OutcomesOf(messages') = Append(OutcomesOf(messages), m.outcome)
    BY <2>1, <2>4, <2>5, Numbers, OutcomesAppend
  <2>7. Turn!Open
    BY <1>0, <1>1, <2>2
  <2>8. Turn!Reply
    BY <2>1, <2>3, <2>5, <2>6, <2>7 DEF Turn!Reply, OutcomesOf
  <2> QED BY <2>8 DEF Turn!Next
<1>7. ASSUME NEW i \in Instance, Resolves(exec[i].run) PROVE Turn!Next
  <2>1. PICK r \in Inputs : r = exec[i].run
    BY ProcessFacts
  <2>2. /\ QueueHead(r) /\ r = resolved + 1 /\ resolved' = r
        /\ delivery[r].status = "PUBLISHED"
        /\ UNCHANGED <<nextSeq, receipts, messages>>
    BY <1>7, <2>1 DEF Resolves, QueueHead
  <2>3. Len(OutcomesOf(messages)) = resolved + 1
    BY <1>1, <2>2, AnsweredUpTo
  <2>4. Turn!Resolve
    BY <2>2, <2>3 DEF Turn!Resolve, OutcomesOf
  <2> QED BY <2>4 DEF Turn!Next
<1> QED BY <1>2, <1>3, <1>4, <1>5, <1>6, <1>7, Steps DEF Calm, Minor, Final

\* Each accepted input is committed at most once, answered exactly once, in order and
\* truthfully, and only then resolved, whatever the processes, the dispatcher, the
\* watchdog and the seller do.
THEOREM RuntimeImplementsTurns == Spec => TurnsAreProcessedInOrder
BY TurnsStartEmpty, TurnSteps, TurnInvariant, PTL DEF Spec, TurnsAreProcessedInOrder, Turn!Spec
==============================================================================
