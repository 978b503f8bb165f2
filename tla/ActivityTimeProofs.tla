-------------------------- MODULE ActivityTimeProofs --------------------------
(***************************************************************************)
(* Proofs about the clock of a run, for all durations.                     *)
(***************************************************************************)
EXTENDS ActivityTime, TLAPS

\* What the columns of input and task say about one another: an attempt that is
\* running is the one being charged, and one that no longer runs is charged in full.
Consistent ==
    /\ run.since # Null => run.since <= run.until /\ run.since <= now
    /\ task.status = "RUNNING" => run.since # Null /\ run.until = task.lease
    /\ task.status # "RUNNING" => task.lease = Null /\ (run.since # Null => run.until <= now)

\* A lease is never longer than one grant.
LeaseIsShort == Owned /\ ~CleanupOnly => task.lease <= now + Lease

Facts == TypeOK /\ Consistent /\ ChargeIsHeldTime /\ LeaseIsShort

\* The durations and the columns are natural numbers.
LEMMA Numbers ==
    ASSUME TypeOK
    PROVE  /\ Budget \in Nat \ {0} /\ Lease \in Nat \ {0} /\ Closing \in Nat \ {0}
           /\ Reply \in Nat \ {0} /\ Call \in Nat \ {0} /\ MaxTime \in Nat \ {0}
           /\ MaxClaims \in Nat \ {0} /\ Lease <= Reply + Closing
           /\ now \in Nat \ {0} /\ reply \in Nat /\ call \in Nat
           /\ claims \in Nat /\ cleanups \in Nat /\ held \in Nat /\ exhausted \in Nat
           /\ run \in RunRow /\ task \in TaskRow /\ published \in BOOLEAN
           /\ run.ms \in Nat /\ run.since \in Nat /\ run.until \in Nat /\ run.closing \in Nat
           /\ task.lease \in Nat /\ task.terminate \in BOOLEAN
BY DurationsAssumption DEF TypeOK, RunRow, TaskRow

\* What is used of the budget, and what remains of it, is a natural number; while an
\* attempt is charged and time remains, the budget ends that much later.
LEMMA Arithmetic ==
    ASSUME NEW r \in RunRow, NEW t \in Nat, Budget \in Nat
    PROVE  /\ Used(r, t) \in Nat /\ Remaining(r, t) \in Nat /\ BudgetEnd(r) \in Nat
           /\ Remaining(r, t) = 0 => Used(r, t) >= Budget
           /\ r.since # Null /\ r.since <= t /\ t <= r.until /\ Remaining(r, t) > 0 =>
                 t + Remaining(r, t) = BudgetEnd(r)
           /\ r.since # Null /\ r.since <= t /\ t <= r.until /\ Remaining(r, t) = 0 =>
                 BudgetEnd(r) <= t
<1>1. r.ms \in Nat /\ r.since \in Nat /\ r.until \in Nat
  BY DEF RunRow
<1>2. Earlier(t, r.until) \in Nat /\ (t <= r.until => Earlier(t, r.until) = t)
  BY <1>1 DEF Earlier
<1>3. Used(r, t) \in Nat
  BY <1>1, <1>2 DEF Used, Positive
<1>4. /\ r.since # Null /\ r.since <= t /\ t <= r.until => Used(r, t) = r.ms + (t - r.since)
  BY <1>1, <1>2 DEF Used, Positive
<1> QED BY <1>1, <1>3, <1>4 DEF Remaining, BudgetEnd, Positive

\* Settling charges the attempt and closes it.
LEMMA Settling ==
    ASSUME NEW r \in RunRow, NEW t \in Nat, Budget \in Nat, Closing \in Nat
    PROVE  /\ Settle(r, t) \in RunRow
           /\ Settle(r, t).ms = Used(r, t) /\ Settle(r, t).since = Null
           /\ r.closing # Null => Settle(r, t).closing = r.closing
           /\ Used(Settle(r, t), t) = Used(r, t)
<1>1. Used(r, t) \in Nat /\ BudgetEnd(r) \in Nat /\ r.closing \in Nat
  BY Arithmetic DEF RunRow
<1>2. /\ Settle(r, t).ms = Used(r, t) /\ Settle(r, t).since = Null
      /\ r.closing # Null => Settle(r, t).closing = r.closing
  BY DEF Settle
<1>3. Settle(r, t) \in RunRow
  BY <1>1 DEF Settle, RunRow, Null
<1>4. Used(Settle(r, t), t) = Used(r, t)
  BY <1>1, <1>2 DEF Used
<1> QED BY <1>2, <1>3, <1>4

\* Freezing the window touches nothing else, and a frozen window stays.
LEMMA Freezing ==
    ASSUME TypeOK, NEW r \in RunRow, NEW t \in Nat
    PROVE  /\ WorkEnd(r, t) \in Nat
           /\ Frozen(r, t) \in RunRow
           /\ Frozen(r, t).ms = r.ms /\ Frozen(r, t).since = r.since
           /\ Frozen(r, t).until = r.until
           /\ r.closing # Null => Frozen(r, t).closing = r.closing
           /\ Frozen(r, t).closing = Null => r.closing = Null /\ WorkEnd(r, t) > t
           /\ Frozen(r, t).closing # Null => r.closing # Null \/ WorkEnd(r, t) <= t
           /\ LeaseDeadline(r, t) \in Nat /\ LeaseDeadline(r, t) <= t + Lease
<1>1. Remaining(r, t) \in Nat /\ reply \in Nat /\ Closing \in Nat \ {0} /\ r.closing \in Nat
  BY Numbers, Arithmetic DEF RunRow
<1>2. WorkEnd(r, t) \in Nat
  BY <1>1 DEF WorkEnd, Earlier
<1>3. /\ Frozen(r, t).ms = r.ms /\ Frozen(r, t).since = r.since
      /\ Frozen(r, t).until = r.until /\ Frozen(r, t) \in RunRow
  BY <1>1, <1>2 DEF Frozen, RunRow
<1>4. /\ r.closing # Null => Frozen(r, t).closing = r.closing
      /\ Frozen(r, t).closing = Null => r.closing = Null /\ WorkEnd(r, t) > t
      /\ Frozen(r, t).closing # Null => r.closing # Null \/ WorkEnd(r, t) <= t
  BY <1>1, <1>2 DEF Frozen, RunRow, Null
<1>5. LeaseDeadline(r, t) \in Nat /\ LeaseDeadline(r, t) <= t + Lease
  BY <1>1, <1>2, Numbers DEF LeaseDeadline, Earlier
<1> QED BY <1>2, <1>3, <1>4, <1>5

-------------------------------------------------------------------------------
(* The facts hold initially and are kept by every operation.               *)

LEMMA FactsInit == Init => Facts /\ LeaseEndsInWindow /\ ModelStopsInTime
<1> SUFFICES ASSUME Init PROVE Facts /\ LeaseEndsInWindow /\ ModelStopsInTime
  OBVIOUS
<1>1. MaxTime \in Nat \ {0}
  BY DurationsAssumption
<1>2. run \in RunRow /\ task \in TaskRow
  BY DEF Init, RunRow, TaskRow, Null
<1>3. /\ now = 1 /\ reply = 0 /\ call = 0 /\ claims = 0 /\ cleanups = 0 /\ held = 0
      /\ exhausted = 0 /\ published = FALSE
  BY DEF Init, Null
<1>4. now \in 1..MaxTime /\ {reply, call, claims, cleanups, held, exhausted} \subseteq Nat
  BY <1>1, <1>3
<1>5. published \in BOOLEAN
  BY <1>3
<1>6. TypeOK
  BY <1>2, <1>4, <1>5 DEF TypeOK
<1> QED BY <1>6 DEF Init, Facts, Consistent, ChargeIsHeldTime, LeaseIsShort, Used,
           LeaseEndsInWindow, ModelStopsInTime, Owned, Null

Inv == Facts /\ LeaseEndsInWindow /\ ModelStopsInTime

\* While an attempt holds its lease it is the one being charged.
LEMMA Holding ==
    ASSUME Facts, Owned
    PROVE  /\ run.since # Null /\ run.since <= now /\ run.until = task.lease /\ now < run.until
           /\ Used(run, now) = run.ms + (now - run.since)
<1>1. run.since # Null /\ run.since <= now /\ run.until = task.lease /\ now < run.until
  BY DEF Facts, Consistent, Owned
<1> QED BY <1>1, Numbers DEF Facts, Used, Earlier, Positive

\* A claim settles what came before and grants a lease within the window.
LEMMA ClaimKeepsInv == Inv /\ Claim => Inv'
<1> SUFFICES ASSUME Inv, Claim PROVE Inv'
  OBVIOUS
<1> DEFINE r == ClaimedRun
<1>1. TypeOK
  BY DEF Inv, Facts
<1>2. now \in Nat /\ run \in RunRow /\ Budget \in Nat /\ Closing \in Nat \ {0} /\ Lease \in Nat
  BY <1>1, Numbers
<1>3. Settle(run, now) \in RunRow /\ Settle(run, now).ms = Used(run, now) /\ Settle(run, now).since = Null
  BY <1>2, Settling
<1>4. r \in RunRow /\ r.ms = Used(run, now) /\ r.since = Null
  BY <1>1, <1>2, <1>3, Freezing DEF ClaimedRun
<1>5. r.closing \in Nat /\ r.ms \in Nat
  BY <1>4 DEF RunRow
<1>6. WorkEnd(r, now) \in Nat /\ LeaseDeadline(r, now) \in Nat /\ LeaseDeadline(r, now) <= now + Lease
  BY <1>1, <1>2, <1>4, Freezing
<1>7. Deadline \in Nat /\ Deadline > now /\ (~CleanupOnly => Deadline = LeaseDeadline(r, now))
  BY <1>2, <1>6 DEF Deadline, Claim
<1>8. /\ run' = [ms |-> r.ms, since |-> now, until |-> Deadline, closing |-> r.closing]
      /\ run'.ms = r.ms /\ run'.since = now /\ run'.until = Deadline /\ run'.closing = r.closing
  BY <1>4 DEF Claim, RunRow
<1>9. /\ task' = [status |-> "RUNNING", lease |-> Deadline, terminate |-> task.terminate]
      /\ task'.status = "RUNNING" /\ task'.lease = Deadline /\ task'.terminate = task.terminate
  BY <1>1 DEF Claim, TypeOK, TaskRow
<1>10. /\ now' = now /\ reply' = reply /\ published' = published /\ held' = held
       /\ exhausted' = exhausted /\ call' = Null /\ claims' \in Nat /\ cleanups' \in Nat
  BY <1>1, Numbers DEF Claim
<1>11. run' \in RunRow /\ task' \in TaskRow
  BY <1>1, <1>2, <1>5, <1>7, <1>8, <1>9, Numbers DEF RunRow, TaskRow
<1>12. TypeOK'
  BY <1>1, <1>10, <1>11 DEF TypeOK, Null
<1>13. now # Null
  BY <1>1, Numbers DEF Null
<1>14. Used(run, now)' = Used(run, now)
  BY <1>2, <1>4, <1>5, <1>7, <1>8, <1>10, <1>13 DEF Used, Earlier, Positive
<1>15. Consistent' /\ ChargeIsHeldTime' /\ LeaseIsShort'
  BY <1>2, <1>6, <1>7, <1>8, <1>9, <1>10, <1>13, <1>14
     DEF Inv, Facts, Consistent, ChargeIsHeldTime, LeaseIsShort, CleanupOnly
<1>16. ModelStopsInTime'
  BY <1>2, <1>10 DEF ModelStopsInTime, Null
<1>17. ~CleanupOnly => IF r.closing # Null THEN Deadline <= r.closing
                       ELSE Deadline <= WorkEnd(r, now) + Closing
  BY <1>2, <1>5, <1>6, <1>7 DEF LeaseDeadline, Earlier
<1>18. /\ WorkEnd(r, now) <= BudgetEnd(run')
       /\ reply # Null => WorkEnd(r, now) <= reply
  <2>1. Remaining(r, now) = Positive(Budget - r.ms)
    BY <1>4, <1>5 DEF Remaining, Used
  <2>2. BudgetEnd(run') = now + Positive(Budget - r.ms)
    BY <1>8 DEF BudgetEnd
  <2>3. Positive(Budget - r.ms) \in Nat /\ reply \in Nat
    BY <1>1, <1>2, <1>5, Numbers DEF Positive
  <2> HIDE DEF r
  <2> QED BY <1>2, <2>1, <2>2, <2>3 DEF WorkEnd, Earlier
<1>19. BudgetEnd(run)' = BudgetEnd(run') /\ BudgetEnd(run') \in Nat /\ reply \in Nat
  BY <1>1, <1>2, <1>11, Arithmetic, Numbers DEF BudgetEnd
<1>20. LeaseEndsInWindow'
  BY <1>2, <1>6, <1>7, <1>8, <1>9, <1>10, <1>17, <1>18, <1>19 DEF LeaseEndsInWindow, CleanupOnly
<1> QED BY <1>12, <1>15, <1>16, <1>20 DEF Inv, Facts

\* So does an attempt that ends, however it ends.
LEMMA EndKeepsInv ==
    ASSUME Inv, NEW status \in {"RETRY_WAIT", "SUCCEEDED"}, End(status)
    PROVE  Inv'
<1>1. TypeOK
  BY DEF Inv, Facts
<1>2. now \in Nat /\ run \in RunRow /\ Budget \in Nat /\ Closing \in Nat
  BY <1>1, Numbers
<1>3. /\ run' \in RunRow /\ run'.ms = Used(run, now) /\ run'.since = Null
      /\ Used(run', now) = Used(run, now)
  BY <1>2, Settling DEF End
<1>4. /\ task' = [status |-> status, lease |-> Null, terminate |-> task.terminate]
      /\ task'.status = status /\ task'.lease = Null
  BY <1>1 DEF End, TypeOK, TaskRow
<1>5. UNCHANGED <<now, reply, published, claims, cleanups, held, exhausted>> /\ call' = Null
  BY DEF End, history
<1>6. TypeOK'
  BY <1>1, <1>3, <1>4, <1>5, Numbers DEF TypeOK, TaskRow, Null
<1>7. Used(run, now)' = Used(run, now)
  BY <1>3, <1>5
<1> QED BY <1>2, <1>3, <1>4, <1>5, <1>6, <1>7
        DEF Inv, Facts, Consistent, ChargeIsHeldTime, LeaseIsShort, LeaseEndsInWindow,
            ModelStopsInTime, Owned

\* A claim that finds no time settles and fails.
LEMMA ClaimExpiredKeepsInv == Inv /\ ClaimExpired => Inv'
<1> SUFFICES ASSUME Inv, ClaimExpired PROVE Inv'
  OBVIOUS
<1>1. TypeOK
  BY DEF Inv, Facts
<1>2. now \in Nat /\ run \in RunRow /\ Budget \in Nat /\ Closing \in Nat
  BY <1>1, Numbers
<1>3. /\ Settle(run, now) \in RunRow /\ Settle(run, now).ms = Used(run, now)
      /\ Settle(run, now).since = Null
  BY <1>2, Settling
<1>4. run' \in RunRow /\ run'.ms = Used(run, now) /\ run'.since = Null
  BY <1>1, <1>2, <1>3, Freezing DEF ClaimExpired, ClaimedRun
<1>5. /\ task' = [status |-> "FAILED", lease |-> Null, terminate |-> task.terminate]
      /\ task'.status = "FAILED" /\ task'.lease = Null
  BY <1>1 DEF ClaimExpired, TypeOK, TaskRow
<1>6. UNCHANGED <<now, reply, published, call, claims, cleanups, held, exhausted>>
  BY DEF ClaimExpired, history
<1>7. TypeOK'
  BY <1>1, <1>4, <1>5, <1>6 DEF TypeOK, TaskRow, Null
<1>8. Used(run, now)' = Used(run, now)
  BY <1>2, <1>4, <1>6, Arithmetic DEF Used
<1> QED BY <1>2, <1>4, <1>5, <1>6, <1>7, <1>8
        DEF Inv, Facts, Consistent, ChargeIsHeldTime, LeaseIsShort, LeaseEndsInWindow,
            ModelStopsInTime, Owned

\* A heartbeat renews the lease within the window; it freezes the window only when no
\* model request can still be running.
LEMMA HeartbeatKeepsInv == Inv /\ Heartbeat => Inv'
<1> SUFFICES ASSUME Inv, Heartbeat PROVE Inv'
  OBVIOUS
<1> DEFINE r == Frozen(run, now)
           deadline == LeaseDeadline(r, now)
<1>1. TypeOK
  BY DEF Inv, Facts
<1>2. now \in Nat \ {0} /\ run \in RunRow /\ Budget \in Nat /\ Closing \in Nat \ {0} /\ Lease \in Nat
  BY <1>1, Numbers
<1>3. Owned /\ deadline > now
  BY DEF Heartbeat
<1>4. run.since # Null /\ run.since <= now /\ now < run.until /\ run.until = task.lease
  BY <1>3, Holding DEF Inv
<1>5. /\ r \in RunRow /\ r.ms = run.ms /\ r.since = run.since /\ r.until = run.until
      /\ run.closing # Null => r.closing = run.closing
      /\ r.closing # Null => run.closing # Null \/ WorkEnd(run, now) <= now
      /\ WorkEnd(run, now) \in Nat
  BY <1>1, <1>2, Freezing
<1>6. WorkEnd(r, now) = WorkEnd(run, now)
  BY <1>5 DEF WorkEnd, Remaining, Used
<1>7. deadline \in Nat /\ deadline <= now + Lease
  BY <1>1, <1>2, <1>5, Freezing
<1>8. /\ run' = [ms |-> run.ms, since |-> run.since, until |-> deadline, closing |-> r.closing]
      /\ run'.ms = run.ms /\ run'.since = run.since /\ run'.until = deadline
      /\ run'.closing = r.closing
  BY <1>5 DEF Heartbeat, RunRow
<1>9. /\ task' = [status |-> "RUNNING", lease |-> deadline, terminate |-> task.terminate]
      /\ task'.status = "RUNNING" /\ task'.lease = deadline /\ task'.terminate = task.terminate
  BY <1>1, <1>3 DEF Heartbeat, TypeOK, TaskRow, Owned
<1>10. UNCHANGED <<now, reply, published, call, claims, cleanups, held, exhausted>>
  BY DEF Heartbeat, history
<1>11. run.ms \in Nat /\ run.since \in Nat /\ run.until \in Nat /\ r.closing \in Nat /\ reply \in Nat /\ call \in Nat
  BY <1>1, <1>5, Numbers DEF RunRow
<1> HIDE DEF r, deadline
<1>12. TypeOK'
  BY <1>1, <1>7, <1>8, <1>9, <1>10, <1>11, Numbers DEF TypeOK, RunRow, TaskRow
<1>13. Used(run, now)' = Used(run, now)
  BY <1>2, <1>3, <1>4, <1>7, <1>8, <1>10, <1>11 DEF Used, Earlier, Positive
<1>14. Consistent' /\ ChargeIsHeldTime' /\ LeaseIsShort'
  BY <1>2, <1>3, <1>4, <1>7, <1>8, <1>9, <1>10, <1>11, <1>13
     DEF Inv, Facts, Consistent, ChargeIsHeldTime, LeaseIsShort, CleanupOnly
<1>15. BudgetEnd(run)' = BudgetEnd(run) /\ BudgetEnd(run) \in Nat
  BY <1>2, <1>8, Arithmetic DEF BudgetEnd
<1>16. run.since # Null /\ run.since <= now /\ now <= run.until
  BY <1>2, <1>4, <1>11
<1>17. /\ Remaining(run, now) > 0 => now + Remaining(run, now) = BudgetEnd(run)
       /\ Remaining(run, now) = 0 => BudgetEnd(run) <= now
       /\ Remaining(run, now) \in Nat
  BY <1>2, <1>16, Arithmetic
<1>18. IF reply = Null THEN WorkEnd(run, now) = now + Remaining(run, now)
       ELSE /\ WorkEnd(run, now) \in {now + Remaining(run, now), reply}
            /\ WorkEnd(run, now) <= now + Remaining(run, now) /\ WorkEnd(run, now) <= reply
  BY <1>2, <1>11, <1>17 DEF WorkEnd, Earlier
<1>19. ModelStopsInTime'
  BY <1>2, <1>3, <1>5, <1>8, <1>10, <1>11, <1>15, <1>17, <1>18 DEF Inv, ModelStopsInTime
<1>20. IF r.closing # Null THEN deadline <= r.closing
       ELSE deadline <= WorkEnd(run, now) + Closing
  BY <1>2, <1>5, <1>6, <1>11 DEF deadline, LeaseDeadline, Earlier
<1>21. r.closing = Null => WorkEnd(run, now) > now
  BY <1>1, <1>2, Freezing DEF r
<1>22. LeaseEndsInWindow'
  BY <1>2, <1>5, <1>7, <1>8, <1>9, <1>10, <1>11, <1>15, <1>17, <1>18, <1>20, <1>21
     DEF LeaseEndsInWindow
<1> QED BY <1>12, <1>14, <1>19, <1>22 DEF Inv, Facts

\* A model request gets at most what is left of the budget and of the reply time.
LEMMA StartCallKeepsInv == Inv /\ StartCall => Inv'
<1> SUFFICES ASSUME Inv, StartCall PROVE Inv'
  OBVIOUS
<1>1. TypeOK
  BY DEF Inv, Facts
<1>2. now \in Nat \ {0} /\ run \in RunRow /\ Budget \in Nat /\ reply \in Nat /\ Call \in Nat
  BY <1>1, Numbers
<1>3. Owned /\ run.closing = Null /\ ModelSeconds > 0 /\ call' = now + ModelSeconds
  BY DEF StartCall
<1>4. UNCHANGED <<now, run, task, reply, published, claims, cleanups, held, exhausted>>
  BY DEF StartCall, history
<1>5. /\ run.since # Null /\ run.since <= now /\ now < run.until
      /\ run.since \in Nat /\ run.until \in Nat
  BY <1>1, <1>3, Holding, Numbers DEF Inv
<1>6. now <= run.until
  BY <1>2, <1>5
<1>7. /\ Remaining(run, now) \in Nat /\ BudgetEnd(run) \in Nat
      /\ Remaining(run, now) > 0 => now + Remaining(run, now) = BudgetEnd(run)
  BY <1>2, <1>5, <1>6, Arithmetic
<1>8. /\ ModelSeconds \in Int /\ ModelSeconds <= Remaining(run, now)
      /\ reply # Null => ModelSeconds <= reply - now
  BY <1>2, <1>7 DEF ModelSeconds, Earlier
<1>9. /\ call' \in Nat /\ call' <= BudgetEnd(run)
      /\ reply # Null => call' <= reply
  BY <1>2, <1>3, <1>7, <1>8
<1>10. TypeOK'
  BY <1>1, <1>4, <1>9 DEF TypeOK
<1>11. Used(run, now)' = Used(run, now) /\ BudgetEnd(run)' = BudgetEnd(run)
  BY <1>4 DEF Used, BudgetEnd
<1>12. Facts' /\ LeaseEndsInWindow'
  BY <1>4, <1>10, <1>11
     DEF Inv, Facts, Consistent, ChargeIsHeldTime, LeaseIsShort, LeaseEndsInWindow, Owned,
         CleanupOnly
<1>13. ModelStopsInTime'
  BY <1>3, <1>4, <1>9, <1>11 DEF ModelStopsInTime
<1> QED BY <1>12, <1>13 DEF Inv

\* Owing the reply sets a deadline that a lease cannot outlive by more than the window.
LEMMA OweKeepsInv == Inv /\ Owe => Inv'
<1> SUFFICES ASSUME Inv, Owe PROVE Inv'
  OBVIOUS
<1>1. TypeOK
  BY DEF Inv, Facts
<1>2. /\ now \in Nat \ {0} /\ Reply \in Nat \ {0} /\ Closing \in Nat /\ Lease \in Nat
      /\ Lease <= Reply + Closing /\ task.lease \in Nat
  BY <1>1, Numbers
<1>3. Owned /\ call = Null /\ reply = Null /\ reply' = now + Reply
  BY DEF Owe
<1>4. UNCHANGED <<now, run, task, published, call, claims, cleanups, held, exhausted>>
  BY DEF Owe, history
<1>5. TypeOK'
  BY <1>1, <1>2, <1>3, <1>4 DEF TypeOK
<1>6. Used(run, now)' = Used(run, now) /\ BudgetEnd(run)' = BudgetEnd(run)
  BY <1>4 DEF Used, BudgetEnd
<1>7. Facts'
  BY <1>4, <1>5, <1>6
     DEF Inv, Facts, Consistent, ChargeIsHeldTime, LeaseIsShort, Owned, CleanupOnly
<1>8. LeaseEndsInWindow'
  BY <1>2, <1>3, <1>4, <1>6 DEF Inv, Facts, LeaseIsShort, LeaseEndsInWindow, Owned, CleanupOnly
<1>9. ModelStopsInTime'
  BY <1>2, <1>3, <1>4 DEF ModelStopsInTime, Null
<1> QED BY <1>7, <1>8, <1>9 DEF Inv

\* Time charges an attempt exactly while it holds its lease.
LEMMA TickKeepsInv == Inv /\ Tick => Inv'
<1> SUFFICES ASSUME Inv, Tick PROVE Inv'
  OBVIOUS
<1>1. TypeOK
  BY DEF Inv, Facts
<1>2. now \in Nat \ {0} /\ run \in RunRow /\ held \in Nat /\ MaxTime \in Nat /\ task.lease \in Nat
      /\ run.ms \in Nat /\ run.since \in Nat /\ run.until \in Nat /\ call \in Nat
  BY <1>1, Numbers
<1>3. /\ now' = now + 1 /\ now < MaxTime /\ held' = IF Owned THEN held + 1 ELSE held
      /\ UNCHANGED <<run, task, reply, published, call, claims, cleanups>>
  BY DEF Tick
<1>4. exhausted' \in Nat
  BY <1>1, <1>2, <1>3, Numbers DEF Tick
<1>5. TypeOK'
  BY <1>1, <1>2, <1>3, <1>4 DEF TypeOK
<1>6. Owned' => Owned
  BY <1>2, <1>3 DEF Owned
<1>7. Consistent
  BY DEF Inv, Facts
<1>8. Used(run, now)' = IF Owned THEN Used(run, now) + 1 ELSE Used(run, now)
  BY <1>2, <1>3, <1>7 DEF Consistent, Owned, Used, Earlier, Positive
<1>9. Used(run, now) \in Nat /\ Used(run, now) = held
  BY <1>2 DEF Inv, Facts, ChargeIsHeldTime
<1>10. ChargeIsHeldTime'
  BY <1>3, <1>8, <1>9 DEF ChargeIsHeldTime
<1>11. Consistent'
  BY <1>2, <1>3, <1>7 DEF Consistent
<1>12. BudgetEnd(run)' = BudgetEnd(run)
  BY <1>3 DEF BudgetEnd
<1>13. LeaseIsShort' /\ LeaseEndsInWindow'
  BY <1>1, <1>2, <1>3, <1>6, <1>12, Numbers
     DEF Inv, Facts, LeaseIsShort, LeaseEndsInWindow, CleanupOnly
<1>14. ModelStopsInTime'
  BY <1>2, <1>3, <1>6, <1>12 DEF Inv, ModelStopsInTime
<1> QED BY <1>5, <1>10, <1>11, <1>13, <1>14 DEF Inv, Facts

\* Every operation keeps the invariant.
LEMMA InvNext == Inv /\ [Next]_vars => Inv'
<1> SUFFICES ASSUME Inv, [Next]_vars PROVE Inv'
  OBVIOUS
<1>1. TypeOK
  BY DEF Inv, Facts
<1>2. CASE EndCall
  <2>1. UNCHANGED <<now, run, task, reply, published, claims, cleanups, held, exhausted>> /\ call' = Null
    BY <1>2 DEF EndCall, history
  <2>2. TypeOK' /\ Used(run, now)' = Used(run, now)
    BY <1>1, <2>1 DEF TypeOK, Used, Null
  <2>3. ModelStopsInTime'
    BY <1>1, <2>1, Numbers DEF ModelStopsInTime, Null
  <2> QED BY <2>1, <2>2, <2>3
          DEF Inv, Facts, Consistent, ChargeIsHeldTime, LeaseIsShort, LeaseEndsInWindow, Owned,
              CleanupOnly, BudgetEnd
<1>3. CASE Publish
  <2>1. UNCHANGED <<now, run, task, reply, call, claims, cleanups, held, exhausted>> /\ published' = TRUE
    BY <1>3 DEF Publish, history
  <2>2. TypeOK' /\ Used(run, now)' = Used(run, now)
    BY <1>1, <2>1 DEF TypeOK, Used
  <2> QED BY <2>1, <2>2
          DEF Inv, Facts, Consistent, ChargeIsHeldTime, LeaseIsShort, LeaseEndsInWindow, Owned,
              CleanupOnly, BudgetEnd, ModelStopsInTime
<1>4. ASSUME NEW terminate \in BOOLEAN, Recover(terminate) PROVE Inv'
  <2>1. UNCHANGED <<now, run, reply, published, call, claims, cleanups, held, exhausted>>
    BY <1>4 DEF Recover, history
  <2>2. /\ task' = [status |-> "PENDING", lease |-> Null, terminate |-> terminate]
        /\ task'.status = "PENDING" /\ task'.lease = Null /\ task.lease <= now
    BY <1>4 DEF Recover
  <2>3. TypeOK' /\ Used(run, now)' = Used(run, now)
    BY <1>1, <2>1, <2>2 DEF TypeOK, TaskRow, Used, Null
  <2>4. run.since # Null => run.until <= now
    BY <2>2 DEF Inv, Facts, Consistent
  <2>5. Consistent'
    BY <2>1, <2>2, <2>4 DEF Inv, Facts, Consistent
  <2> QED BY <2>1, <2>2, <2>3, <2>5
          DEF Inv, Facts, ChargeIsHeldTime, LeaseIsShort, LeaseEndsInWindow, Owned,
              ModelStopsInTime
<1>5. CASE UNCHANGED vars
  BY <1>5 DEF vars, Inv, Facts, TypeOK, Consistent, ChargeIsHeldTime, LeaseIsShort,
              LeaseEndsInWindow, Owned, CleanupOnly, BudgetEnd, ModelStopsInTime, Used
<1> QED
  BY <1>2, <1>3, <1>4, <1>5, ClaimKeepsInv, ClaimExpiredKeepsInv, HeartbeatKeepsInv,
     StartCallKeepsInv, OweKeepsInv, EndKeepsInv, TickKeepsInv
  DEF Next, Finalize, Release, Revoke

-------------------------------------------------------------------------------
(* The theorems.                                                           *)

\* Every column is well typed at all times.
THEOREM TypeCorrect == Spec => []TypeOK
<1>1. Init => Inv
  BY FactsInit DEF Inv
<1> QED BY <1>1, InvNext, PTL DEF Spec, Inv, Facts

\* Whatever crashes, expires, is revoked or retried, the budget is charged exactly the
\* time during which some attempt held the lease (used_ms, settle, claim, heartbeat).
THEOREM BudgetIsExact == Spec => []ChargeIsHeldTime
<1>1. Init => Inv
  BY FactsInit DEF Inv
<1> QED BY <1>1, InvNext, PTL DEF Spec, Inv, Facts

\* No lease that claim or heartbeat grants to an ordinary attempt reaches past the
\* closing window (lease_deadline).
THEOREM LeasesEndInWindow == Spec => []LeaseEndsInWindow
<1>1. Init => Inv
  BY FactsInit DEF Inv
<1> QED BY <1>1, InvNext, PTL DEF Spec, Inv

\* No model request of the owner runs past the budget, the reply deadline or into the
\* closing window (model_timeout).
THEOREM ModelWorkStops == Spec => []ModelStopsInTime
<1>1. Init => Inv
  BY FactsInit DEF Inv
<1> QED BY <1>1, InvNext, PTL DEF Spec, Inv

\* Restart, recovery and heartbeats never move a frozen closing window.
THEOREM WindowStaysFrozen == Spec => ClosingIsFrozen
<1>1. Init => Inv
  BY FactsInit DEF Inv
<1>2. Inv /\ [Next]_vars => (run.closing # Null => run'.closing = run.closing)
  <2> SUFFICES ASSUME Inv, [Next]_vars, run.closing # Null
               PROVE  run'.closing = run.closing
    OBVIOUS
  <2>1. TypeOK
    BY DEF Inv, Facts
  <2>2. now \in Nat /\ run \in RunRow /\ Budget \in Nat /\ Closing \in Nat
    BY <2>1, Numbers
  <2>3. Settle(run, now) \in RunRow /\ Settle(run, now).closing = run.closing
    BY <2>2, Settling
  <2>4. ClaimedRun \in RunRow /\ ClaimedRun.closing = run.closing
    BY <2>1, <2>2, <2>3, Freezing DEF ClaimedRun
  <2>5. Frozen(run, now) \in RunRow /\ Frozen(run, now).closing = run.closing
    BY <2>1, <2>2, Freezing
  <2>6. CASE Claim
    BY <2>4, <2>6 DEF Claim, RunRow
  <2>7. CASE Heartbeat
    BY <2>5, <2>7 DEF Heartbeat, RunRow
  <2>8. CASE ClaimExpired
    BY <2>4, <2>8 DEF ClaimExpired
  <2>9. ASSUME NEW status, End(status) PROVE run'.closing = run.closing
    BY <2>3, <2>9 DEF End
  <2>10. CASE Finalize \/ Release \/ Revoke
    BY <2>9, <2>10 DEF Finalize, Release, Revoke
  <2>11. CASE UNCHANGED run
    BY <2>11
  <2> QED BY <2>6, <2>7, <2>8, <2>10, <2>11
          DEF Next, StartCall, EndCall, Owe, Publish, Recover, Tick, vars
<1> QED BY <1>1, <1>2, InvNext, PTL DEF Spec, ClosingIsFrozen

-------------------------------------------------------------------------------
(* How long all attempts together may hold the session.                    *)

\* How much longer leases may be held without another cleanup: to the end of the
\* frozen window, or of the cleanup attempt that outlives it.
StillHeld == Positive((IF Owned /\ task.lease > run.closing THEN task.lease ELSE run.closing) - now)

\* What is held and what may still be held is paid for by the budget, two windows and
\* the cleanups; until the window is frozen, each attempt ends within one window of
\* the budget's end.
WindowIsPaid == run.closing # Null => held + StillHeld < Budget + 2 * Closing + cleanups * Closing
AttemptFits ==
    run.closing = Null => /\ run.ms < Budget
                          /\ run.since # Null => run.until <= run.since + (Budget - run.ms) + Closing
Bounded == WindowIsPaid /\ AttemptFits

\* What the attempts were charged while the window is open.
LEMMA HeldSoFar ==
    ASSUME Inv
    PROVE  /\ run.since = Null => held = run.ms
           /\ run.since # Null => /\ run.since <= run.until
                                  /\ held = run.ms + (Earlier(now, run.until) - run.since)
           /\ Remaining(run, now) = Positive(Budget - held)
BY Numbers DEF Inv, Facts, ChargeIsHeldTime, Consistent, Used, Remaining, Earlier, Positive

\* Settling freezes the window of an attempt that used up the budget where the budget
\* ended, and any other settled run has budget left.
LEMMA SettledRun ==
    ASSUME Inv, Bounded, NEW r, r = Settle(run, now)
    PROVE  /\ r \in RunRow /\ r.ms = held /\ r.since = Null
           /\ run.closing # Null => r.closing = run.closing
           /\ r.closing = Null => held < Budget
           /\ run.closing = Null /\ r.closing # Null =>
                 /\ held <= Budget + Closing
                 /\ held + (r.closing - now) <= Budget + Closing
<1>0. /\ now \in Nat \ {0} /\ run \in RunRow /\ Budget \in Nat \ {0} /\ Closing \in Nat \ {0} /\ held \in Nat
      /\ run.ms \in Nat /\ run.since \in Nat /\ run.until \in Nat /\ run.closing \in Nat
  BY Numbers DEF Inv, Facts
<1>1. r \in RunRow /\ r.ms = held /\ r.since = Null /\ (run.closing # Null => r.closing = run.closing)
  BY <1>0, Settling DEF Inv, Facts, ChargeIsHeldTime
<1>2. CASE run.closing # Null
  BY <1>1, <1>2
<1>3. CASE run.closing = Null
  <2>1. /\ run.ms < Budget
        /\ run.since # Null => run.until <= run.since + (Budget - run.ms) + Closing
    BY <1>3 DEF Bounded, AttemptFits
  <2>2. r.closing = IF run.since # Null /\ Remaining(run, now) = 0
                    THEN run.since + (Budget - run.ms) + Closing ELSE Null
    BY <1>0, <1>3, <2>1 DEF Settle, BudgetEnd, Positive
  <2>3. CASE run.since = Null
    BY <1>0, <1>1, <1>3, <2>1, <2>2, <2>3, HeldSoFar
  <2>4. CASE run.since # Null
    <3>1. /\ run.since <= run.until /\ held = run.ms + (Earlier(now, run.until) - run.since)
          /\ Remaining(run, now) = Positive(Budget - held)
      BY <2>4, HeldSoFar
    <3>2. held <= run.ms + (now - run.since) /\ held <= run.ms + (run.until - run.since)
      BY <1>0, <3>1 DEF Earlier
    <3>3. Remaining(run, now) = 0 \/ held < Budget
      BY <1>0, <3>1 DEF Positive
    <3> QED BY <1>0, <1>1, <1>3, <2>1, <2>2, <2>4, <3>2, <3>3 DEF Null
  <2> QED BY <2>3, <2>4
<1> QED BY <1>2, <1>3

\* A lease within the window, or a cleanup attempt that is counted, keeps the bound.
LEMMA PaidFor ==
    ASSUME NEW h \in Nat, NEW c \in Nat, NEW t \in Nat, NEW k \in Nat, NEW bound \in Nat,
           h + Positive(c - t) < bound + k * Closing, NEW lease \in Nat, Closing \in Nat
    PROVE  /\ lease <= c => h + Positive((IF lease > c THEN lease ELSE c) - t) < bound + k * Closing
           /\ lease <= t + Closing =>
                 h + Positive((IF lease > c THEN lease ELSE c) - t) < bound + (k + 1) * Closing
<1>1. PICK paid \in Nat : paid = k * Closing
  OBVIOUS
<1>2. (k + 1) * Closing = paid + Closing
  BY <1>1
<1> QED BY <1>1, <1>2 DEF Positive

LEMMA ClaimIsBounded == Inv /\ Bounded /\ Claim => Bounded'
<1> SUFFICES ASSUME Inv, Bounded, Claim PROVE Bounded'
  OBVIOUS
<1>0. /\ now \in Nat \ {0} /\ run \in RunRow /\ Budget \in Nat \ {0} /\ Closing \in Nat \ {0} /\ held \in Nat
      /\ run.closing \in Nat /\ cleanups \in Nat /\ TypeOK /\ reply \in Nat /\ task \in TaskRow
      /\ task.lease \in Nat /\ Lease \in Nat
  BY Numbers DEF Inv, Facts
<1>1. PICK r : r = Settle(run, now)
  OBVIOUS
<1>2. PICK c : c = ClaimedRun
  OBVIOUS
<1>3. c = Frozen(r, now) /\ r \in RunRow /\ r.ms = held /\ r.since = Null
  BY <1>1, <1>2, SettledRun DEF ClaimedRun
<1>4. /\ c \in RunRow /\ c.ms = held /\ c.since = Null
      /\ r.closing # Null => c.closing = r.closing
      /\ WorkEnd(r, now) \in Nat
  BY <1>0, <1>3, Freezing
<1>5. /\ run' = [c EXCEPT !.since = now, !.until = Deadline] /\ task'.lease = Deadline
      /\ task'.status = "RUNNING" /\ Deadline > now
      /\ UNCHANGED <<now, held>>
      /\ cleanups' = IF CleanupOnly THEN cleanups + 1 ELSE cleanups
      /\ Deadline = IF CleanupOnly THEN now + Closing ELSE LeaseDeadline(c, now)
  BY <1>0, <1>2 DEF Claim, Deadline, TaskRow
<1>6. /\ run'.ms = held /\ run'.since = now /\ run'.until = Deadline /\ run'.closing = c.closing
      /\ c.closing \in Nat /\ r.closing \in Nat
  BY <1>3, <1>4, <1>5 DEF RunRow
<1>7. Remaining(r, now) = Positive(Budget - held) /\ Remaining(c, now) = Positive(Budget - held)
  BY <1>0, <1>3, <1>4 DEF Remaining, Used
<1>8. LeaseDeadline(c, now) \in Nat
  BY <1>0, <1>4, Freezing
<1>9. Deadline \in Nat /\ WorkEnd(c, now) \in Nat
  BY <1>0, <1>4, <1>5, <1>8, Freezing
<1>10. CASE c.closing = Null
  <2>1. r.closing = Null /\ held < Budget
    BY <1>1, <1>4, <1>10, SettledRun
  <2>2. LeaseDeadline(c, now) <= WorkEnd(c, now) + Closing
    BY <1>0, <1>9, <1>10 DEF LeaseDeadline, Earlier
  <2>3. WorkEnd(c, now) <= now + (Budget - held) /\ WorkEnd(c, now) \in Nat
    BY <1>0, <1>7, <2>1 DEF WorkEnd, Earlier, Positive
  <2>4. Deadline <= now + (Budget - held) + Closing
    BY <1>0, <1>5, <1>8, <2>1, <2>2, <2>3
  <2> QED BY <1>6, <1>10, <2>1, <2>4 DEF Bounded, WindowIsPaid, AttemptFits
<1>11. CASE c.closing # Null
  <2>1. PICK paid \in Nat : paid = cleanups * Closing
    BY <1>0
  <2>2. ASSUME run.closing # Null PROVE held + Positive(c.closing - now) < Budget + 2 * Closing + paid
    <3>1. c.closing = run.closing
      BY <1>1, <1>4, <2>2, SettledRun
    <3>2. ~Owned
      BY <1>0 DEF Claim, Owned
    <3>3. StillHeld = Positive(c.closing - now)
      BY <3>1, <3>2 DEF StillHeld
    <3>4. held + StillHeld < Budget + 2 * Closing + paid
      BY <2>1, <2>2 DEF Bounded, WindowIsPaid
    <3> QED BY <3>3, <3>4
  <2>3. ASSUME run.closing = Null, r.closing # Null
        PROVE  held + Positive(c.closing - now) < Budget + 2 * Closing + paid
    <3>1. held <= Budget + Closing /\ held + (r.closing - now) <= Budget + Closing /\ c.closing = r.closing
      BY <1>1, <1>4, <2>3, SettledRun
    <3> QED BY <1>0, <1>6, <3>1 DEF Positive
  <2>4. ASSUME r.closing = Null PROVE held + Positive(c.closing - now) < Budget + 2 * Closing + paid
    <3>1. held < Budget
      BY <1>1, <2>4, SettledRun
    <3>2. WorkEnd(r, now) <= now /\ c.closing = WorkEnd(r, now) + Closing
      BY <1>0, <1>3, <1>4, <1>11, <2>4 DEF Frozen, RunRow
    <3> QED BY <1>0, <1>4, <1>6, <3>1, <3>2 DEF Positive
  <2>5. held + Positive(c.closing - now) < Budget + 2 * Closing + cleanups * Closing
    <3>1. held + Positive(c.closing - now) < Budget + 2 * Closing + paid
      BY <2>2, <2>3, <2>4
    <3> QED BY <2>1, <3>1
  <2>6. ~CleanupOnly => Deadline <= c.closing
    BY <1>0, <1>5, <1>6, <1>9, <1>11 DEF LeaseDeadline, Earlier
  <2>7. CleanupOnly => Deadline <= now + Closing
    BY <1>0, <1>5
  <2>8. held + Positive((IF Deadline > c.closing THEN Deadline ELSE c.closing) - now)
           < Budget + 2 * Closing + cleanups' * Closing
    <3>1. PICK bound \in Nat : bound = Budget + 2 * Closing
      BY <1>0
    <3>2. held + Positive(c.closing - now) < bound + cleanups * Closing
      <4>1. PICK span : span = held + Positive(c.closing - now)
        OBVIOUS
      <4>2. PICK credit : credit = cleanups * Closing
        OBVIOUS
      <4> QED BY <2>5, <3>1, <4>1, <4>2
    <3>3. /\ Deadline <= c.closing =>
                held + Positive((IF Deadline > c.closing THEN Deadline ELSE c.closing) - now)
                   < bound + cleanups * Closing
          /\ Deadline <= now + Closing =>
                held + Positive((IF Deadline > c.closing THEN Deadline ELSE c.closing) - now)
                   < bound + (cleanups + 1) * Closing
      <4>1. PICK closing \in Nat : closing = c.closing
        BY <1>6
      <4>2. PICK lease \in Nat : lease = Deadline
        BY <1>9
      <4>3. held \in Nat /\ now \in Nat /\ cleanups \in Nat /\ Closing \in Nat
        BY <1>0
      <4>4. held + Positive(closing - now) < bound + cleanups * Closing
        BY <3>2, <4>1
      <4>5. /\ lease <= closing =>
                   held + Positive((IF lease > closing THEN lease ELSE closing) - now)
                      < bound + cleanups * Closing
            /\ lease <= now + Closing =>
                   held + Positive((IF lease > closing THEN lease ELSE closing) - now)
                      < bound + (cleanups + 1) * Closing
        BY <4>3, <4>4, PaidFor
      <4> QED BY <4>1, <4>2, <4>5
    <3> QED BY <1>5, <2>6, <2>7, <3>1, <3>3
  <2>9. StillHeld' = Positive((IF Deadline > c.closing THEN Deadline ELSE c.closing) - now)
    BY <1>5, <1>6 DEF StillHeld, Owned
  <2> QED BY <1>5, <1>6, <1>11, <2>8, <2>9 DEF Bounded, WindowIsPaid, AttemptFits
<1> QED BY <1>10, <1>11

\* A run that is settled and no longer held.
LEMMA SettlingIsBounded ==
    ASSUME Inv, Bounded, UNCHANGED <<now, held, cleanups>>, ~Owned',
           run' = Settle(run, now) \/ run' = Frozen(Settle(run, now), now)
    PROVE  Bounded'
<1>0. /\ now \in Nat \ {0} /\ run \in RunRow /\ Budget \in Nat \ {0} /\ Closing \in Nat \ {0} /\ held \in Nat
      /\ run.closing \in Nat /\ cleanups \in Nat /\ TypeOK /\ reply \in Nat /\ task.lease \in Nat
  BY Numbers DEF Inv, Facts
<1>1. PICK r : r = Settle(run, now)
  OBVIOUS
<1>2. r \in RunRow /\ r.ms = held /\ r.since = Null
  BY <1>1, SettledRun
<1>3. /\ run' \in RunRow /\ run'.ms = held /\ run'.since = Null
      /\ r.closing # Null => run'.closing = r.closing
      /\ WorkEnd(r, now) \in Nat
  <2>1. /\ Frozen(r, now) \in RunRow /\ Frozen(r, now).ms = r.ms /\ Frozen(r, now).since = r.since
        /\ r.closing # Null => Frozen(r, now).closing = r.closing
        /\ WorkEnd(r, now) \in Nat
    BY <1>0, <1>2, Freezing
  <2> QED BY <1>1, <1>2, <2>1
<1>4. run'.closing \in Nat /\ r.closing \in Nat
  BY <1>2, <1>3 DEF RunRow
<1>5. AttemptFits'
  BY <1>1, <1>2, <1>3, SettledRun DEF AttemptFits
<1>6. PICK paid \in Nat : paid = cleanups * Closing
  BY <1>0
<1>7. StillHeld' = Positive(run'.closing - now)
  BY DEF StillHeld
<1>8. ASSUME run'.closing # Null PROVE held + Positive(run'.closing - now) < Budget + 2 * Closing + paid
  <2>1. CASE run.closing # Null
    <3>1. run'.closing = run.closing
      BY <1>1, <1>3, <2>1, SettledRun
    <3>2. held + StillHeld < Budget + 2 * Closing + paid
      BY <1>6, <2>1 DEF Bounded, WindowIsPaid
    <3>3. Positive(run.closing - now) <= StillHeld
      BY <1>0 DEF StillHeld, Positive
    <3>4. Positive(run.closing - now) \in Nat /\ StillHeld \in Nat
      BY <1>0 DEF StillHeld, Positive
    <3> QED BY <1>0, <3>1, <3>2, <3>3, <3>4
  <2>2. CASE run.closing = Null /\ r.closing # Null
    <3>1. held <= Budget + Closing /\ held + (r.closing - now) <= Budget + Closing /\ run'.closing = r.closing
      BY <1>1, <1>3, <2>2, SettledRun
    <3> QED BY <1>0, <1>4, <3>1 DEF Positive
  <2>3. CASE r.closing = Null
    <3>1. held < Budget
      BY <1>1, <2>3, SettledRun
    <3>2. WorkEnd(r, now) <= now /\ run'.closing = WorkEnd(r, now) + Closing
      BY <1>0, <1>1, <1>2, <1>3, <1>8, <2>3 DEF Frozen, RunRow
    <3> QED BY <1>0, <1>3, <3>1, <3>2 DEF Positive
  <2> QED BY <2>1, <2>2, <2>3
<1> QED BY <1>5, <1>6, <1>7, <1>8 DEF Bounded, WindowIsPaid

LEMMA HeartbeatIsBounded == Inv /\ Bounded /\ Heartbeat => Bounded'
<1> SUFFICES ASSUME Inv, Bounded, Heartbeat PROVE Bounded'
  OBVIOUS
<1>0. /\ now \in Nat \ {0} /\ run \in RunRow /\ Budget \in Nat \ {0} /\ Closing \in Nat \ {0} /\ held \in Nat
      /\ run.closing \in Nat /\ cleanups \in Nat /\ TypeOK /\ reply \in Nat /\ task.lease \in Nat
      /\ run.ms \in Nat /\ run.since \in Nat /\ run.until \in Nat /\ task \in TaskRow
  BY Numbers DEF Inv, Facts
<1>1. PICK r : r = Frozen(run, now)
  OBVIOUS
<1>2. PICK d : d = LeaseDeadline(r, now)
  OBVIOUS
<1>3. /\ r \in RunRow /\ r.ms = run.ms /\ r.since = run.since /\ r.until = run.until
      /\ run.closing # Null => r.closing = run.closing
      /\ r.closing = Null => run.closing = Null
      /\ WorkEnd(run, now) \in Nat
  BY <1>0, <1>1, Freezing
<1>4. d \in Nat /\ r.closing \in Nat
  BY <1>0, <1>2, <1>3, Freezing DEF RunRow
<1>5. /\ run' = [r EXCEPT !.until = d] /\ task'.lease = d /\ task'.status = "RUNNING"
      /\ Owned /\ d > now /\ UNCHANGED <<now, held, cleanups>>
  BY <1>0, <1>1, <1>2 DEF Heartbeat, Owned, TaskRow, history
<1>6. run'.ms = run.ms /\ run'.since = run.since /\ run'.until = d /\ run'.closing = r.closing
  BY <1>3, <1>5 DEF RunRow
<1>7. /\ run.since # Null /\ run.since <= now /\ now < run.until /\ run.until = task.lease
      /\ held = run.ms + (now - run.since)
  BY <1>5, Holding DEF Inv, Facts, ChargeIsHeldTime
<1>8. /\ Remaining(run, now) = Positive(Budget - held) /\ Remaining(r, now) = Positive(Budget - held)
  BY <1>3, HeldSoFar DEF Remaining, Used
<1>9. PICK paid \in Nat : paid = cleanups * Closing
  BY <1>0
<1>10. CASE r.closing = Null
  <2>1. run.ms < Budget /\ run.closing = Null
    BY <1>3, <1>10 DEF Bounded, AttemptFits
  <2>2. WorkEnd(run, now) > now /\ WorkEnd(r, now) = WorkEnd(run, now)
    BY <1>0, <1>1, <1>3, <1>8, <1>10, Freezing DEF WorkEnd
  <2>3. held < Budget /\ WorkEnd(r, now) <= now + (Budget - held)
    BY <1>0, <1>8, <2>2 DEF WorkEnd, Earlier, Positive
  <2>4. d <= WorkEnd(r, now) + Closing
    BY <1>0, <1>2, <1>3, <1>10, <2>2 DEF LeaseDeadline, Earlier
  <2>5. d <= run.since + (Budget - run.ms) + Closing
    BY <1>0, <1>3, <1>4, <1>7, <2>2, <2>3, <2>4
  <2> QED BY <1>6, <1>10, <2>1, <2>5 DEF Bounded, WindowIsPaid, AttemptFits
<1>11. CASE r.closing # Null
  <2>1. d <= r.closing
    BY <1>0, <1>2, <1>4, <1>11 DEF LeaseDeadline, Earlier
  <2>2. StillHeld' = Positive(r.closing - now)
    BY <1>4, <1>5, <1>6, <2>1 DEF StillHeld
  <2>3. CASE run.closing # Null
    <3>1. held + StillHeld < Budget + 2 * Closing + paid
      BY <1>9, <2>3 DEF Bounded, WindowIsPaid
    <3>2. Positive(run.closing - now) <= StillHeld
      BY <1>0 DEF StillHeld, Positive
    <3>3. Positive(run.closing - now) \in Nat /\ StillHeld \in Nat
      BY <1>0 DEF StillHeld, Positive
    <3>4. held + Positive(r.closing - now) < Budget + 2 * Closing + paid
      BY <1>0, <1>3, <2>3, <3>1, <3>2, <3>3
    <3> QED BY <1>5, <1>6, <1>9, <1>11, <2>2, <3>4 DEF Bounded, WindowIsPaid, AttemptFits
  <2>4. CASE run.closing = Null
    <3>1. /\ run.ms < Budget /\ run.until <= run.since + (Budget - run.ms) + Closing
      BY <1>7, <2>4 DEF Bounded, AttemptFits
    <3>2. WorkEnd(run, now) <= now /\ r.closing = WorkEnd(run, now) + Closing
      BY <1>0, <1>1, <1>3, <1>11, <2>4 DEF Frozen, RunRow
    <3>3. held + Positive(r.closing - now) < Budget + 2 * Closing + paid
      BY <1>0, <1>3, <1>4, <1>7, <3>1, <3>2 DEF Positive
    <3> QED BY <1>5, <1>6, <1>9, <1>11, <2>2, <3>3 DEF Bounded, WindowIsPaid, AttemptFits
  <2> QED BY <2>3, <2>4
<1> QED BY <1>10, <1>11

LEMMA TickIsBounded == Inv /\ Bounded /\ Tick => Bounded'
<1> SUFFICES ASSUME Inv, Bounded, Tick PROVE Bounded'
  OBVIOUS
<1>0. /\ now \in Nat \ {0} /\ run \in RunRow /\ Budget \in Nat \ {0} /\ Closing \in Nat \ {0} /\ held \in Nat
      /\ run.closing \in Nat /\ cleanups \in Nat /\ task.lease \in Nat
  BY Numbers DEF Inv, Facts
<1>1. /\ now' = now + 1 /\ held' = IF Owned THEN held + 1 ELSE held
      /\ UNCHANGED <<run, task, cleanups>>
  BY DEF Tick
<1>2. AttemptFits'
  BY <1>1 DEF Bounded, AttemptFits
<1>3. Owned' => Owned
  BY <1>0, <1>1 DEF Owned
<1>4. held' + StillHeld' <= held + StillHeld
  <2>1. CASE Owned
    <3>1. task.lease > now
      BY <2>1 DEF Owned
    <3> QED BY <1>0, <1>1, <2>1, <3>1 DEF StillHeld, Positive, Owned
  <2>2. CASE ~Owned
    BY <1>0, <1>1, <1>3, <2>2 DEF StillHeld, Positive
  <2> QED BY <2>1, <2>2
<1>5. PICK paid \in Nat : paid = cleanups * Closing
  BY <1>0
<1>6. StillHeld \in Nat /\ StillHeld' \in Nat /\ held' \in Nat /\ paid \in Nat
  BY <1>0, <1>1, <1>5 DEF StillHeld, Positive
<1>7. ASSUME run.closing # Null PROVE held' + StillHeld' < Budget + 2 * Closing + paid
  <2>1. held + StillHeld < Budget + 2 * Closing + paid
    BY <1>5, <1>7 DEF Bounded, WindowIsPaid
  <2>2. PICK bound : bound = Budget + 2 * Closing + paid
    OBVIOUS
  <2>3. PICK before : before = held + StillHeld
    OBVIOUS
  <2>4. PICK after : after = held' + StillHeld'
    OBVIOUS
  <2>5. bound \in Int
    BY <1>0, <1>6, <2>2
  <2>6. before \in Int
    BY <1>0, <1>6, <2>3
  <2>7. after \in Int
    BY <1>6, <2>4
  <2>8. before < bound /\ after <= before
    BY <1>4, <2>1, <2>2, <2>3, <2>4
  <2>9. after < bound
    BY <2>5, <2>6, <2>7, <2>8
  <2> QED BY <2>2, <2>4, <2>9
<1> QED BY <1>1, <1>2, <1>5, <1>7 DEF Bounded, WindowIsPaid

LEMMA BoundedNext == Inv /\ Bounded /\ [Next]_vars => Bounded'
<1> SUFFICES ASSUME Inv, Bounded, [Next]_vars PROVE Bounded'
  OBVIOUS
<1>1. ASSUME NEW status, End(status) PROVE Bounded'
  <2>1. UNCHANGED <<now, held, cleanups>> /\ run' = Settle(run, now) /\ task'.lease = Null
    BY <1>1, Numbers DEF End, history, TaskRow, Inv, Facts
  <2>2. ~Owned'
    BY <2>1, Numbers DEF Owned, Null, Inv, Facts
  <2> QED BY <2>1, <2>2, SettlingIsBounded
<1>2. CASE ClaimExpired
  <2>1. UNCHANGED <<now, held, cleanups>> /\ run' = Frozen(Settle(run, now), now) /\ task'.lease = Null
    BY <1>2, Numbers DEF ClaimExpired, ClaimedRun, history, TaskRow, Inv, Facts
  <2>2. ~Owned'
    BY <2>1, Numbers DEF Owned, Null, Inv, Facts
  <2> QED BY <2>1, <2>2, SettlingIsBounded
<1>3. ASSUME NEW terminate \in BOOLEAN, Recover(terminate) PROVE Bounded'
  <2>1. UNCHANGED <<now, held, cleanups, run>> /\ task'.lease = Null /\ task.lease <= now
    BY <1>3 DEF Recover, history
  <2>2. ~Owned' /\ ~Owned
    BY <2>1, Numbers DEF Owned, Null, Inv, Facts
  <2> QED BY <2>1, <2>2 DEF Bounded, WindowIsPaid, AttemptFits, StillHeld
<1>4. CASE UNCHANGED <<now, run, task, held, cleanups>>
  BY <1>4 DEF Bounded, WindowIsPaid, AttemptFits, StillHeld, Owned
<1> QED
  BY <1>1, <1>2, <1>3, <1>4, ClaimIsBounded, HeartbeatIsBounded, TickIsBounded
  DEF Next, Finalize, Release, Revoke, StartCall, EndCall, Owe, Publish, history, vars

\* Whatever is retried, taken over, terminated or published late, all attempts together
\* hold the session for the budget, two windows and one window per cleanup at most
\* (claim, heartbeat, lease_deadline).
THEOREM HeldTimeIsBounded == Spec => []ActivityIsBounded
<1>1. Init => Inv /\ Bounded
  <2> SUFFICES ASSUME Init PROVE Inv /\ Bounded
    OBVIOUS
  <2>1. run.closing = Null /\ run.ms = 0 /\ run.since = Null
    BY DEF Init
  <2> QED BY <2>1, FactsInit, DurationsAssumption DEF Inv, Bounded, WindowIsPaid, AttemptFits
<1>2. Inv /\ Bounded => ActivityIsBounded
  <2> SUFFICES ASSUME Inv, Bounded PROVE ActivityIsBounded
    OBVIOUS
  <2>1. /\ now \in Nat \ {0} /\ Budget \in Nat \ {0} /\ Closing \in Nat \ {0} /\ held \in Nat
        /\ run.closing \in Nat /\ cleanups \in Nat /\ task.lease \in Nat
        /\ run.ms \in Nat /\ run.since \in Nat /\ run.until \in Nat
    BY Numbers DEF Inv, Facts
  <2>2. PICK paid \in Nat : paid = cleanups * Closing
    BY <2>1
  <2>3. CASE run.closing # Null
    <3>1. held + StillHeld < Budget + 2 * Closing + paid
      BY <2>2, <2>3 DEF Bounded, WindowIsPaid
    <3>2. StillHeld \in Nat
      BY <2>1 DEF StillHeld, Positive
    <3> QED BY <2>1, <2>2, <3>1, <3>2 DEF ActivityIsBounded
  <2>4. CASE run.closing = Null
    <3>1. /\ run.ms < Budget
          /\ run.since # Null => run.until <= run.since + (Budget - run.ms) + Closing
      BY <2>4 DEF Bounded, AttemptFits
    <3>2. /\ run.since = Null => held = run.ms
          /\ run.since # Null => held <= run.ms + (run.until - run.since)
      BY <2>1, HeldSoFar DEF Earlier
    <3>3. held <= Budget + Closing
      BY <2>1, <3>1, <3>2
    <3> QED BY <2>1, <2>2, <3>3 DEF ActivityIsBounded
  <2> QED BY <2>3, <2>4
<1> QED BY <1>1, <1>2, InvNext, BoundedNext, PTL DEF Spec
===============================================================================
