-------------------------- MODULE PendingOperations --------------------------
(***************************************************************************)
(* What the pages keep about requests whose answer may be lost: the record *)
(* of every operation in the tab's session storage, the checks and retries *)
(* of it, and the login that the tabs of one browser share through one     *)
(* cookie (src/frontend/src/state/pendingOperations.ts,                    *)
(* usePendingOperations.ts, auth.ts, api/client.ts; the account check of   *)
(* src/backend/app/api/dependencies.py).  The server is what its receipts  *)
(* promise: a request it has accepted it accepts again with the same       *)
(* answer.  A payload is its operation, which alone is ever sent for it.   *)
(***************************************************************************)
EXTENDS Naturals, Sequences, FiniteSets

CONSTANTS Accounts, Tabs,
          Targets,   \* sessions (or the approval and recovery desks) a page can show
          MaxOps,    \* operations begun
          MaxPosts,  \* POSTs sent
          Limit,     \* OPERATION_LIMIT
          Entries,   \* logins, logouts, reloads and navigations
          Faults,    \* failures of the session storage
          Ages       \* records that outlive OPERATION_TTL

VARIABLES
  cookie,    \* the account of the browser's session cookie
  tab,       \* per tab: currentUser, the page's scope, allowNew, operationBusy
  told,      \* tabs that have an event of another tab's login or logout to handle
  ops,       \* per tab: operations of the page
  store,     \* per tab: the session storage
  tasks,     \* the coroutines that wait for an answer
  wire,      \* POSTs on their way
  made,      \* the operations begun: author and tab, by request id
  accepted,  \* per request id: the account the server accepted it for
  old,       \* request ids older than OPERATION_TTL
  dropped,   \* request ids the storage has let go for a reason
  posts, entries, faults

vars == <<cookie, tab, told, ops, store, tasks, wire, made, accepted, old, dropped, posts, entries, faults>>

None == "none"
Ids == 1 .. MaxOps
IdsOf(S) == {o.id : o \in S}
Unresolved(o) == o.status \in {"unknown", "blocked"}

Init ==
  /\ cookie = None
  /\ tab = [t \in Tabs |-> [user |-> None, scope |-> CHOOSE s \in Targets : TRUE, allowNew |-> FALSE, busy |-> FALSE]]
  /\ told = {}
  /\ ops = [t \in Tabs |-> {}] /\ store = [t \in Tabs |-> {}]
  /\ tasks = {} /\ wire = {}
  /\ made = <<>> /\ accepted = [i \in Ids |-> None]
  /\ old = {} /\ dropped = {}
  /\ posts = 0 /\ entries = 0 /\ faults = 0

-----------------------------------------------------------------------------
(* The session storage                                                     *)

\* read: the valid records of the account, none older than the time to live.
Read(t, a) == {o \in store[t] : o.account = a /\ o.id \notin old}

\* save: the old records go, a resolved one makes room, an unresolved one never does.
Evictable(S) == {o \in S : ~Unresolved(o)}

\* What the storage of t may hold after op is saved; no outcome when the save throws.
Saves(t, op) ==
  LET next == {o \in Read(t, op.account) : o.id # op.id}
      rest == {o \in store[t] : o.account # op.account}
  IN IF op.id \in old THEN {}
     ELSE IF Cardinality(next) < Limit THEN {rest \cup next \cup {op}}
     ELSE {rest \cup (next \ {e}) \cup {op} : e \in Evictable(next)}

\* What leaves the storage is accounted for when its fate was known or its time was over.
LetGo(t, new) == {o.id : o \in {o \in store[t] : o.id \notin IdsOf(new) /\ (~Unresolved(o) \/ o.id \in old)}}

Saved(t, op) == \E new \in Saves(t, op) :
  /\ store' = [store EXCEPT ![t] = new]
  /\ dropped' = dropped \cup LetGo(t, new)
  /\ UNCHANGED faults

\* setItem throws, or the record can no longer be saved.
NotSaved(t, op) ==
  /\ \/ faults < Faults /\ faults' = faults + 1
     \/ Saves(t, op) = {} /\ UNCHANGED faults
  /\ UNCHANGED <<store, dropped>>

\* update
Put(S, op) == {o \in S : o.id # op.id} \cup {op}

\* accept, and the record of a refusal: the page knows it even when the storage does not.
Resolve(t, op) ==
  /\ ops' = [ops EXCEPT ![t] = Put(@, op)]
  /\ Saved(t, op) \/ NotSaved(t, op)

-----------------------------------------------------------------------------
(* The coroutines of a page                                                *)

Sent(t) == cookie = tab[t].user

Task(t, kind, op, pc, copy) ==
  [tab |-> t, kind |-> kind, op |-> op, pc |-> pc, answer |-> None, copy |-> copy, todo |-> {},
   own |-> Sent(t), live |-> TRUE, current |-> TRUE]

\* A new page generation: what waits for an answer is no longer alive, and not even its
\* identity is current when the account changed.
Outlived(t, changed) ==
  {IF k.tab = t THEN [k EXCEPT !.live = FALSE, !.current = @ /\ ~changed] ELSE k : k \in tasks}

First(S) == CHOOSE o \in S : \A p \in S : o.id <= p.id

\* restore: the records of the account and the page are read, and each is looked up.
Restored(t, u, s, stored, waiting, own) ==
  LET mine == {o \in stored : o.account = u /\ o.target = s /\ o.id \notin old}
      todo == {o \in mine : o.status # "rejected"}
  IN /\ ops' = [ops EXCEPT ![t] = mine]
     /\ tab' = [tab EXCEPT ![t] = [user |-> u, scope |-> s, allowNew |-> FALSE, busy |-> todo # {}]]
     /\ tasks' = waiting \cup
          (IF todo = {} THEN {}
           ELSE {[tab |-> t, kind |-> "restore", op |-> First(todo), pc |-> "lookup", answer |-> None, copy |-> 0,
                  todo |-> todo \ {First(todo)}, own |-> own, live |-> TRUE, current |-> TRUE]})

\* clear: the records of an account go when it leaves the tab.
Cleared(t, u) == {o \in store[t] : o.account # u}

\* assignUser, when the account changes or is invalidated.
AssignUser(t, u, waiting) ==
  LET left == IF tab[t].user = None THEN store[t] ELSE Cleared(t, tab[t].user) IN
  /\ store' = [store EXCEPT ![t] = left]
  /\ dropped' = dropped \cup {o.id : o \in store[t] \ left}
  /\ Restored(t, u, tab[t].scope, left, waiting, TRUE)

-----------------------------------------------------------------------------
(* The user                                                                *)

Free(t) == tab[t].user # None /\ ~tab[t].busy

Posting(t, op, kind, waiting) ==
  /\ posts < MaxPosts
  /\ posts' = posts + 1
  /\ wire' = wire \cup {[copy |-> posts', id |-> op.id, cookie |-> cookie, expected |-> tab[t].user]}
  /\ tasks' = waiting \cup {Task(t, kind, op, "post", posts')}

\* begin and transmit: no new operation beside an unresolved one unless the user asks for
\* it; the record is saved before anything is sent.
Begin(t) ==
  /\ Free(t)
  /\ Len(made) < MaxOps
  /\ tab[t].allowNew \/ ~\E o \in ops[t] : Unresolved(o)
  /\ LET op == [id |-> Len(made) + 1, account |-> tab[t].user, target |-> tab[t].scope, status |-> "unknown"] IN
     /\ made' = Append(made, [account |-> op.account, tab |-> t])
     /\ \/ /\ Saved(t, op)
           /\ ops' = [ops EXCEPT ![t] = Put(@, op)]
           /\ Posting(t, op, "begin", tasks)
           /\ tab' = [tab EXCEPT ![t].allowNew = FALSE, ![t].busy = TRUE]
        \/ /\ NotSaved(t, op)
           /\ tab' = [tab EXCEPT ![t].allowNew = FALSE]
           /\ UNCHANGED <<ops, tasks, wire, posts>>
  /\ UNCHANGED <<cookie, told, accepted, old, entries>>

\* newIntent
NewIntent(t) ==
  /\ Free(t) /\ ~tab[t].allowNew
  /\ \E o \in ops[t] : Unresolved(o)
  /\ tab' = [tab EXCEPT ![t].allowNew = TRUE]
  /\ UNCHANGED <<cookie, told, ops, store, tasks, wire, made, accepted, old, dropped, posts, entries, faults>>

\* check, and transmit of a retry: both look the operation up first.
LookUp(t, op, kind) ==
  /\ Free(t)
  /\ tasks' = tasks \cup {Task(t, kind, op, "lookup", 0)}
  /\ tab' = [tab EXCEPT ![t].busy = TRUE]
  /\ UNCHANGED <<cookie, told, ops, store, wire, made, accepted, old, dropped, posts, entries, faults>>

Check(t, op) == op \in ops[t] /\ op.status # "rejected" /\ LookUp(t, op, "check")
Retry(t, op) == op \in ops[t] /\ op.status = "unknown" /\ op.account = tab[t].user /\ LookUp(t, op, "retry")

\* login and register: the old account leaves before the request, the new one enters
\* with the answer, which also sets the cookie; the other tabs are told.
LogOut(t) ==
  /\ entries < Entries /\ tab[t].user # None
  /\ entries' = entries + 1
  /\ AssignUser(t, None, Outlived(t, TRUE))
  /\ UNCHANGED <<cookie, told, wire, made, accepted, old, posts, faults>>

\* logout's request, or login's: the cookie changes.
Enter(t, a) ==
  /\ entries < Entries /\ tab[t].user = None
  /\ entries' = entries + 1
  /\ cookie' = a
  /\ told' = told \cup (Tabs \ {t})
  /\ IF a = None THEN UNCHANGED <<tab, ops, store, tasks, dropped>>
     ELSE AssignUser(t, a, Outlived(t, TRUE))
  /\ UNCHANGED <<wire, made, accepted, old, posts, faults>>

\* Another tab of the browser logs in or out.
Elsewhere(a) ==
  /\ entries < Entries
  /\ entries' = entries + 1
  /\ cookie' = a /\ told' = Tabs
  /\ UNCHANGED <<tab, ops, store, tasks, wire, made, accepted, old, dropped, posts, faults>>

\* The page's scope changes: another session of the same account.
Navigate(t, s) ==
  /\ entries < Entries /\ tab[t].user # None /\ s # tab[t].scope
  /\ entries' = entries + 1
  /\ Restored(t, tab[t].user, s, store[t], Outlived(t, FALSE), Sent(t))
  /\ UNCHANGED <<cookie, told, store, wire, made, accepted, old, dropped, posts, faults>>

\* The page is loaded again: initialize finds the account of the cookie, the session
\* storage is as it was.
Reload(t) ==
  /\ entries < Entries
  /\ entries' = entries + 1
  /\ told' = told \ {t}
  /\ Restored(t, cookie, tab[t].scope, store[t], {k \in tasks : k.tab # t}, TRUE)
  /\ UNCHANGED <<cookie, store, wire, made, accepted, old, dropped, posts, faults>>

\* reloadForExternalAuthChange: on the event of another tab, or on coming back to the page.
Told(t) ==
  /\ t \in told \/ (tab[t].user # None /\ tab[t].user # cookie)
  /\ told' = told \ {t}
  /\ AssignUser(t, cookie, {k \in tasks : k.tab # t})
  /\ UNCHANGED <<cookie, wire, made, accepted, old, posts, entries, faults>>

-----------------------------------------------------------------------------
(* The network and the server                                              *)

Answered(n, answer) == {IF k.copy = n /\ k.pc = "post" THEN [k EXCEPT !.answer = answer] ELSE k : k \in tasks}

\* get_current_user: the cookie must belong to the account the page was showing.
Authorized(copy) == copy.cookie # None /\ copy.cookie = copy.expected

\* The server gets the POST: an accepted request is replayed, another is accepted or refused.
Deliver(copy) ==
  /\ wire' = wire \ {copy}
  /\ IF ~Authorized(copy)
     THEN tasks' = Answered(copy.copy, "unauthorized") /\ UNCHANGED accepted
     ELSE \/ /\ accepted' = [accepted EXCEPT ![copy.id] = IF @ = None THEN copy.cookie ELSE @]
             /\ tasks' = Answered(copy.copy, "accepted")
          \/ /\ accepted[copy.id] = None
             /\ \E answer \in {"refused", "conflict"} : tasks' = Answered(copy.copy, answer)
             /\ UNCHANGED accepted
          \/ /\ accepted[copy.id] # None
             /\ tasks' = Answered(copy.copy, "conflict")
             /\ UNCHANGED accepted
  /\ UNCHANGED <<cookie, tab, told, ops, store, made, old, dropped, posts, entries, faults>>

\* A POST is lost on its way.
Lose(copy) ==
  /\ wire' = wire \ {copy}
  /\ UNCHANGED <<cookie, tab, told, ops, store, tasks, made, accepted, old, dropped, posts, entries, faults>>

\* The browser reports a failure; the POST it stands for may still be under way.
Fail(k) ==
  /\ k.answer = None
  /\ tasks' = (tasks \ {k}) \cup {[k EXCEPT !.answer = "failed"]}
  /\ UNCHANGED <<cookie, tab, told, ops, store, wire, made, accepted, old, dropped, posts, entries, faults>>

\* The status of the request, as the server has it when it is asked.
Serve(k) ==
  /\ k.pc \in {"lookup", "conflict"} /\ k.answer = None
  /\ tasks' = (tasks \ {k}) \cup {[k EXCEPT !.answer =
       IF ~k.own THEN "unauthorized" ELSE IF accepted[k.op.id] = k.op.account THEN "found" ELSE "missing"]}
  /\ UNCHANGED <<cookie, tab, told, ops, store, wire, made, accepted, old, dropped, posts, entries, faults>>

-----------------------------------------------------------------------------
(* The answers                                                             *)

\* finally: the page is free again, unless it is another page by now.
Done(k) ==
  /\ tasks' = tasks \ {k}
  /\ tab' = [tab EXCEPT ![k.tab].busy = @ /\ ~k.live]

Accepted(op) == [op EXCEPT !.status = "accepted"]

RejectedAnyway(k) == [k.op EXCEPT !.status = "rejected"]

\* Rejecting a retry cannot prove that the first POST failed.
Rejected(k) == [k.op EXCEPT !.status = IF k.kind = "begin" THEN "rejected" ELSE "blocked"]

Alive(k) == k.live

\* An answer that comes too late for its page changes nothing; 401 logs an account out
\* as long as it is the one that asked.
Late(k) ==
  /\ k.answer \notin {None, "unauthorized"} /\ ~Alive(k)
  /\ Done(k)
  /\ UNCHANGED <<cookie, told, ops, store, wire, made, accepted, old, dropped, posts, entries, faults>>

Unauthorized(k) ==
  /\ k.answer = "unauthorized"
  /\ IF k.current
     THEN AssignUser(k.tab, None, Outlived(k.tab, TRUE) \ {[k EXCEPT !.live = FALSE, !.current = FALSE]})
     ELSE Done(k) /\ UNCHANGED <<ops, store, dropped>>
  /\ UNCHANGED <<cookie, told, wire, made, accepted, old, posts, entries, faults>>

\* restore goes on with its next record; the others are done.
Proceed(k) ==
  IF k.kind = "restore" /\ k.todo # {}
  THEN /\ tasks' = (tasks \ {k}) \cup {[k EXCEPT !.op = First(k.todo), !.todo = @ \ {First(k.todo)},
                                                 !.answer = None, !.own = Sent(k.tab)]}
       /\ UNCHANGED tab
  ELSE Done(k)

\* lookup found the request, or the POST was answered: the operation is accepted.
Found(k) ==
  /\ k.answer \in {"found", "accepted"} /\ Alive(k)
  /\ Resolve(k.tab, Accepted(k.op))
  /\ Proceed(k)
  /\ UNCHANGED <<cookie, told, wire, made, accepted, old, posts, entries>>

\* 404, or no answer to a lookup: a check leaves the operation as it is.
NotFound(k) ==
  /\ k.kind \in {"check", "restore"} /\ k.answer \in {"missing", "failed"} /\ Alive(k)
  /\ Proceed(k)
  /\ UNCHANGED <<cookie, told, ops, store, wire, made, accepted, old, dropped, posts, entries, faults>>

\* transmit: a retry that finds nothing sends the saved body once more.
Resend(k) ==
  /\ k.kind = "retry" /\ k.pc = "lookup" /\ k.answer = "missing" /\ Alive(k)
  /\ \/ /\ Saved(k.tab, k.op)
        /\ ops' = [ops EXCEPT ![k.tab] = Put(@, k.op)]
        /\ Posting(k.tab, k.op, "retry", tasks \ {k})
        /\ UNCHANGED tab
     \/ /\ NotSaved(k.tab, k.op)
        /\ Done(k)
        /\ UNCHANGED <<ops, wire, posts>>
  /\ UNCHANGED <<cookie, told, made, accepted, old, entries>>

\* A conflict can belong to an accepted request: its receipt is consulted first.
Conflict(k) ==
  /\ k.pc = "post" /\ k.answer = "conflict" /\ Alive(k)
  /\ tasks' = (tasks \ {k}) \cup {[k EXCEPT !.pc = "conflict", !.answer = None, !.own = Sent(k.tab)]}
  /\ UNCHANGED <<cookie, tab, told, ops, store, wire, made, accepted, old, dropped, posts, entries, faults>>

\* 400, 403, 404, 409 without a receipt, 422, 429
Refused(k) ==
  /\ \/ k.pc = "post" /\ k.answer = "refused"
     \/ k.pc = "conflict" /\ k.answer = "missing"
  /\ Alive(k)
  /\ Resolve(k.tab, Rejected(k))
  /\ Done(k)
  /\ UNCHANGED <<cookie, told, wire, made, accepted, old, posts, entries>>

\* No answer: the operation stays as it was saved.
Unanswered(k) ==
  /\ k.kind \in {"begin", "retry"} /\ k.answer = "failed" /\ Alive(k)
  /\ Done(k)
  /\ UNCHANGED <<cookie, told, ops, store, wire, made, accepted, old, dropped, posts, entries, faults>>

\* A day passes over a record.
Age(i) ==
  /\ i \in 1 .. Len(made) /\ i \notin old /\ Cardinality(old) < Ages
  /\ old' = old \cup {i}
  /\ UNCHANGED <<cookie, tab, told, ops, store, tasks, wire, made, accepted, dropped, posts, entries, faults>>

Next ==
  \/ \E t \in Tabs : \/ Begin(t) \/ NewIntent(t) \/ LogOut(t) \/ Reload(t) \/ Told(t)
                     \/ \E a \in Accounts \cup {None} : Enter(t, a)
                     \/ \E s \in Targets : Navigate(t, s)
                     \/ \E op \in ops[t] : Check(t, op) \/ Retry(t, op)
  \/ \E copy \in wire : Deliver(copy) \/ Lose(copy)
  \/ \E k \in tasks : \/ Fail(k) \/ Serve(k) \/ Late(k) \/ Unauthorized(k) \/ Found(k) \/ NotFound(k)
                      \/ Resend(k) \/ Conflict(k) \/ Refused(k) \/ Unanswered(k)
  \/ \E a \in Accounts \cup {None} : Elsewhere(a)
  \/ \E i \in Ids : Age(i)

Spec == Init /\ [][Next]_vars

-----------------------------------------------------------------------------
(* Properties                                                              *)

Operations == [id : Ids, account : Accounts, target : Targets, status : {"unknown", "accepted", "rejected", "blocked"}]

\* The records have their type, one for each request, never more than the storage may
\* hold; a page is busy exactly while one coroutine of its generation waits, so that its
\* buttons come back whatever the answer, the reload or the login in between.
TypeOK ==
  /\ cookie \in Accounts \cup {None} /\ told \subseteq Tabs
  /\ \A t \in Tabs :
       /\ ops[t] \subseteq Operations /\ store[t] \subseteq Operations
       /\ \A S \in {ops[t], store[t]} : \A o, p \in S : o.id = p.id => o = p
       /\ \A a \in Accounts : Cardinality({o \in store[t] : o.account = a}) <= Limit
       /\ Cardinality({k \in tasks : k.tab = t /\ k.live}) = (IF tab[t].busy THEN 1 ELSE 0)

\* "Only an owned server response proves acceptance", and "rejecting this retry cannot
\* prove an earlier in-flight POST failed": what a page or its storage says has been
\* accepted is accepted, and what it says was rejected is not and never will be, however
\* late a POST of it arrives (transmit, accept).
VerdictsAreTrue ==
  \A t \in Tabs : \A o \in ops[t] \cup store[t] :
    /\ o.status = "accepted" => accepted[o.id] # None
    /\ o.status = "rejected" => accepted[o.id] = None /\ \A copy \in wire : copy.id # o.id

\* "Never evict an unresolved request to make room for a new one", "must succeed before
\* any POST": a request that the server has or may still get is in the storage of its tab,
\* unless its fate was known, its day was over, or its account left the tab.
SentIsRecorded ==
  \A i \in 1 .. Len(made) :
    accepted[i] # None \/ (\E copy \in wire : copy.id = i) => i \in dropped \cup IdsOf(store[made[i].tab])

\* No request is accepted for another account than the one that began it, whichever tab
\* logs in or out between the click, the lookup and the POST (X-Expected-User).
AcceptedForItsAuthor == \A i \in 1 .. Len(made) : accepted[i] \in {None, made[i].account}

\* The page that asks whether to begin beside an unresolved operation knows of every one
\* its storage has for the account and the session it shows, and shows no other's.
PageKnowsItsStorage ==
  \A t \in Tabs :
    /\ \A o \in store[t] : o.account = tab[t].user /\ o.target = tab[t].scope /\ Unresolved(o) /\ o.id \notin old
                           => o.id \in IdsOf(ops[t])
    /\ \A o \in ops[t] : o.account = tab[t].user /\ o.target = tab[t].scope

=============================================================================
