-------------------------- MODULE NegotiationProofs --------------------------
(* Proofs about one negotiation session, for all terms, policies, products and  *)
(* numbers of rounds.  The operators of the book come first: what killing an    *)
(* offer, voiding an approval, reconciling and entering do to a sound book.     *)
(* Every transaction is then a step from a sound book to a sound one.           *)
EXTENDS Negotiation, SequenceTheorems, TLAPS

\* The fields of the rows of the book, apart from the length of the lists.
Sessions == [status : {"ACTIVE", "WAITING_APPROVAL"} \union Ended,
             current : Nat, version : Nat, rounds : Nat]

Rows(b) ==
    /\ b \in [session : Sessions, offers : Seq(Offers), approvals : Seq(Approvals)]
    /\ Len(b.approvals) = Len(b.offers) /\ b.session.current \in 0..Len(b.offers)

Awaited(a) == a.status # "NONE" /\ a.effect = "NOT_APPLIED"

OneOpen(b) ==
    \A o \in 1..Len(b.offers) : b.offers[o].status \in OpenStatus <=> b.session.current = o

Waits(b) ==
    /\ \A o \in 1..Len(b.offers) : Awaited(b.approvals[o]) =>
          /\ b.session.current = o /\ b.session.status = "WAITING_APPROVAL"
          /\ b.approvals[o].status \in {"PENDING", "APPROVED"}
          /\ b.offers[o].status = "PROPOSED" /\ b.offers[o].by = "BUYER"
    /\ b.session.status = "WAITING_APPROVAL" =>
          b.session.current # 0 /\ Awaited(b.approvals[b.session.current])

\* The strengthening: an undecided approval has no effect yet, a rejection has had
\* its effect and its offer is no longer current, a closed session has no offer.
Decided(b) ==
    /\ \A o \in 1..Len(b.offers) :
          /\ b.approvals[o].status = "PENDING" => b.approvals[o].effect = "NOT_APPLIED"
          /\ b.approvals[o].status = "REJECTED" =>
                b.approvals[o].effect = "APPLIED" /\ b.session.current # o
    /\ b.session.status = "CLOSED" => b.session.current = 0

Sound(b) == Rows(b) /\ OneOpen(b) /\ Waits(b) /\ Decided(b)

\* What DecisionsStand says of one transaction.
Stands(b, c) ==
    \A o \in 1..Len(b.offers) :
        /\ b.approvals[o].status # "PENDING" => c.approvals[o].status = b.approvals[o].status
        /\ b.approvals[o].effect = "INVALIDATED" => c.approvals[o].effect = "INVALIDATED"
        /\ b.approvals[o].effect = "APPLIED" => c.approvals[o].effect # "NOT_APPLIED"
        /\ b.approvals[o].status = "REJECTED" => c.approvals[o].effect = "APPLIED"

-------------------------------------------------------------------------------
(* Rows.                                                                        *)

\* A book is its three parts, and its lists are functions on 1..Len.
LEMMA Parts ==
    ASSUME NEW b, Rows(b)
    PROVE  /\ b = [session |-> b.session, offers |-> b.offers, approvals |-> b.approvals]
           /\ b.session \in Sessions
           /\ b.session.status \in {"ACTIVE", "WAITING_APPROVAL", "AGREED", "CLOSED"}
           /\ b.session.current \in Nat /\ b.session.version \in Nat /\ b.session.rounds \in Nat
           /\ Len(b.offers) \in Nat /\ Len(b.approvals) = Len(b.offers)
           /\ b.session.current \in 0..Len(b.offers)
           /\ b.offers \in Seq(Offers) /\ b.approvals \in Seq(Approvals)
           /\ b.offers \in [1..Len(b.offers) -> Offers]
           /\ b.approvals \in [1..Len(b.offers) -> Approvals]
<1>1. /\ b.session \in Sessions /\ b.offers \in Seq(Offers) /\ b.approvals \in Seq(Approvals)
      /\ b = [session |-> b.session, offers |-> b.offers, approvals |-> b.approvals]
      /\ Len(b.approvals) = Len(b.offers) /\ b.session.current \in 0..Len(b.offers)
  BY DEF Rows
<1>2. /\ Len(b.offers) \in Nat /\ b.offers \in [1..Len(b.offers) -> Offers]
      /\ b.approvals \in [1..Len(b.offers) -> Approvals]
  BY <1>1, LenProperties
<1> QED BY <1>1, <1>2 DEF Sessions, Ended

\* A row of the approvals after Void.
LEMMA Voiding ==
    ASSUME NEW rows \in Seq(Approvals), NEW o \in 1..Len(rows), NEW expired \in BOOLEAN,
           rows[o].status = "PENDING" => rows[o].effect = "NOT_APPLIED"
    PROVE  /\ Void(rows, o, expired) \in Seq(Approvals)
           /\ Len(Void(rows, o, expired)) = Len(rows)
           /\ \A p \in 1..Len(rows) : p # o => Void(rows, o, expired)[p] = rows[p]
           /\ ~Awaited(Void(rows, o, expired)[o])
           /\ Void(rows, o, expired)[o].status # "PENDING"
           /\ rows[o].status # "PENDING" => Void(rows, o, expired)[o].status = rows[o].status
           /\ rows[o].status # "NONE" =>
                 /\ Void(rows, o, expired)[o].effect = "INVALIDATED"
                 /\ Void(rows, o, expired)[o].status # "NONE"
           /\ rows[o].status = "PENDING" => Void(rows, o, expired)[o].status # "REJECTED"
           /\ rows[o].effect = "INVALIDATED" => Void(rows, o, expired)[o].effect = "INVALIDATED"
           /\ rows[o].effect = "APPLIED" => Void(rows, o, expired)[o].effect # "NOT_APPLIED"
<1> DEFINE a == rows[o]
           row == [a EXCEPT !.status = IF a.status = "PENDING"
                                       THEN IF expired THEN "EXPIRED" ELSE "CANCELLED"
                                       ELSE a.status,
                            !.effect = "INVALIDATED"]
           vs == Void(rows, o, expired)
<1>1. a \in Approvals
  BY ElementOfSeq
<1>2. row \in Approvals
  BY <1>1 DEF Approvals
<1>3. CASE a.status = "NONE" \/ a.effect = "INVALIDATED"
  BY <1>3, <1>1 DEF Void, Awaited, Approvals
<1>4. CASE ~(a.status = "NONE" \/ a.effect = "INVALIDATED")
  <2>1. vs = [rows EXCEPT ![o] = row]
    BY <1>4 DEF Void
  <2>2. /\ row.effect = "INVALIDATED"
        /\ row.status = IF a.status = "PENDING" THEN IF expired THEN "EXPIRED" ELSE "CANCELLED"
                        ELSE a.status
    BY <1>1 DEF Approvals
  <2> HIDE DEF row, vs
  <2>3. vs \in Seq(Approvals)
    BY <1>2, <2>1
  <2>4. Len(vs) = Len(rows)
    BY <1>2, <2>1
  <2>5. vs[o] = row
    BY <1>2, <2>1
  <2>6. \A p \in 1..Len(rows) : p # o => vs[p] = rows[p]
    BY <1>2, <2>1
  <2> QED BY <2>2, <2>3, <2>4, <2>5, <2>6, <1>4 DEF Awaited, vs
<1> QED BY <1>3, <1>4

-------------------------------------------------------------------------------
(* Killing the current offer.                                                   *)

\* Without a current offer the session does not wait, and nothing is open.
LEMMA NoCurrent ==
    ASSUME NEW b, Sound(b), b.session.current = 0
    PROVE  /\ b.session.status # "WAITING_APPROVAL"
           /\ \A o \in 1..Len(b.offers) :
                 b.offers[o].status \notin OpenStatus /\ ~Awaited(b.approvals[o])
BY Parts DEF Sound, OneOpen, Waits

\* Killing ends offer o and its approval, and touches nothing else.
KillsOnly(b, k, o) ==
    /\ Rows(k) /\ Len(k.offers) = Len(b.offers)
    /\ k.session.current = 0 /\ k.session.version = b.session.version
    /\ k.session.rounds = b.session.rounds
    /\ k.session.status = IF b.session.status = "WAITING_APPROVAL" THEN "ACTIVE"
                          ELSE b.session.status
    /\ k.offers[o].status \notin OpenStatus
    /\ \A p \in 1..Len(b.offers) : p # o => k.offers[p] = b.offers[p]
    /\ k.approvals = Void(b.approvals, o, FALSE)

\* Killing an open offer with its approval does that and nothing else.
LEMMA KilledRows ==
    ASSUME NEW b, Rows(b), NEW o \in 1..Len(b.offers), o = b.session.current,
           b.offers[o].status \in OpenStatus,
           b.approvals[o].status = "PENDING" => b.approvals[o].effect = "NOT_APPLIED"
    PROVE  KillsOnly(b, Kill(b, o), o)
<1> DEFINE k == Kill(b, o)
           x == [b.offers[o] EXCEPT !.status =
                    IF b.offers[o].by = "BUYER" THEN "WITHDRAWN" ELSE "REJECTED"]
           s == [b.session EXCEPT !.current = 0,
                    !.status = IF b.session.status = "WAITING_APPROVAL" THEN "ACTIVE"
                               ELSE b.session.status]
           v == Void(b.approvals, o, FALSE)
<1>1. o # 0
  BY Parts
<1>2. k = [session |-> s, offers |-> [b.offers EXCEPT ![o] = x], approvals |-> v]
  BY <1>1 DEF Kill
<1>3. /\ b.session \in Sessions /\ b.offers \in Seq(Offers) /\ b.approvals \in Seq(Approvals)
      /\ Len(b.offers) \in Nat /\ Len(b.approvals) = Len(b.offers)
  BY <1>1, Parts
<1>4. b.offers[o] \in Offers
  BY <1>3, ElementOfSeq
<1>5. x \in Offers /\ x.status \notin OpenStatus
  BY <1>4 DEF Offers, OpenStatus
<1>6. /\ s \in Sessions /\ s.current = 0 /\ s.version = b.session.version
      /\ s.rounds = b.session.rounds
      /\ s.status = IF b.session.status = "WAITING_APPROVAL" THEN "ACTIVE" ELSE b.session.status
  BY <1>3 DEF Sessions
<1> o \in 1..Len(b.approvals)
  BY <1>3
<1>7. v \in Seq(Approvals) /\ Len(v) = Len(b.offers)
  BY <1>1, <1>3, Voiding
<1> HIDE DEF k, x, s, v
<1> DEFINE os == [b.offers EXCEPT ![o] = x]
<1>8. os \in Seq(Offers)
  BY <1>3, <1>5
<1>9. Len(os) = Len(b.offers)
  BY <1>3, <1>5
<1>10. os[o] = x
  BY <1>3, <1>5
<1>11. \A p \in 1..Len(b.offers) : p # o => os[p] = b.offers[p]
  BY <1>3, <1>5
<1> HIDE DEF os
<1>12. k.session = s /\ k.offers = os /\ k.approvals = v
  BY <1>2 DEF os
<1>13. Rows(k)
  BY <1>2, <1>3, <1>6, <1>7, <1>8, <1>9, <1>12 DEF Rows, os
<1> QED BY <1>5, <1>6, <1>9, <1>10, <1>11, <1>12, <1>13 DEF KillsOnly, k, v

\* The current offer o of b ends, whoever ended it and whatever his decision, and
\* nothing else changes.
EndsOffer(b, k, o) ==
    /\ o \in 1..Len(b.offers) /\ o = b.session.current
    /\ Rows(k) /\ Len(k.offers) = Len(b.offers)
    /\ k.session.current = 0 /\ k.session.status # "WAITING_APPROVAL"
    /\ k.offers[o].status \notin OpenStatus
    /\ \A p \in 1..Len(b.offers) : p # o => k.offers[p] = b.offers[p]
    /\ \A p \in 1..Len(b.offers) : p # o => k.approvals[p] = b.approvals[p]
    /\ ~Awaited(k.approvals[o]) /\ k.approvals[o].status # "PENDING"
    /\ k.approvals[o].status = "REJECTED" => k.approvals[o].effect = "APPLIED"
    /\ b.approvals[o].status # "PENDING" => k.approvals[o].status = b.approvals[o].status
    /\ b.approvals[o].effect = "INVALIDATED" => k.approvals[o].effect = "INVALIDATED"
    /\ b.approvals[o].effect = "APPLIED" => k.approvals[o].effect # "NOT_APPLIED"

\* A book whose current offer ends is sound if it was, and its decisions stand.
LEMMA EndingAnOffer ==
    ASSUME NEW b, Sound(b), NEW k, NEW o, EndsOffer(b, k, o)
    PROVE  Sound(k) /\ Stands(b, k)
<1> USE DEF EndsOffer
<1>1. /\ Len(b.offers) \in Nat /\ OneOpen(b) /\ Waits(b) /\ Decided(b)
  BY Parts DEF Sound
<1>2. OneOpen(k)
  BY <1>1 DEF OneOpen
<1>3. Waits(k)
  <2>1. ASSUME NEW p \in 1..Len(k.offers), Awaited(k.approvals[p]) PROVE FALSE
    BY <1>1, <2>1 DEF Waits
  <2> QED BY <2>1 DEF Waits
<1>4. Decided(k)
  <2>1. ASSUME NEW p \in 1..Len(k.offers)
        PROVE  /\ k.approvals[p].status = "PENDING" => k.approvals[p].effect = "NOT_APPLIED"
               /\ k.approvals[p].status = "REJECTED" =>
                     k.approvals[p].effect = "APPLIED" /\ k.session.current # p
    BY <1>1 DEF Decided
  <2> QED BY <2>1 DEF Decided
<1>5. Stands(b, k)
  <2>1. b.approvals[o].status # "REJECTED"
    BY <1>1 DEF Decided
  <2>2. ASSUME NEW p \in 1..Len(b.offers), p # o
        PROVE  b.approvals[p].status = "REJECTED" => b.approvals[p].effect = "APPLIED"
    BY <1>1 DEF Decided
  <2> QED BY <2>1, <2>2 DEF Stands
<1> QED BY <1>2, <1>3, <1>4, <1>5 DEF Sound

\* Nothing changes in a book in which nothing changes.
LEMMA Unmoved == ASSUME NEW b, Sound(b) PROVE Stands(b, b)
BY DEF Sound, Decided, Stands

\* Killing the current offer, if there is one, leaves no open offer and nobody waiting.
LEMMA Killing ==
    ASSUME NEW b, Sound(b), NEW k, k = Kill(b, b.session.current)
    PROVE  /\ Sound(k) /\ Stands(b, k) /\ Len(k.offers) = Len(b.offers)
           /\ k.session.current = 0 /\ k.session.version = b.session.version
           /\ k.session.rounds = b.session.rounds
           /\ k.session.status = IF b.session.status = "WAITING_APPROVAL" THEN "ACTIVE"
                                 ELSE b.session.status
<1>1. CASE b.session.current = 0
  <2>1. k = b
    BY <1>1 DEF Kill
  <2> QED BY <1>1, <2>1, NoCurrent, Unmoved
<1>2. CASE b.session.current # 0
  <2>1. PICK o \in 1..Len(b.offers) : o = b.session.current
    BY <1>2, Parts DEF Sound
  <2>2. Rows(b) /\ b.offers[o].status \in OpenStatus
    BY <2>1 DEF Sound, OneOpen
  <2>3. /\ b.approvals[o].status = "PENDING" => b.approvals[o].effect = "NOT_APPLIED"
        /\ b.approvals[o].status # "REJECTED"
    BY <2>1 DEF Sound, Decided
  <2> KillsOnly(b, k, o)
    BY <2>1, <2>2, <2>3, KilledRows
  <2>4. /\ Len(b.offers) \in Nat /\ b.approvals \in Seq(Approvals)
        /\ Len(b.approvals) = Len(b.offers)
    BY Parts DEF Sound
  <2> o \in 1..Len(b.approvals)
    BY <2>4
  <2>5. /\ \A p \in 1..Len(b.offers) : p # o => k.approvals[p] = b.approvals[p]
        /\ ~Awaited(k.approvals[o]) /\ k.approvals[o].status # "PENDING"
        /\ b.approvals[o].status # "PENDING" => k.approvals[o].status = b.approvals[o].status
        /\ b.approvals[o].effect = "INVALIDATED" => k.approvals[o].effect = "INVALIDATED"
        /\ b.approvals[o].effect = "APPLIED" => k.approvals[o].effect # "NOT_APPLIED"
        /\ b.approvals[o].status = "PENDING" => k.approvals[o].status # "REJECTED"
    <3> DEFINE v == Void(b.approvals, o, FALSE)
    <3>1. /\ \A p \in 1..Len(b.approvals) : p # o => v[p] = b.approvals[p]
          /\ ~Awaited(v[o]) /\ v[o].status # "PENDING"
          /\ b.approvals[o].status # "PENDING" => v[o].status = b.approvals[o].status
          /\ b.approvals[o].effect = "INVALIDATED" => v[o].effect = "INVALIDATED"
          /\ b.approvals[o].effect = "APPLIED" => v[o].effect # "NOT_APPLIED"
          /\ b.approvals[o].status = "PENDING" => v[o].status # "REJECTED"
      BY <2>3, <2>4, Voiding
    <3>2. k.approvals = v
      BY DEF KillsOnly
    <3> HIDE DEF v
    <3> QED BY <3>1, <3>2, <2>4
  <2>6. k.session.status # "WAITING_APPROVAL"
    BY DEF KillsOnly
  <2>7. EndsOffer(b, k, o)
    BY <2>1, <2>3, <2>5, <2>6 DEF EndsOffer, KillsOnly
  <2> QED BY <2>7, EndingAnOffer DEF KillsOnly
<1> QED BY <1>1, <1>2

-------------------------------------------------------------------------------
(* Counting the version, and reconciling an approval.                           *)

\* Counting the version disturbs nothing.
LEMMA Bumping ==
    ASSUME NEW b, Sound(b), NEW c, c = Bump(b)
    PROVE  /\ Sound(c) /\ Stands(b, c) /\ c.offers = b.offers /\ c.approvals = b.approvals
           /\ c.session.version = b.session.version + 1
           /\ c.session.current = b.session.current /\ c.session.status = b.session.status
           /\ c.session.rounds = b.session.rounds
<1>1. /\ b.session \in Sessions /\ b.session.version \in Nat
      /\ b = [session |-> b.session, offers |-> b.offers, approvals |-> b.approvals]
  BY Parts DEF Sound
<1> DEFINE s == [b.session EXCEPT !.version = b.session.version + 1]
<1>2. /\ s \in Sessions /\ s.version = b.session.version + 1
      /\ s.current = b.session.current /\ s.status = b.session.status
      /\ s.rounds = b.session.rounds
  BY <1>1 DEF Sessions
<1>3. c = [session |-> s, offers |-> b.offers, approvals |-> b.approvals]
  BY <1>1 DEF Bump
<1> HIDE DEF s
<1>4. c.session = s /\ c.offers = b.offers /\ c.approvals = b.approvals
  BY <1>3
<1>5. Rows(c)
  BY <1>2, <1>3, <1>4 DEF Rows, Sound
<1>6. OneOpen(c)
  BY <1>2, <1>4 DEF OneOpen, Sound
<1>7. Waits(c)
  BY <1>2, <1>4 DEF Waits, Sound
<1>8. Decided(c)
  BY <1>2, <1>4 DEF Decided, Sound
<1>9. Stands(b, c)
  BY <1>4, Unmoved DEF Stands
<1> QED BY <1>2, <1>4, <1>5, <1>6, <1>7, <1>8, <1>9 DEF Sound

\* An approval of an offer that is no longer current may be voided: nothing changes
\* for the session.
LEMMA VoidingAnOldOne ==
    ASSUME NEW b, Sound(b), NEW o \in 1..Len(b.offers), o # b.session.current,
           NEW expired \in BOOLEAN, b.approvals[o].status # "REJECTED",
           NEW c, c = [b EXCEPT !.approvals = Void(b.approvals, o, expired)]
    PROVE  Sound(c) /\ Stands(b, c) /\ c.session = b.session /\ c.offers = b.offers
<1>1. /\ b = [session |-> b.session, offers |-> b.offers, approvals |-> b.approvals]
      /\ b.approvals \in Seq(Approvals) /\ Len(b.offers) \in Nat
      /\ Len(b.approvals) = Len(b.offers)
  BY Parts DEF Sound
<1>2. b.approvals[o].status = "PENDING" => b.approvals[o].effect = "NOT_APPLIED"
  BY DEF Sound, Decided
<1> DEFINE v == Void(b.approvals, o, expired)
<1>3. o \in 1..Len(b.approvals)
  BY <1>1
<1>4. /\ v \in Seq(Approvals) /\ Len(v) = Len(b.approvals)
      /\ \A p \in 1..Len(b.approvals) : p # o => v[p] = b.approvals[p]
      /\ ~Awaited(v[o]) /\ v[o].status # "PENDING"
      /\ b.approvals[o].status # "PENDING" => v[o].status = b.approvals[o].status
      /\ b.approvals[o].status = "PENDING" => v[o].status # "REJECTED"
      /\ b.approvals[o].effect = "INVALIDATED" => v[o].effect = "INVALIDATED"
      /\ b.approvals[o].effect = "APPLIED" => v[o].effect # "NOT_APPLIED"
  BY <1>1, <1>2, <1>3, Voiding
<1> HIDE DEF v
<1>5. c = [session |-> b.session, offers |-> b.offers, approvals |-> v]
  BY <1>1 DEF v
<1>6. c.session = b.session /\ c.offers = b.offers /\ c.approvals = v
  BY <1>5
<1>7. Rows(c)
  BY <1>1, <1>4, <1>5, <1>6 DEF Rows, Sound
<1>8. OneOpen(c)
  BY <1>6 DEF OneOpen, Sound
<1>9. Waits(c)
  <2>1. ASSUME NEW p \in 1..Len(c.offers), Awaited(c.approvals[p])
        PROVE  /\ c.session.current = p /\ c.session.status = "WAITING_APPROVAL"
               /\ c.approvals[p].status \in {"PENDING", "APPROVED"}
               /\ c.offers[p].status = "PROPOSED" /\ c.offers[p].by = "BUYER"
    BY <1>1, <1>4, <1>6, <2>1 DEF Waits, Sound
  <2>2. ASSUME c.session.status = "WAITING_APPROVAL"
        PROVE  c.session.current # 0 /\ Awaited(c.approvals[c.session.current])
    <3>1. b.session.current # 0 /\ b.session.current \in 1..Len(b.offers)
          /\ Awaited(b.approvals[b.session.current])
      BY <1>6, <2>2, Parts DEF Waits, Sound
    <3> QED BY <1>1, <1>4, <1>6, <3>1
  <2> QED BY <2>1, <2>2 DEF Waits
<1>10. Decided(c)
  BY <1>1, <1>4, <1>6 DEF Decided, Sound
<1>11. Stands(b, c)
  BY <1>1, <1>4, <1>6 DEF Stands, Decided, Sound
<1> QED BY <1>6, <1>7, <1>8, <1>9, <1>10, <1>11 DEF Sound

\* Reconciling an approval of the current offer either finds everything in order or
\* ends the offer and counts the version.
LEMMA ReconcilingTheCurrent ==
    ASSUME NEW b, Sound(b), NEW o \in 1..Len(b.offers), o = b.session.current,
           b.approvals[o].status # "NONE",
           NEW r, r = Reconciled(b, o), r # b
    PROVE  /\ EndsOffer(b, r, o)
           /\ r.session.version = b.session.version + 1
           /\ b.session.status # "AGREED" /\ r.session.status \notin Ended
           /\ r.approvals[o].effect = "INVALIDATED"
<1> DEFINE expired == b.approvals[o].status = "PENDING" /\ b.approvals[o].late
           d == Bump(b)
           v == Void(b.approvals, o, expired)
           x == [d EXCEPT !.approvals = v]
<1>1. /\ b.session.status # "AGREED" /\ b.approvals[o].effect # "INVALIDATED"
      /\ r = Kill([d EXCEPT !.approvals = Void(d.approvals, o, expired)], o)
  BY DEF Reconciled
<1>2. /\ Sound(d) /\ d.offers = b.offers /\ d.approvals = b.approvals
      /\ d.session.version = b.session.version + 1
      /\ d.session.current = b.session.current /\ d.session.status = b.session.status
  BY Bumping
<1>3. /\ d = [session |-> d.session, offers |-> b.offers, approvals |-> b.approvals]
      /\ b.approvals \in Seq(Approvals) /\ Len(b.offers) \in Nat
      /\ Len(b.approvals) = Len(b.offers)
  BY <1>2, Parts DEF Sound
<1>4. /\ b.approvals[o].status = "PENDING" => b.approvals[o].effect = "NOT_APPLIED"
      /\ b.approvals[o].status # "REJECTED" /\ b.session.status # "CLOSED"
      /\ b.offers[o].status \in OpenStatus
  BY <1>3 DEF Sound, Decided, OneOpen
<1>5. o \in 1..Len(b.approvals) /\ expired \in BOOLEAN
  BY <1>3
<1>6. /\ v \in Seq(Approvals) /\ Len(v) = Len(b.approvals)
      /\ \A p \in 1..Len(b.approvals) : p # o => v[p] = b.approvals[p]
      /\ v[o].effect = "INVALIDATED" /\ v[o].status # "PENDING"
      /\ b.approvals[o].status # "PENDING" => v[o].status = b.approvals[o].status
      /\ b.approvals[o].status = "PENDING" => v[o].status # "REJECTED"
  BY <1>3, <1>4, <1>5, Voiding
<1>7. r = Kill(x, o)
  BY <1>1, <1>2
<1> HIDE DEF v, d, expired
<1>8. x = [session |-> d.session, offers |-> b.offers, approvals |-> v]
  BY <1>3
<1> HIDE DEF x
<1>9. x.session = d.session /\ x.offers = b.offers /\ x.approvals = v
  BY <1>8
<1>10. Rows(x)
  BY <1>2, <1>3, <1>6, <1>8, <1>9 DEF Rows, Sound
<1>11. /\ Rows(r) /\ Len(r.offers) = Len(b.offers)
       /\ r.session.current = 0 /\ r.session.version = b.session.version + 1
       /\ r.session.status = IF b.session.status = "WAITING_APPROVAL" THEN "ACTIVE"
                             ELSE b.session.status
       /\ r.offers[o].status \notin OpenStatus
       /\ \A p \in 1..Len(b.offers) : p # o => r.offers[p] = b.offers[p]
       /\ r.approvals = Void(v, o, FALSE)
  <2>1. /\ o \in 1..Len(x.offers) /\ o = x.session.current
        /\ x.offers[o].status \in OpenStatus /\ x.approvals[o].status # "PENDING"
    BY <1>2, <1>4, <1>6, <1>9
  <2>2. KillsOnly(x, r, o)
    BY <1>7, <1>10, <2>1, KilledRows
  <2> QED BY <1>2, <1>9, <2>2 DEF KillsOnly
<1>12. r.approvals = v
  BY <1>6, <1>11 DEF Void
<1>13. b.session.status \in {"ACTIVE", "WAITING_APPROVAL"}
  BY <1>1, <1>4, Parts DEF Sound
<1>14. EndsOffer(b, r, o)
  <2>1. r.session.status # "WAITING_APPROVAL"
    BY <1>11
  <2>2. ~Awaited(r.approvals[o])
    BY <1>6, <1>12 DEF Awaited
  <2>3. \A p \in 1..Len(b.offers) : p # o => r.approvals[p] = b.approvals[p]
    BY <1>3, <1>6, <1>12
  <2>4. r.approvals[o].status # "REJECTED"
    BY <1>4, <1>6, <1>12
  <2> QED BY <1>6, <1>11, <1>12, <2>1, <2>2, <2>3, <2>4 DEF EndsOffer
<1> QED BY <1>1, <1>6, <1>11, <1>12, <1>13, <1>14 DEF Ended

\* Reconciling any other approval at most voids it.
LEMMA ReconcilingAnOldOne ==
    ASSUME NEW b, Sound(b), NEW o \in 1..Len(b.offers), o # b.session.current,
           b.approvals[o].status # "NONE",
           NEW r, r = Reconciled(b, o), r # b
    PROVE  /\ Sound(r) /\ Stands(b, r) /\ r.session = b.session /\ r.offers = b.offers
           /\ r.approvals[o].effect = "INVALIDATED"
<1> DEFINE expired == b.approvals[o].status = "PENDING" /\ b.approvals[o].late
           x == [b EXCEPT !.approvals = Void(b.approvals, o, expired)]
<1>1. /\ b.approvals[o].status # "REJECTED"
      /\ r = Kill(x, o)
  BY DEF Reconciled
<1>2. b.approvals[o].status = "PENDING" => b.approvals[o].effect = "NOT_APPLIED"
  BY DEF Sound, Decided
<1>3. expired \in BOOLEAN
  OBVIOUS
<1>4. /\ Rows(b) /\ Len(b.approvals) = Len(b.offers) /\ b.approvals \in Seq(Approvals)
      /\ b = [session |-> b.session, offers |-> b.offers, approvals |-> b.approvals]
  BY Parts DEF Sound
<1>5. x.approvals = Void(b.approvals, o, expired)
  BY <1>4
<1> HIDE DEF expired
<1>6. Sound(x) /\ Stands(b, x) /\ x.session = b.session /\ x.offers = b.offers
  BY <1>1, <1>3, VoidingAnOldOne
<1>7. x.approvals[o].effect = "INVALIDATED"
  <2>1. o \in 1..Len(b.approvals)
    BY <1>4
  <2> QED BY <1>2, <1>3, <1>4, <1>5, <2>1, Voiding
<1> HIDE DEF x
<1>8. r = x
  BY <1>1, <1>6 DEF Kill, Sound, OneOpen
<1> QED BY <1>6, <1>7, <1>8

-------------------------------------------------------------------------------
(* Entering offers.                                                             *)

\* A step of the book: it stays sound, decisions stand, no row is lost, and the
\* version counts up whenever the current offer changes.
Step(b, c) ==
    /\ Sound(c) /\ Stands(b, c) /\ Len(b.offers) <= Len(c.offers)
    /\ b.session.version <= c.session.version
    /\ c.session.current # b.session.current => b.session.version < c.session.version

\* Decisions that stand twice stand.
LEMMA StandsCompose ==
    ASSUME NEW b, NEW c, NEW d, Sound(b), Sound(c), Stands(b, c), Stands(c, d),
           Len(b.offers) <= Len(c.offers)
    PROVE  Stands(b, d)
<1>1. /\ Len(b.offers) \in Nat /\ Len(c.offers) \in Nat
      /\ \A o \in 1..Len(c.offers) :
            c.approvals[o].effect \in {"NOT_APPLIED", "APPLIED", "INVALIDATED"}
  BY Parts DEF Sound, Approvals
<1> SUFFICES ASSUME NEW o \in 1..Len(b.offers)
             PROVE  /\ b.approvals[o].status # "PENDING" =>
                          d.approvals[o].status = b.approvals[o].status
                    /\ b.approvals[o].effect = "INVALIDATED" =>
                          d.approvals[o].effect = "INVALIDATED"
                    /\ b.approvals[o].effect = "APPLIED" =>
                          d.approvals[o].effect # "NOT_APPLIED"
                    /\ b.approvals[o].status = "REJECTED" =>
                          d.approvals[o].effect = "APPLIED"
  BY DEF Stands
<1>2. o \in 1..Len(c.offers)
  BY <1>1
<1> QED BY <1>1, <1>2 DEF Stands

\* Two steps make one.
LEMMA StepsCompose ==
    ASSUME NEW b, NEW c, NEW d, Sound(b), Step(b, c), Step(c, d)
    PROVE  Step(b, d)
<1>1. /\ Len(b.offers) \in Nat /\ Len(c.offers) \in Nat /\ Len(d.offers) \in Nat
      /\ b.session.version \in Nat /\ c.session.version \in Nat /\ d.session.version \in Nat
  BY Parts DEF Step, Sound
<1>2. Stands(b, d)
  BY StandsCompose DEF Step
<1> QED BY <1>1, <1>2 DEF Step

\* Only version and rounds count up.
Recounts(b, c) ==
    /\ Rows(c) /\ c.offers = b.offers /\ c.approvals = b.approvals
    /\ c.session.current = b.session.current /\ c.session.status = b.session.status
    /\ c.session.version = b.session.version + 1

\* Counting version and rounds is a step.
LEMMA Recounting ==
    ASSUME NEW b, Sound(b), NEW c, Recounts(b, c)
    PROVE  Step(b, c)
<1>1. OneOpen(c)
  BY DEF OneOpen, Sound, Recounts
<1>2. Waits(c)
  BY DEF Waits, Sound, Recounts
<1>3. Decided(c)
  BY DEF Decided, Sound, Recounts
<1>4. Stands(b, c)
  BY Unmoved DEF Stands, Recounts
<1>5. b.session.version \in Nat /\ Len(b.offers) \in Nat
  BY Parts DEF Sound
<1> QED BY <1>1, <1>2, <1>3, <1>4, <1>5 DEF Step, Sound, Recounts

\* That is what Counted and Bump do.
LEMMA Counting ==
    ASSUME NEW b, Sound(b)
    PROVE  Recounts(b, Counted(b)) /\ Recounts(b, Bump(b))
<1>1. /\ b.session \in Sessions /\ b.session.version \in Nat /\ b.session.rounds \in Nat
      /\ b.session.current \in Nat
      /\ b = [session |-> b.session, offers |-> b.offers, approvals |-> b.approvals]
      /\ Rows(b)
  BY Parts DEF Sound
<1> DEFINE s == [b.session EXCEPT !.version = b.session.version + 1]
           t == [s EXCEPT !.rounds = b.session.rounds + 1]
<1>2. /\ s \in Sessions /\ s.version = b.session.version + 1
      /\ s.current = b.session.current /\ s.status = b.session.status
  BY <1>1 DEF Sessions
<1> HIDE DEF s
<1>3. /\ t \in Sessions /\ t.version = b.session.version + 1
      /\ t.current = b.session.current /\ t.status = b.session.status
  <2>1. b.session.rounds + 1 \in Nat
    BY <1>1
  <2>2. \A r \in Sessions, m \in Nat :
            /\ [r EXCEPT !.rounds = m] \in Sessions
            /\ [r EXCEPT !.rounds = m].version = r.version
            /\ [r EXCEPT !.rounds = m].current = r.current
            /\ [r EXCEPT !.rounds = m].status = r.status
    BY DEF Sessions
  <2> QED BY <1>2, <2>1, <2>2
<1>4. Bump(b) = [session |-> s, offers |-> b.offers, approvals |-> b.approvals]
  BY <1>1 DEF Bump, s
<1>5. Counted(b) = [session |-> t, offers |-> b.offers, approvals |-> b.approvals]
  <2>1. \A y : [[session |-> s, offers |-> b.offers, approvals |-> b.approvals] EXCEPT !.session = y]
               = [session |-> y, offers |-> b.offers, approvals |-> b.approvals]
    OBVIOUS
  <2> QED BY <1>4, <2>1 DEF Counted
<1> HIDE DEF t
<1>6. Recounts(b, Bump(b))
  BY <1>1, <1>2, <1>4 DEF Recounts, Rows
<1>7. Recounts(b, Counted(b))
  BY <1>1, <1>3, <1>5 DEF Recounts, Rows
<1> QED BY <1>6, <1>7

\* A row is added to offers and approvals; the session is not touched.
Adds(b, c, x, a) ==
    /\ c = [session |-> b.session, offers |-> c.offers, approvals |-> c.approvals]
    /\ c.offers \in Seq(Offers) /\ c.approvals \in Seq(Approvals)
    /\ Len(c.offers) = Len(b.offers) + 1 /\ Len(c.approvals) = Len(b.offers) + 1
    /\ c.offers[Len(b.offers) + 1] = x /\ c.approvals[Len(b.offers) + 1] = a
    /\ \A p \in 1..Len(b.offers) : c.offers[p] = b.offers[p] /\ c.approvals[p] = b.approvals[p]

\* That is what Entered does.
LEMMA Adding ==
    ASSUME NEW b, Rows(b), NEW x \in Offers, NEW a \in Approvals
    PROVE  Adds(b, Entered(b, x, a), x, a)
<1>1. /\ b.offers \in Seq(Offers) /\ b.approvals \in Seq(Approvals) /\ Len(b.offers) \in Nat
      /\ Len(b.approvals) = Len(b.offers)
      /\ b = [session |-> b.session, offers |-> b.offers, approvals |-> b.approvals]
  BY Parts
<1> DEFINE os == Append(b.offers, x)
           vs == Append(b.approvals, a)
<1>2. /\ os \in Seq(Offers) /\ Len(os) = Len(b.offers) + 1 /\ os[Len(b.offers) + 1] = x
      /\ \A p \in 1..Len(b.offers) : os[p] = b.offers[p]
  BY <1>1, AppendProperties
<1>3. /\ vs \in Seq(Approvals) /\ Len(vs) = Len(b.offers) + 1 /\ vs[Len(b.offers) + 1] = a
      /\ \A p \in 1..Len(b.offers) : vs[p] = b.approvals[p]
  BY <1>1, AppendProperties
<1> HIDE DEF os, vs
<1>4. [b EXCEPT !.offers = os]
        = [session |-> b.session, offers |-> os, approvals |-> b.approvals]
  BY <1>1
<1>5. [[session |-> b.session, offers |-> os, approvals |-> b.approvals] EXCEPT !.approvals = vs]
        = [session |-> b.session, offers |-> os, approvals |-> vs]
  OBVIOUS
<1>6. Entered(b, x, a) = [session |-> b.session, offers |-> os, approvals |-> vs]
  BY <1>4, <1>5, Zenon DEF Entered, os, vs
<1> QED BY <1>2, <1>3, <1>6 DEF Adds

\* A refused offer changes nothing for the session.
LEMMA AddingARefusedOffer ==
    ASSUME NEW b, Sound(b), NEW x, x.status = "REJECTED", NEW c, Adds(b, c, x, NoApproval)
    PROVE  Step(b, c) /\ c.session = b.session
<1> DEFINE n == Len(b.offers)
<1>1. /\ b.session \in Sessions /\ b.session.current \in 0..n /\ n \in Nat
      /\ b.session.version \in Nat
      /\ OneOpen(b) /\ Waits(b) /\ Decided(b)
  BY Parts DEF Sound
<1>2. /\ c.session = b.session /\ Len(c.offers) = n + 1 /\ Rows(c)
      /\ c.offers[n + 1].status = "REJECTED" /\ c.approvals[n + 1].status = "NONE"
      /\ \A p \in 1..n : c.offers[p] = b.offers[p] /\ c.approvals[p] = b.approvals[p]
  BY <1>1 DEF Adds, Rows, NoApproval
<1>3. \A p \in 1..Len(c.offers) : p \in 1..n \/ p = n + 1
  BY <1>1, <1>2
<1> HIDE DEF n
<1>4. OneOpen(c)
  <2> SUFFICES ASSUME NEW p \in 1..Len(c.offers)
               PROVE  c.offers[p].status \in OpenStatus <=> c.session.current = p
    BY DEF OneOpen
  <2>1. CASE p \in 1..n
    BY <1>1, <1>2, <2>1 DEF OneOpen, n
  <2>2. CASE p = n + 1
    BY <1>1, <1>2, <2>2 DEF OpenStatus
  <2> QED BY <1>3, <2>1, <2>2
<1>5. Waits(c)
  <2>1. ASSUME NEW p \in 1..Len(c.offers), Awaited(c.approvals[p]) PROVE p \in 1..n
    BY <1>2, <1>3, <2>1 DEF Awaited
  <2>2. c.session.current # 0 => c.session.current \in 1..n
    BY <1>1, <1>2
  <2>3. ASSUME NEW p \in 1..Len(c.offers), Awaited(c.approvals[p])
        PROVE  /\ c.session.current = p /\ c.session.status = "WAITING_APPROVAL"
               /\ c.approvals[p].status \in {"PENDING", "APPROVED"}
               /\ c.offers[p].status = "PROPOSED" /\ c.offers[p].by = "BUYER"
    BY <1>1, <1>2, <2>1, <2>3 DEF Waits, n
  <2>4. ASSUME c.session.status = "WAITING_APPROVAL"
        PROVE  c.session.current # 0 /\ Awaited(c.approvals[c.session.current])
    BY <1>1, <1>2, <2>2, <2>4 DEF Waits
  <2> QED BY <2>3, <2>4 DEF Waits
<1>6. Decided(c)
  BY <1>1, <1>2, <1>3 DEF Decided, n
<1>7. Stands(b, c)
  BY <1>1, <1>2 DEF Stands, Decided, n
<1> QED BY <1>1, <1>2, <1>4, <1>5, <1>6, <1>7 DEF Step, Sound, n

\* A new offer x becomes the current one of a session that had none: with the new
\* approval a the session waits, without one it does not.
Opens(b, c, x, a) ==
    /\ Rows(c) /\ Len(c.offers) = Len(b.offers) + 1 /\ c.session.current = Len(b.offers) + 1
    /\ \A p \in 1..Len(b.offers) : c.offers[p] = b.offers[p] /\ c.approvals[p] = b.approvals[p]
    /\ c.offers[Len(b.offers) + 1] = x /\ c.approvals[Len(b.offers) + 1] = a
    /\ \/ /\ a = NoApproval /\ x.status \in OpenStatus
          /\ c.session.status = "ACTIVE"
       \/ /\ a = NewApproval /\ x.status = "PROPOSED" /\ x.by = "BUYER"
          /\ c.session.status = "WAITING_APPROVAL"

\* Opening an offer keeps the book sound.
LEMMA Opening ==
    ASSUME NEW b, Sound(b), b.session.current = 0, NEW c, NEW x, NEW a, Opens(b, c, x, a)
    PROVE  Sound(c) /\ Stands(b, c)
<1> DEFINE n == Len(b.offers)
<1>1. /\ n \in Nat /\ OneOpen(b) /\ Waits(b) /\ Decided(b)
      /\ \A p \in 1..n : b.offers[p].status \notin OpenStatus /\ ~Awaited(b.approvals[p])
  BY Parts, NoCurrent DEF Sound
<1>2. /\ Len(c.offers) = n + 1 /\ c.session.current = n + 1
      /\ c.offers[n + 1] = x /\ c.approvals[n + 1] = a /\ x.status \in OpenStatus
      /\ \A p \in 1..n : c.offers[p] = b.offers[p] /\ c.approvals[p] = b.approvals[p]
  BY DEF Opens, OpenStatus
<1>3. \A p \in 1..Len(c.offers) : p \in 1..n \/ p = n + 1
  BY <1>1, <1>2
<1>4. c.session.status # "CLOSED"
  BY DEF Opens
<1>5. /\ c.session.status = "WAITING_APPROVAL" => Awaited(a)
      /\ Awaited(a) => /\ c.session.status = "WAITING_APPROVAL" /\ a.status = "PENDING"
                       /\ x.status = "PROPOSED" /\ x.by = "BUYER"
      /\ a.effect = "NOT_APPLIED" /\ a.status # "REJECTED"
  BY DEF Opens, Awaited, NoApproval, NewApproval
<1> HIDE DEF n
<1>6. OneOpen(c)
  <2> SUFFICES ASSUME NEW p \in 1..Len(c.offers)
               PROVE  c.offers[p].status \in OpenStatus <=> c.session.current = p
    BY DEF OneOpen
  <2>1. CASE p \in 1..n
    BY <1>1, <1>2, <2>1
  <2>2. CASE p = n + 1
    BY <1>1, <1>2, <2>2
  <2> QED BY <1>3, <2>1, <2>2
<1>7. Waits(c)
  <2>1. ASSUME NEW p \in 1..Len(c.offers), Awaited(c.approvals[p]) PROVE p = n + 1
    BY <1>1, <1>2, <1>3, <2>1
  <2> QED BY <1>1, <1>2, <1>5, <2>1 DEF Waits
<1>8. Decided(c)
  <2> SUFFICES ASSUME NEW p \in 1..Len(c.offers)
               PROVE  /\ c.approvals[p].status = "PENDING" => c.approvals[p].effect = "NOT_APPLIED"
                      /\ c.approvals[p].status = "REJECTED" =>
                            c.approvals[p].effect = "APPLIED" /\ c.session.current # p
    BY <1>4 DEF Decided
  <2>1. CASE p \in 1..n
    BY <1>1, <1>2, <2>1 DEF Decided, n
  <2>2. CASE p = n + 1
    BY <1>2, <1>5, <2>2
  <2> QED BY <1>3, <2>1, <2>2
<1>9. Stands(b, c)
  BY <1>1, <1>2 DEF Stands, Decided, n
<1> QED BY <1>6, <1>7, <1>8, <1>9 DEF Sound, Opens

-------------------------------------------------------------------------------
(* The invariant, and what a transaction does to the promise of Agreement.      *)

\* The seller's authority covers the current offer.
Covered(b) ==
    /\ b.session.current # 0
    /\ \/ b.offers[b.session.current].by = "AGENT"
       \/ b.offers[b.session.current].status = "ACCEPTED"

Phase(b) == IF b.session.status = "AGREED" THEN "agreed"
            ELSE IF b.session.status = "CLOSED" THEN "closed" ELSE "open"

\* What one transaction other than the confirmation may do: propose, refuse, grant,
\* drop or close, or nothing that the parties would notice.
Proposes(b, c) ==
    /\ Phase(b) = "open" /\ Phase(c) = "open" /\ Len(c.offers) = c.session.current
    /\ c.session.current \in {Len(b.offers) + 1, Len(b.offers) + 2}
Refuses(b, c) ==
    /\ Phase(b) = "open" /\ Phase(c) = "open" /\ Len(c.offers) = Len(b.offers) + 1
    /\ c.session.current = b.session.current /\ Covered(c) = Covered(b)
Grants(b, c) ==
    /\ Phase(b) = "open" /\ Phase(c) = "open" /\ Len(c.offers) = Len(b.offers)
    /\ c.session.current = b.session.current /\ ~Covered(b) /\ Covered(c)
Drops(b, c) ==
    /\ Phase(b) = "open" /\ Phase(c) = "open" /\ Len(c.offers) = Len(b.offers)
    /\ b.session.current # 0 /\ c.session.current = 0
Closes(b, c) ==
    /\ Phase(b) = "open" /\ Phase(c) = "closed" /\ Len(c.offers) = Len(b.offers)
    /\ c.session.current = 0
Keeps(b, c) ==
    /\ Phase(c) = Phase(b) /\ Len(c.offers) = Len(b.offers)
    /\ c.session.current = b.session.current /\ Covered(c) = Covered(b)
Advance(b, c) ==
    \/ Proposes(b, c) \/ Refuses(b, c) \/ Grants(b, c) \/ Drops(b, c) \/ Closes(b, c)
    \/ Keeps(b, c)

\* A card of the present version shows the current offer, none is of a later one,
\* and a card of the current offer was made with the seller's authority.
CardsAreTrue ==
    \A c \in contexts :
        /\ c.version <= session.version
        /\ c.version = session.version => c.offer = session.current
        /\ c.offer = session.current => Covered(Book)

\* An input carries a receipt of a card that was shown, and its proposal names terms.
TurnIsHonest ==
    turn.stage \in {"queued", "planned", "ready"} =>
        /\ turn.receipt \in acks \union {NoReceipt}
        /\ turn.kind \in {"OFFER", "SUBMIT", "REPLACE"} => turn.net \in Nets

Inv == TypeOK /\ Sound(Book) /\ CardsAreTrue /\ TurnIsHonest

\* The columns of the basis.
LEMMA Basis ==
    ASSUME TypeOK
    PROVE  /\ Len(policies) \in Nat \ {0} /\ Len(policies) \in 1..MaxPolicies
           /\ MaxPolicies \in Nat /\ MaxFacts \in Nat
           /\ product.text \in Nat /\ product.open \in BOOLEAN
           /\ facts.version \in 1..MaxFacts /\ facts.ok \in BOOLEAN
           /\ Policy \in Policies /\ Policy.rounds \in Nat
<1>1. /\ Len(policies) \in 1..MaxPolicies /\ MaxPolicies \in Nat \ {0} /\ MaxFacts \in Nat \ {0}
      /\ policies \in Seq(Policies)
  BY ConstantsAssumption DEF TypeOK
<1>2. Policy \in Policies
  BY <1>1, ElementOfSeq DEF Policy
<1>3. /\ product \in [open : BOOLEAN, text : Nat] /\ Policy.rounds \in Nat
  BY <1>2, ConstantsAssumption DEF TypeOK
<1>4. facts.version \in 1..MaxFacts /\ facts.ok \in BOOLEAN
  BY DEF TypeOK
<1> QED BY <1>1, <1>2, <1>3, <1>4

\* The book is made of the session's rows.
LEMMA TheBook ==
    /\ Book.session = session /\ Book.offers = offers /\ Book.approvals = approvals
    /\ Book'.session = session' /\ Book'.offers = offers' /\ Book'.approvals = approvals'
BY DEF Book

\* What a transaction stores is the next book.
LEMMA Storing == ASSUME NEW b, Rows(b), Store(b) PROVE Book' = b
<1>1. b = [session |-> b.session, offers |-> b.offers, approvals |-> b.approvals]
  BY Parts
<1>2. session' = b.session /\ offers' = b.offers /\ approvals' = b.approvals
  BY DEF Store
<1>3. Book' = [session |-> session', offers |-> offers', approvals |-> approvals']
  BY DEF Book
<1> QED BY <1>1, <1>2, <1>3, Zenon

\* An offer on the present basis.
LEMMA NewOffers ==
    ASSUME TypeOK, NEW by \in {"BUYER", "AGENT"}, NEW net \in Nets \union Counters,
           NEW status \in OpenStatus \union {"REJECTED", "WITHDRAWN"}
    PROVE  /\ NewOffer(by, net, status) \in Offers
           /\ NewOffer(by, net, status).by = by /\ NewOffer(by, net, status).status = status
BY Basis DEF NewOffer, Offers

\* The first rows of an approval.
LEMMA NewApprovals == NoApproval \in Approvals /\ NewApproval \in Approvals
BY DEF NoApproval, NewApproval, Approvals

\* The open session after its current offer has made way for a new one.
LEMMA Replacing ==
    ASSUME Sound(Book), session.status \notin Ended
    PROVE  /\ Sound(Replaced) /\ Step(Book, Replaced)
           /\ Replaced.session.current = 0 /\ Replaced.session.status = "ACTIVE"
           /\ Replaced.session.version = session.version + 1
           /\ Len(Replaced.offers) = Len(offers)
<1> DEFINE k == Kill(Book, Book.session.current)
<1>1. /\ Sound(k) /\ Stands(Book, k) /\ Len(k.offers) = Len(Book.offers)
      /\ k.session.current = 0 /\ k.session.version = Book.session.version
      /\ k.session.status = IF Book.session.status = "WAITING_APPROVAL" THEN "ACTIVE"
                            ELSE Book.session.status
  BY Killing
<1>2. Replaced = Counted(k)
  BY TheBook DEF Replaced
<1> HIDE DEF k
<1>3. Recounts(k, Replaced) /\ Step(k, Replaced)
  BY <1>1, <1>2, Counting, Recounting
<1>4. Len(Book.offers) \in Nat /\ Book.session.version \in Nat /\ Book.session.current \in Nat
  BY Parts DEF Sound
<1>5. Stands(Book, Replaced)
  BY <1>1, <1>3, <1>4, StandsCompose DEF Step
<1>6. session.status \in {"ACTIVE", "WAITING_APPROVAL"}
  BY Parts, TheBook DEF Sound, Ended
<1>7. /\ Replaced.session.current = 0 /\ Replaced.session.status = "ACTIVE"
      /\ Replaced.session.version = session.version + 1
      /\ Len(Replaced.offers) = Len(offers)
  BY <1>1, <1>3, <1>6, TheBook DEF Recounts
<1>8. Step(Book, Replaced)
  BY <1>3, <1>4, <1>5, <1>7, TheBook DEF Step
<1> QED BY <1>3, <1>7, <1>8 DEF Step

-------------------------------------------------------------------------------
(* The transactions, one by one.                                                *)

\* The fields of a book after its session has been given another current offer and
\* another status.
LEMMA Pointing ==
    ASSUME NEW b, Rows(b), NEW o \in Nat, NEW status
    PROVE  /\ [b EXCEPT !.session.current = o]
                = [session |-> [b.session EXCEPT !.current = o], offers |-> b.offers,
                   approvals |-> b.approvals]
           /\ [b EXCEPT !.session.current = o, !.session.status = status]
                = [session |-> [b.session EXCEPT !.current = o, !.status = status],
                   offers |-> b.offers, approvals |-> b.approvals]
<1>1. b = [session |-> b.session, offers |-> b.offers, approvals |-> b.approvals]
  BY Parts
<1> DEFINE s == [b.session EXCEPT !.current = o]
<1>2. [b EXCEPT !.session.current = o]
        = [session |-> s, offers |-> b.offers, approvals |-> b.approvals]
  BY <1>1
<1> DEFINE c == [session |-> s, offers |-> b.offers, approvals |-> b.approvals]
<1>3. [c EXCEPT !.session.status = status]
        = [session |-> [s EXCEPT !.status = status], offers |-> b.offers,
           approvals |-> b.approvals]
  OBVIOUS
<1> QED BY <1>2, <1>3

\* The new offer takes the vacant place.
LEMMA Installing ==
    ASSUME NEW b, Sound(b), b.session.current = 0, b.session.status = "ACTIVE",
           NEW x \in Offers, NEW e
    PROVE  /\ Adds(b, e, x, NoApproval) /\ x.status \in OpenStatus =>
                 /\ Opens(b, [e EXCEPT !.session.current = Len(e.offers)], x, NoApproval)
                 /\ [e EXCEPT !.session.current = Len(e.offers)].session.version
                       = b.session.version
           /\ Adds(b, e, x, NewApproval) /\ x.status = "PROPOSED" /\ x.by = "BUYER" =>
                 /\ Opens(b, [e EXCEPT !.session.current = Len(e.offers),
                                       !.session.status = "WAITING_APPROVAL"], x, NewApproval)
                 /\ [e EXCEPT !.session.current = Len(e.offers),
                              !.session.status = "WAITING_APPROVAL"].session.version
                       = b.session.version
<1> DEFINE n == Len(b.offers)
           t == [b.session EXCEPT !.current = n + 1]
           w == [b.session EXCEPT !.current = n + 1, !.status = "WAITING_APPROVAL"]
<1>1. b.session \in Sessions /\ n \in Nat
  BY Parts DEF Sound
<1>2. /\ t \in Sessions /\ t.current = n + 1 /\ t.status = "ACTIVE"
      /\ t.version = b.session.version
  BY <1>1 DEF Sessions
<1>3. /\ w \in Sessions /\ w.current = n + 1 /\ w.status = "WAITING_APPROVAL"
      /\ w.version = b.session.version
  <2>1. w = [t EXCEPT !.status = "WAITING_APPROVAL"]
    OBVIOUS
  <2> HIDE DEF t, w
  <2> QED BY <1>2, <2>1 DEF Sessions
<1>4. ASSUME NEW a, Adds(b, e, x, a)
      PROVE  /\ Rows(e) /\ Len(e.offers) = n + 1 /\ e.session = b.session
             /\ e.offers \in Seq(Offers) /\ e.approvals \in Seq(Approvals)
             /\ Len(e.approvals) = n + 1
  BY <1>1, <1>4, Parts DEF Sound, Adds, Rows
<1>5. ASSUME Adds(b, e, x, NoApproval), x.status \in OpenStatus
      PROVE  /\ Opens(b, [e EXCEPT !.session.current = Len(e.offers)], x, NoApproval)
             /\ [e EXCEPT !.session.current = Len(e.offers)].session.version
                   = b.session.version
  <2> DEFINE c == [e EXCEPT !.session.current = Len(e.offers)]
  <2>1. c = [session |-> t, offers |-> e.offers, approvals |-> e.approvals]
    <3>1. Rows(e) /\ Len(e.offers) = n + 1 /\ n + 1 \in Nat /\ e.session = b.session
      BY <1>1, <1>4, <1>5
    <3>2. [e EXCEPT !.session.current = n + 1]
            = [session |-> [e.session EXCEPT !.current = n + 1], offers |-> e.offers,
               approvals |-> e.approvals]
      BY <3>1, Pointing
    <3> QED BY <3>1, <3>2
  <2> HIDE DEF t, n, c
  <2>2. c.session = t /\ c.offers = e.offers /\ c.approvals = e.approvals
    BY <2>1
  <2>3. Rows(c)
    BY <1>1, <1>2, <1>4, <1>5, <2>1, <2>2 DEF Rows
  <2> QED BY <1>2, <1>4, <1>5, <2>2, <2>3 DEF Opens, Adds, n, c
<1>6. ASSUME Adds(b, e, x, NewApproval), x.status = "PROPOSED", x.by = "BUYER"
      PROVE  /\ Opens(b, [e EXCEPT !.session.current = Len(e.offers),
                                   !.session.status = "WAITING_APPROVAL"], x, NewApproval)
             /\ [e EXCEPT !.session.current = Len(e.offers),
                          !.session.status = "WAITING_APPROVAL"].session.version
                   = b.session.version
  <2> DEFINE c == [e EXCEPT !.session.current = Len(e.offers),
                            !.session.status = "WAITING_APPROVAL"]
  <2>1. c = [session |-> w, offers |-> e.offers, approvals |-> e.approvals]
    <3>1. Rows(e) /\ Len(e.offers) = n + 1 /\ n + 1 \in Nat /\ e.session = b.session
      BY <1>1, <1>4, <1>6
    <3>2. [e EXCEPT !.session.current = n + 1, !.session.status = "WAITING_APPROVAL"]
            = [session |-> [e.session EXCEPT !.current = n + 1, !.status = "WAITING_APPROVAL"],
               offers |-> e.offers, approvals |-> e.approvals]
      BY <3>1, Pointing
    <3> QED BY <3>1, <3>2
  <2> HIDE DEF w, n, c
  <2>2. c.session = w /\ c.offers = e.offers /\ c.approvals = e.approvals
    BY <2>1
  <2>3. Rows(c)
    BY <1>1, <1>3, <1>4, <1>6, <2>1, <2>2 DEF Rows
  <2> QED BY <1>3, <1>4, <1>6, <2>2, <2>3 DEF Opens, Adds, n, c
<1> QED BY <1>5, <1>6

\* A new offer after the open one has made way is a step and a proposal.
LEMMA Proposing ==
    ASSUME NEW b, Sound(b), b.session.status \notin Ended,
           NEW k, Step(b, k), k.session.current = 0, b.session.version < k.session.version,
           NEW c, NEW x, NEW a, Opens(k, c, x, a), k.session.version <= c.session.version,
           Len(k.offers) \in {Len(b.offers), Len(b.offers) + 1}
    PROVE  Step(b, c) /\ Proposes(b, c)
<1>1. /\ b.session.version \in Nat /\ k.session.version \in Nat
      /\ Len(b.offers) \in Nat /\ Len(k.offers) \in Nat
  BY Parts DEF Step, Sound
<1>2. Sound(c) /\ Stands(k, c)
  BY Opening DEF Step
<1>3. c.session.version \in Nat
  BY <1>2, Parts DEF Sound
<1>4. Stands(b, c)
  BY <1>2, StandsCompose DEF Step
<1>5. Step(b, c)
  BY <1>1, <1>2, <1>3, <1>4 DEF Step, Opens
<1>6. Proposes(b, c)
  <2>1. Phase(b) = "open" /\ Phase(c) = "open"
    BY DEF Phase, Opens, Ended
  <2>2. /\ Len(c.offers) = Len(k.offers) + 1 /\ c.session.current = Len(k.offers) + 1
    BY DEF Opens
  <2>3. \A m, l \in Nat : l \in {m, m + 1} => l + 1 \in {m + 1, m + 2}
    OBVIOUS
  <2>4. c.session.current \in {Len(b.offers) + 1, Len(b.offers) + 2}
    BY <1>1, <2>2, <2>3
  <2> QED BY <2>1, <2>2, <2>4 DEF Proposes
<1> QED BY <1>5, <1>6

\* Whether the seller's authority covers the current offer depends on its row only.
LEMMA SameCover ==
    ASSUME NEW b, Rows(b), NEW c, c.session.current = b.session.current,
           \A p \in 1..Len(b.offers) : c.offers[p].by = b.offers[p].by
                                       /\ c.offers[p].status = b.offers[p].status
    PROVE  Covered(c) = Covered(b)
<1>1. b.session.current \in Nat /\ Len(b.offers) \in Nat /\ b.session.current \in 0..Len(b.offers)
  BY Parts
<1>2. b.session.current # 0 => b.session.current \in 1..Len(b.offers)
  BY <1>1
<1> QED BY <1>2 DEF Covered

\* What every proposal starts from.
LEMMA Fits ==
    ASSUME Inv, ProposalFits
    PROVE  /\ TypeOK /\ Sound(Book) /\ session.status \notin Ended
           /\ turn.net \in Nets /\ turn.counter \in Counters \union {0} /\ turn # Idle
<1>1. turn.stage = "ready" /\ turn.kind \in {"SUBMIT", "REPLACE"} /\ session.status \notin Ended
  BY DEF ProposalFits, MayCommit
<1>2. turn.counter \in Counters \union {0}
  BY <1>1 DEF Inv, TypeOK, Turns, Idle
<1> QED BY <1>1, <1>2 DEF Inv, TurnIsHonest, Idle

\* Inputs and replies, by their columns.
Kinds == {"OFFER", "SUBMIT", "REPLACE", "CONFIRM", "WITHDRAW", "CLOSE", "QUERY"}
Inputs == [stage : {"queued", "planned", "ready"}, kind : Kinds,
           net : Nets \union {0}, counter : Counters \union {0}, target : Nat,
           receipt : Receipts, drafted : Nat, expected : Nat]
Outcomes == {"OFFER_ACCEPTED", "WAITING_APPROVAL", "OFFER_REJECTED", "COUNTER_OFFERED",
             "INTENT_CONFIRMED", "OFFER_WITHDRAWN", "SESSION_CLOSED", "NOT_EXECUTED"}
Replies == [stage : {"reply"}, outcome : Outcomes, offer : Nat, version : Nat]

\* A turn is idle, an input or a reply owed.
LEMMA TurnKinds == Turns = {Idle} \union Inputs \union Replies
BY DEF Turns, Inputs, Replies, Kinds, Outcomes

\* What a commit leaves behind is a reply.
LEMMA Owing ==
    ASSUME NEW outcome \in Outcomes, NEW o \in Nat, NEW b, b.session.version \in Nat
    PROVE  Owed(outcome, o, b) \in Replies
BY DEF Owed, Replies

\* A refused proposal leaves the open offer as it is.
LEMMA RejectSteps ==
    ASSUME Inv, Reject
    PROVE  Step(Book, Book') /\ Refuses(Book, Book') /\ turn' \in Replies
<1> DEFINE x == NewOffer("BUYER", turn.net, "REJECTED")
           d == Counted(Book)
           c == Entered(d, x, NoApproval)
<1>1. ProposalFits /\ Store(c) /\ turn' = Owed("OFFER_REJECTED", Len(c.offers), c)
  BY DEF Reject, ProposalCounts
<1>2. TypeOK /\ Sound(Book) /\ session.status \notin Ended /\ turn.net \in Nets
  BY <1>1, Fits
<1>3. x \in Offers /\ x.status = "REJECTED"
  BY <1>2, NewOffers
<1> HIDE DEF x
<1>4. Recounts(Book, d) /\ Step(Book, d) /\ Sound(d) /\ Rows(d)
  BY <1>2, Counting, Recounting DEF Step, Sound
<1> HIDE DEF d
<1>5. Adds(d, c, x, NoApproval)
  BY <1>3, <1>4, Adding, NewApprovals
<1> HIDE DEF c
<1>6. Step(d, c) /\ c.session = d.session /\ Rows(c)
  BY <1>3, <1>4, <1>5, AddingARefusedOffer DEF Step, Sound
<1>7. Step(Book, c)
  BY <1>2, <1>4, <1>6, StepsCompose
<1>8. Book' = c
  BY <1>1, <1>6, Storing
<1>9. /\ c.session.current = Book.session.current /\ c.session.status = Book.session.status
      /\ Len(c.offers) = Len(Book.offers) + 1
      /\ \A p \in 1..Len(Book.offers) : c.offers[p] = Book.offers[p]
  BY <1>4, <1>5, <1>6 DEF Recounts, Adds
<1>10. Covered(c) = Covered(Book)
  BY <1>2, <1>9, SameCover DEF Sound
<1>11. Refuses(Book, c)
  BY <1>2, <1>9, <1>10, TheBook DEF Refuses, Phase, Ended
<1>12. turn' \in Replies
  BY <1>1, <1>6, Parts, Owing DEF Outcomes
<1> QED BY <1>7, <1>8, <1>11, <1>12

\* An accepted proposal takes the place of the open offer.
LEMMA AcceptSteps ==
    ASSUME Inv, Accept
    PROVE  Step(Book, Book') /\ Proposes(Book, Book') /\ turn' \in Replies
<1> DEFINE x == NewOffer("BUYER", turn.net, "ACCEPTED")
           e == Entered(Replaced, x, NoApproval)
           c == [e EXCEPT !.session.current = Len(e.offers)]
<1>1. ProposalFits /\ Store(c) /\ turn' = Owed("OFFER_ACCEPTED", Len(e.offers), e)
  BY DEF Accept, ProposalCounts
<1>2. /\ TypeOK /\ Sound(Book) /\ session.status \notin Ended
      /\ turn.net \in Nets
  BY <1>1, Fits
<1>3. x \in Offers /\ x.status \in OpenStatus
  BY <1>2, NewOffers DEF OpenStatus
<1> HIDE DEF x
<1>4. /\ Sound(Replaced) /\ Rows(Replaced) /\ Step(Book, Replaced)
      /\ Replaced.session.current = 0 /\ Replaced.session.status = "ACTIVE"
      /\ Replaced.session.version = session.version + 1
      /\ Len(Replaced.offers) = Len(offers) /\ session.version \in Nat
  BY <1>2, Replacing, Parts, TheBook DEF Sound
<1>5. Adds(Replaced, e, x, NoApproval)
  BY <1>3, <1>4, Adding, NewApprovals
<1> HIDE DEF e
<1>6. Opens(Replaced, c, x, NoApproval) /\ c.session.version = Replaced.session.version
  BY <1>3, <1>4, <1>5, Installing
<1> HIDE DEF c
<1>7. Step(Book, c) /\ Proposes(Book, c)
  BY <1>2, <1>4, <1>6, Proposing, TheBook
<1>8. Book' = c
  BY <1>1, <1>7, Storing DEF Step, Sound
<1>9. turn' \in Replies
  <2>1. e.session.version \in Nat /\ Len(e.offers) \in Nat
    BY <1>4, <1>5, LenProperties DEF Adds
  <2> QED BY <1>1, <2>1, Owing DEF Outcomes
<1> QED BY <1>7, <1>8, <1>9

\* So does one that waits for the seller.
LEMMA AskSellerSteps ==
    ASSUME Inv, AskSeller
    PROVE  Step(Book, Book') /\ Proposes(Book, Book') /\ turn' \in Replies
<1> DEFINE x == NewOffer("BUYER", turn.net, "PROPOSED")
           e == Entered(Replaced, x, NewApproval)
           c == [e EXCEPT !.session.current = Len(e.offers),
                          !.session.status = "WAITING_APPROVAL"]
<1>1. ProposalFits /\ Store(c) /\ turn' = Owed("WAITING_APPROVAL", Len(e.offers), e)
  BY DEF AskSeller, ProposalCounts
<1>2. /\ TypeOK /\ Sound(Book) /\ session.status \notin Ended
      /\ turn.net \in Nets
  BY <1>1, Fits
<1>3. x \in Offers /\ x.status = "PROPOSED" /\ x.by = "BUYER"
  BY <1>2, NewOffers DEF OpenStatus
<1> HIDE DEF x
<1>4. /\ Sound(Replaced) /\ Rows(Replaced) /\ Step(Book, Replaced)
      /\ Replaced.session.current = 0 /\ Replaced.session.status = "ACTIVE"
      /\ Replaced.session.version = session.version + 1
      /\ Len(Replaced.offers) = Len(offers) /\ session.version \in Nat
  BY <1>2, Replacing, Parts, TheBook DEF Sound
<1>5. Adds(Replaced, e, x, NewApproval)
  BY <1>3, <1>4, Adding, NewApprovals
<1> HIDE DEF e
<1>6. Opens(Replaced, c, x, NewApproval) /\ c.session.version = Replaced.session.version
  BY <1>3, <1>4, <1>5, Installing
<1> HIDE DEF c
<1>7. Step(Book, c) /\ Proposes(Book, c)
  BY <1>2, <1>4, <1>6, Proposing, TheBook
<1>8. Book' = c
  BY <1>1, <1>7, Storing DEF Step, Sound
<1>9. turn' \in Replies
  <2>1. e.session.version \in Nat /\ Len(e.offers) \in Nat
    BY <1>4, <1>5, LenProperties DEF Adds
  <2> QED BY <1>1, <2>1, Owing DEF Outcomes
<1> QED BY <1>7, <1>8, <1>9

\* A counter-offer takes that place after the proposal was refused.
LEMMA CounterSteps ==
    ASSUME Inv, Counter
    PROVE  Step(Book, Book') /\ Proposes(Book, Book') /\ turn' \in Replies
<1> DEFINE x == NewOffer("BUYER", turn.net, "REJECTED")
           y == NewOffer("AGENT", turn.counter, "PROPOSED")
           r == Entered(Replaced, x, NoApproval)
           e == Entered(r, y, NoApproval)
           c == [e EXCEPT !.session.current = Len(e.offers)]
<1>1. /\ ProposalFits /\ Store(c) /\ turn.counter # 0
      /\ turn' = Owed("COUNTER_OFFERED", Len(e.offers), e)
  BY DEF Counter, ProposalCounts
<1>2. /\ TypeOK /\ Sound(Book) /\ session.status \notin Ended
      /\ turn.net \in Nets /\ turn.counter \in Counters
  BY <1>1, Fits
<1>3. x \in Offers /\ x.status = "REJECTED"
  BY <1>2, NewOffers
<1>4. y \in Offers /\ y.status \in OpenStatus
  BY <1>2, NewOffers DEF OpenStatus
<1> HIDE DEF x, y
<1>5. /\ Sound(Replaced) /\ Rows(Replaced) /\ Step(Book, Replaced)
      /\ Replaced.session.current = 0 /\ Replaced.session.status = "ACTIVE"
      /\ Replaced.session.version = session.version + 1
      /\ Len(Replaced.offers) = Len(offers) /\ session.version \in Nat
  BY <1>2, Replacing, Parts, TheBook DEF Sound
<1>6. Adds(Replaced, r, x, NoApproval)
  BY <1>3, <1>5, Adding, NewApprovals
<1> HIDE DEF r
<1>7. Step(Replaced, r) /\ r.session = Replaced.session /\ Sound(r) /\ Rows(r)
  BY <1>3, <1>5, <1>6, AddingARefusedOffer DEF Step, Sound
<1>8. Adds(r, e, y, NoApproval)
  BY <1>4, <1>7, Adding, NewApprovals
<1> HIDE DEF e
<1>9. r.session.current = 0 /\ r.session.status = "ACTIVE"
  BY <1>5, <1>7
<1>10. Opens(r, c, y, NoApproval) /\ c.session.version = r.session.version
  BY <1>4, <1>7, <1>8, <1>9, Installing
<1> HIDE DEF c
<1>11. Step(Book, r) /\ Len(r.offers) = Len(Book.offers) + 1
  BY <1>2, <1>5, <1>6, <1>7, StepsCompose, TheBook DEF Adds
<1>12. /\ Book.session.version < r.session.version
       /\ r.session.version <= c.session.version
  BY <1>5, <1>7, <1>10, TheBook
<1>13. Book.session.status \notin Ended
  BY <1>2, TheBook
<1>14. Step(Book, c) /\ Proposes(Book, c)
  BY <1>2, <1>9, <1>10, <1>11, <1>12, <1>13, Proposing
<1>15. Book' = c
  BY <1>1, <1>14, Storing DEF Step, Sound
<1>16. turn' \in Replies
  <2>1. e.session.version \in Nat /\ Len(e.offers) \in Nat
    BY <1>5, <1>7, <1>8, LenProperties DEF Adds
  <2> QED BY <1>1, <2>1, Owing DEF Outcomes
<1> QED BY <1>14, <1>15, <1>16

\* The session of b loses its current offer and gets a status.
Vacates(b, c, status) ==
    c = [b EXCEPT !.session.current = 0, !.session.status = status]

\* The status of a session without an open offer is written.
LEMMA Vacating ==
    ASSUME NEW b, Sound(b), b.session.current = 0, NEW status \in {"ACTIVE", "CLOSED"},
           NEW c, Vacates(b, c, status)
    PROVE  /\ Sound(c) /\ Stands(b, c) /\ c.offers = b.offers
           /\ c.session.current = 0 /\ c.session.status = status
           /\ c.session.version = b.session.version
<1> DEFINE s == [b.session EXCEPT !.current = 0]
           t == [s EXCEPT !.status = status]
<1>1. b.session \in Sessions /\ Rows(b) /\ Len(b.offers) \in Nat
  BY Parts DEF Sound
<1>2. s \in Sessions /\ s.current = 0 /\ s.version = b.session.version
  BY <1>1 DEF Sessions
<1> HIDE DEF s
<1>3. /\ t \in Sessions /\ t.current = 0 /\ t.version = b.session.version
      /\ t.status = status
  BY <1>2 DEF Sessions, Ended
<1>4. c = [session |-> t, offers |-> b.offers, approvals |-> b.approvals]
  <2>1. c = [session |-> [b.session EXCEPT !.current = 0, !.status = status],
             offers |-> b.offers, approvals |-> b.approvals]
    BY <1>1, Pointing DEF Vacates
  <2>2. t = [b.session EXCEPT !.current = 0, !.status = status]
    BY DEF s
  <2> QED BY <2>1, <2>2
<1> HIDE DEF t
<1>5. c.session = t /\ c.offers = b.offers /\ c.approvals = b.approvals
  BY <1>4
<1>6. Rows(c)
  BY <1>1, <1>3, <1>4, <1>5 DEF Rows
<1>7. OneOpen(c)
  BY <1>3, <1>5 DEF OneOpen, Sound
<1>8. Waits(c)
  <2>1. \A o \in 1..Len(b.offers) : ~Awaited(b.approvals[o])
    BY NoCurrent
  <2>2. c.session.status # "WAITING_APPROVAL"
    BY <1>3, <1>5
  <2> QED BY <1>5, <2>1, <2>2 DEF Waits
<1>9. Decided(c)
  BY <1>3, <1>5 DEF Decided, Sound
<1>10. Stands(b, c)
  BY <1>5, Unmoved DEF Stands
<1> QED BY <1>3, <1>5, <1>6, <1>7, <1>8, <1>9, <1>10 DEF Sound

\* Ending the current offer, counting and writing the status is one step.
LEMMA Leaving ==
    ASSUME Sound(Book), NEW o, o = session.current, NEW status \in {"ACTIVE", "CLOSED"},
           Store([Bump(Kill(Book, o)) EXCEPT !.session.current = 0, !.session.status = status])
    PROVE  /\ Step(Book, Book') /\ Len(Book'.offers) = Len(Book.offers)
           /\ Book'.session.current = 0 /\ Book'.session.status = status
           /\ Bump(Kill(Book, o)).session.version \in Nat
<1> DEFINE k == Kill(Book, o)
           b == Bump(k)
           c == [b EXCEPT !.session.current = 0, !.session.status = status]
<1>1. /\ Sound(k) /\ Stands(Book, k) /\ Len(k.offers) = Len(Book.offers)
      /\ k.session.current = 0 /\ k.session.version = Book.session.version
  BY Killing, TheBook
<1> HIDE DEF k
<1>2. /\ Sound(b) /\ Stands(k, b) /\ b.offers = k.offers
      /\ b.session.version = k.session.version + 1 /\ b.session.current = 0
  BY <1>1, Bumping
<1> HIDE DEF b
<1>3. Store(c) /\ Vacates(b, c, status)
  BY DEF b, k, Vacates
<1> HIDE DEF c
<1>4. /\ Sound(c) /\ Stands(b, c) /\ c.offers = b.offers
      /\ c.session.current = 0 /\ c.session.status = status
      /\ c.session.version = b.session.version
  BY <1>2, <1>3, Vacating
<1>5. Book' = c
  BY <1>3, <1>4, Storing DEF Sound
<1>6. /\ Len(Book.offers) \in Nat /\ Book.session.version \in Nat
      /\ k.session.version \in Nat
  BY <1>1, Parts DEF Sound
<1>7. Stands(Book, b)
  BY <1>1, <1>2, <1>6, StandsCompose
<1>8. Len(Book.offers) <= Len(b.offers) /\ Len(c.offers) = Len(Book.offers)
  BY <1>1, <1>2, <1>4, <1>6
<1>9. Stands(Book, c)
  BY <1>2, <1>4, <1>7, <1>8, StandsCompose
<1>10. Step(Book, c)
  BY <1>1, <1>2, <1>4, <1>6, <1>8, <1>9 DEF Step
<1>11. b.session.version \in Nat
  BY <1>2, <1>6
<1> QED BY <1>4, <1>5, <1>8, <1>10, <1>11 DEF b, k

\* Withdrawing drops the open offer.
LEMMA WithdrawSteps ==
    ASSUME Inv, Withdraw
    PROVE  Step(Book, Book') /\ Drops(Book, Book') /\ turn' \in Replies
<1>1. /\ Sound(Book) /\ session.current # 0 /\ turn.target = session.current
      /\ session.status \notin Ended
      /\ Store([Bump(Kill(Book, turn.target)) EXCEPT !.session.current = 0,
                                                      !.session.status = "ACTIVE"])
      /\ turn' = Owed("OFFER_WITHDRAWN", turn.target, Bump(Kill(Book, turn.target)))
  BY DEF Inv, Withdraw, MayCommit
<1>2. /\ Step(Book, Book') /\ Len(Book'.offers) = Len(Book.offers)
      /\ Book'.session.current = 0 /\ Book'.session.status = "ACTIVE"
  BY <1>1, Leaving
<1>3. turn' \in Replies
  <2>1. session.current \in Nat
    BY <1>1, Parts, TheBook DEF Sound
  <2>2. Bump(Kill(Book, session.current)).session.version \in Nat
    BY <1>1, Leaving
  <2> QED BY <1>1, <2>1, <2>2, Owing DEF Outcomes
<1> QED BY <1>1, <1>2, <1>3, TheBook DEF Drops, Phase, Ended

\* Closing ends the session without one.
LEMMA CloseSteps ==
    ASSUME Inv, Close
    PROVE  Step(Book, Book') /\ Closes(Book, Book') /\ turn' \in Replies
<1>1. /\ Sound(Book) /\ session.status \notin Ended
      /\ Store([Bump(Kill(Book, session.current)) EXCEPT !.session.current = 0,
                                                          !.session.status = "CLOSED"])
      /\ turn' = Owed("SESSION_CLOSED", session.current, Bump(Kill(Book, session.current)))
  BY DEF Inv, Close, MayCommit
<1>2. /\ Step(Book, Book') /\ Len(Book'.offers) = Len(Book.offers)
      /\ Book'.session.current = 0 /\ Book'.session.status = "CLOSED"
  BY <1>1, Leaving
<1>3. turn' \in Replies
  <2>1. session.current \in Nat
    BY <1>1, Parts, TheBook DEF Sound
  <2>2. Bump(Kill(Book, session.current)).session.version \in Nat
    BY <1>1, Leaving
  <2> QED BY <1>1, <2>1, <2>2, Owing DEF Outcomes
<1> QED BY <1>1, <1>2, <1>3, TheBook DEF Closes, Phase, Ended

\* What reconciling an approval does to the book, whichever offer it is for.
LEMMA ReconcilingSteps ==
    ASSUME NEW b, Sound(b), NEW o \in 1..Len(b.offers), b.approvals[o].status # "NONE",
           NEW r, r = Reconciled(b, o)
    PROVE  /\ Step(b, r) /\ (Drops(b, r) \/ Keeps(b, r))
           /\ r # b => r.approvals[o].effect = "INVALIDATED"
<1>1. /\ b.session.version \in Nat /\ Len(b.offers) \in Nat
      /\ b.session.status \in {"ACTIVE", "WAITING_APPROVAL", "AGREED", "CLOSED"}
      /\ b.session.status = "CLOSED" => b.session.current = 0
  BY Parts DEF Sound, Decided
<1>2. CASE r = b
  <2>1. Step(b, r)
    BY <1>1, <1>2, Unmoved DEF Step
  <2>2. Keeps(b, r)
    BY <1>2 DEF Keeps
  <2> QED BY <1>2, <2>1, <2>2
<1>3. CASE r # b /\ o = b.session.current
  <2>1. /\ EndsOffer(b, r, o)
        /\ r.session.version = b.session.version + 1
        /\ b.session.status # "AGREED" /\ r.session.status \notin Ended
        /\ r.approvals[o].effect = "INVALIDATED"
    BY <1>3, ReconcilingTheCurrent
  <2>2. Sound(r) /\ Stands(b, r)
    BY <2>1, EndingAnOffer
  <2>3. Step(b, r)
    BY <1>1, <2>1, <2>2 DEF Step, EndsOffer
  <2>4. Drops(b, r)
    BY <1>1, <1>3, <2>1 DEF Drops, EndsOffer, Phase, Ended
  <2> QED BY <2>1, <2>3, <2>4
<1>4. CASE r # b /\ o # b.session.current
  <2>1. /\ Sound(r) /\ Stands(b, r) /\ r.session = b.session /\ r.offers = b.offers
        /\ r.approvals[o].effect = "INVALIDATED"
    BY <1>4, ReconcilingAnOldOne
  <2>2. Step(b, r)
    BY <1>1, <2>1 DEF Step
  <2>3. Keeps(b, r)
    BY <2>1 DEF Keeps, Phase, Covered
  <2> QED BY <2>1, <2>2, <2>3
<1> QED BY <1>2, <1>3, <1>4

\* The approval runner drops the current offer or changes nothing that shows.
LEMMA ReconcileSteps ==
    ASSUME Inv, NEW o \in DOMAIN offers, Reconcile(o)
    PROVE  Step(Book, Book') /\ (Drops(Book, Book') \/ Keeps(Book, Book'))
<1> DEFINE r == Reconciled(Book, o)
<1>1. Sound(Book) /\ o \in 1..Len(Book.offers) /\ Book.approvals[o].status # "NONE" /\ Store(r)
  BY TheBook DEF Inv, TypeOK, Reconcile
<1> HIDE DEF r
<1>2. Step(Book, r) /\ (Drops(Book, r) \/ Keeps(Book, r))
  BY <1>1, ReconcilingSteps DEF r
<1>3. Book' = r
  BY <1>1, <1>2, Storing DEF Step, Sound
<1> QED BY <1>2, <1>3

\* So does the lifecycle loop, with an approval or without.
LEMMA LifecycleSteps ==
    ASSUME Inv, Lifecycle
    PROVE  Step(Book, Book') /\ (Drops(Book, Book') \/ Keeps(Book, Book'))
<1>1. /\ Sound(Book) /\ Book.session.current # 0 /\ Book.session.current \in 1..Len(Book.offers)
      /\ Book.session.status \notin Ended
      /\ Book.session.version \in Nat /\ Len(Book.offers) \in Nat
  BY Parts, TheBook DEF Inv, Lifecycle, Sound
<1>2. PICK o \in 1..Len(Book.offers) : o = Book.session.current
  BY <1>1
<1>3. CASE approvals[session.current].status # "NONE"
  <2> DEFINE r == Reconciled(Book, o)
  <2>1. Book.approvals[o].status # "NONE" /\ Store(r)
    BY <1>2, <1>3, TheBook DEF Lifecycle
  <2> HIDE DEF r
  <2>2. Step(Book, r) /\ (Drops(Book, r) \/ Keeps(Book, r))
    BY <1>1, <1>2, <2>1, ReconcilingSteps DEF r
  <2>3. Book' = r
    BY <2>1, <2>2, Storing DEF Step, Sound
  <2> QED BY <2>2, <2>3
<1>4. CASE approvals[session.current].status = "NONE"
  <2> DEFINE d == Bump(Book)
             k == Kill(d, d.session.current)
  <2>1. /\ Sound(d) /\ Stands(Book, d) /\ d.offers = Book.offers
        /\ d.session.version = Book.session.version + 1
        /\ d.session.current = Book.session.current /\ d.session.status = Book.session.status
    BY <1>1, Bumping
  <2>2. Store(Kill(d, d.session.current))
    BY <1>4, <2>1, TheBook DEF Lifecycle
  <2> HIDE DEF d
  <2>3. /\ Sound(k) /\ Stands(d, k) /\ Len(k.offers) = Len(d.offers)
        /\ k.session.current = 0 /\ k.session.version = d.session.version
        /\ k.session.status = IF d.session.status = "WAITING_APPROVAL" THEN "ACTIVE"
                              ELSE d.session.status
    BY <2>1, Killing
  <2>4. Book' = k
    BY <2>2, <2>3, Storing DEF Sound
  <2> HIDE DEF k
  <2>5. Stands(Book, k)
    BY <1>1, <2>1, <2>3, StandsCompose
  <2>6. Step(Book, k)
    BY <1>1, <2>1, <2>3, <2>5 DEF Step
  <2>7. Drops(Book, k)
    BY <1>1, <2>1, <2>3 DEF Drops, Phase, Ended
  <2> QED BY <2>4, <2>6, <2>7
<1> QED BY <1>3, <1>4

\* Nothing changes that the session looks at: time passes over a row, or the seller
\* approves, which has no effect yet.
Notes(b, c) ==
    /\ Rows(c) /\ c.session = b.session /\ Len(c.offers) = Len(b.offers)
    /\ \A p \in 1..Len(b.offers) :
          /\ c.offers[p].by = b.offers[p].by /\ c.offers[p].status = b.offers[p].status
          /\ c.approvals[p].effect = b.approvals[p].effect
          /\ \/ c.approvals[p].status = b.approvals[p].status
             \/ b.approvals[p].status = "PENDING" /\ c.approvals[p].status = "APPROVED"

\* Such a note is a step that changes nothing the parties would notice.
LEMMA Noting ==
    ASSUME NEW b, Sound(b), NEW c, Notes(b, c)
    PROVE  Step(b, c) /\ Keeps(b, c)
<1> USE DEF Notes
<1>1. /\ b.session.version \in Nat /\ Len(b.offers) \in Nat /\ Rows(b)
      /\ b.session.current \in 0..Len(b.offers)
      /\ OneOpen(b) /\ Waits(b) /\ Decided(b)
  BY Parts DEF Sound
<1>2. OneOpen(c)
  BY <1>1 DEF OneOpen
<1>3. \A p \in 1..Len(b.offers) : Awaited(c.approvals[p]) <=> Awaited(b.approvals[p])
  BY DEF Awaited
<1>4. Waits(c)
  <2>1. ASSUME NEW p \in 1..Len(c.offers), Awaited(c.approvals[p])
        PROVE  /\ c.session.current = p /\ c.session.status = "WAITING_APPROVAL"
               /\ c.approvals[p].status \in {"PENDING", "APPROVED"}
               /\ c.offers[p].status = "PROPOSED" /\ c.offers[p].by = "BUYER"
    BY <1>1, <1>3, <2>1 DEF Waits
  <2>2. ASSUME c.session.status = "WAITING_APPROVAL"
        PROVE  c.session.current # 0 /\ Awaited(c.approvals[c.session.current])
    <3>1. /\ b.session.current # 0 /\ b.session.current \in 1..Len(b.offers)
          /\ Awaited(b.approvals[b.session.current])
      BY <1>1, <2>2 DEF Waits
    <3> QED BY <1>3, <3>1
  <2> QED BY <2>1, <2>2 DEF Waits
<1>5. Decided(c)
  BY <1>1 DEF Decided
<1>6. Stands(b, c)
  BY <1>1 DEF Stands, Decided
<1>7. Step(b, c)
  BY <1>1, <1>2, <1>4, <1>5, <1>6 DEF Step, Sound
<1>8. Covered(c) = Covered(b)
  BY <1>1, SameCover
<1> QED BY <1>7, <1>8 DEF Keeps, Phase

\* A row of the approvals is rewritten.
LEMMA Rewritten ==
    ASSUME NEW rows \in Seq(Approvals), NEW o \in 1..Len(rows), NEW a \in Approvals
    PROVE  /\ [rows EXCEPT ![o] = a] \in Seq(Approvals)
           /\ Len([rows EXCEPT ![o] = a]) = Len(rows)
           /\ [rows EXCEPT ![o] = a][o] = a
           /\ \A p \in 1..Len(rows) : p # o => [rows EXCEPT ![o] = a][p] = rows[p]
<1>1. [rows EXCEPT ![o] = a] \in Seq(Approvals)
  OBVIOUS
<1>2. Len([rows EXCEPT ![o] = a]) = Len(rows)
  OBVIOUS
<1>3. [rows EXCEPT ![o] = a][o] = a
  OBVIOUS
<1>4. \A p \in 1..Len(rows) : p # o => [rows EXCEPT ![o] = a][p] = rows[p]
  OBVIOUS
<1> QED BY <1>1, <1>2, <1>3, <1>4

\* And one of the offers.
LEMMA Reopened ==
    ASSUME NEW rows \in Seq(Offers), NEW o \in 1..Len(rows), NEW x \in Offers
    PROVE  /\ [rows EXCEPT ![o] = x] \in Seq(Offers)
           /\ Len([rows EXCEPT ![o] = x]) = Len(rows)
           /\ [rows EXCEPT ![o] = x][o] = x
           /\ \A p \in 1..Len(rows) : p # o => [rows EXCEPT ![o] = x][p] = rows[p]
<1>1. [rows EXCEPT ![o] = x] \in Seq(Offers)
  OBVIOUS
<1>2. Len([rows EXCEPT ![o] = x]) = Len(rows)
  OBVIOUS
<1>3. [rows EXCEPT ![o] = x][o] = x
  OBVIOUS
<1>4. \A p \in 1..Len(rows) : p # o => [rows EXCEPT ![o] = x][p] = rows[p]
  OBVIOUS
<1> QED BY <1>1, <1>2, <1>3, <1>4

\* The end of an approval is only noted.
LEMMA ApprovalLapsesSteps ==
    ASSUME Inv, NEW o \in DOMAIN offers, ApprovalLapses(o)
    PROVE  Step(Book, Book') /\ Keeps(Book, Book')
<1> DEFINE a == [approvals[o] EXCEPT !.late = TRUE]
           v == [approvals EXCEPT ![o] = a]
<1>1. /\ Sound(Book) /\ Rows(Book) /\ approvals \in Seq(Approvals) /\ offers \in Seq(Offers)
      /\ Len(approvals) = Len(offers) /\ Len(offers) \in Nat
  BY Parts, TheBook DEF Inv, Sound
<1>2. o \in 1..Len(offers) /\ o \in 1..Len(approvals)
  BY <1>1
<1>3. approvals[o] \in Approvals
  BY <1>1, <1>2, ElementOfSeq
<1>4. a \in Approvals /\ a.status = approvals[o].status /\ a.effect = approvals[o].effect
  BY <1>3 DEF Approvals
<1>5. approvals' = v /\ session' = session /\ offers' = offers
  BY DEF ApprovalLapses
<1> HIDE DEF a
<1>6. /\ v \in Seq(Approvals) /\ Len(v) = Len(approvals) /\ v[o] = a
      /\ \A p \in 1..Len(approvals) : p # o => v[p] = approvals[p]
  BY <1>1, <1>2, <1>4, Rewritten
<1> HIDE DEF v
<1>7. Book' = [session |-> session, offers |-> offers, approvals |-> v]
  BY <1>5 DEF Book
<1>8. Rows(Book')
  BY <1>1, <1>5, <1>6, <1>7, TheBook DEF Rows
<1>9. Notes(Book, Book')
  BY <1>1, <1>4, <1>5, <1>6, <1>8, TheBook DEF Notes
<1> QED BY <1>1, <1>9, Noting

\* So is the end of an offer.
LEMMA OfferLapsesSteps ==
    ASSUME Inv, OfferLapses
    PROVE  Step(Book, Book') /\ Keeps(Book, Book')
<1>1. /\ Sound(Book) /\ Rows(Book) /\ approvals \in Seq(Approvals) /\ offers \in Seq(Offers)
      /\ Len(approvals) = Len(offers) /\ Len(offers) \in Nat
      /\ session.current # 0 /\ session.current \in 0..Len(offers)
  BY Parts, TheBook DEF Inv, Sound, OfferLapses
<1>2. PICK o \in 1..Len(offers) : o = session.current
  BY <1>1
<1>3. PICK late \in BOOLEAN :
         /\ session' = session /\ offers' = [offers EXCEPT ![o] = [offers[o] EXCEPT !.lapsed = TRUE]]
         /\ approvals' = [approvals EXCEPT ![o] = [approvals[o] EXCEPT !.late = late]]
  <2>1. PICK quoteOnly \in BOOLEAN :
           approvals' = [approvals EXCEPT ![o].late =
                          approvals[o].status = "PENDING" /\ (approvals[o].late \/ ~quoteOnly)]
    BY <1>2 DEF OfferLapses
  <2> QED BY <1>2, <2>1 DEF OfferLapses
<1> DEFINE a == [approvals[o] EXCEPT !.late = late]
           x == [offers[o] EXCEPT !.lapsed = TRUE]
           v == [approvals EXCEPT ![o] = a]
           os == [offers EXCEPT ![o] = x]
<1>4. approvals[o] \in Approvals /\ offers[o] \in Offers /\ o \in 1..Len(approvals)
  BY <1>1, ElementOfSeq
<1>5. a \in Approvals /\ a.status = approvals[o].status /\ a.effect = approvals[o].effect
  BY <1>4 DEF Approvals
<1>6. x \in Offers /\ x.status = offers[o].status /\ x.by = offers[o].by
  BY <1>4 DEF Offers
<1>7. approvals' = v /\ session' = session /\ offers' = os
  BY <1>3
<1> HIDE DEF a, x
<1>8. /\ v \in Seq(Approvals) /\ Len(v) = Len(approvals) /\ v[o] = a
      /\ \A p \in 1..Len(approvals) : p # o => v[p] = approvals[p]
  BY <1>1, <1>4, <1>5, Rewritten
<1>9. /\ os \in Seq(Offers) /\ Len(os) = Len(offers) /\ os[o] = x
      /\ \A p \in 1..Len(offers) : p # o => os[p] = offers[p]
  BY <1>1, <1>6, Reopened
<1> HIDE DEF v, os
<1>10. Book' = [session |-> session, offers |-> os, approvals |-> v]
  BY <1>7 DEF Book
<1>11. Rows(Book')
  BY <1>1, <1>7, <1>8, <1>9, <1>10, TheBook DEF Rows
<1>12. Notes(Book, Book')
  BY <1>1, <1>5, <1>6, <1>7, <1>8, <1>9, <1>11, TheBook DEF Notes
<1> QED BY <1>1, <1>12, Noting

\* The seller's decision d on the approval of offer o, by itself ...
Recorded(b, o, d) == [b EXCEPT !.approvals[o] = d]
\* ... and a rejection of the current offer with what it entails.
Cleared(b, o, d) ==
    [Bump([Recorded(b, o, d) EXCEPT !.offers[o].status = "REJECTED"])
        EXCEPT !.session.current = 0, !.session.status = "ACTIVE"]

\* A decision is written to the row of the approval only.
LEMMA Recording ==
    ASSUME NEW b, Rows(b), NEW o \in 1..Len(b.offers), NEW d
    PROVE  Recorded(b, o, d) = [session |-> b.session, offers |-> b.offers,
                                approvals |-> [b.approvals EXCEPT ![o] = d]]
<1>1. b = [session |-> b.session, offers |-> b.offers, approvals |-> b.approvals]
  BY Parts
<1> QED BY <1>1 DEF Recorded

\* An approval is noted: it has no effect before Apply.
LEMMA Approving ==
    ASSUME NEW b, Sound(b), NEW o \in 1..Len(b.offers), b.approvals[o].status = "PENDING",
           NEW d \in Approvals, d.status = "APPROVED", d.effect = "NOT_APPLIED"
    PROVE  Notes(b, Recorded(b, o, d))
<1> DEFINE v == [b.approvals EXCEPT ![o] = d]
           c == Recorded(b, o, d)
<1>1. /\ b = [session |-> b.session, offers |-> b.offers, approvals |-> b.approvals]
      /\ Rows(b) /\ b.approvals \in Seq(Approvals) /\ Len(b.offers) \in Nat
      /\ Len(b.approvals) = Len(b.offers) /\ o \in 1..Len(b.approvals)
      /\ b.approvals[o].effect = "NOT_APPLIED"
  BY Parts DEF Sound, Decided
<1>2. /\ v \in Seq(Approvals) /\ Len(v) = Len(b.approvals) /\ v[o] = d
      /\ \A p \in 1..Len(b.approvals) : p # o => v[p] = b.approvals[p]
  BY <1>1, Rewritten
<1>3. c = [session |-> b.session, offers |-> b.offers, approvals |-> v]
  BY <1>1, Recording
<1> HIDE DEF v, c
<1>4. c.session = b.session /\ c.offers = b.offers /\ c.approvals = v
  BY <1>3
<1>5. Rows(c)
  BY <1>1, <1>2, <1>3, <1>4 DEF Rows
<1> QED BY <1>1, <1>2, <1>4, <1>5 DEF Notes, c

\* A rejection ends the current offer.
LEMMA Rejecting ==
    ASSUME NEW b, Sound(b), NEW o \in 1..Len(b.offers), b.approvals[o].status = "PENDING",
           o = b.session.current,
           NEW d \in Approvals, d.status = "REJECTED", d.effect = "APPLIED"
    PROVE  /\ EndsOffer(b, Cleared(b, o, d), o)
           /\ Cleared(b, o, d).session.version = b.session.version + 1
           /\ Cleared(b, o, d).session.status = "ACTIVE"
<1> DEFINE v == [b.approvals EXCEPT ![o] = d]
           x == [b.offers[o] EXCEPT !.status = "REJECTED"]
           os == [b.offers EXCEPT ![o] = x]
           s == [b.session EXCEPT !.version = b.session.version + 1]
           t == [s EXCEPT !.current = 0]
           u == [t EXCEPT !.status = "ACTIVE"]
           c == Recorded(b, o, d)
           e == [c EXCEPT !.offers[o].status = "REJECTED"]
           f == Bump(e)
           g == Cleared(b, o, d)
<1>1. /\ b = [session |-> b.session, offers |-> b.offers, approvals |-> b.approvals]
      /\ Rows(b) /\ b.approvals \in Seq(Approvals) /\ Len(b.offers) \in Nat
      /\ b.offers \in Seq(Offers) /\ b.session \in Sessions /\ b.session.version \in Nat
      /\ Len(b.approvals) = Len(b.offers) /\ o \in 1..Len(b.approvals)
      /\ b.approvals[o].effect = "NOT_APPLIED" /\ b.session.current \in 0..Len(b.offers)
  BY Parts DEF Sound, Decided
<1>2. /\ v \in Seq(Approvals) /\ Len(v) = Len(b.approvals) /\ v[o] = d
      /\ \A p \in 1..Len(b.approvals) : p # o => v[p] = b.approvals[p]
  BY <1>1, Rewritten
<1>3. x \in Offers /\ x.status = "REJECTED"
  <2>1. b.offers[o] \in Offers
    BY <1>1, ElementOfSeq
  <2> QED BY <2>1 DEF Offers
<1>4. c = [session |-> b.session, offers |-> b.offers, approvals |-> v]
  BY <1>1, Recording
<1>5. e = [session |-> b.session, offers |-> os, approvals |-> v]
  <2> HIDE DEF v, c
  <2>1. [[session |-> b.session, offers |-> b.offers, approvals |-> v]
            EXCEPT !.offers[o].status = "REJECTED"]
          = [session |-> b.session, offers |-> os, approvals |-> v]
    OBVIOUS
  <2> QED BY <1>4, <2>1
<1> HIDE DEF c, x
<1>6. /\ os \in Seq(Offers) /\ Len(os) = Len(b.offers) /\ os[o] = x
      /\ \A p \in 1..Len(b.offers) : p # o => os[p] = b.offers[p]
  BY <1>1, <1>3, Reopened
<1> HIDE DEF v, os, e
<1>7. s \in Sessions /\ s.version = b.session.version + 1 /\ s.current = b.session.current
  BY <1>1 DEF Sessions
<1>8. f = [session |-> s, offers |-> os, approvals |-> v]
  BY <1>5 DEF Bump
<1> HIDE DEF s, f
<1>9. t \in Sessions /\ t.version = b.session.version + 1 /\ t.current = 0
  BY <1>7 DEF Sessions
<1>10. f.session = s /\ f.offers = os /\ f.approvals = v
  BY <1>8
<1>11. Rows(f)
  BY <1>1, <1>2, <1>6, <1>7, <1>8, <1>10 DEF Rows
<1>12. g = [session |-> u, offers |-> os, approvals |-> v]
  <2>1. g = [f EXCEPT !.session.current = 0, !.session.status = "ACTIVE"]
    BY DEF Cleared, f, e, c
  <2>2. g = [session |-> [f.session EXCEPT !.current = 0, !.status = "ACTIVE"],
             offers |-> f.offers, approvals |-> f.approvals]
    BY <1>11, <2>1, Pointing
  <2>3. u = [s EXCEPT !.current = 0, !.status = "ACTIVE"]
    OBVIOUS
  <2> QED BY <1>10, <2>2, <2>3
<1> HIDE DEF t
<1>13. u \in Sessions /\ u.version = b.session.version + 1 /\ u.current = 0
       /\ u.status = "ACTIVE"
  BY <1>9 DEF Sessions, Ended
<1> HIDE DEF u, g
<1>14. g.session = u /\ g.offers = os /\ g.approvals = v
  BY <1>12
<1>15. Rows(g)
  BY <1>1, <1>2, <1>6, <1>12, <1>13, <1>14 DEF Rows
<1>16. EndsOffer(b, g, o)
  BY <1>1, <1>2, <1>3, <1>6, <1>13, <1>14, <1>15 DEF EndsOffer, OpenStatus, Awaited
<1> QED BY <1>13, <1>14, <1>16 DEF g

\* An approval that reconciling leaves in force was not touched by it; if it has had
\* no effect yet, it is that of the current offer.
LEMMA InForce ==
    ASSUME Sound(Book), NEW o \in 1..Len(offers), approvals[o].status # "NONE",
           Reconciled(Book, o).approvals[o].effect = "NOT_APPLIED"
    PROVE  /\ Reconciled(Book, o) = Book /\ approvals[o].effect = "NOT_APPLIED"
           /\ session.current = o /\ session.status = "WAITING_APPROVAL"
           /\ offers[o].status = "PROPOSED" /\ offers[o].by = "BUYER"
           /\ approvals[o].status \in {"PENDING", "APPROVED"}
<1>1. Reconciled(Book, o) = Book
  <2> DEFINE r == Reconciled(Book, o)
  <2>1. Book.approvals[o].status # "NONE" /\ o \in 1..Len(Book.offers)
    BY TheBook
  <2>2. r # Book => r.approvals[o].effect = "INVALIDATED"
    BY <2>1, ReconcilingSteps
  <2> QED BY <2>2
<1>2. approvals[o].effect = "NOT_APPLIED"
  BY <1>1, TheBook
<1>3. Awaited(Book.approvals[o])
  BY <1>2, TheBook DEF Awaited
<1> QED BY <1>1, <1>2, <1>3, TheBook DEF Sound, Waits

\* A review notes an approval, or drops the current offer.
LEMMA ReviewSteps ==
    ASSUME Inv, NEW o \in DOMAIN offers, NEW approve \in BOOLEAN, Review(o, approve)
    PROVE  Step(Book, Book') /\ (Drops(Book, Book') \/ Keeps(Book, Book'))
<1> DEFINE r == Reconciled(Book, o)
           a == r.approvals[o]
           d == [a EXCEPT !.status = IF approve THEN "APPROVED" ELSE "REJECTED",
                          !.effect = IF approve THEN "NOT_APPLIED" ELSE "APPLIED",
                          !.timely = ~a.late]
<1>1. /\ Sound(Book) /\ Rows(Book) /\ o \in 1..Len(offers) /\ o \in 1..Len(Book.offers)
      /\ approvals[o].status = "PENDING" /\ Book.approvals[o].status = "PENDING"
      /\ Len(offers) \in Nat /\ Len(approvals) = Len(offers) /\ approvals \in Seq(Approvals)
  BY Parts, TheBook DEF Inv, Review, TypeOK, Sound
<1>2. CASE a.effect = "INVALIDATED"
  <2>1. Store(r)
    BY <1>2 DEF Review
  <2> HIDE DEF a, r
  <2>2. Step(Book, r) /\ (Drops(Book, r) \/ Keeps(Book, r))
    BY <1>1, ReconcilingSteps DEF r
  <2>3. Book' = r
    BY <2>1, <2>2, Storing DEF Step, Sound
  <2> QED BY <2>2, <2>3
<1>3. CASE a.effect # "INVALIDATED"
  <2>1. r = Book
    <3>1. r # Book => a.effect = "INVALIDATED"
      BY <1>1, ReconcilingSteps
    <3> QED BY <1>3, <3>1
  <2>2. a = approvals[o]
    BY <2>1, TheBook
  <2>3. a \in Approvals
    BY <1>1, <2>2, ElementOfSeq
  <2>4. /\ approve => Store(Recorded(r, o, d))
        /\ ~approve => Store(IF r.session.current = o THEN Cleared(r, o, d)
                             ELSE [Recorded(r, o, d) EXCEPT !.offers[o].status = "REJECTED"])
    BY <1>3 DEF Review, Recorded, Cleared
  <2>5. session.current = o /\ session.status = "WAITING_APPROVAL"
    <3>1. Book.approvals[o].effect = "NOT_APPLIED"
      BY <1>1 DEF Sound, Decided
    <3> QED BY <1>1, <2>1, <3>1, InForce
  <2>6. /\ d \in Approvals /\ d.status = IF approve THEN "APPROVED" ELSE "REJECTED"
        /\ d.effect = IF approve THEN "NOT_APPLIED" ELSE "APPLIED"
    <3> HIDE DEF a
    <3>1. (~a.late) \in BOOLEAN
      BY <2>3 DEF Approvals
    <3> QED BY <2>3, <3>1 DEF Approvals
  <2> HIDE DEF d, r, a
  <2>7. CASE approve
    <3> DEFINE c == Recorded(Book, o, d)
    <3>1. Notes(Book, c)
      BY <1>1, <2>6, <2>7, Approving
    <3>2. Store(c)
      BY <2>1, <2>4, <2>7
    <3> HIDE DEF c
    <3>3. Step(Book, c) /\ Keeps(Book, c)
      BY <1>1, <3>1, Noting
    <3>4. Book' = c
      BY <3>1, <3>2, Storing DEF Notes
    <3> QED BY <3>3, <3>4
  <2>8. CASE ~approve
    <3> DEFINE c == Cleared(Book, o, d)
    <3>1. /\ EndsOffer(Book, c, o) /\ c.session.version = Book.session.version + 1
          /\ c.session.status = "ACTIVE"
      BY <1>1, <2>5, <2>6, <2>8, Rejecting, TheBook
    <3>2. Store(c)
      BY <2>1, <2>4, <2>5, <2>8, TheBook
    <3> HIDE DEF c
    <3>3. Sound(c) /\ Stands(Book, c)
      BY <1>1, <3>1, EndingAnOffer
    <3>4. Book' = c
      BY <3>2, <3>3, Storing DEF Sound
    <3>5. Book.session.version \in Nat /\ Len(Book.offers) \in Nat
      BY <1>1, Parts
    <3>6. Step(Book, c)
      BY <3>1, <3>3, <3>5 DEF Step, EndsOffer
    <3>7. Drops(Book, c)
      BY <1>1, <2>5, <3>1, <3>5, TheBook DEF Drops, Phase, EndsOffer
    <3> QED BY <3>4, <3>6, <3>7
  <2> QED BY <2>7, <2>8
<1> QED BY <1>2, <1>3

\* The current offer o is accepted, or agreed on, and its approval is not awaited.
Accepts(b, c, o) ==
    /\ o \in 1..Len(b.offers) /\ o = b.session.current
    /\ Rows(c) /\ Len(c.offers) = Len(b.offers) /\ c.session.current = o
    /\ c.session.version = b.session.version + 1 /\ c.session.status \in {"ACTIVE", "AGREED"}
    /\ c.offers[o].status = "ACCEPTED"
    /\ \A p \in 1..Len(b.offers) : p # o =>
          c.offers[p] = b.offers[p] /\ c.approvals[p] = b.approvals[p]
    /\ ~Awaited(c.approvals[o]) /\ b.approvals[o].status # "PENDING"
    /\ c.approvals[o].status = b.approvals[o].status
    /\ \/ c.approvals[o].effect = b.approvals[o].effect
       \/ b.approvals[o].effect = "NOT_APPLIED" /\ c.approvals[o].effect = "APPLIED"

\* Accepting keeps the book sound.
LEMMA Accepting ==
    ASSUME NEW b, Sound(b), NEW c, NEW o, Accepts(b, c, o)
    PROVE  Step(b, c)
<1> USE DEF Accepts
<1>1. /\ Len(b.offers) \in Nat /\ b.session.version \in Nat
      /\ OneOpen(b) /\ Waits(b) /\ Decided(b)
  BY Parts DEF Sound
<1>2. OneOpen(c)
  BY <1>1 DEF OneOpen, OpenStatus
<1>3. Waits(c)
  <2>1. ASSUME NEW p \in 1..Len(c.offers), Awaited(c.approvals[p]) PROVE FALSE
    BY <1>1, <2>1 DEF Waits
  <2> QED BY <2>1 DEF Waits
<1>4. Decided(c)
  BY <1>1 DEF Decided
<1>5. Stands(b, c)
  BY <1>1 DEF Stands, Decided
<1> QED BY <1>1, <1>2, <1>3, <1>4, <1>5 DEF Step, Sound

\* The decision takes effect.
Effected(b, o) ==
    Bump([b EXCEPT !.offers[o].status = "ACCEPTED", !.session.status = "ACTIVE",
                   !.approvals[o].effect = "APPLIED"])

\* The parts of a book whose offer, status and approval are rewritten.
LEMMA Effecting ==
    ASSUME NEW b, Rows(b), NEW o \in 1..Len(b.offers)
    PROVE  Effected(b, o) =
              [session |-> [[b.session EXCEPT !.status = "ACTIVE"]
                              EXCEPT !.version = b.session.version + 1],
               offers |-> [b.offers EXCEPT ![o] = [b.offers[o] EXCEPT !.status = "ACCEPTED"]],
               approvals |-> [b.approvals EXCEPT ![o] =
                                [b.approvals[o] EXCEPT !.effect = "APPLIED"]]]
<1> DEFINE os == [b.offers EXCEPT ![o] = [b.offers[o] EXCEPT !.status = "ACCEPTED"]]
           v == [b.approvals EXCEPT ![o] = [b.approvals[o] EXCEPT !.effect = "APPLIED"]]
           s == [b.session EXCEPT !.status = "ACTIVE"]
           e1 == [b EXCEPT !.offers[o].status = "ACCEPTED"]
           e2 == [e1 EXCEPT !.session.status = "ACTIVE"]
           e3 == [e2 EXCEPT !.approvals[o].effect = "APPLIED"]
<1>1. b = [session |-> b.session, offers |-> b.offers, approvals |-> b.approvals]
      /\ b.session \in Sessions
  BY Parts
<1>2. e1 = [session |-> b.session, offers |-> os, approvals |-> b.approvals]
  <2>1. \A s1, v1 : [[session |-> s1, offers |-> b.offers, approvals |-> v1]
                       EXCEPT !.offers[o].status = "ACCEPTED"]
                    = [session |-> s1, offers |-> os, approvals |-> v1]
    OBVIOUS
  <2> QED BY <1>1, <2>1
<1> HIDE DEF e1, os
<1>3. e2 = [session |-> s, offers |-> os, approvals |-> b.approvals]
  BY <1>2
<1> HIDE DEF e2, s
<1>4. e3 = [session |-> s, offers |-> os, approvals |-> v]
  BY <1>3
<1>5. Effected(b, o) = Bump(e3)
  BY DEF Effected, e2, e1
<1> HIDE DEF e3, v
<1>6. s.version = b.session.version
  BY <1>1 DEF s, Sessions
<1>7. Bump(e3) = [session |-> [s EXCEPT !.version = b.session.version + 1],
                  offers |-> os, approvals |-> v]
  BY <1>4, <1>6 DEF Bump
<1> QED BY <1>5, <1>7 DEF s, os, v

\* Applying an approval accepts the offer.
LEMMA Applying ==
    ASSUME NEW b, Sound(b), NEW o \in 1..Len(b.offers), o = b.session.current,
           b.approvals[o].status = "APPROVED", b.approvals[o].effect = "NOT_APPLIED"
    PROVE  /\ Accepts(b, Effected(b, o), o)
           /\ Effected(b, o).session.status = "ACTIVE"
<1> DEFINE a == [b.approvals[o] EXCEPT !.effect = "APPLIED"]
           x == [b.offers[o] EXCEPT !.status = "ACCEPTED"]
           s == [b.session EXCEPT !.status = "ACTIVE"]
           t == [s EXCEPT !.version = b.session.version + 1]
           v == [b.approvals EXCEPT ![o] = a]
           os == [b.offers EXCEPT ![o] = x]
           c == Effected(b, o)
<1>1. /\ Rows(b) /\ b.approvals \in Seq(Approvals) /\ Len(b.offers) \in Nat
      /\ b.offers \in Seq(Offers) /\ b.session \in Sessions /\ b.session.version \in Nat
      /\ Len(b.approvals) = Len(b.offers) /\ o \in 1..Len(b.approvals)
      /\ b.session.current \in 0..Len(b.offers)
  BY Parts DEF Sound
<1>2. c = [session |-> t, offers |-> os, approvals |-> v]
  BY <1>1, Effecting
<1> HIDE DEF c
<1>3. b.approvals[o] \in Approvals /\ b.offers[o] \in Offers
  BY <1>1, ElementOfSeq
<1>4. a \in Approvals /\ a.status = "APPROVED" /\ a.effect = "APPLIED"
  BY <1>3 DEF Approvals
<1>5. x \in Offers /\ x.status = "ACCEPTED"
  BY <1>3 DEF Offers, OpenStatus
<1> HIDE DEF a, x
<1>6. /\ v \in Seq(Approvals) /\ Len(v) = Len(b.approvals) /\ v[o] = a
      /\ \A p \in 1..Len(b.approvals) : p # o => v[p] = b.approvals[p]
  BY <1>1, <1>4, Rewritten
<1>7. /\ os \in Seq(Offers) /\ Len(os) = Len(b.offers) /\ os[o] = x
      /\ \A p \in 1..Len(b.offers) : p # o => os[p] = b.offers[p]
  BY <1>1, <1>5, Reopened
<1>8. s \in Sessions /\ s.current = b.session.current /\ s.status = "ACTIVE"
  BY <1>1 DEF Sessions, Ended
<1> HIDE DEF s, v, os
<1>9. /\ t \in Sessions /\ t.current = b.session.current /\ t.status = "ACTIVE"
      /\ t.version = b.session.version + 1
  BY <1>1, <1>8 DEF Sessions
<1> HIDE DEF t
<1>10. c.session = t /\ c.offers = os /\ c.approvals = v
  BY <1>2
<1>11. Rows(c)
  BY <1>1, <1>2, <1>6, <1>7, <1>9, <1>10 DEF Rows
<1>12. Accepts(b, c, o)
  BY <1>1, <1>4, <1>5, <1>6, <1>7, <1>9, <1>10, <1>11 DEF Accepts, Awaited
<1> QED BY <1>9, <1>10, <1>12 DEF c

\* A due decision grants the authority for the current offer; any other is reconciled.
LEMMA ApplySteps ==
    ASSUME Inv, NEW o \in DOMAIN offers, Apply(o)
    PROVE  /\ Step(Book, Book')
           /\ Grants(Book, Book') \/ Drops(Book, Book') \/ Keeps(Book, Book')
           /\ notices' \subseteq notices \union {[offer |-> o, version |-> session'.version]}
<1> DEFINE r == Reconciled(Book, o)
           a == r.approvals[o]
           due == a.status = "APPROVED" /\ a.effect = "NOT_APPLIED"
<1>1. /\ Sound(Book) /\ Rows(Book) /\ o \in 1..Len(offers) /\ o \in 1..Len(Book.offers)
      /\ approvals[o].status \notin {"NONE", "PENDING"} /\ approvals[o].status # "NONE"
      /\ Book.approvals[o].status # "NONE"
      /\ Len(offers) \in Nat
  BY Parts, TheBook DEF Inv, Apply, TypeOK, Sound
<1>2. /\ ~due => Store(r) /\ notices' = notices
      /\ due => /\ Store(Effected(r, o))
                /\ notices' = notices \union
                                {[offer |-> o, version |-> Effected(r, o).session.version]}
  BY DEF Apply, Effected
<1>3. CASE ~due
  <2> HIDE DEF due, a, r
  <2>1. Step(Book, r) /\ (Drops(Book, r) \/ Keeps(Book, r))
    BY <1>1, ReconcilingSteps DEF r
  <2>2. Book' = r
    BY <1>2, <1>3, <2>1, Storing DEF Step, Sound
  <2> QED BY <1>2, <1>3, <2>1, <2>2
<1>4. CASE due
  <2>1. /\ r = Book /\ session.current = o /\ session.status = "WAITING_APPROVAL"
        /\ offers[o].status = "PROPOSED" /\ offers[o].by = "BUYER"
        /\ approvals[o].effect = "NOT_APPLIED"
    BY <1>1, <1>4, InForce
  <2>2. approvals[o].status = "APPROVED"
    BY <1>4, <2>1, TheBook
  <2> DEFINE c == Effected(Book, o)
  <2>3. Store(c) /\ notices' = notices \union {[offer |-> o, version |-> c.session.version]}
    BY <1>2, <1>4, <2>1
  <2>4. Accepts(Book, c, o) /\ c.session.status = "ACTIVE"
    BY <1>1, <2>1, <2>2, Applying, TheBook
  <2> HIDE DEF c, due, a, r
  <2>5. Book' = c
    BY <2>3, <2>4, Storing DEF Accepts
  <2>6. Step(Book, c)
    BY <1>1, <2>4, Accepting
  <2>7. ~Covered(Book) /\ Covered(c)
    BY <1>1, <2>1, <2>4, TheBook DEF Covered, Accepts
  <2>8. Grants(Book, c)
    BY <2>1, <2>4, <2>7, TheBook DEF Grants, Phase, Accepts
  <2>9. session' = c.session
    BY <2>3 DEF Store
  <2> QED BY <2>3, <2>5, <2>6, <2>8, <2>9
<1> QED BY <1>3, <1>4

\* An offer that may be confirmed is the current one and has the seller's authority.
LEMMA ValidIsCovered ==
    ASSUME NEW o, ValidOffer(o)
    PROVE  /\ o # 0 /\ o = session.current /\ session.status = "ACTIVE" /\ Covered(Book)
           /\ product.open /\ ~offers[o].lapsed /\ offers[o].policy = Len(policies)
           /\ offers[o].status \in OpenStatus
           /\ \/ Zone(offers[o].net, Policy) = "AUTO"
              \/ /\ approvals[o].status = "APPROVED" /\ approvals[o].effect = "APPLIED"
                 /\ approvals[o].timely
<1>1. /\ o # 0 /\ session.status = "ACTIVE" /\ BasisValid(Book, o)
      /\ offers[o].by # "AGENT" => offers[o].status = "ACCEPTED"
      /\ offers[o].by # "AGENT" =>
            \/ Zone(offers[o].net, Policy) = "AUTO"
            \/ /\ approvals[o].status = "APPROVED" /\ approvals[o].effect = "APPLIED"
               /\ approvals[o].timely
  BY DEF ValidOffer
<1>2. /\ o = session.current /\ product.open /\ ~offers[o].lapsed
      /\ offers[o].policy = Len(policies) /\ offers[o].status \in OpenStatus
      /\ offers[o].by = "AGENT" => Zone(offers[o].net, Policy) = "AUTO"
  BY <1>1, TheBook DEF BasisValid
<1>3. offers[o].by = "AGENT" \/ offers[o].status = "ACCEPTED"
  BY <1>1
<1>4. Covered(Book)
  BY <1>1, <1>2, <1>3, TheBook DEF Covered
<1> QED BY <1>1, <1>2, <1>4

\* The buyer's confirmation turns the open offer into the agreement.
Confirmed(b, o) == Bump([b EXCEPT !.session.status = "AGREED", !.offers[o].status = "ACCEPTED"])

\* Confirming accepts the offer and ends the session.
LEMMA Confirming ==
    ASSUME NEW b, Sound(b), NEW o \in 1..Len(b.offers), o = b.session.current,
           b.session.status = "ACTIVE"
    PROVE  /\ Accepts(b, Confirmed(b, o), o)
           /\ Confirmed(b, o).session.status = "AGREED"
<1> DEFINE x == [b.offers[o] EXCEPT !.status = "ACCEPTED"]
           s == [b.session EXCEPT !.status = "AGREED"]
           t == [s EXCEPT !.version = b.session.version + 1]
           os == [b.offers EXCEPT ![o] = x]
           e1 == [b EXCEPT !.session.status = "AGREED"]
           e2 == [e1 EXCEPT !.offers[o].status = "ACCEPTED"]
           c == Confirmed(b, o)
<1>1. /\ Rows(b) /\ b.approvals \in Seq(Approvals) /\ Len(b.offers) \in Nat
      /\ b.offers \in Seq(Offers) /\ b.session \in Sessions /\ b.session.version \in Nat
      /\ Len(b.approvals) = Len(b.offers)
      /\ b.session.current \in 0..Len(b.offers)
      /\ b = [session |-> b.session, offers |-> b.offers, approvals |-> b.approvals]
  BY Parts DEF Sound
<1>2. e1 = [session |-> s, offers |-> b.offers, approvals |-> b.approvals]
  BY <1>1
<1>3. e2 = [session |-> s, offers |-> os, approvals |-> b.approvals]
  <2>1. \A s1, v1 : [[session |-> s1, offers |-> b.offers, approvals |-> v1]
                       EXCEPT !.offers[o].status = "ACCEPTED"]
                    = [session |-> s1, offers |-> os, approvals |-> v1]
    OBVIOUS
  <2> HIDE DEF e1, os, s
  <2> QED BY <1>2, <2>1
<1>4. c = Bump(e2)
  BY DEF Confirmed
<1> HIDE DEF e1, e2, c
<1>5. b.offers[o] \in Offers
  BY <1>1, ElementOfSeq
<1>6. x \in Offers /\ x.status = "ACCEPTED"
  BY <1>5 DEF Offers, OpenStatus
<1> HIDE DEF x
<1>7. /\ os \in Seq(Offers) /\ Len(os) = Len(b.offers) /\ os[o] = x
      /\ \A p \in 1..Len(b.offers) : p # o => os[p] = b.offers[p]
  BY <1>1, <1>6, Reopened
<1>8. /\ s \in Sessions /\ s.current = b.session.current /\ s.status = "AGREED"
      /\ s.version = b.session.version
  BY <1>1 DEF Sessions, Ended
<1> HIDE DEF s, os
<1>9. /\ t \in Sessions /\ t.current = b.session.current /\ t.status = "AGREED"
      /\ t.version = b.session.version + 1
  BY <1>1, <1>8 DEF Sessions
<1>10. c = [session |-> t, offers |-> os, approvals |-> b.approvals]
  BY <1>3, <1>4, <1>8 DEF Bump
<1> HIDE DEF t
<1>11. c.session = t /\ c.offers = os /\ c.approvals = b.approvals
  BY <1>10
<1>12. Rows(c)
  BY <1>1, <1>7, <1>9, <1>10, <1>11 DEF Rows
<1>13. ~Awaited(b.approvals[o]) /\ b.approvals[o].status # "PENDING"
  BY DEF Sound, Waits, Decided, Awaited
<1>14. Accepts(b, c, o)
  <2>1. /\ Len(c.offers) = Len(b.offers) /\ c.offers[o].status = "ACCEPTED"
        /\ \A p \in 1..Len(b.offers) : p # o =>
              c.offers[p] = b.offers[p] /\ c.approvals[p] = b.approvals[p]
    BY <1>6, <1>7, <1>11
  <2>2. /\ c.session.current = o /\ c.session.version = b.session.version + 1
        /\ c.session.status \in {"ACTIVE", "AGREED"}
    BY <1>9, <1>11
  <2>3. /\ ~Awaited(c.approvals[o])
        /\ c.approvals[o].status = b.approvals[o].status
        /\ c.approvals[o].effect = b.approvals[o].effect
    BY <1>11, <1>13
  <2> QED BY <1>12, <1>13, <2>1, <2>2, <2>3 DEF Accepts
<1> QED BY <1>9, <1>11, <1>14 DEF c

\* The open offer, which has the seller's authority and which the buyer was shown,
\* is agreed on.
Agrees(b, c) ==
    /\ Phase(b) = "open" /\ Phase(c) = "agreed" /\ Len(c.offers) = Len(b.offers)
    /\ c.session.current = b.session.current /\ Covered(b) /\ Covered(c)

\* A confirmation agrees on the current offer, of which a card was shown.
LEMMA ConfirmSteps ==
    ASSUME Inv, Confirm
    PROVE  /\ Step(Book, Book') /\ Agrees(Book, Book') /\ turn' \in Replies
           /\ ValidOffer(session.current)
           /\ \E c \in acks : c.offer = session.current
<1> DEFINE o == turn.target
           c == Confirmed(Book, o)
<1>1. /\ ValidOffer(o) /\ turn.receipt = [offer |-> o, version |-> session.version]
      /\ turn.stage = "ready" /\ Store(c) /\ turn' = Owed("INTENT_CONFIRMED", o, c)
  <2>1. ValidOffer(o) /\ Receipted(o) /\ MayCommit({"CONFIRM"})
    BY DEF Confirm
  <2>2. Store(c) /\ turn' = Owed("INTENT_CONFIRMED", o, c)
    BY Zenon DEF Confirm, Confirmed
  <2> QED BY <2>1, <2>2 DEF Receipted, MayCommit
<1>2. o # 0 /\ o = session.current /\ session.status = "ACTIVE" /\ Covered(Book)
  BY <1>1, ValidIsCovered
<1>3. /\ Sound(Book) /\ session.current \in 0..Len(offers) /\ Len(offers) \in Nat
  BY Parts, TheBook DEF Inv, Sound
<1>4. o \in 1..Len(Book.offers) /\ o = Book.session.current /\ Book.session.status = "ACTIVE"
  BY <1>2, <1>3, TheBook
<1>5. Accepts(Book, c, o) /\ c.session.status = "AGREED"
  BY <1>3, <1>4, Confirming
<1> HIDE DEF c
<1>6. Step(Book, c)
  BY <1>3, <1>5, Accepting
<1>7. Book' = c
  BY <1>1, <1>5, Storing DEF Accepts
<1>8. Covered(c)
  BY <1>2, <1>5 DEF Covered, Accepts
<1>9. Agrees(Book, c)
  BY <1>2, <1>5, <1>8, TheBook DEF Agrees, Phase, Accepts
<1>10. turn.receipt \in acks
  <2>1. turn.receipt \in acks \union {NoReceipt}
    BY <1>1 DEF Inv, TurnIsHonest
  <2>2. turn.receipt.offer = o /\ turn.receipt # NoReceipt
    BY <1>1, <1>2 DEF NoReceipt
  <2> QED BY <2>1, <2>2
<1>11. turn.receipt.offer = session.current
  BY <1>1, <1>2
<1>12. turn' \in Replies
  <2>1. c.session.version \in Nat /\ o \in Nat
    BY <1>4, <1>5, Parts DEF Accepts
  <2> QED BY <1>1, <2>1, Owing DEF Outcomes
<1> QED BY <1>1, <1>2, <1>6, <1>7, <1>9, <1>10, <1>11, <1>12

-------------------------------------------------------------------------------
(* The buyer's input and the reply owed for it.                                 *)

\* An input whose receipt was shown and whose proposal names terms.
Honest(t, shown) ==
    /\ t \in Inputs /\ t.receipt \in shown \union {NoReceipt}
    /\ t.kind \in {"OFFER", "SUBMIT", "REPLACE"} => t.net \in Nets

\* What TypeOK and TurnIsHonest say of the turn.
LEMMA HonestTurn ==
    /\ TypeOK /\ TurnIsHonest =>
          turn = Idle \/ turn \in Replies \/ Honest(turn, acks)
    /\ (turn = Idle \/ turn \in Replies \/ Honest(turn, acks)) => turn \in Turns /\ TurnIsHonest
<1>1. turn = Idle => turn.stage = "idle"
  BY DEF Idle
<1>2. turn \in Replies => turn.stage = "reply"
  BY DEF Replies
<1>3. turn \in Inputs => turn.stage \in {"queued", "planned", "ready"}
  BY DEF Inputs
<1> QED BY <1>1, <1>2, <1>3, TurnKinds DEF TypeOK, TurnIsHonest, Honest

\* A request carries what it is made of.
LEMMA Requesting ==
    ASSUME NEW kind \in Kinds, NEW net \in Nets \union {0}, NEW counter \in Counters \union {0},
           NEW target \in Nat, NEW receipt \in Receipts
    PROVE  /\ Request(kind, net, counter, target, receipt) \in Inputs
           /\ Request(kind, net, counter, target, receipt).kind = kind
           /\ Request(kind, net, counter, target, receipt).net = net
           /\ Request(kind, net, counter, target, receipt).receipt = receipt
BY DEF Request, Inputs

\* Receipts are of the type that inputs carry.
LEMMA ShownReceipts == ASSUME TypeOK PROVE GoodReceipts \subseteq Receipts /\ NoReceipt \in Receipts
<1>1. Len(offers) \in Nat
  BY LenProperties DEF TypeOK
<1>2. acks \subseteq [offer : 1..Len(offers), version : Nat]
  BY DEF TypeOK
<1>3. NoReceipt \in Receipts
  BY DEF NoReceipt, Receipts
<1>4. ASSUME NEW c \in acks PROVE c \in Receipts
  BY <1>1, <1>2 DEF Receipts
<1> QED BY <1>3, <1>4 DEF GoodReceipts

\* Whatever the buyer sends is honest.
LEMMA WishesAreHonest ==
    ASSUME TypeOK, NEW w \in Wishes
    PROVE  Honest(w, acks)
<1>1. /\ \A o \in DOMAIN offers : o \in Nat
      /\ GoodReceipts \subseteq Receipts /\ NoReceipt \in Receipts
      /\ NoReceipt \in GoodReceipts
  <2>1. DOMAIN offers = 1..Len(offers)
    BY LenProperties DEF TypeOK
  <2> QED BY <2>1, ShownReceipts DEF GoodReceipts
<1>2. ASSUME NEW kind \in Kinds, NEW net \in Nets \union {0}, NEW counter \in Counters \union {0},
             NEW target \in Nat, NEW receipt \in GoodReceipts,
             kind \in {"OFFER", "SUBMIT", "REPLACE"} => net \in Nets
      PROVE  Honest(Request(kind, net, counter, target, receipt), acks)
  <2>1. receipt \in Receipts
    BY <1>1
  <2>2. /\ Request(kind, net, counter, target, receipt) \in Inputs
        /\ Request(kind, net, counter, target, receipt).kind = kind
        /\ Request(kind, net, counter, target, receipt).net = net
        /\ Request(kind, net, counter, target, receipt).receipt = receipt
    BY <2>1, Requesting
  <2> QED BY <1>2, <2>2 DEF Honest, GoodReceipts
<1>3. PICK kind \in Kinds, net \in Nets \union {0}, counter \in Counters \union {0},
           target \in Nat, receipt \in GoodReceipts :
         /\ w = Request(kind, net, counter, target, receipt)
         /\ kind \in {"OFFER", "SUBMIT", "REPLACE"} => net \in Nets
  <2>1. CASE w = Request("CLOSE", 0, 0, 0, NoReceipt)
    BY <1>1, <2>1 DEF Kinds
  <2>2. CASE Typed
    <3> DEFINE Submits == {Request("SUBMIT", n, c, 0, NoReceipt) :
                              n \in Nets, c \in Counters \union {0}}
               Replaces == {Request("REPLACE", n, c, o, NoReceipt) :
                              n \in Nets, c \in Counters \union {0}, o \in DOMAIN offers}
               Confirms == {Request("CONFIRM", 0, 0, o, r) :
                              o \in DOMAIN offers, r \in GoodReceipts}
               Withdraws == {Request("WITHDRAW", 0, 0, o, NoReceipt) : o \in DOMAIN offers}
    <3>1. Wishes = {Request("CLOSE", 0, 0, 0, NoReceipt)} \union
                   (Submits \union Replaces \union Confirms \union Withdraws)
      BY <2>2 DEF Wishes
    <3>2. CASE w \in Submits
      BY <1>1, <3>2 DEF Kinds
    <3>3. CASE w \in Replaces
      BY <1>1, <3>3 DEF Kinds
    <3>4. CASE w \in Confirms
      BY <1>1, <3>4 DEF Kinds
    <3>5. CASE w \in Withdraws
      BY <1>1, <3>5 DEF Kinds
    <3> HIDE DEF Submits, Replaces, Confirms, Withdraws
    <3> QED BY <2>1, <3>1, <3>2, <3>3, <3>4, <3>5, Zenon
  <2>3. CASE ~Typed
    <3> DEFINE Proposals == {Request("OFFER", n, 0, 0, NoReceipt) : n \in Nets}
               Answers == {Request(k, 0, 0, 0, r) :
                              k \in {"CONFIRM", "WITHDRAW"}, r \in GoodReceipts}
    <3>1. Wishes = {Request("CLOSE", 0, 0, 0, NoReceipt)} \union (Proposals \union Answers)
      BY <2>3 DEF Wishes
    <3>2. CASE w \in Proposals
      BY <1>1, <3>2 DEF Kinds
    <3>3. CASE w \in Answers
      BY <1>1, <3>3 DEF Kinds
    <3> HIDE DEF Proposals, Answers
    <3> QED BY <2>1, <3>1, <3>2, <3>3, Zenon
  <2> QED BY <2>1, <2>2, <2>3
<1> QED BY <1>2, <1>3

\* Planning keeps an input honest: a command to propose comes of a proposal, and a
\* confirmation keeps the receipt.
LEMMA PlansAreHonest ==
    ASSUME Inv, Plan
    PROVE  Honest(turn', acks)
<1>1. /\ Honest(turn, acks) /\ session.version \in Nat /\ session.current \in Nat
      /\ NoReceipt \in Receipts
  <2>1. turn.stage = "queued"
    BY DEF Plan
  <2>2. turn # Idle /\ turn \notin Replies
    BY <2>1 DEF Idle, Replies
  <2>3. Book.session.version \in Nat /\ Book.session.current \in Nat
    BY Parts DEF Inv, Sound
  <2> QED BY <2>2, <2>3, HonestTurn, ShownReceipts, TheBook DEF Inv
<1>2. turn.receipt \in Receipts /\ turn.net \in Nets \union {0} /\ turn.receipt.offer \in Nat
  BY <1>1 DEF Honest, Inputs, Receipts
<1>3. ASSUME NEW c, c = Command(turn) \/ c = <<"QUERY", 0>>
      PROVE  /\ c[1] \in Kinds /\ c[2] \in Nat
             /\ c[1] \in {"OFFER", "SUBMIT", "REPLACE"} => turn.kind = "OFFER"
  BY <1>1, <1>2, <1>3 DEF Command, Kinds
<1>4. PICK c \in {Command(turn), <<"QUERY", 0>>} :
         turn' = [Request(c[1], IF c[1] = "QUERY" THEN 0 ELSE turn.net, 0, c[2],
                          IF c[1] = "CONFIRM" THEN turn.receipt ELSE NoReceipt)
                    EXCEPT !.stage = "planned",
                           !.drafted = IF turn.kind = "OFFER" THEN session.version ELSE 0]
  BY DEF Plan
<1>5. /\ c[1] \in Kinds /\ c[2] \in Nat
      /\ c[1] \in {"OFFER", "SUBMIT", "REPLACE"} => turn.kind = "OFFER"
  BY <1>3
<1> DEFINE net == IF c[1] = "QUERY" THEN 0 ELSE turn.net
           receipt == IF c[1] = "CONFIRM" THEN turn.receipt ELSE NoReceipt
           t == Request(c[1], net, 0, c[2], receipt)
           drafted == IF turn.kind = "OFFER" THEN session.version ELSE 0
<1>6. /\ net \in Nets \union {0} /\ receipt \in Receipts /\ drafted \in Nat
      /\ receipt \in acks \union {NoReceipt}
      /\ c[1] \in {"OFFER", "SUBMIT", "REPLACE"} => net \in Nets
  BY <1>1, <1>2, <1>5 DEF Honest
<1>7. turn' = [t EXCEPT !.stage = "planned", !.drafted = drafted]
  BY <1>4
<1> HIDE DEF net, receipt, drafted
<1>8. t \in Inputs /\ t.kind = c[1] /\ t.net = net /\ t.receipt = receipt
  <2>1. PICK k, o : k = c[1] /\ o = c[2]
    OBVIOUS
  <2>2. k \in Kinds /\ o \in Nat /\ 0 \in Counters \union {0}
    BY <1>5, <2>1
  <2>3. /\ Request(k, net, 0, o, receipt) \in Inputs
        /\ Request(k, net, 0, o, receipt).kind = k
        /\ Request(k, net, 0, o, receipt).net = net
        /\ Request(k, net, 0, o, receipt).receipt = receipt
    BY <1>6, <2>2, Requesting
  <2> QED BY <2>1, <2>3
<1> HIDE DEF t
<1>9. /\ turn' \in Inputs /\ turn'.kind = c[1] /\ turn'.net = net /\ turn'.receipt = receipt
  <2> DEFINE p == [t EXCEPT !.stage = "planned"]
  <2>1. p \in Inputs /\ p.kind = c[1] /\ p.net = net /\ p.receipt = receipt
    BY <1>8 DEF Inputs
  <2>2. turn' = [p EXCEPT !.drafted = drafted]
    BY <1>7
  <2> HIDE DEF p
  <2> QED BY <1>6, <2>1, <2>2 DEF Inputs
<1> QED BY <1>6, <1>9 DEF Honest

-------------------------------------------------------------------------------
(* Every step, and the invariant.                                               *)

\* A step that leaves the book alone.
LEMMA Untouched ==
    ASSUME Inv, UNCHANGED books
    PROVE  Book' = Book /\ Step(Book, Book') /\ Keeps(Book, Book')
<1>1. Book' = Book
  BY DEF books, Book
<1>2. Sound(Book) /\ Len(Book.offers) \in Nat /\ Book.session.version \in Nat
  BY Parts DEF Inv, Sound
<1>3. Step(Book, Book')
  BY <1>1, <1>2, Unmoved DEF Step
<1> QED BY <1>1, <1>3 DEF Keeps

\* What a step may do to the book.
LEMMA BookSteps ==
    ASSUME Inv, Next
    PROVE  /\ Step(Book, Book')
           /\ Advance(Book, Book') \/ (Confirm /\ Agrees(Book, Book'))
<1> USE DEF Advance
<1>1. CASE UNCHANGED books
  BY <1>1, Untouched
<1>2. CASE Reject
  BY <1>2, RejectSteps
<1>3. CASE Accept
  BY <1>3, AcceptSteps
<1>4. CASE AskSeller
  BY <1>4, AskSellerSteps
<1>5. CASE Counter
  BY <1>5, CounterSteps
<1>6. CASE Confirm
  BY <1>6, ConfirmSteps
<1>7. CASE Withdraw
  BY <1>7, WithdrawSteps
<1>8. CASE Close
  BY <1>8, CloseSteps
<1>9. CASE Lifecycle
  BY <1>9, LifecycleSteps
<1>10. CASE OfferLapses
  BY <1>10, OfferLapsesSteps
<1>11. ASSUME NEW o \in DOMAIN offers, Approval(o) \/ ApprovalLapses(o)
       PROVE  Step(Book, Book') /\ Advance(Book, Book')
  <2>1. CASE ApprovalLapses(o)
    BY <2>1, ApprovalLapsesSteps
  <2>2. ASSUME NEW approve \in BOOLEAN, Review(o, approve)
        PROVE  Step(Book, Book') /\ Advance(Book, Book')
    BY <2>2, ReviewSteps
  <2>3. CASE Apply(o)
    BY <2>3, ApplySteps
  <2>4. CASE Reconcile(o)
    BY <2>4, ReconcileSteps
  <2> QED BY <1>11, <2>1, <2>2, <2>3, <2>4 DEF Approval
<1>12. CASE Buyer
  <2>1. CASE Enqueue \/ Plan \/ ReadVersion \/ Repeat \/ NotExecuted
    BY <1>1, <2>1 DEF Enqueue, Plan, ReadVersion, Repeat, NotExecuted
  <2>2. CASE PublishReply \/ PublishNotice \/ Display
    BY <1>1, <2>2 DEF PublishReply, PublishNotice, Display
  <2> QED BY <1>2, <1>3, <1>4, <1>5, <1>6, <1>7, <1>8, <1>12, <2>1, <2>2 DEF Buyer
<1>13. CASE Seller
  BY <1>1, <1>13 DEF Seller, UpdatePolicy, UpdateProduct, UpdateFacts
<1> QED BY <1>9, <1>10, <1>11, <1>12, <1>13 DEF Next

\* The input that is being handled stays honest, and what is owed for it is a reply.
LEMMA TurnSteps ==
    ASSUME Inv, Next
    PROVE  turn' = turn \/ turn' = Idle \/ turn' \in Replies \/ Honest(turn', acks)
<1>1. /\ session.version \in Nat /\ session.current \in Nat
      /\ Book.session.version \in Nat
  BY Parts, TheBook DEF Inv, Sound
<1>2. CASE Reject \/ Accept \/ AskSeller \/ Counter \/ Confirm \/ Withdraw \/ Close
  BY <1>2, RejectSteps, AcceptSteps, AskSellerSteps, CounterSteps, ConfirmSteps,
     WithdrawSteps, CloseSteps
<1>3. CASE Enqueue
  BY <1>3, WishesAreHonest DEF Inv, Enqueue
<1>4. CASE Plan
  BY <1>4, PlansAreHonest
<1>5. CASE ReadVersion
  <2>1. turn.stage \in {"queued", "planned", "ready"}
    BY <1>5 DEF ReadVersion
  <2>2. turn # Idle /\ turn \notin Replies
    BY <2>1 DEF Idle, Replies
  <2>3. Honest(turn, acks)
    BY <2>2, HonestTurn DEF Inv
  <2> DEFINE t == [turn EXCEPT !.stage = "ready"]
  <2>4. /\ t \in Inputs /\ t.kind = turn.kind /\ t.net = turn.net /\ t.receipt = turn.receipt
    BY <2>3 DEF Honest, Inputs
  <2>5. turn' = [t EXCEPT !.expected = session.version]
    BY <1>5 DEF ReadVersion
  <2> HIDE DEF t
  <2>6. /\ turn' \in Inputs /\ turn'.kind = t.kind /\ turn'.net = t.net
        /\ turn'.receipt = t.receipt
    BY <1>1, <2>4, <2>5 DEF Inputs
  <2> QED BY <2>3, <2>4, <2>6 DEF Honest
<1>6. CASE Repeat
  <2>1. PICK outcome \in Outcomes : turn' = Owed(outcome, session.current, Book)
    BY <1>6 DEF Repeat, Outcomes
  <2> QED BY <1>1, <2>1, Owing
<1>7. CASE NotExecuted
  BY <1>1, <1>7, Owing DEF NotExecuted, Outcomes
<1>8. CASE PublishReply
  BY <1>8 DEF PublishReply
<1>9. CASE PublishNotice \/ Display
  BY <1>9 DEF PublishNotice, Display
<1>10. CASE Seller
  BY <1>10 DEF Seller, UpdatePolicy, UpdateProduct, UpdateFacts
<1>11. CASE Lifecycle \/ OfferLapses
  BY <1>11 DEF Lifecycle, OfferLapses
<1>12. ASSUME NEW o \in DOMAIN offers, Approval(o) \/ ApprovalLapses(o)
       PROVE  turn' = turn
  BY <1>12 DEF Approval, ApprovalLapses, Review, Apply, Reconcile
<1> QED BY <1>2, <1>3, <1>4, <1>5, <1>6, <1>7, <1>8, <1>9, <1>10, <1>11, <1>12 DEF Next, Buyer

\* Cards name an offer of the session and a version.
Cards(n) == [offer : 1..n, version : Nat]

\* What becomes of cards and notices in a step.
LEMMA CardSteps ==
    ASSUME Inv, Next
    PROVE  /\ contexts' = contexts \/ UNCHANGED books
           /\ \A c \in contexts' \ contexts :
                 /\ c \in Cards(Len(offers)) /\ c.version = session.version
                 /\ c.offer = session.current /\ Covered(Book)
           /\ contexts \subseteq contexts' /\ acks \subseteq acks'
           /\ acks' \subseteq acks \union contexts
           /\ \A n \in notices' \ notices :
                 n.offer \in DOMAIN offers /\ n = [offer |-> n.offer, version |-> session'.version]
<1> DEFINE Goal == /\ contexts' = contexts \/ UNCHANGED books
                   /\ \A c \in contexts' \ contexts :
                         /\ c \in Cards(Len(offers)) /\ c.version = session.version
                         /\ c.offer = session.current /\ Covered(Book)
                   /\ contexts \subseteq contexts' /\ acks \subseteq acks'
                   /\ acks' \subseteq acks \union contexts
                   /\ \A n \in notices' \ notices :
                         /\ n.offer \in DOMAIN offers
                         /\ n = [offer |-> n.offer, version |-> session'.version]
<1>1. CASE UNCHANGED cards
  BY <1>1 DEF cards
<1>2. /\ session.version \in Nat /\ Len(offers) \in Nat /\ session.current \in 0..Len(offers)
  BY Parts, TheBook DEF Inv, Sound
<1>3. ASSUME NEW outcome, NEW o, NEW version, Published(outcome, o, version),
             NEW c \in contexts' \ contexts
      PROVE  /\ c \in Cards(Len(offers)) /\ c.version = session.version
             /\ c.offer = session.current /\ Covered(Book)
  <2>1. ValidOffer(o) /\ c = [offer |-> o, version |-> session.version]
    BY <1>3 DEF Published, Confirmable
  <2>2. o # 0 /\ o = session.current /\ Covered(Book)
    BY <2>1, ValidIsCovered
  <2> QED BY <1>2, <2>1, <2>2 DEF Cards
<1>4. ASSUME NEW outcome, NEW o, NEW version, Published(outcome, o, version)
      PROVE  contexts \subseteq contexts'
  BY <1>4 DEF Published
<1>5. CASE PublishReply
  BY <1>3, <1>4, <1>5 DEF PublishReply
<1>6. CASE PublishNotice
  BY <1>3, <1>4, <1>6 DEF PublishNotice
<1>7. CASE Display
  BY <1>7 DEF Display
<1>8. CASE Seller \/ Lifecycle \/ OfferLapses
  BY <1>1, <1>8 DEF Seller, UpdatePolicy, UpdateProduct, UpdateFacts, Lifecycle, OfferLapses
<1>9. ASSUME NEW o \in DOMAIN offers, Approval(o) \/ ApprovalLapses(o)
      PROVE  Goal
  <2>1. CASE Apply(o)
    <3>1. contexts' = contexts /\ acks' = acks
      BY <2>1 DEF Apply
    <3>2. notices' \subseteq notices \union {[offer |-> o, version |-> session'.version]}
      BY <2>1, ApplySteps
    <3> QED BY <3>1, <3>2
  <2> QED BY <1>1, <1>9, <2>1 DEF Approval, ApprovalLapses, Review, Reconcile
<1>10. CASE Buyer
  BY <1>1, <1>5, <1>6, <1>7, <1>10 DEF Buyer, Enqueue, Plan, ReadVersion, Repeat, Reject, Accept,
     AskSeller, Counter, Confirm, Withdraw, Close, NotExecuted
<1> QED BY <1>8, <1>9, <1>10 DEF Next

\* The current offer is covered as it was, or is covered only now, or is another one.
LEMMA CoverStays ==
    ASSUME NEW b, Rows(b), NEW c, Advance(b, c) \/ Agrees(b, c), Covered(b),
           c.session.current = b.session.current
    PROVE  Covered(c)
<1>1. b.session.current \in 0..Len(b.offers) /\ Len(b.offers) \in Nat
  BY Parts
<1> QED BY <1>1 DEF Advance, Agrees, Proposes, Refuses, Grants, Drops, Closes, Keeps, Covered

\* Cards stay true: the version counts whenever the current offer changes.
LEMMA CardsStayTrue ==
    ASSUME Inv, Next
    PROVE  CardsAreTrue'
<1>1. /\ session.version \in Nat /\ Len(offers) \in Nat /\ session.current \in 0..Len(offers)
      /\ session'.version \in Nat /\ Rows(Book)
  <2>1. Sound(Book) /\ Sound(Book')
    BY BookSteps DEF Inv, Step
  <2> QED BY <2>1, Parts, TheBook DEF Sound
<1>2. /\ session.version <= session'.version
      /\ session'.current # session.current => session.version < session'.version
  BY BookSteps, TheBook DEF Step
<1>3. ASSUME NEW c \in contexts
      PROVE  /\ c.version \in Nat /\ c.offer \in 1..Len(offers) /\ c.version <= session.version
             /\ c.version = session.version => c.offer = session.current
             /\ c.offer = session.current => Covered(Book)
  <2>1. c \in [offer : 1..Len(offers), version : Nat]
    BY DEF Inv, TypeOK
  <2> QED BY <2>1 DEF Inv, CardsAreTrue
<1>4. ASSUME NEW c \in contexts'
      PROVE  /\ c.version <= session'.version
             /\ c.version = session'.version => c.offer = session'.current
             /\ c.offer = session'.current => Covered(Book')
  <2>1. CASE c \in contexts
    <3>1. c.version <= session'.version
      BY <1>1, <1>2, <1>3, <2>1
    <3>2. c.version = session'.version => c.offer = session'.current
      BY <1>1, <1>2, <1>3, <2>1
    <3>3. ASSUME c.offer = session'.current PROVE Covered(Book')
      <4>1. Advance(Book, Book') \/ Agrees(Book, Book')
        BY BookSteps
      <4>2. CASE session'.current = session.current
        <5>1. Covered(Book)
          BY <1>3, <2>1, <3>3, <4>2
        <5> QED BY <1>1, <4>1, <4>2, <5>1, CoverStays, TheBook
      <4>3. CASE session'.current # session.current
        <5>1. session'.current = 0 \/ session'.current > Len(offers)
          BY <1>1, <4>1, <4>3, TheBook
             DEF Advance, Agrees, Proposes, Refuses, Grants, Drops, Closes, Keeps
        <5> QED BY <1>1, <1>3, <2>1, <3>3, <5>1
      <4> QED BY <4>2, <4>3
    <3> QED BY <3>1, <3>2, <3>3
  <2>2. CASE c \notin contexts
    <3>1. /\ c.version = session.version /\ c.offer = session.current /\ Covered(Book)
          /\ UNCHANGED books
      BY <2>2, CardSteps
    <3>2. Book' = Book
      BY <3>1, Untouched
    <3> QED BY <1>1, <3>1, <3>2, TheBook
  <2> QED BY <2>1, <2>2
<1>5. Covered(Book)' = Covered(Book')
  BY DEF Covered, Book
<1> QED BY <1>4, <1>5 DEF CardsAreTrue

\* Policy, product and facts stay within their columns.
LEMMA BasisSteps ==
    ASSUME Inv, Next
    PROVE  /\ policies' \in Seq(Policies) /\ Len(policies') \in 1..MaxPolicies
           /\ product' \in Products
           /\ facts' \in [version : 1..MaxFacts, ok : BOOLEAN]
<1>1. /\ policies \in Seq(Policies) /\ Len(policies) \in 1..MaxPolicies
      /\ product \in Products
      /\ facts \in [version : 1..MaxFacts, ok : BOOLEAN]
  BY DEF Inv, TypeOK
<1>2. MaxPolicies \in Nat /\ MaxFacts \in Nat
  BY ConstantsAssumption
<1>3. CASE UNCHANGED basis
  BY <1>1, <1>3 DEF basis
<1>4. CASE UpdatePolicy
  <2>1. /\ Len(policies) < MaxPolicies /\ product' = product /\ facts' = facts
        /\ \E p \in Policies : policies' = Append(policies, p)
    BY <1>4 DEF UpdatePolicy
  <2>2. PICK p \in Policies : policies' = Append(policies, p)
    BY <2>1
  <2>3. policies' \in Seq(Policies) /\ Len(policies') = Len(policies) + 1
    BY <1>1, <2>2, AppendProperties
  <2> QED BY <1>1, <1>2, <2>1, <2>3
<1>5. CASE UpdateProduct
  BY <1>1, <1>5 DEF UpdateProduct
<1>6. CASE UpdateFacts
  <2>1. /\ facts.version < MaxFacts /\ policies' = policies /\ product' = product
        /\ \E ok \in BOOLEAN : facts' = [version |-> facts.version + 1, ok |-> ok]
    BY <1>6 DEF UpdateFacts
  <2> QED BY <1>1, <1>2, <2>1
<1>7. CASE Buyer \/ Lifecycle \/ OfferLapses
  BY <1>3, <1>7 DEF Buyer, Enqueue, Plan, ReadVersion, Repeat, Reject, Accept, AskSeller, Counter,
     Confirm, Withdraw, Close, NotExecuted, PublishReply, PublishNotice, Display, Lifecycle,
     OfferLapses
<1>8. ASSUME NEW o \in DOMAIN offers, Approval(o) \/ ApprovalLapses(o) PROVE UNCHANGED basis
  BY <1>8 DEF Approval, ApprovalLapses, Review, Apply, Reconcile
<1> QED BY <1>3, <1>4, <1>5, <1>6, <1>7, <1>8 DEF Next, Seller

\* No step leaves the types.
LEMMA TypesStay == ASSUME Inv, Next PROVE TypeOK'
<1>1. /\ Sound(Book) /\ Sound(Book') /\ Len(Book.offers) <= Len(Book'.offers)
  BY BookSteps DEF Inv, Step
<1>2. /\ session' \in Sessions /\ session'.current \in 0..Len(offers')
      /\ offers' \in Seq(Offers) /\ approvals' \in Seq(Approvals)
      /\ Len(approvals') = Len(offers') /\ session'.version \in Nat
      /\ Len(offers) \in Nat /\ Len(offers') \in Nat /\ Len(offers) <= Len(offers')
  BY <1>1, Parts, TheBook DEF Sound
<1>3. session' \in [status : {"ACTIVE", "WAITING_APPROVAL"} \union Ended,
                    current : 0..Len(offers'), version : Nat, rounds : Nat]
  BY <1>2 DEF Sessions
<1>4. turn' \in Turns
  <2>1. turn \in Turns
    BY DEF Inv, TypeOK
  <2>2. Honest(turn', acks) => turn' \in Turns
    BY TurnKinds DEF Honest
  <2> QED BY <2>1, <2>2, TurnSteps, TurnKinds
<1>5. \A n \in Cards(Len(offers)) : n \in Cards(Len(offers'))
  BY <1>2 DEF Cards
<1>6. /\ notices \subseteq Cards(Len(offers)) /\ contexts \subseteq Cards(Len(offers))
      /\ acks \subseteq contexts
  BY DEF Inv, TypeOK, Cards
<1>7. contexts' \subseteq Cards(Len(offers'))
  BY <1>5, <1>6, CardSteps
<1>8. acks' \subseteq contexts'
  BY <1>6, CardSteps
<1>9. notices' \subseteq Cards(Len(offers'))
  <2>1. ASSUME NEW n \in notices' PROVE n \in Cards(Len(offers'))
    <3>1. CASE n \in notices
      BY <1>5, <1>6, <3>1
    <3>2. CASE n \notin notices
      <4>1. n.offer \in DOMAIN offers /\ n = [offer |-> n.offer, version |-> session'.version]
        BY <3>2, CardSteps
      <4>2. DOMAIN offers = 1..Len(offers)
        BY LenProperties DEF Inv, TypeOK
      <4> QED BY <1>2, <4>1, <4>2 DEF Cards
    <3> QED BY <3>1, <3>2
  <2> QED BY <2>1
<1> QED BY <1>2, <1>3, <1>4, <1>7, <1>8, <1>9, BasisSteps DEF TypeOK, Cards

\* The invariant holds at first ...
LEMMA Initially == ASSUME Init PROVE Inv
<1>1. TypeOK
  <2>1. /\ offers \in Seq(Offers) /\ approvals \in Seq(Approvals) /\ Len(offers) = 0
        /\ Len(approvals) = 0
    BY EmptySeq DEF Init
  <2>2. policies \in Seq(Policies) /\ Len(policies) = 1
    BY ConstantsAssumption DEF Init
  <2> QED BY <2>1, <2>2, ConstantsAssumption DEF Init, TypeOK, Turns, Ended
<1>2. Sound(Book)
  <2>1. /\ Book.session = [status |-> "ACTIVE", current |-> 0, version |-> 1, rounds |-> 0]
        /\ Book.offers = <<>> /\ Book.approvals = <<>>
    BY TheBook DEF Init
  <2>2. Len(Book.offers) = 0
    BY <2>1
  <2>3. Rows(Book)
    BY <1>1, <2>1, <2>2 DEF Rows, Sessions, Ended, Book, TypeOK, Init
  <2> QED BY <2>1, <2>2, <2>3 DEF Sound, OneOpen, Waits, Decided
<1> QED BY <1>1, <1>2 DEF Init, Inv, CardsAreTrue, TurnIsHonest, Idle

\* ... and every step keeps it.
LEMMA Inductive == ASSUME Inv, [Next]_vars PROVE Inv'
<1>1. CASE Next
  <2>1. TypeOK' /\ CardsAreTrue'
    BY <1>1, TypesStay, CardsStayTrue
  <2>2. Sound(Book)'
    <3>1. Sound(Book')
      BY <1>1, BookSteps DEF Step
    <3> QED BY <3>1 DEF Book
  <2>3. TurnIsHonest'
    <3>1. turn = Idle \/ turn \in Replies \/ Honest(turn, acks)
      BY HonestTurn DEF Inv
    <3>2. acks \subseteq acks'
      BY <1>1, CardSteps
    <3>3. turn' = Idle \/ turn' \in Replies \/ Honest(turn', acks')
      BY <1>1, <3>1, <3>2, TurnSteps DEF Honest
    <3>4. turn' = Idle => turn'.stage = "idle"
      BY DEF Idle
    <3>5. turn' \in Replies => turn'.stage = "reply"
      BY DEF Replies
    <3> QED BY <3>3, <3>4, <3>5 DEF TurnIsHonest, Honest
  <2> QED BY <2>1, <2>2, <2>3 DEF Inv
<1>2. CASE UNCHANGED vars
  BY <1>2 DEF vars, books, basis, cards, Inv, TypeOK, Book, CardsAreTrue, Covered, TurnIsHonest
<1> QED BY <1>1, <1>2

-------------------------------------------------------------------------------
(* The theorems.                                                                *)

\* The inductive invariant.
THEOREM Invariance == Spec => []Inv
BY Initially, Inductive, PTL DEF Spec

\* Every row keeps its columns and every reference is to an offer that exists,
\* whatever terms, policies, products and numbers of rounds there are.
THEOREM TypeCorrect == Spec => []TypeOK
<1>1. Inv => TypeOK
  BY DEF Inv
<1> QED BY <1>1, Invariance, PTL

\* An offer is open exactly while it is current: Kill, Replaced and Entered, in
\* whatever order the buyer, the seller and the loops call them, leave no second one.
THEOREM OnlyTheCurrentIsOpen == Spec => []OneOpenOffer
<1>1. Inv => OneOpenOffer
  <2> SUFFICES ASSUME Inv PROVE OneOpenOffer
    OBVIOUS
  <2>1. Sound(Book) /\ DOMAIN offers = 1..Len(offers)
    BY LenProperties DEF Inv, TypeOK
  <2> QED BY <2>1, TheBook DEF Sound, OneOpen, OneOpenOffer
<1> QED BY <1>1, Invariance, PTL

\* A waiting session waits for an approval of its current offer, and no approval that
\* could still take effect is left behind by a replacement, a rejection or an expiry.
THEOREM WaitsForItsApproval == Spec => []WaitingIsOnApproval
<1>1. Inv => WaitingIsOnApproval
  <2> SUFFICES ASSUME Inv PROVE WaitingIsOnApproval
    OBVIOUS
  <2>1. Sound(Book) /\ DOMAIN offers = 1..Len(offers)
    BY LenProperties DEF Inv, TypeOK
  <2>2. Waits(Book)
    BY <2>1 DEF Sound
  <2>3. ASSUME NEW o \in DOMAIN offers, approvals[o].status # "NONE",
               approvals[o].effect = "NOT_APPLIED"
        PROVE  /\ session.current = o /\ session.status = "WAITING_APPROVAL"
               /\ approvals[o].status \in {"PENDING", "APPROVED"}
               /\ offers[o].status = "PROPOSED" /\ offers[o].by = "BUYER"
    BY <2>1, <2>2, <2>3, TheBook DEF Waits, Awaited
  <2>4. session.status = "WAITING_APPROVAL" =>
           /\ session.current # 0 /\ approvals[session.current].status # "NONE"
           /\ approvals[session.current].effect = "NOT_APPLIED"
    BY <2>2, TheBook DEF Waits, Awaited
  <2> QED BY <2>3, <2>4, Zenon DEF WaitingIsOnApproval
<1> QED BY <1>1, Invariance, PTL

\* A receipt of the present version is one of the current offer: every change of the
\* current offer counts the version, so display and confirm need compare only that.
THEOREM CardsNameTheCurrentOffer == Spec => []VersionNamesOffer
<1>1. Inv => VersionNamesOffer
  BY DEF Inv, CardsAreTrue, VersionNamesOffer
<1> QED BY <1>1, Invariance, PTL

\* No transaction rewrites a decision or revives an approval that has ended.
THEOREM DecisionsAreFinal == Spec => DecisionsStand
<1> DEFINE Stand ==
             \A o \in DOMAIN approvals :
                /\ approvals[o].status # "PENDING" => approvals'[o].status = approvals[o].status
                /\ approvals[o].effect = "INVALIDATED" => approvals'[o].effect = "INVALIDATED"
                /\ approvals[o].effect = "APPLIED" => approvals'[o].effect # "NOT_APPLIED"
                /\ approvals[o].status = "REJECTED" => approvals'[o].effect = "APPLIED"
<1>1. Inv /\ [Next]_vars => [Stand]_vars
  <2> SUFFICES ASSUME Inv, Next PROVE Stand
    OBVIOUS
  <2>1. Stands(Book, Book')
    BY BookSteps DEF Step
  <2>2. DOMAIN approvals = 1..Len(Book.offers)
    BY LenProperties, TheBook DEF Inv, TypeOK
  <2> QED BY <2>1, <2>2, TheBook DEF Stands
<1> QED BY <1>1, Invariance, PTL DEF Spec, DecisionsStand

\* Only the buyer's confirmation makes an agreement, and only with the authority of
\* the policy in force at that moment.
THEOREM AgreementIsAuthorized == Spec => AgreedIsAuthorized
<1> DEFINE Authorized ==
             session.status # "AGREED" /\ session'.status = "AGREED" =>
                LET o == session.current IN
                /\ o # 0 /\ product.open /\ ~offers[o].lapsed
                /\ \/ Zone(offers[o].net, Policy) = "AUTO"
                   \/ /\ approvals[o].status = "APPROVED" /\ approvals[o].effect = "APPLIED"
                      /\ approvals[o].timely /\ offers[o].policy = Len(policies)
<1>1. Inv /\ [Next]_vars => [Authorized]_vars
  <2> SUFFICES ASSUME Inv, Next, session.status # "AGREED", session'.status = "AGREED"
               PROVE  Authorized
    OBVIOUS
  <2>1. Phase(Book') = "agreed" /\ Phase(Book) # "agreed"
    BY TheBook DEF Phase
  <2>2. ~Advance(Book, Book')
    BY <2>1 DEF Advance, Proposes, Refuses, Grants, Drops, Closes, Keeps
  <2>3. ValidOffer(session.current)
    BY <2>2, BookSteps, ConfirmSteps
  <2> QED BY <2>3, ValidIsCovered
<1> QED BY <1>1, Invariance, PTL DEF Spec, AgreedIsAuthorized

-------------------------------------------------------------------------------
(* The session keeps what module Agreement promises.                            *)

\* The buyer's client has shown a card of the current offer.
Seen(b, shown) == b.session.current # 0 /\ \E c \in shown : c.offer = b.session.current

\* The refinement mapping, by what the book says.
LEMMA TheView ==
    /\ (IF session.status = "AGREED" THEN "agreed"
        ELSE IF session.status = "CLOSED" THEN "closed" ELSE "open") = Phase(Book)
    /\ (session.current # 0
        /\ (offers[session.current].by = "AGENT"
            \/ offers[session.current].status = "ACCEPTED")) = Covered(Book)
    /\ (session.current # 0 /\ \E c \in acks : c.offer = session.current) = Seen(Book, acks)
    /\ Len(offers) = Len(Book.offers) /\ session.current = Book.session.current
    /\ (IF session'.status = "AGREED" THEN "agreed"
        ELSE IF session'.status = "CLOSED" THEN "closed" ELSE "open") = Phase(Book')
    /\ (session'.current # 0
        /\ (offers'[session'.current].by = "AGENT"
            \/ offers'[session'.current].status = "ACCEPTED")) = Covered(Book')
    /\ (session'.current # 0 /\ \E c \in acks' : c.offer = session'.current) = Seen(Book', acks')
    /\ Len(offers') = Len(Book'.offers) /\ session'.current = Book'.session.current
<1>1. /\ Book.session = session /\ Book.offers = offers
      /\ Book'.session = session' /\ Book'.offers = offers'
  BY TheBook
<1> QED BY <1>1 DEF Phase, Covered, Seen

\* Cards are shown only by Display, of an offer that could be confirmed.
LEMMA Displaying ==
    ASSUME Inv, Next, acks' # acks
    PROVE  /\ UNCHANGED books /\ Phase(Book) = "open" /\ session.current # 0 /\ Covered(Book)
           /\ Seen(Book, acks')
<1>1. Display
  <2>1. Buyer => Display
    BY DEF Buyer, Enqueue, Plan, ReadVersion, Repeat, Reject, Accept, AskSeller, Counter, Confirm,
       Withdraw, Close, NotExecuted, PublishReply, PublishNotice, cards
  <2>2. ~(Seller \/ Lifecycle \/ OfferLapses)
    BY DEF Seller, UpdatePolicy, UpdateProduct, UpdateFacts, Lifecycle, OfferLapses, cards
  <2>3. ASSUME NEW o \in DOMAIN offers, Approval(o) \/ ApprovalLapses(o) PROVE FALSE
    BY <2>3 DEF Approval, ApprovalLapses, Review, Apply, Reconcile, cards
  <2> QED BY <2>1, <2>2, <2>3 DEF Next
<1>2. PICK c \in contexts : CheckObject(c) /\ acks' = acks \union {c}
  BY <1>1 DEF Display
<1>3. ValidOffer(c.offer)
  BY <1>2 DEF CheckObject
<1>4. /\ c.offer # 0 /\ c.offer = session.current /\ session.status = "ACTIVE" /\ Covered(Book)
  BY <1>3, ValidIsCovered
<1>5. UNCHANGED books
  BY <1>1 DEF Display
<1> QED BY <1>2, <1>4, <1>5, TheBook DEF Phase, Seen

\* The cards shown are of offers made before: none is of an offer just made.
LEMMA ShownBefore ==
    ASSUME Inv, NEW c \in acks
    PROVE  c.offer \in 1..Len(Book.offers)
BY TheBook DEF Inv, TypeOK

\* Every step is one that module Agreement allows, or one it does not see.
LEMMA AgreementSteps == ASSUME Inv, Next PROVE [Agr!Next]_(Agr!vars)
<1>1. /\ Len(Book.offers) \in Nat /\ Book.session.current \in 0..Len(Book.offers)
      /\ Len(Book'.offers) \in Nat
  BY BookSteps, Parts DEF Inv, Step, Sound
<1>2. Advance(Book, Book') \/ (Confirm /\ Agrees(Book, Book'))
  BY BookSteps
<1>3. Covered(Book) \in BOOLEAN /\ Covered(Book') \in BOOLEAN
  BY DEF Covered
<1>4. Seen(Book, acks) \in BOOLEAN /\ Seen(Book', acks') \in BOOLEAN
  BY DEF Seen
<1>5. Book'.session.current = 0 => ~Covered(Book') /\ ~Seen(Book', acks')
  BY DEF Covered, Seen
<1>6. CASE acks' # acks
  <2>1. /\ UNCHANGED books /\ Phase(Book) = "open" /\ session.current # 0 /\ Covered(Book)
        /\ Seen(Book, acks')
    BY <1>6, Displaying
  <2>2. Book' = Book
    BY <2>1, Untouched
  <2>3. Agr!See
    BY <2>1, <2>2, TheView DEF Agr!See
  <2> QED BY <2>3 DEF Agr!Next
<1>7. CASE acks' = acks
  <2>1. Book'.session.current = Book.session.current => Seen(Book', acks') = Seen(Book, acks)
    BY <1>7 DEF Seen
  <2>2. CASE Proposes(Book, Book')
    <3>1. ~Seen(Book', acks')
      BY <1>1, <1>7, <2>2, ShownBefore DEF Proposes, Seen
    <3>2. PICK o \in {Len(offers) + 1, Len(offers) + 2} : o = Len(Book'.offers)
      BY <2>2, TheBook DEF Proposes
    <3>3. Agr!Propose(o)
      BY <1>3, <2>2, <3>1, <3>2, TheView DEF Agr!Propose, Proposes
    <3>4. \E n \in {Len(offers) + 1, Len(offers) + 2} : Agr!Propose(n)
      BY <3>3
    <3> QED BY <3>4 DEF Agr!Next
  <2>3. CASE Refuses(Book, Book')
    <3>1. Agr!Refuse
      BY <2>1, <2>3, TheView DEF Agr!Refuse, Refuses
    <3> QED BY <3>1 DEF Agr!Next
  <2>4. CASE Grants(Book, Book')
    <3>1. Book.session.current # 0
      BY <2>4 DEF Grants, Covered
    <3>2. Agr!Grant
      BY <2>1, <2>4, <3>1, TheView DEF Agr!Grant, Grants
    <3> QED BY <3>2 DEF Agr!Next
  <2>5. CASE Drops(Book, Book')
    <3>1. Agr!Drop
      BY <1>5, <2>5, TheView DEF Agr!Drop, Drops
    <3> QED BY <3>1 DEF Agr!Next
  <2>6. CASE Closes(Book, Book')
    <3>1. Agr!Close
      BY <1>5, <2>6, TheView DEF Agr!Close, Closes
    <3> QED BY <3>1 DEF Agr!Next
  <2>7. CASE Keeps(Book, Book')
    <3>1. UNCHANGED Agr!vars
      BY <2>1, <2>7, TheView DEF Agr!vars, Keeps
    <3> QED BY <3>1
  <2>8. CASE Confirm /\ Agrees(Book, Book')
    <3>1. Book.session.current # 0
      BY <2>8 DEF Agrees, Covered
    <3>2. Seen(Book, acks)
      BY <2>8, <3>1, ConfirmSteps, TheBook DEF Seen
    <3>3. Agr!Agree
      BY <2>1, <2>8, <3>1, <3>2, TheView DEF Agr!Agree, Agrees
    <3> QED BY <3>3 DEF Agr!Next
  <2> QED BY <1>2, <2>2, <2>3, <2>4, <2>5, <2>6, <2>7, <2>8 DEF Advance
<1> QED BY <1>6, <1>7

\* The negotiation implements the agreement: an agreement is reached only on the one
\* open offer, once the seller's authority covers it and the buyer has seen it, and
\* nothing follows the end, whatever the order of transactions, edits and lapses.
THEOREM NegotiationKeepsTheAgreement == Spec => AgreementIsKept
<1>1. Init => Agr!Init
  BY EmptySeq DEF Init, Agr!Init
<1>2. Inv /\ [Next]_vars => [Agr!Next]_(Agr!vars)
  <2>1. CASE UNCHANGED vars
    BY <2>1 DEF vars, books, cards, Agr!vars
  <2> QED BY <2>1, AgreementSteps
<1> QED BY <1>1, <1>2, Invariance, PTL DEF Spec, AgreementIsKept, Agr!Spec

==============================================================================
