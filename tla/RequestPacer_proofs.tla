------------------------- MODULE RequestPacer_proofs -------------------------
(***************************************************************************)
(* The rate of an assessment holds for every number of invocations and     *)
(* attempts, every rate and every lease time. The invariant says what the  *)
(* owner of the lease knows of the slots and departures before it: they    *)
(* are an interval before its pacer's next, because each of them is        *)
(* covered by an attempt that is running or was completed later.           *)
(***************************************************************************)
EXTENDS RequestPacer, TLAPS

Busy == {"wait", "unsent", "ready", "sent"}
Loaded == Busy \cup {"reserve"}
ReadyPc(w) == pacer[w].pc = "ready"

SpacedInv == \A i \in 1..(Len(slots) - 1) : slots[i] + RequestInterval <= slots[i + 1]
PastInv ==
  /\ \A i \in DOMAIN slots : slots[i] <= now
  /\ \A i \in DOMAIN sent : sent[i].time <= now
\* An invocation at work on an attempt has one of its own.
CurrentInv ==
  \A w \in Invocation : pacer[w].pc \in Busy =>
    /\ pacer[w].current \in DOMAIN attempts
    /\ attempts[pacer[w].current] = Running
    /\ \A v \in Invocation \ {w} :
         pacer[v].pc \in Busy => pacer[v].current # pacer[w].current
Covered(t) == \E a \in DOMAIN attempts : attempts[a] = Running \/ t <= attempts[a]
CoveredInv ==
  /\ \A i \in DOMAIN slots : Covered(slots[i])
  /\ \A i \in DOMAIN sent : Covered(sent[i].time)
OwnerInv ==
  \A w \in Invocation : lease.owner = w /\ pacer[w].pc \in Loaded =>
    /\ \A i \in DOMAIN slots : slots[i] + RequestInterval <= pacer[w].next
    /\ \A i \in DOMAIN sent : sent[i].owned /\ sent[i].by # w =>
         /\ sent[i].time + RequestInterval <= pacer[w].next
         /\ ReadyPc(w) => sent[i].time + RequestInterval <= now
\* What an invocation has sent before it takes a slot, and before the last.
FreshInv == \A i \in DOMAIN sent : pacer[sent[i].by].pc \notin {"idle", "load"}
ReadyInv ==
  \A i \in DOMAIN sent :
    ReadyPc(sent[i].by) => sent[i].time + RequestInterval <= pacer[sent[i].by].next
PairInv ==
  \A i, k \in DOMAIN sent : i < k /\ sent[i].by = sent[k].by =>
    /\ sent[i].time + RequestInterval <= pacer[sent[i].by].next
    /\ ReadyPc(sent[i].by) => sent[i].time + RequestInterval <= now
StaleInv ==
  \A i \in DOMAIN sent : ~sent[i].owned => lease.owner # sent[i].by /\ ~ReadyPc(sent[i].by)
\* DeparturesKeepRate in ticks.
DepartInv ==
  \A i, j \in DOMAIN sent :
    LET Apart == sent[i].time + RequestInterval <= sent[j].time
    IN  /\ i < j /\ sent[i].by # sent[j].by /\ sent[i].owned /\ sent[j].owned => Apart
        /\ \A k \in DOMAIN sent :
             i < k /\ k < j /\ sent[i].by = sent[k].by /\ sent[k].by = sent[j].by => Apart
        /\ i < j /\ sent[i].by = sent[j].by => sent[i].owned
PacerInv ==
  /\ TypeOK /\ SpacedInv /\ PastInv /\ CurrentInv /\ CoveredInv
  /\ OwnerInv /\ FreshInv /\ ReadyInv /\ PairInv /\ StaleInv /\ DepartInv

-----------------------------------------------------------------------------
\* Division rounds down by less than the divisor.
LEMMA DivisionRemainder ==
  ASSUME NEW x \in Nat, NEW b \in Nat \ {0}
  PROVE  x \div b \in Int /\ x = b * (x \div b) + (x % b) /\ x % b \in 0..(b - 1)
<1>1. b \in Nat /\ b > 0
  OBVIOUS
<1>2. x \div b \in Int
  BY <1>1
<1>3. x = b * (x \div b) + (x % b)
  BY <1>1
<1>4. x % b \in 0..(b - 1)
  BY <1>1
<1> QED
  BY <1>2, <1>3, <1>4

\* The interval is a natural number of ticks, and Rate of them fill a second.
LEMMA IntervalSuffices ==
  RequestInterval \in Nat /\ RequestInterval * Rate >= Second
<1>1. /\ Second \in Nat /\ Rate \in Nat \ {0}
      /\ Second + Rate - 1 \in Nat
  BY PacerAssumption
<1> DEFINE q == (Second + Rate - 1) \div Rate
           r == (Second + Rate - 1) % Rate
<1>2. q \in Int /\ Second + Rate - 1 = Rate * q + r /\ r \in 0..(Rate - 1)
  BY <1>1, DivisionRemainder
<1> HIDE DEF q, r
<1>3. q >= 0
  BY <1>1, <1>2
<1>4. q * Rate >= Second
  BY <1>1, <1>2
<1> QED
  BY <1>2, <1>3, <1>4 DEF RequestInterval, q

\* The types of one departure.
LEMMA SentTypes ==
  ASSUME TypeOK, NEW i \in DOMAIN sent
  PROVE  sent[i].by \in Invocation /\ sent[i].time \in Nat /\ sent[i].owned \in BOOLEAN
<1> DEFINE R == [by : Invocation, time : Nat, owned : BOOLEAN]
<1>1. sent \in Seq(R)
  BY DEF TypeOK
<1> HIDE DEF R
<1>2. sent[i] \in R
  BY <1>1
<1> QED
  BY <1>2 DEF R

\* The types of one pacer.
LEMMA PacerTypes ==
  ASSUME TypeOK, NEW w \in Invocation
  PROVE  /\ pacer[w].pc \in Pc /\ pacer[w].next \in Nat /\ pacer[w].current \in Nat
         /\ pacer[w].next <= now + RequestInterval
  BY DEF TypeOK

\* A step that sends nothing, completes nothing and moves no slot.
QuietStep(v) ==
  /\ pacer'[v].next = pacer[v].next /\ pacer'[v].current = pacer[v].current
  /\ pacer'[v].pc \in Busy => pacer[v].pc \in Busy
  /\ pacer'[v].pc \in Loaded => pacer[v].pc \in Loaded
  /\ pacer'[v].pc = "ready" => pacer[v].pc = "ready"
  /\ pacer'[v].pc \in {"idle", "load"} => pacer[v].pc \in {"idle", "load"}
  /\ lease'.owner = v =>
       lease.owner = v \/ (pacer[v].pc = "idle" /\ pacer'[v].pc = "load")
\* The invariant survives such steps of any number of invocations.
LEMMA QuietKeeps ==
  ASSUME PacerInv, TypeOK', UNCHANGED <<now, attempts, slots, sent>>,
         \A v \in Invocation : QuietStep(v)
  PROVE  PacerInv'
<1> USE DEF PacerInv
<1>1. SpacedInv' /\ PastInv' /\ CoveredInv'
  BY DEF SpacedInv, PastInv, CoveredInv, Covered
<1>2. CurrentInv'
  BY DEF CurrentInv, QuietStep
<1>3. OwnerInv'
  <2> SUFFICES ASSUME NEW w \in Invocation, lease'.owner = w, pacer'[w].pc \in Loaded
               PROVE  /\ lease.owner = w /\ pacer[w].pc \in Loaded
                      /\ ReadyPc(w)' => ReadyPc(w)
                      /\ pacer'[w].next = pacer[w].next
    BY DEF OwnerInv
  <2> QED
    BY DEF QuietStep, ReadyPc, Loaded, Busy
<1>4. ASSUME NEW i \in DOMAIN sent
      PROVE  /\ sent[i].by \in Invocation
             /\ ReadyPc(sent[i].by)' => ReadyPc(sent[i].by)
             /\ pacer'[sent[i].by].next = pacer[sent[i].by].next
             /\ pacer'[sent[i].by].pc \notin {"idle", "load"}
             /\ lease'.owner = sent[i].by => lease.owner = sent[i].by
  BY SentTypes DEF QuietStep, ReadyPc, FreshInv
<1>5. FreshInv'
  BY <1>4 DEF FreshInv
<1>6. ReadyInv' /\ PairInv' /\ StaleInv'
  BY <1>4 DEF ReadyInv, PairInv, StaleInv, ReadyPc
<1>7. DepartInv'
  BY DEF DepartInv
<1> QED
  BY <1>1, <1>2, <1>3, <1>5, <1>6, <1>7

\* Steps that only move one invocation, or only the lease.
LEMMA MovesKeep ==
  ASSUME PacerInv, NEW w \in Invocation,
         \/ Acquire(w) \/ NotSent(w) \/ Redirect(w)
         \/ Close(w) \/ Heartbeat(w) \/ Crash(w)
  PROVE  PacerInv'
<1> USE DEF PacerInv
<1>1. PICK pc \in Pc : pacer' = [pacer EXCEPT ![w].pc = pc]
  <2>1. ~Heartbeat(w) => Goto(w, "load") \/ Goto(w, "unsent") \/ Goto(w, "wait") \/ Goto(w, "stopped")
    BY DEF Acquire, NotSent, Redirect, Close, Crash
  <2>2. Heartbeat(w) => pacer' = [pacer EXCEPT ![w].pc = pacer[w].pc]
    BY DEF Heartbeat, TypeOK
  <2> QED
    BY <2>1, <2>2, PacerTypes DEF Goto, Pc
<1>2. lease' \in [owner : Invocation \cup {NoOwner}, expires : Nat]
  <2>1. lease' = lease \/ Lease(w) \/ lease' = [lease EXCEPT !.expires = 0]
    BY DEF Acquire, NotSent, Redirect, Close, Heartbeat, Crash, Renew
  <2>2. now + TTL \in Nat /\ lease \in [owner : Invocation \cup {NoOwner}, expires : Nat]
    BY PacerAssumption DEF TypeOK
  <2> QED
    BY <2>1, <2>2 DEF Lease
<1>3. UNCHANGED <<now, attempts, slots, sent>>
  BY DEF Acquire, NotSent, Redirect, Close, Heartbeat, Crash
<1>4. TypeOK'
  BY <1>1, <1>2, <1>3 DEF TypeOK
<1>5. ASSUME NEW v \in Invocation
      PROVE  QuietStep(v)
  <2>1. pacer'[v] = IF v = w THEN [pacer[w] EXCEPT !.pc = pc] ELSE pacer[v]
    BY <1>1 DEF TypeOK
  <2>2. pacer[w] \in [pc : Pc, next : Nat, current : Nat]
    BY DEF TypeOK
  <2>3. CASE v # w
    BY <2>1, <2>3 DEF QuietStep, Acquire, NotSent, Redirect, Close, Heartbeat, Crash,
       Renew, Lease, TypeOK
  <2>4. CASE v = w
    BY <2>1, <2>2, <2>4 DEF QuietStep, Busy, Loaded, Pc, TypeOK, At, Goto, Acquire, NotSent, Redirect,
     Close, Heartbeat, Crash, Renew, Held, Lease
  <2> QED
    BY <2>3, <2>4
<1> QED
  BY <1>3, <1>4, <1>5, QuietKeeps

\* Time only moves on.
LEMMA TickKeeps ==
  ASSUME PacerInv, Tick
  PROVE  PacerInv'
<1> USE DEF PacerInv
<1>1. /\ now \in Nat /\ now' = now + 1 /\ RequestInterval \in Nat
      /\ UNCHANGED <<lease, attempts, pacer, slots, sent>>
  BY IntervalSuffices DEF Tick, TypeOK
<1>2. TypeOK'
  <2>1. \A i \in DOMAIN attempts : attempts[i] \in Int /\ attempts[i] <= now
    BY DEF TypeOK, Running
  <2>2. \A w \in Invocation : pacer[w].next \in Nat /\ pacer[w].next <= now + RequestInterval
    BY PacerTypes
  <2> QED
    BY <1>1, <2>1, <2>2 DEF TypeOK
<1>3. \A i \in DOMAIN sent : sent[i].time \in Nat
  BY SentTypes
<1>4. \A i \in DOMAIN slots : slots[i] \in Nat
  BY DEF TypeOK
<1>5. SpacedInv' /\ CurrentInv' /\ CoveredInv' /\ FreshInv' /\ ReadyInv' /\ StaleInv' /\ DepartInv'
  BY <1>1 DEF SpacedInv, CurrentInv, CoveredInv, Covered, FreshInv, ReadyInv, StaleInv, DepartInv, ReadyPc
<1>6. PastInv'
  BY <1>1, <1>3, <1>4 DEF PastInv
<1>7. OwnerInv'
  BY <1>1, <1>3 DEF OwnerInv, ReadyPc
<1>8. PairInv'
  BY <1>1, <1>3 DEF PairInv, ReadyPc
<1> QED
  BY <1>2, <1>5, <1>6, <1>7, <1>8

\* The owner of the lease learns from the attempts what was done before it.
LEMMA LoadKeeps ==
  ASSUME PacerInv, NEW w \in Invocation, Load(w)
  PROVE  PacerInv'
<1> USE DEF PacerInv
<1>1. /\ RequestInterval \in Nat /\ now \in Nat
      /\ \A a \in DOMAIN attempts : attempts[a] \in Nat \cup {Running} /\ attempts[a] <= now
  BY IntervalSuffices DEF TypeOK
<1>2. PICK next \in {0} \cup {Candidate(attempts[a]) : a \in DOMAIN attempts} :
        /\ \A a \in DOMAIN attempts : Candidate(attempts[a]) <= next
        /\ pacer' = [pacer EXCEPT ![w] = [@ EXCEPT !.pc = "reserve", !.next = next]]
  BY DEF Load
<1>3. /\ UNCHANGED <<now, lease, attempts, slots, sent>>
      /\ pacer[w].pc = "load"
  BY DEF Load, At
<1>4. \A a \in DOMAIN attempts :
        /\ Candidate(attempts[a]) \in Nat /\ Candidate(attempts[a]) <= now + RequestInterval
        /\ attempts[a] = Running => Candidate(attempts[a]) = now + RequestInterval
        /\ attempts[a] # Running => Candidate(attempts[a]) = attempts[a] + RequestInterval
  BY <1>1 DEF Candidate, Running
<1>5. next \in Nat /\ next <= now + RequestInterval
  BY <1>1, <1>2, <1>4
<1>6. /\ pacer'[w].pc = "reserve" /\ pacer'[w].next = next
      /\ \A v \in Invocation \ {w} : pacer'[v] = pacer[v]
  BY <1>2 DEF TypeOK
<1>7. TypeOK'
  BY <1>2, <1>3, <1>5 DEF TypeOK, Pc
<1>8. ASSUME NEW t \in Nat, t <= now, Covered(t)
      PROVE  t + RequestInterval <= next
  BY <1>1, <1>2, <1>4, <1>5, <1>8 DEF Covered
<1>9. SpacedInv' /\ PastInv' /\ CoveredInv' /\ DepartInv'
  BY <1>3 DEF SpacedInv, PastInv, CoveredInv, Covered, DepartInv
<1>10. CurrentInv'
  BY <1>3, <1>6 DEF CurrentInv, Busy
<1>11. OwnerInv'
  <2>1. ASSUME NEW i \in DOMAIN slots
        PROVE  slots[i] + RequestInterval <= next
    BY <1>8 DEF TypeOK, PastInv, CoveredInv
  <2>2. ASSUME NEW i \in DOMAIN sent
        PROVE  sent[i].time + RequestInterval <= next
    BY <1>8, SentTypes DEF PastInv, CoveredInv
  <2>3. ASSUME NEW v \in Invocation \ {w}
        PROVE  pacer'[v].pc = pacer[v].pc /\ pacer'[v].next = pacer[v].next
    BY <1>6
  <2> QED
    BY <1>3, <1>6, <2>1, <2>2, <2>3 DEF OwnerInv, ReadyPc
<1>12. ASSUME NEW i \in DOMAIN sent
       PROVE  /\ sent[i].by \in Invocation \ {w}
              /\ pacer'[sent[i].by] = pacer[sent[i].by]
  BY <1>3, <1>6, SentTypes DEF FreshInv
<1>13. FreshInv' /\ ReadyInv' /\ PairInv' /\ StaleInv'
  BY <1>3, <1>12 DEF FreshInv, ReadyInv, PairInv, StaleInv, ReadyPc
<1> QED
  BY <1>7, <1>9, <1>10, <1>11, <1>13

\* A new attempt is nobody else's.
LEMMA ReserveKeeps ==
  ASSUME PacerInv, NEW w \in Invocation, Reserve(w)
  PROVE  PacerInv'
<1> USE DEF PacerInv
<1> DEFINE n == Len(attempts) + 1
<1>1. /\ attempts \in Seq(Nat \cup {Running}) /\ attempts' = Append(attempts, Running)
      /\ pacer' = [pacer EXCEPT ![w] = [@ EXCEPT !.pc = "wait", !.current = n]]
      /\ UNCHANGED <<now, slots, sent>>
      /\ pacer[w].pc = "reserve"
  BY DEF Reserve, At, TypeOK
<1>2. /\ n \in Nat /\ DOMAIN attempts' = 1..n /\ DOMAIN attempts = 1..(n - 1)
      /\ attempts'[n] = Running
      /\ \A a \in DOMAIN attempts : a # n /\ a \in DOMAIN attempts' /\ attempts'[a] = attempts[a]
  BY <1>1
<1>3. lease.owner = w /\ lease' = [owner |-> w, expires |-> now + TTL]
  BY DEF Reserve, Renew, Held, Lease
<1>4. /\ pacer'[w].pc = "wait" /\ pacer'[w].current = n /\ pacer'[w].next = pacer[w].next
      /\ \A v \in Invocation \ {w} : pacer'[v] = pacer[v]
  BY <1>1 DEF TypeOK
<1>5. TypeOK'
  <2>1. lease' \in [owner : Invocation \cup {NoOwner}, expires : Nat]
    BY <1>3, PacerAssumption DEF TypeOK
  <2>2. attempts' \in Seq(Nat \cup {Running})
    BY <1>1
  <2>3. \A a \in DOMAIN attempts' : attempts'[a] <= now
    <3>1. now \in Nat /\ \A a \in DOMAIN attempts : attempts[a] <= now
      BY DEF TypeOK
    <3>2. \A a \in DOMAIN attempts' : a = n \/ a \in DOMAIN attempts
      BY <1>2
    <3> QED
      BY <1>2, <3>1, <3>2 DEF Running
  <2>4. pacer' \in [Invocation -> [pc : Pc, next : Nat, current : Nat]]
    BY <1>1, <1>2 DEF TypeOK, Pc
  <2>5. \A v \in Invocation : pacer'[v].next <= now + RequestInterval
    BY <1>4, PacerTypes
  <2> QED
    BY <1>1, <2>1, <2>2, <2>3, <2>4, <2>5 DEF TypeOK
<1>6. SpacedInv' /\ PastInv' /\ DepartInv'
  BY <1>1 DEF SpacedInv, PastInv, DepartInv
<1>7. CoveredInv'
  <2>1. ASSUME NEW t
        PROVE  Covered(t)'
    BY <1>2 DEF Covered
  <2> QED
    BY <1>1, <2>1 DEF CoveredInv
<1>8. CurrentInv'
  BY <1>2, <1>4 DEF CurrentInv
<1>9. OwnerInv'
  BY <1>1, <1>3, <1>4 DEF OwnerInv, ReadyPc, Loaded
<1>10. ASSUME NEW i \in DOMAIN sent
       PROVE  /\ pacer'[sent[i].by].next = pacer[sent[i].by].next
              /\ pacer'[sent[i].by].pc \notin {"idle", "load"}
              /\ ReadyPc(sent[i].by)' => ReadyPc(sent[i].by)
  <2>1. sent[i].by \in Invocation /\ pacer[sent[i].by].pc \notin {"idle", "load"}
    BY SentTypes DEF FreshInv
  <2>2. CASE sent[i].by = w
    BY <1>1, <1>4, <2>2 DEF ReadyPc
  <2>3. CASE sent[i].by # w
    BY <1>1, <1>4, <2>1, <2>3 DEF ReadyPc
  <2> QED
    BY <2>2, <2>3
<1>11. FreshInv' /\ ReadyInv' /\ PairInv' /\ StaleInv'
  BY <1>1, <1>3, <1>10 DEF FreshInv, ReadyInv, PairInv, StaleInv, ReadyPc
<1> QED
  BY <1>5, <1>6, <1>7, <1>8, <1>9, <1>11

\* A slot is taken by the owner of the lease, an interval after what it knows.
LEMMA WaitKeeps ==
  ASSUME PacerInv, NEW w \in Invocation, Wait(w)
  PROVE  PacerInv'
<1> USE DEF PacerInv
<1> DEFINE n == Len(slots) + 1
<1>1. /\ slots \in Seq(Nat) /\ slots' = Append(slots, now)
      /\ pacer' = [pacer EXCEPT ![w] = [@ EXCEPT !.pc = "ready", !.next = now + RequestInterval]]
      /\ UNCHANGED <<now, attempts, sent>>
      /\ pacer[w].pc = "wait" /\ pacer[w].next <= now
      /\ now \in Nat /\ RequestInterval \in Nat /\ pacer[w].next \in Nat
  BY IntervalSuffices, PacerTypes DEF Wait, At, TypeOK
<1>2. /\ n \in Nat /\ Len(slots') = n /\ slots'[n] = now
      /\ DOMAIN slots' = 1..n /\ DOMAIN slots = 1..(n - 1)
      /\ \A i \in DOMAIN slots : slots'[i] = slots[i] /\ slots[i] \in Nat
  BY <1>1
<1>3. lease.owner = w /\ lease' = [owner |-> w, expires |-> now + TTL]
  BY DEF Wait, Renew, Held, Lease
<1>4. /\ pacer'[w].pc = "ready" /\ pacer'[w].current = pacer[w].current
      /\ pacer'[w].next = now + RequestInterval
      /\ \A v \in Invocation \ {w} : pacer'[v] = pacer[v]
  BY <1>1 DEF TypeOK
<1>5. TypeOK'
  <2>1. lease' \in [owner : Invocation \cup {NoOwner}, expires : Nat]
    BY <1>3, PacerAssumption DEF TypeOK
  <2>2. slots' \in Seq(Nat)
    BY <1>1
  <2>3. pacer' \in [Invocation -> [pc : Pc, next : Nat, current : Nat]]
    <3>1. now + RequestInterval \in Nat /\ "ready" \in Pc
      BY <1>1 DEF Pc
    <3> QED
      BY <1>1, <3>1 DEF TypeOK
  <2>4. \A v \in Invocation : pacer'[v].next <= now + RequestInterval
    BY <1>1, <1>4, PacerTypes
  <2> QED
    BY <1>1, <2>1, <2>2, <2>3, <2>4 DEF TypeOK
<1>6. \A i \in DOMAIN slots : slots[i] + RequestInterval <= now
  <2>1. \A i \in DOMAIN slots : slots[i] + RequestInterval <= pacer[w].next
    BY <1>1, <1>3 DEF OwnerInv, Loaded, Busy
  <2> QED
    BY <1>1, <1>2, <2>1
<1>7. SpacedInv'
  <2> SUFFICES ASSUME NEW i \in 1..(n - 1)
               PROVE  slots'[i] + RequestInterval <= slots'[i + 1]
    BY <1>2 DEF SpacedInv
  <2>1. CASE i = n - 1
    BY <1>2, <1>6, <2>1
  <2>2. CASE i # n - 1
    <3>1. i \in 1..(Len(slots) - 1) /\ i \in DOMAIN slots /\ i + 1 \in DOMAIN slots
      BY <1>1, <1>2, <2>2
    <3> QED
      BY <1>2, <3>1 DEF SpacedInv
  <2> QED
    BY <2>1, <2>2
<1>8. PastInv'
  <2>1. \A i \in DOMAIN slots' : i = n \/ i \in DOMAIN slots
    BY <1>2
  <2> QED
    BY <1>1, <1>2, <2>1 DEF PastInv
<1>9. CurrentInv'
  <2>1. \A v \in Invocation :
          pacer'[v].current = pacer[v].current /\ (pacer'[v].pc \in Busy => pacer[v].pc \in Busy)
    BY <1>1, <1>4 DEF Busy
  <2> QED
    BY <1>1, <2>1 DEF CurrentInv
<1>10. CoveredInv'
  <2>1. \A i \in DOMAIN slots' : i = n \/ i \in DOMAIN slots
    BY <1>2
  <2>2. pacer[w].current \in DOMAIN attempts /\ attempts[pacer[w].current] = Running
    BY <1>1 DEF CurrentInv, Busy
  <2> QED
    BY <1>1, <1>2, <2>1, <2>2 DEF CoveredInv, Covered
<1>11. OwnerInv'
  <2> SUFFICES /\ \A i \in DOMAIN slots' : slots'[i] + RequestInterval <= now + RequestInterval
               /\ \A i \in DOMAIN sent : sent[i].owned /\ sent[i].by # w =>
                    /\ sent[i].time + RequestInterval <= now + RequestInterval
                    /\ sent[i].time + RequestInterval <= now
    BY <1>1, <1>3, <1>4 DEF OwnerInv, ReadyPc
  <2>1. ASSUME NEW i \in DOMAIN slots'
        PROVE  slots'[i] + RequestInterval <= now + RequestInterval
    BY <1>1, <1>2, <1>8 DEF PastInv
  <2>2. ASSUME NEW i \in DOMAIN sent, sent[i].owned, sent[i].by # w
        PROVE  sent[i].time + RequestInterval <= pacer[w].next
    BY <1>1, <1>3, <2>2 DEF OwnerInv, Loaded, Busy
  <2> QED
    BY <1>1, <2>1, <2>2, SentTypes
<1>12. ASSUME NEW i \in DOMAIN sent
       PROVE  /\ sent[i].by \in Invocation /\ sent[i].time \in Nat /\ sent[i].time <= now
              /\ sent[i].owned \in BOOLEAN
              /\ pacer[sent[i].by].pc \notin {"idle", "load"}
              /\ sent[i].by # w => pacer'[sent[i].by] = pacer[sent[i].by]
  BY <1>4, SentTypes DEF FreshInv, PastInv
<1>13. FreshInv'
  BY <1>1, <1>4, <1>12 DEF FreshInv
<1>14. ReadyInv'
  <2> SUFFICES ASSUME NEW i \in DOMAIN sent, ReadyPc(sent[i].by)'
               PROVE  sent[i].time + RequestInterval <= pacer'[sent[i].by].next
    BY <1>1 DEF ReadyInv, ReadyPc
  <2>1. CASE sent[i].by = w
    BY <1>1, <1>4, <1>12, <2>1
  <2>2. CASE sent[i].by # w
    BY <1>1, <1>12, <2>2 DEF ReadyInv, ReadyPc
  <2> QED
    BY <2>1, <2>2
<1>15. PairInv'
  <2> SUFFICES ASSUME NEW i \in DOMAIN sent, NEW k \in DOMAIN sent, i < k, sent[i].by = sent[k].by
               PROVE  /\ sent[i].time + RequestInterval <= pacer'[sent[i].by].next
                      /\ ReadyPc(sent[i].by)' => sent[i].time + RequestInterval <= now
    BY <1>1 DEF PairInv, ReadyPc
  <2>1. /\ sent[i].time + RequestInterval <= pacer[sent[i].by].next
        /\ ReadyPc(sent[i].by) => sent[i].time + RequestInterval <= now
    BY DEF PairInv
  <2>2. CASE sent[i].by = w
    BY <1>1, <1>4, <1>12, <2>1, <2>2
  <2>3. CASE sent[i].by # w
    BY <1>1, <1>12, <2>1, <2>3 DEF ReadyPc
  <2> QED
    BY <2>2, <2>3
<1>16. StaleInv'
  <2> SUFFICES ASSUME NEW i \in DOMAIN sent, ~sent[i].owned
               PROVE  sent[i].by # w /\ ~ReadyPc(sent[i].by)'
    BY <1>1, <1>3 DEF StaleInv, ReadyPc
  <2>1. sent[i].by # w /\ ~ReadyPc(sent[i].by)
    BY <1>3 DEF StaleInv
  <2> QED
    BY <1>1, <1>12, <2>1 DEF ReadyPc
<1>17. DepartInv'
  BY <1>1 DEF DepartInv
<1> QED
  BY <1>5, <1>7, <1>8, <1>9, <1>10, <1>11, <1>13, <1>14, <1>15, <1>16, <1>17

\* A request leaves after its slot; the lease may be lost in between.
LEMMA RoundTripKeeps ==
  ASSUME PacerInv, NEW w \in Invocation, RoundTrip(w)
  PROVE  PacerInv'
<1> USE DEF PacerInv
<1> DEFINE R == [by : Invocation, time : Nat, owned : BOOLEAN]
           n == Len(sent) + 1
           new == [by |-> w, time |-> now, owned |-> lease.owner = w]
<1>1. /\ sent \in Seq(R) /\ new \in R /\ sent' = Append(sent, new)
      /\ pacer' = [pacer EXCEPT ![w].pc = "sent"]
      /\ UNCHANGED <<now, lease, attempts, slots>>
      /\ pacer[w].pc = "ready"
      /\ now \in Nat /\ RequestInterval \in Nat
  BY IntervalSuffices DEF RoundTrip, At, Goto, TypeOK
<1>2. /\ n \in Nat /\ sent'[n] = new /\ DOMAIN sent' = 1..n /\ DOMAIN sent = 1..(n - 1)
      /\ \A i \in DOMAIN sent : sent'[i] = sent[i]
  <2> HIDE DEF R, new
  <2> QED
    BY <1>1
<1>3. /\ \A i \in DOMAIN sent' : i = n \/ (i \in DOMAIN sent /\ i < n)
      /\ sent'[n].by = w /\ sent'[n].time = now /\ sent'[n].owned = (lease.owner = w)
  BY <1>2
<1> HIDE DEF new, n
<1>4. /\ pacer'[w].pc = "sent" /\ pacer'[w].current = pacer[w].current
      /\ pacer'[w].next = pacer[w].next
      /\ \A v \in Invocation \ {w} : pacer'[v] = pacer[v]
  BY <1>1 DEF TypeOK
<1>5. TypeOK'
  <2>1. sent' \in Seq(R)
    <3> HIDE DEF R
    <3> QED
      BY <1>1
  <2>2. pacer' \in [Invocation -> [pc : Pc, next : Nat, current : Nat]]
    BY <1>1 DEF TypeOK, Pc
  <2>3. \A v \in Invocation : pacer'[v].next <= now + RequestInterval
    BY <1>4, PacerTypes
  <2> QED
    BY <1>1, <2>1, <2>2, <2>3 DEF TypeOK
<1>6. SpacedInv'
  BY <1>1 DEF SpacedInv
<1>7. PastInv'
  BY <1>1, <1>2, <1>3 DEF PastInv
<1>8. CurrentInv'
  <2>1. \A v \in Invocation :
          pacer'[v].current = pacer[v].current /\ (pacer'[v].pc \in Busy => pacer[v].pc \in Busy)
    BY <1>1, <1>4 DEF Busy
  <2> QED
    BY <1>1, <2>1 DEF CurrentInv
<1>9. CoveredInv'
  <2>1. pacer[w].current \in DOMAIN attempts /\ attempts[pacer[w].current] = Running
    BY <1>1 DEF CurrentInv, Busy
  <2> QED
    BY <1>1, <1>2, <1>3, <2>1 DEF CoveredInv, Covered
<1>10. OwnerInv'
  <2> SUFFICES ASSUME NEW v \in Invocation, lease.owner = v, pacer'[v].pc \in Loaded
               PROVE  /\ \A i \in DOMAIN slots : slots[i] + RequestInterval <= pacer'[v].next
                      /\ \A i \in DOMAIN sent' : sent'[i].owned /\ sent'[i].by # v =>
                           /\ sent'[i].time + RequestInterval <= pacer'[v].next
                           /\ pacer'[v].pc = "ready" => sent'[i].time + RequestInterval <= now
    BY <1>1 DEF OwnerInv, ReadyPc
  <2>1. /\ pacer'[v].next = pacer[v].next /\ pacer[v].pc \in Loaded
        /\ pacer'[v].pc = "ready" => pacer[v].pc = "ready"
    BY <1>1, <1>4 DEF Loaded, Busy
  <2>2. \A i \in DOMAIN slots : slots[i] + RequestInterval <= pacer'[v].next
    BY <2>1 DEF OwnerInv
  <2>3. ASSUME NEW i \in DOMAIN sent, sent[i].owned, sent[i].by # v
        PROVE  /\ sent[i].time + RequestInterval <= pacer'[v].next
               /\ pacer'[v].pc = "ready" => sent[i].time + RequestInterval <= now
    BY <2>1, <2>3 DEF OwnerInv, ReadyPc
  <2>4. sent'[n].owned => sent'[n].by = v
    BY <1>3
  <2> QED
    BY <1>2, <1>3, <2>2, <2>3, <2>4
<1>11. ASSUME NEW i \in DOMAIN sent
       PROVE  /\ sent[i].by \in Invocation /\ sent[i].time \in Nat /\ sent[i].owned \in BOOLEAN
              /\ pacer'[sent[i].by].next = pacer[sent[i].by].next
              /\ pacer'[sent[i].by].pc \notin {"idle", "load"}
              /\ pacer'[sent[i].by].pc = "ready" => pacer[sent[i].by].pc = "ready"
  <2>1. sent[i].by \in Invocation /\ pacer[sent[i].by].pc \notin {"idle", "load"}
    BY SentTypes DEF FreshInv
  <2>2. CASE sent[i].by = w
    BY <1>4, <2>2, SentTypes
  <2>3. CASE sent[i].by # w
    BY <1>4, <2>1, <2>3, SentTypes
  <2> QED
    BY <2>2, <2>3
<1>12. FreshInv'
  BY <1>2, <1>3, <1>4, <1>11 DEF FreshInv
<1>13. ReadyInv'
  <2> SUFFICES ASSUME NEW i \in DOMAIN sent', pacer'[sent'[i].by].pc = "ready"
               PROVE  sent'[i].time + RequestInterval <= pacer'[sent'[i].by].next
    BY DEF ReadyInv, ReadyPc
  <2>1. i \in DOMAIN sent /\ sent'[i] = sent[i]
    BY <1>2, <1>3, <1>4
  <2> QED
    BY <1>11, <2>1 DEF ReadyInv, ReadyPc
<1>14. ASSUME NEW i \in DOMAIN sent, sent[i].by = w
       PROVE  sent[i].time + RequestInterval <= pacer[w].next /\ sent[i].owned
  BY <1>1, <1>11, <1>14 DEF ReadyInv, StaleInv, ReadyPc
<1>15. PairInv'
  <2> SUFFICES ASSUME NEW i \in DOMAIN sent', NEW k \in DOMAIN sent', i < k,
                      sent'[i].by = sent'[k].by
               PROVE  /\ sent'[i].time + RequestInterval <= pacer'[sent'[i].by].next
                      /\ pacer'[sent'[i].by].pc = "ready" =>
                           sent'[i].time + RequestInterval <= now'
    BY DEF PairInv, ReadyPc
  <2>1. i \in DOMAIN sent /\ sent'[i] = sent[i]
    BY <1>2, <1>3
  <2>2. CASE k = n
    BY <1>3, <1>4, <1>14, <2>1, <2>2
  <2>3. CASE k \in DOMAIN sent
    BY <1>1, <1>2, <1>11, <2>1, <2>3 DEF PairInv, ReadyPc
  <2> QED
    BY <1>3, <2>2, <2>3
<1>16. StaleInv'
  <2> SUFFICES ASSUME NEW i \in DOMAIN sent', ~sent'[i].owned
               PROVE  lease.owner # sent'[i].by /\ pacer'[sent'[i].by].pc # "ready"
    BY <1>1 DEF StaleInv, ReadyPc
  <2>1. CASE i = n
    BY <1>3, <1>4, <2>1
  <2>2. CASE i \in DOMAIN sent
    BY <1>2, <1>11, <2>2 DEF StaleInv, ReadyPc
  <2> QED
    BY <1>3, <2>1, <2>2
<1>17. DepartInv'
  <2> SUFFICES ASSUME NEW i \in DOMAIN sent', NEW j \in DOMAIN sent', i < j
               PROVE  /\ sent'[i].by # sent'[j].by /\ sent'[i].owned /\ sent'[j].owned =>
                           sent'[i].time + RequestInterval <= sent'[j].time
                      /\ \A k \in DOMAIN sent' :
                           i < k /\ k < j /\ sent'[i].by = sent'[k].by /\ sent'[k].by = sent'[j].by =>
                             sent'[i].time + RequestInterval <= sent'[j].time
                      /\ sent'[i].by = sent'[j].by => sent'[i].owned
    BY <1>2 DEF DepartInv
  <2>1. i \in DOMAIN sent /\ sent'[i] = sent[i]
    BY <1>2, <1>3
  <2>2. ASSUME NEW k \in DOMAIN sent', k < j
        PROVE  k \in DOMAIN sent /\ sent'[k] = sent[k]
    BY <1>2, <1>3, <2>2
  <2>3. CASE j \in DOMAIN sent
    BY <1>2, <2>1, <2>2, <2>3 DEF DepartInv
  <2>4. CASE j = n
    <3>1. sent[i].by # w /\ sent[i].owned /\ lease.owner = w => sent[i].time + RequestInterval <= now
      BY <1>1, <2>1 DEF OwnerInv, ReadyPc, Loaded, Busy
    <3>2. ASSUME NEW k \in DOMAIN sent, i < k, sent[i].by = sent[k].by, sent[k].by = w
          PROVE  sent[i].time + RequestInterval <= now
      BY <1>1, <2>1, <3>2 DEF PairInv, ReadyPc
    <3> QED
      BY <1>3, <1>14, <2>1, <2>2, <2>4, <3>1, <3>2
  <2> QED
    BY <1>3, <2>3, <2>4
<1> QED
  BY <1>5, <1>6, <1>7, <1>8, <1>9, <1>10, <1>12, <1>13, <1>15, <1>16, <1>17

\* An attempt is completed after everything that was done for it.
LEMMA FinishKeeps ==
  ASSUME PacerInv, NEW w \in Invocation, Finish(w)
  PROVE  PacerInv'
<1> USE DEF PacerInv
<1> DEFINE c == pacer[w].current
<1>1. /\ attempts \in Seq(Nat \cup {Running}) /\ attempts' = [attempts EXCEPT ![c] = now]
      /\ pacer' = [pacer EXCEPT ![w].pc = "reserve"]
      /\ UNCHANGED <<now, slots, sent>>
      /\ pacer[w].pc \in {"sent", "unsent"} /\ now \in Nat
  BY DEF Finish, At, Goto, TypeOK
<1>2. /\ c \in DOMAIN attempts /\ attempts'[c] = now /\ DOMAIN attempts' = DOMAIN attempts
      /\ \A a \in DOMAIN attempts : a # c => attempts'[a] = attempts[a]
  BY <1>1 DEF CurrentInv, Busy
<1>3. lease.owner = w /\ lease' = [owner |-> w, expires |-> now + TTL]
  BY DEF Finish, Renew, Held, Lease
<1>4. /\ pacer'[w].pc = "reserve" /\ pacer'[w].current = c /\ pacer'[w].next = pacer[w].next
      /\ \A v \in Invocation \ {w} : pacer'[v] = pacer[v]
  BY <1>1 DEF TypeOK
<1>5. TypeOK'
  <2>1. lease' \in [owner : Invocation \cup {NoOwner}, expires : Nat]
    BY <1>3, PacerAssumption DEF TypeOK
  <2>2. attempts' \in Seq(Nat \cup {Running})
    BY <1>1, <1>2
  <2>3. \A a \in DOMAIN attempts' : attempts'[a] <= now
    BY <1>1, <1>2 DEF TypeOK
  <2>4. pacer' \in [Invocation -> [pc : Pc, next : Nat, current : Nat]]
    BY <1>1 DEF TypeOK, Pc
  <2>5. \A v \in Invocation : pacer'[v].next <= now + RequestInterval
    BY <1>4, PacerTypes
  <2> QED
    BY <1>1, <2>1, <2>2, <2>3, <2>4, <2>5 DEF TypeOK
<1>6. SpacedInv' /\ PastInv' /\ DepartInv'
  BY <1>1 DEF SpacedInv, PastInv, DepartInv
<1>7. CoveredInv'
  <2>1. ASSUME NEW t, t <= now
        PROVE  \E a \in DOMAIN attempts' : attempts'[a] = Running \/ t <= attempts'[a]
    BY <1>2, <2>1
  <2> QED
    BY <1>1, <2>1 DEF CoveredInv, Covered, PastInv
<1>8. CurrentInv'
  <2> SUFFICES ASSUME NEW v \in Invocation, pacer'[v].pc \in Busy
               PROVE  /\ pacer'[v].current \in DOMAIN attempts'
                      /\ attempts'[pacer'[v].current] = Running
                      /\ \A u \in Invocation \ {v} :
                           pacer'[u].pc \in Busy => pacer'[u].current # pacer'[v].current
    BY DEF CurrentInv
  <2>1. v # w /\ pacer'[v] = pacer[v] /\ pacer[w].pc \in Busy
    BY <1>1, <1>4 DEF Busy
  <2>2. pacer[v].current \in DOMAIN attempts /\ attempts[pacer[v].current] = Running
        /\ pacer[v].current # c
    BY <2>1 DEF CurrentInv
  <2>3. \A u \in Invocation \ {v} : pacer'[u].pc \in Busy => pacer'[u].current # pacer'[v].current
    BY <1>4, <2>1 DEF CurrentInv, Busy
  <2> QED
    BY <1>2, <2>1, <2>2, <2>3
<1>9. OwnerInv'
  <2>1. pacer[w].pc \in Loaded
    BY <1>1 DEF Loaded, Busy
  <2> QED
    BY <1>1, <1>3, <1>4, <2>1 DEF OwnerInv, ReadyPc
<1>10. ASSUME NEW i \in DOMAIN sent
       PROVE  /\ pacer'[sent[i].by].next = pacer[sent[i].by].next
              /\ pacer'[sent[i].by].pc \notin {"idle", "load"}
              /\ ReadyPc(sent[i].by)' => ReadyPc(sent[i].by)
  <2>1. sent[i].by \in Invocation /\ pacer[sent[i].by].pc \notin {"idle", "load"}
    BY SentTypes DEF FreshInv
  <2>2. CASE sent[i].by = w
    BY <1>1, <1>4, <2>2 DEF ReadyPc
  <2>3. CASE sent[i].by # w
    BY <1>1, <1>4, <2>1, <2>3 DEF ReadyPc
  <2> QED
    BY <2>2, <2>3
<1>11. FreshInv' /\ ReadyInv' /\ PairInv' /\ StaleInv'
  BY <1>1, <1>3, <1>10 DEF FreshInv, ReadyInv, PairInv, StaleInv, ReadyPc
<1> QED
  BY <1>5, <1>6, <1>7, <1>8, <1>9, <1>11

-----------------------------------------------------------------------------
\* The invariant holds of every behaviour.
THEOREM PacerInvariant == Spec => []PacerInv
<1>1. Init => PacerInv
  <2> SUFFICES ASSUME Init
               PROVE  PacerInv
    OBVIOUS
  <2>1. slots = <<>> /\ sent = <<>> /\ attempts = <<>> /\ now = 0
    BY DEF Init
  <2>2. \A w \in Invocation :
          pacer[w].pc = "idle" /\ pacer[w].next = 0 /\ pacer[w].current = 0
    BY DEF Init
  <2>3. TypeOK
    BY IntervalSuffices, <2>1, <2>2 DEF Init, TypeOK, Pc
  <2>4. CurrentInv /\ OwnerInv
    BY <2>2 DEF CurrentInv, OwnerInv, Loaded, Busy
  <2> QED
    BY <2>1, <2>3, <2>4 DEF PacerInv, SpacedInv, PastInv, CoveredInv, FreshInv, ReadyInv, PairInv,
       StaleInv, DepartInv
<1>2. PacerInv /\ [Next]_vars => PacerInv'
  <2> SUFFICES ASSUME PacerInv, [Next]_vars
               PROVE  PacerInv'
    OBVIOUS
  <2>1. CASE UNCHANGED vars
    BY <2>1 DEF vars, PacerInv, TypeOK, SpacedInv, PastInv, CurrentInv, CoveredInv, Covered,
       OwnerInv, FreshInv, ReadyInv, PairInv, StaleInv, DepartInv, ReadyPc
  <2>2. CASE Tick
    BY <2>2, TickKeeps
  <2>3. ASSUME NEW w \in Invocation,
               \/ Acquire(w) \/ NotSent(w) \/ Redirect(w)
               \/ Close(w) \/ Heartbeat(w) \/ Crash(w)
        PROVE  PacerInv'
    BY <2>3, MovesKeep
  <2>4. ASSUME NEW w \in Invocation, Load(w) \/ Reserve(w) \/ Wait(w) \/ RoundTrip(w) \/ Finish(w)
        PROVE  PacerInv'
    BY <2>4, LoadKeeps, ReserveKeeps, WaitKeeps, RoundTripKeeps, FinishKeeps
  <2> QED
    BY <2>1, <2>2, <2>3, <2>4 DEF Next
<1> QED
  BY <1>1, <1>2, PTL DEF Spec

\* Ticks apart by an interval are apart by a Rate-th of a second.
LEMMA IntervalIsRate ==
  ASSUME NEW s \in Nat, NEW t \in Nat, s + RequestInterval <= t
  PROVE  (t - s) * Rate >= Second
<1>1. RequestInterval \in Nat /\ RequestInterval * Rate >= Second /\ Rate \in Nat /\ Second \in Nat
  BY IntervalSuffices, PacerAssumption
<1>2. t - s \in Nat /\ t - s >= RequestInterval
  BY <1>1
<1>3. ASSUME NEW x \in Nat, NEW y \in Nat, NEW r \in Nat, x >= y
      PROVE  x * r >= y * r
  BY <1>3
<1>4. (t - s) * Rate >= RequestInterval * Rate
  BY <1>1, <1>2, <1>3
<1>5. (t - s) * Rate \in Nat /\ RequestInterval * Rate \in Nat
  BY <1>1, <1>2
<1> QED
  BY <1>1, <1>4, <1>5

\* The states of pacing, for every rate, lease time and number of invocations:
\* no pacer waits longer than an interval (pacing.go).
THEOREM PacerTypeCorrect == Spec => []TypeOK
<1>1. PacerInv => TypeOK
  BY DEF PacerInv
<1> QED
  BY <1>1, PacerInvariant, PTL

\* However often an assessment is interrupted, resumed or taken over, its
\* slots keep the rate of its plan (wait, resumeFromAttempts).
THEOREM PacerSlots == Spec => []SlotsKeepRate
<1>1. PacerInv => SlotsKeepRate
  <2> SUFFICES ASSUME PacerInv, NEW i \in 1..(Len(slots) - 1)
               PROVE  (slots[i + 1] - slots[i]) * Rate >= Second
    BY DEF SlotsKeepRate
  <2>1. slots[i] \in Nat /\ slots[i + 1] \in Nat
    BY DEF PacerInv, TypeOK
  <2>2. slots[i] + RequestInterval <= slots[i + 1]
    BY DEF PacerInv, SpacedInv
  <2> QED
    BY <2>1, <2>2, IntervalIsRate
<1> QED
  BY <1>1, PacerInvariant, PTL

\* The same of the requests that leave, up to one request in flight of each
\* invocation (pacedRoundTripper).
THEOREM PacerDepartures == Spec => []DeparturesKeepRate
<1>1. PacerInv => DeparturesKeepRate
  <2> SUFFICES ASSUME PacerInv, NEW i \in DOMAIN sent, NEW j \in DOMAIN sent
               PROVE  LET Apart == (sent[j].time - sent[i].time) * Rate >= Second
                      IN  /\ i < j /\ sent[i].by # sent[j].by /\ sent[i].owned /\ sent[j].owned =>
                               Apart
                          /\ (\E k \in i + 1..j - 1 :
                                sent[i].by = sent[k].by /\ sent[k].by = sent[j].by) => Apart
                          /\ i < j /\ sent[i].by = sent[j].by => sent[i].owned
    BY DEF DeparturesKeepRate
  <2>1. sent[i].time \in Nat /\ sent[j].time \in Nat
    BY SentTypes DEF PacerInv
  <2>2. sent[i].time + RequestInterval <= sent[j].time =>
          (sent[j].time - sent[i].time) * Rate >= Second
    BY <2>1, IntervalIsRate
  <2>3. \A k \in i + 1..j - 1 : k \in DOMAIN sent /\ i < k /\ k < j
    <3> DEFINE R == [by : Invocation, time : Nat, owned : BOOLEAN]
    <3>1. sent \in Seq(R)
      BY DEF PacerInv, TypeOK
    <3> HIDE DEF R
    <3>2. Len(sent) \in Nat /\ DOMAIN sent = 1..Len(sent)
      BY <3>1
    <3> QED
      BY <3>2
  <2> QED
    BY <2>2, <2>3 DEF PacerInv, DepartInv
<1> QED
  BY <1>1, PacerInvariant, PTL

=============================================================================
