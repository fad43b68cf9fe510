---------------------------- MODULE RequestPacer ----------------------------
(***************************************************************************)
(* The request rate of an assessment (pkg/assessment/runtime pacing.go)    *)
(* under a clock: every invocation has a pacer of its own, so the rate     *)
(* holds across crashes, resumptions and lost leases only through what the *)
(* next invocation reads from the attempts of the ones before it.          *)
(***************************************************************************)
EXTENDS Integers, Sequences, FiniteSets

CONSTANTS Invocation,   \* Run and every Resume; each takes a new owner ID
          NoOwner,      \* the lease nobody holds
          Second,       \* ticks of the clock in a second
          Rate,         \* requestsPerSecond of the plan
          TTL,          \* assessmentLeaseTTL
          MaxTime,      \* bound: the clock stops
          MaxAttempts   \* bound on the attempts of the assessment

ASSUME PacerAssumption ==
  /\ Second \in Nat \ {0} /\ Rate \in Nat \ {0} /\ TTL \in Nat \ {0}
  /\ MaxTime \in Nat /\ MaxAttempts \in Nat
  /\ NoOwner \notin Invocation

VARIABLES
  now,        \* the wall clock all invocations and the store read
  lease,      \* the row of assessment_execution_leases: owner and expiry
  attempts,   \* completed_at of each attempt of the assessment
  pacer,      \* per invocation, where it is and its pacer's next
  slots,      \* history: when the lease was checked for each request
  sent        \* history: the requests that left
vars == <<now, lease, attempts, pacer, slots, sent>>

Running == -1    \* an attempt without a completed_at
\* Mutant: the interval is rounded down.
IntervalRoundedDown == Second \div Rate
\* requestInterval, in whole ticks; never zero.
RequestInterval == (Second + Rate - 1) \div Rate

Pc == {"idle", "load", "reserve", "wait", "unsent", "ready", "sent", "stopped"}
At(w, pc) == pacer[w].pc = pc
Goto(w, pc) == pacer' = [pacer EXCEPT ![w].pc = pc]

-----------------------------------------------------------------------------
\* AcquireAssessmentExecutionLease, RenewAssessmentExecutionLease and
\* renewAssessmentExecutionLeaseTx.
Acquirable == lease.expires <= now
Held(w) == lease.owner = w /\ lease.expires > now
Lease(w) == lease' = [owner |-> w, expires |-> now + TTL]
Renew(w) == Held(w) /\ Lease(w)

Acquire(w) ==
  /\ At(w, "idle") /\ Acquirable
  /\ Lease(w) /\ Goto(w, "load")
  /\ UNCHANGED <<now, attempts, slots, sent>>

\* Mutant: an attempt that never completed sets no slot.
CandidateIfComplete(completed) == IF completed = Running THEN 0 ELSE completed + RequestInterval
\* An attempt that is not complete may have left until just now.
Candidate(completed) == (IF completed = Running THEN now ELSE completed) + RequestInterval
\* resumeFromAttempts, on the attempts LoadAssessmentState read: the latest
\* candidate, or the zero time. Nobody else writes attempts under this lease.
Load(w) ==
  /\ At(w, "load")
  /\ \E next \in {0} \cup {Candidate(attempts[i]) : i \in DOMAIN attempts} :
       /\ \A i \in DOMAIN attempts : Candidate(attempts[i]) <= next
       /\ pacer' = [pacer EXCEPT ![w] = [@ EXCEPT !.pc = "reserve", !.next = next]]
  /\ UNCHANGED <<now, lease, attempts, slots, sent>>

\* executionLedger: the attempt is stored before its request.
Reserve(w) ==
  /\ At(w, "reserve") /\ Len(attempts) < MaxAttempts
  /\ Renew(w)
  /\ attempts' = Append(attempts, Running)
  /\ pacer' = [pacer EXCEPT ![w] = [@ EXCEPT !.pc = "wait", !.current = Len(attempts) + 1]]
  /\ UNCHANGED <<now, slots, sent>>

\* requestPacer.wait: the slot has come, the lease is checked (beforeSend),
\* the next slot is an interval from now.
Wait(w) ==
  /\ At(w, "wait") /\ pacer[w].next <= now
  /\ Renew(w)
  /\ pacer' = [pacer EXCEPT ![w] = [@ EXCEPT !.pc = "ready", !.next = now + RequestInterval]]
  /\ slots' = Append(slots, now)
  /\ UNCHANGED <<now, attempts, sent>>
\* The context ends, the lease check fails, or the dial does: nothing leaves.
NotSent(w) ==
  /\ At(w, "wait") \/ At(w, "ready")
  /\ Goto(w, "unsent")
  /\ UNCHANGED <<now, lease, attempts, slots, sent>>

\* base.RoundTrip: dialling and handshakes take time, the lease is not
\* checked again.
RoundTrip(w) ==
  /\ At(w, "ready") /\ Goto(w, "sent")
  /\ sent' = Append(sent, [by |-> w, time |-> now, owned |-> lease.owner = w])
  /\ UNCHANGED <<now, lease, attempts, slots>>
\* The client follows a redirect: another round trip of the same attempt.
Redirect(w) ==
  /\ At(w, "sent") /\ Goto(w, "wait")
  /\ UNCHANGED <<now, lease, attempts, slots, sent>>
\* FinishAssessmentAttemptWithLease.
Finish(w) ==
  /\ At(w, "sent") \/ At(w, "unsent")
  /\ Renew(w)
  /\ attempts' = [attempts EXCEPT ![pacer[w].current] = now]
  /\ Goto(w, "reserve")
  /\ UNCHANGED <<now, slots, sent>>

\* execute returns: it is done or canceled, a fence refused, the store failed.
\* The deferred close deletes the row if it is still the invocation's own.
Close(w) ==
  /\ pacer[w].pc \in {"load", "reserve", "unsent", "sent"} /\ Goto(w, "stopped")
  /\ lease' = IF lease.owner = w THEN [lease EXCEPT !.expires = 0] ELSE lease
  /\ UNCHANGED <<now, attempts, slots, sent>>
Heartbeat(w) ==
  /\ pacer[w].pc \notin {"idle", "stopped"} /\ Renew(w)
  /\ UNCHANGED <<now, attempts, pacer, slots, sent>>
Crash(w) ==
  /\ pacer[w].pc \notin {"idle", "stopped"} /\ Goto(w, "stopped")
  /\ UNCHANGED <<now, lease, attempts, slots, sent>>
\* Time passes, also while an invocation is suspended: nothing forces its
\* heartbeat or its next step before the lease expires.
Tick ==
  /\ now < MaxTime /\ now' = now + 1
  /\ UNCHANGED <<lease, attempts, pacer, slots, sent>>

Init ==
  /\ now = 0 /\ lease = [owner |-> NoOwner, expires |-> 0]
  /\ attempts = <<>> /\ slots = <<>> /\ sent = <<>>
  /\ pacer = [w \in Invocation |-> [pc |-> "idle", next |-> 0, current |-> 0]]
Next ==
  \/ \E w \in Invocation :
       \/ Acquire(w) \/ Load(w) \/ Reserve(w) \/ Wait(w) \/ NotSent(w)
       \/ RoundTrip(w) \/ Redirect(w) \/ Finish(w)
       \/ Close(w) \/ Heartbeat(w) \/ Crash(w)
  \/ Tick
Spec == Init /\ [][Next]_vars

-----------------------------------------------------------------------------
(* Properties.                                                               *)
\* The states of the clock, the lease, the attempts and the pacers: nothing
\* recorded lies in the future, and no pacer waits longer than an interval.
TypeOK ==
  /\ now \in Nat
  /\ lease \in [owner : Invocation \cup {NoOwner}, expires : Nat]
  /\ attempts \in Seq(Nat \cup {Running})
  /\ \A i \in DOMAIN attempts : attempts[i] <= now
  /\ pacer \in [Invocation -> [pc : Pc, next : Nat, current : Nat]]
  /\ \A w \in Invocation : pacer[w].next <= now + RequestInterval
  /\ slots \in Seq(Nat)
  /\ sent \in Seq([by : Invocation, time : Nat, owned : BOOLEAN])

\* The assessment takes no more slots than the plan's rate allows: whoever
\* takes the next one, after a crash, a resumption or a lost lease, takes it
\* at least 1/Rate of a second after the one before (wait, resumeFromAttempts).
SlotsKeepRate ==
  \A i \in 1..(Len(slots) - 1) : (slots[i + 1] - slots[i]) * Rate >= Second

\* Departures are later than slots. Three of one invocation span an interval,
\* two of different invocations too if both owned the lease when they left,
\* and an invocation that lost it sends at most the request it has a slot for.
DeparturesKeepRate ==
  \A i, j \in DOMAIN sent :
    LET Apart == (sent[j].time - sent[i].time) * Rate >= Second
    IN  /\ i < j /\ sent[i].by # sent[j].by /\ sent[i].owned /\ sent[j].owned => Apart
        /\ (\E k \in i + 1..j - 1 : sent[i].by = sent[k].by /\ sent[k].by = sent[j].by) => Apart
        /\ i < j /\ sent[i].by = sent[j].by => sent[i].owned

=============================================================================
