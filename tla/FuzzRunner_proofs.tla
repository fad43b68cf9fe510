------------------------- MODULE FuzzRunner_proofs -------------------------
(***************************************************************************)
(* Proofs about FuzzRunner for every set of jobs: the hard request budget, *)
(* silence after a rate limit, the baseline before identifier cases, types *)
(* and progress, what a run without error has done, the circuit of three   *)
(* faults, chains of guided retries, and the sufficiency of the preflight. *)
(***************************************************************************)
EXTENDS FuzzRunner, FiniteSetTheorems, TLAPS

IsSeq(s) == \E S : s \in Seq(S)

\* What Append does to a sequence, whatever its elements are.
LEMMA AppendSeq ==
  ASSUME NEW s, IsSeq(s), NEW e
  PROVE  /\ Len(s) \in Nat
         /\ DOMAIN s = 1..Len(s)
         /\ IsSeq(Append(s, e))
         /\ Len(Append(s, e)) = Len(s) + 1
         /\ DOMAIN Append(s, e) = 1..(Len(s) + 1)
         /\ \A i \in 1..Len(s) : Append(s, e)[i] = s[i]
         /\ Append(s, e)[Len(s) + 1] = e
<1>1. PICK S : s \in Seq(S)
  BY DEF IsSeq
<1>2. Append(s, e) \in Seq(S \cup {e})
  <2>1. s \in Seq(S \cup {e})
    BY <1>1
  <2>2. QED
    BY <2>1
<1>3. QED
  BY <1>1, <1>2 DEF IsSeq

\* The whole plan is a sequence of first probes.
LEMMA AllPlansSeq ==
  ASSUME job \in Job
  PROVE  /\ IsSeq(AllPlans)
         /\ \A k \in DOMAIN AllPlans : AllPlans[k].depth = 0
<1> DEFINE n == Cardinality(Sendable) * job.identities
           F(k) == PlanOf(Nth(((k - 1) \div job.identities) + 1),
                          ((k - 1) % job.identities) + 1)
<1>1. job.cases \in Seq(Case) /\ job.identities \in Nat
  BY FuzzAssumption
<1>2. IsFiniteSet(Sendable)
  <2>1. IsFiniteSet(1..Len(job.cases))
    BY <1>1, FS_Interval
  <2>2. Sendable \subseteq 1..Len(job.cases)
    BY <1>1 DEF Sendable
  <2>3. QED
    BY <2>1, <2>2, FS_Subset
<1>3. n \in Nat
  BY <1>1, <1>2, FS_CardinalityType
<1>4. AllPlans = [k \in 1..n |-> F(k)]
  BY DEF AllPlans
<1>5. \A k : F(k).depth = 0
  BY DEF PlanOf
<1> HIDE DEF n, F
<1>6. AllPlans \in Seq({F(k) : k \in 1..n})
  BY <1>3, <1>4
<1>7. QED
  BY <1>4, <1>5, <1>6 DEF IsSeq

\* The plan the run begins with fits the budget.
LEMMA BuildSeq ==
  ASSUME job \in Job
  PROVE  /\ IsSeq(BuildProbePlans)
         /\ Len(BuildProbePlans) <= job.budget
         /\ \A k \in DOMAIN BuildProbePlans : BuildProbePlans[k].depth = 0
<1>1. job.budget \in Nat \ {0}
  BY FuzzAssumption
<1>2. PICK S : AllPlans \in Seq(S)
  BY AllPlansSeq DEF IsSeq
<1>3. \A k \in DOMAIN AllPlans : AllPlans[k].depth = 0
  BY AllPlansSeq
<1>4. CASE Truncated
  <2>1. BuildProbePlans = SubSeq(AllPlans, 1, job.budget)
    BY <1>4 DEF BuildProbePlans
  <2>2. job.budget <= Len(AllPlans) /\ Len(AllPlans) \in Nat
    BY <1>1, <1>2, <1>4 DEF Truncated
  <2>3. /\ SubSeq(AllPlans, 1, job.budget) \in Seq(S)
        /\ Len(SubSeq(AllPlans, 1, job.budget)) = job.budget
        /\ \A k \in 1..job.budget : SubSeq(AllPlans, 1, job.budget)[k] = AllPlans[k]
    BY <1>1, <1>2, <2>2
  <2>4. IsSeq(BuildProbePlans) /\ Len(BuildProbePlans) <= job.budget
    <3>1. BuildProbePlans \in Seq(S)
      BY <2>1, <2>3
    <3>2. Len(BuildProbePlans) <= job.budget
      BY <1>1, <2>1, <2>3
    <3>3. QED
      BY <3>1, <3>2 DEF IsSeq
  <2>5. DOMAIN BuildProbePlans = 1..job.budget
    BY <2>1, <2>3
  <2>6. \A k \in 1..job.budget : k \in DOMAIN AllPlans
    BY <1>1, <1>2, <2>2
  <2>7. QED
    BY <1>3, <2>1, <2>3, <2>4, <2>5, <2>6
<1>5. CASE ~Truncated
  <2>1. BuildProbePlans = AllPlans
    BY <1>5 DEF BuildProbePlans
  <2>2. Len(AllPlans) \in Nat
    BY <1>2
  <2>3. Len(AllPlans) <= job.budget
    BY <1>1, <1>5, <2>2 DEF Truncated
  <2>4. QED
    BY <1>2, <1>3, <2>1, <2>3 DEF IsSeq
<1>6. QED
  BY <1>4, <1>5

-----------------------------------------------------------------------------
(* The inductive invariant                                                 *)

\* Every plan causes at most one request, so a run that is still probing has
\* sent fewer requests than it has come past plans.
BudgetInv ==
  /\ job \in Job
  /\ IsSeq(plans)
  /\ IsSeq(probes)
  /\ index \in Nat \ {0}
  /\ BudgetIsHard
  /\ pc = "plan" => probes = <<>> /\ index = 1
  /\ pc = "probe" => Len(probes) < index

\* A rate limit is remembered: by the circuit of its origin or by the end of
\* the run.
RateInv ==
  /\ \A i \in DOMAIN probes :
       probes[i].rate => IF job.isolate
                         THEN probes[i].plan.origin \in blocked
                         ELSE rateLimited /\ pc \notin {"plan", "probe", "workflow"}
  /\ NothingAfterRateLimit

\* A baseline that qualified was sent; only first probes are baselines.
BaselineInv ==
  /\ \A i \in DOMAIN plans : plans[i].base => plans[i].depth = 0
  /\ \A key \in baselines : \E j \in DOMAIN probes :
       /\ probes[j].plan.base /\ probes[j].plan.depth = 0
       /\ probes[j].object
       /\ key = BaselineKey(probes[j].plan)
  /\ IDORFollowsBaseline

FuzzInv == BudgetInv /\ RateInv /\ BaselineInv

\* The invariant holds before the run has planned anything.
LEMMA FuzzInvInit == Init => FuzzInv
<1> SUFFICES ASSUME Init PROVE FuzzInv
  OBVIOUS
<1>1. IsSeq(<<>>)
  <2>1. <<>> \in Seq({})
    OBVIOUS
  <2>2. QED
    BY <2>1 DEF IsSeq
<1>2. DOMAIN probes = {} /\ DOMAIN plans = {} /\ Len(probes) = 0 /\ Len(plans) = 0
  BY DEF Init
<1>3. job.budget \in Nat
  BY FuzzAssumption DEF Init
<1>4. BudgetInv
  BY <1>1, <1>2, <1>3 DEF Init, BudgetInv, BudgetIsHard, Requests
<1>5. RateInv
  BY <1>2 DEF RateInv, NothingAfterRateLimit
<1>6. BaselineInv
  BY <1>2 DEF Init, BaselineInv, IDORFollowsBaseline
<1>7. QED
  BY <1>4, <1>5, <1>6 DEF FuzzInv

\* A step that sends nothing and leaves the plan, the circuits and the
\* baselines alone keeps the invariant, unless it goes back to sending.
LEMMA QuietStep ==
  ASSUME FuzzInv,
         UNCHANGED <<job, plans, probes, baselines, blocked>>,
         index' \in Nat /\ index' >= index,
         rateLimited => rateLimited',
         pc' # "plan" \/ UNCHANGED <<pc, index>>,
         pc' = "probe" => pc = "probe",
         pc' = "workflow" => pc = "workflow" \/ job.isolate \/ ~rateLimited
  PROVE  FuzzInv'
<1> USE DEF FuzzInv
<1>1. BudgetInv'
  <2>1. /\ job \in Job /\ IsSeq(plans) /\ IsSeq(probes) /\ index \in Nat \ {0}
        /\ BudgetIsHard
    BY DEF BudgetInv
  <2>2. Len(probes) \in Nat
    BY <2>1, AppendSeq
  <2>3. BudgetIsHard'
    BY <2>1 DEF BudgetIsHard, Requests
  <2>4. index' \in Nat \ {0}
    BY <2>1
  <2>5. pc' = "plan" => probes' = <<>> /\ index' = 1
    BY DEF BudgetInv
  <2>6. pc' = "probe" => Len(probes') < index'
    <3>1. pc' = "probe" => Len(probes) < index
      BY DEF BudgetInv
    <3>2. QED
      BY <2>1, <2>2, <3>1
  <2>7. QED
    BY <2>1, <2>3, <2>4, <2>5, <2>6 DEF BudgetInv
<1>2. RateInv'
  BY DEF RateInv, NothingAfterRateLimit
<1>3. BaselineInv'
  BY DEF BaselineInv, IDORFollowsBaseline, BaselineKey
<1>4. QED
  BY <1>1, <1>2, <1>3

\* What every send does to the history: one more probe, the others as before.
\* The origin it goes to has no open circuit, the run is not over, and an
\* identifier case has its baseline.
LEMMA SentProbe ==
  ASSUME FuzzInv, NEW plan, NEW r,
         UNCHANGED job,
         pc \in {"probe", "workflow"},
         ~originBlocked(plan.origin),
         plan.idor => BaselineKey(plan) \in baselines,
         probes' = Append(probes, Probe(plan, r)),
         blocked \subseteq blocked',
         job.isolate /\ r.rate => plan.origin \in blocked',
         ~job.isolate /\ r.rate => rateLimited' /\ pc' \notin {"plan", "probe", "workflow"}
  PROVE  RateInv' /\ IDORFollowsBaseline'
<1> DEFINE n == Len(probes)
<1>1. IsSeq(probes)
  BY DEF FuzzInv, BudgetInv
<1>2. /\ n \in Nat
      /\ DOMAIN probes = 1..n
      /\ DOMAIN probes' = 1..(n + 1)
      /\ \A i \in 1..n : probes'[i] = probes[i]
      /\ probes'[n + 1] = Probe(plan, r)
  BY <1>1, AppendSeq
<1>3. /\ Probe(plan, r).plan = plan
      /\ Probe(plan, r).rate = r.rate
  BY DEF Probe
<1>4. \A i \in 1..n : probes[i].rate => job.isolate /\ probes[i].plan.origin \in blocked
  BY <1>2 DEF FuzzInv, RateInv
<1> HIDE DEF n
<1>5. \A i \in DOMAIN probes' : i \in 1..n \/ i = n + 1
  BY <1>2
<1>6. RateInv'
  <2>1. ASSUME NEW i \in DOMAIN probes', probes'[i].rate
        PROVE  IF job.isolate THEN probes'[i].plan.origin \in blocked'
               ELSE rateLimited' /\ pc' \notin {"plan", "probe", "workflow"}
    <3>1. CASE i \in 1..n
      BY <1>2, <1>4, <2>1, <3>1
    <3>2. CASE i = n + 1
      BY <1>2, <1>3, <2>1, <3>2
    <3>3. QED
      BY <1>5, <3>1, <3>2
  <2>2. ASSUME NEW i \in DOMAIN probes', NEW j \in DOMAIN probes', i < j, probes'[i].rate
        PROVE  job.isolate /\ probes'[j].plan.origin # probes'[i].plan.origin
    <3>1. i \in 1..n
      BY <1>2, <2>2
    <3>2. CASE j \in 1..n
      BY <1>2, <2>2, <3>1, <3>2 DEF FuzzInv, RateInv, NothingAfterRateLimit
    <3>3. CASE j = n + 1
      BY <1>2, <1>3, <1>4, <2>2, <3>1, <3>3 DEF originBlocked
    <3>4. QED
      BY <1>5, <3>2, <3>3
  <2>3. QED
    BY <2>1, <2>2 DEF RateInv, NothingAfterRateLimit
<1>7. IDORFollowsBaseline'
  <2> SUFFICES ASSUME NEW i \in DOMAIN probes', probes'[i].plan.idor
               PROVE  \E j \in 1..(i - 1) :
                        /\ probes'[j].plan.base /\ probes'[j].plan.depth = 0
                        /\ probes'[j].object
                        /\ probes'[j].plan.op = probes'[i].plan.op
                        /\ probes'[j].plan.id = probes'[i].plan.id
    BY DEF IDORFollowsBaseline
  <2>1. CASE i \in 1..n
    <3>1. PICK j \in 1..(i - 1) :
            /\ probes[j].plan.base /\ probes[j].plan.depth = 0
            /\ probes[j].object
            /\ probes[j].plan.op = probes[i].plan.op
            /\ probes[j].plan.id = probes[i].plan.id
      BY <1>2, <2>1 DEF FuzzInv, BaselineInv, IDORFollowsBaseline
    <3>2. j \in 1..n
      BY <1>2, <2>1
    <3>3. QED
      BY <1>2, <2>1, <3>1, <3>2
  <2>2. CASE i = n + 1
    <3>1. plan.idor
      BY <1>2, <1>3, <2>2
    <3>2. PICK j \in 1..n :
            /\ probes[j].plan.base /\ probes[j].plan.depth = 0
            /\ probes[j].object
            /\ BaselineKey(plan) = BaselineKey(probes[j].plan)
      BY <1>2, <3>1 DEF FuzzInv, BaselineInv
    <3>3. probes[j].plan.op = plan.op /\ probes[j].plan.id = plan.id
      BY <3>2 DEF BaselineKey
    <3>4. j \in 1..(i - 1)
      BY <1>2, <2>2
    <3>5. QED
      BY <1>2, <1>3, <2>2, <3>2, <3>3, <3>4
  <2>3. QED
    BY <1>5, <2>1, <2>2
<1>8. QED
  BY <1>6, <1>7

\* Starting the run: nothing was sent, and the plan was cut to the budget.
LEMMA BeginKeeps == ASSUME FuzzInv, Begin PROVE FuzzInv'
<1> USE DEF FuzzInv
<1>1. /\ job \in Job /\ IsSeq(probes) /\ probes = <<>> /\ index = 1
      /\ job' = job /\ probes' = probes /\ index' = index /\ baselines' = baselines
      /\ plans' = BuildProbePlans /\ pc' = "probe"
  BY DEF Begin, BudgetInv
<1>2. /\ IsSeq(BuildProbePlans)
      /\ Len(BuildProbePlans) <= job.budget
      /\ \A k \in DOMAIN BuildProbePlans : BuildProbePlans[k].depth = 0
  BY <1>1, BuildSeq
<1>3. DOMAIN probes = {} /\ Len(probes) = 0 /\ job.budget \in Nat
  BY <1>1, FuzzAssumption
<1>4. BudgetIsHard'
  BY <1>1, <1>2, <1>3 DEF BudgetIsHard, Requests
<1>5. BudgetInv'
  BY <1>1, <1>2, <1>3, <1>4 DEF BudgetInv
<1>6. RateInv'
  BY <1>1, <1>3 DEF RateInv, NothingAfterRateLimit
<1>7. BaselineInv'
  <2>1. baselines = {}
    BY <1>3 DEF BaselineInv
  <2>2. QED
    BY <1>1, <1>2, <1>3, <2>1 DEF BaselineInv, IDORFollowsBaseline
<1>8. QED
  BY <1>5, <1>6, <1>7

\* One planned probe: executePlannedProbe with its guided retry.
LEMMA SendProbeKeeps == ASSUME FuzzInv, SendProbe PROVE FuzzInv'
<1> DEFINE plan == Current
           n == Len(probes)
<1>1. PICK r \in Response :
        /\ probes' = Append(probes, Probe(plan, r))
        /\ baselines' = IF ~plan.base THEN baselines
                        ELSE IF r.class = "object" THEN baselines \cup {BaselineKey(plan)}
                        ELSE baselines \ {BaselineKey(plan)}
        /\ RecordCircuit(plan.origin, r)
        /\ \E g \in IF AsksForGuidance(plan, r) THEN GuidedRetry(plan, r) ELSE {NoHint} :
             ScheduleGuidedRetry(plan, r, g)
        /\ IF RateStops(r) /\ ~job.isolate
           THEN pc' = "stopped" /\ UNCHANGED index
           ELSE index' = index + 1 /\ UNCHANGED pc
  BY DEF SendProbe
<1>2. PICK g : ScheduleGuidedRetry(plan, r, g)
  BY <1>1
<1>3. /\ pc = "probe" /\ index <= Len(plans) /\ ~originBlocked(plan.origin)
      /\ ~LacksBaseline(plan) /\ job' = job
  BY DEF SendProbe, Due, AtPlan
<1>4. /\ job \in Job /\ IsSeq(plans) /\ IsSeq(probes) /\ index \in Nat \ {0}
      /\ Len(plans) <= job.budget /\ n < index
  BY <1>3 DEF FuzzInv, BudgetInv, BudgetIsHard
<1>5. job.budget \in Nat
  BY <1>4, FuzzAssumption
<1>6. /\ n \in Nat /\ IsSeq(probes') /\ Len(probes') = n + 1
      /\ DOMAIN probes = 1..n /\ DOMAIN probes' = 1..(n + 1)
      /\ \A i \in 1..n : probes'[i] = probes[i]
      /\ probes'[n + 1] = Probe(plan, r)
  BY <1>1, <1>4, AppendSeq
<1>7. Len(plans) \in Nat /\ DOMAIN plans = 1..Len(plans)
  BY <1>4, AppendSeq
<1>8. index \in DOMAIN plans
  BY <1>3, <1>4, <1>7
<1>9. PICK retry : /\ retry.base = FALSE
                   /\ \/ plans' = plans
                      \/ plans' = Append(plans, retry) /\ Len(plans) < job.budget
  <2>1. Retry(plan, r, g).base = FALSE
    BY DEF Retry
  <2>2. \/ plans' = plans
        \/ plans' = Append(plans, Retry(plan, r, g)) /\ Len(plans) < job.budget
    BY <1>2 DEF ScheduleGuidedRetry
  <2>3. QED
    BY <2>1, <2>2
<1>10. /\ IsSeq(plans') /\ Len(plans') <= job.budget
       /\ \A i \in DOMAIN plans' : plans'[i].base => plans'[i].depth = 0
  <2>1. \A i \in DOMAIN plans : plans[i].base => plans[i].depth = 0
    BY DEF FuzzInv, BaselineInv
  <2>2. CASE plans' = plans
    BY <1>4, <2>1, <2>2
  <2>3. CASE plans' = Append(plans, retry) /\ Len(plans) < job.budget
    <3>1. /\ IsSeq(plans') /\ Len(plans') = Len(plans) + 1
          /\ DOMAIN plans' = 1..(Len(plans) + 1)
          /\ \A i \in 1..Len(plans) : plans'[i] = plans[i]
          /\ plans'[Len(plans) + 1] = retry
      BY <1>4, <2>3, AppendSeq
    <3>2. Len(plans') <= job.budget
      BY <1>5, <1>7, <2>3, <3>1
    <3>3. \A i \in DOMAIN plans' : i \in DOMAIN plans \/ i = Len(plans) + 1
      BY <1>7, <3>1
    <3>4. QED
      BY <1>7, <1>9, <2>1, <3>1, <3>2, <3>3
  <2>4. QED
    BY <1>9, <2>2, <2>3
<1>11. /\ blocked \subseteq blocked'
       /\ job.isolate /\ r.rate => plan.origin \in blocked'
  BY <1>1 DEF RecordCircuit, Opens, RateStops
<1>12. ~job.isolate /\ r.rate => rateLimited' /\ pc' \notin {"plan", "probe", "workflow"}
  BY <1>1, <1>2 DEF ScheduleGuidedRetry, RateStops
<1>13. RateInv' /\ IDORFollowsBaseline'
  <2>1. plan.idor => BaselineKey(plan) \in baselines
    BY <1>3 DEF LacksBaseline
  <2> HIDE DEF plan
  <2>2. QED
    BY <1>1, <1>3, <1>11, <1>12, <2>1, SentProbe
<1>14. BudgetInv'
  <2>1. Len(probes') <= job.budget
    BY <1>3, <1>4, <1>5, <1>6, <1>7
  <2>2. BudgetIsHard'
    BY <1>3, <1>10, <2>1 DEF BudgetIsHard, Requests
  <2>3. index' \in Nat \ {0} /\ (pc' = "probe" => Len(probes') < index') /\ pc' # "plan"
    BY <1>1, <1>3, <1>4, <1>6
  <2>4. QED
    BY <1>3, <1>4, <1>6, <1>10, <2>2, <2>3 DEF BudgetInv
<1>15. BaselineInv'
  <2>1. ASSUME NEW key \in baselines'
        PROVE  \E j \in DOMAIN probes' :
                 /\ probes'[j].plan.base /\ probes'[j].plan.depth = 0
                 /\ probes'[j].object
                 /\ key = BaselineKey(probes'[j].plan)
    <3>1. CASE key \in baselines
      <4>1. PICK j \in DOMAIN probes :
              /\ probes[j].plan.base /\ probes[j].plan.depth = 0
              /\ probes[j].object
              /\ key = BaselineKey(probes[j].plan)
        BY <3>1 DEF FuzzInv, BaselineInv
      <4>2. j \in DOMAIN probes' /\ probes'[j] = probes[j]
        BY <1>6
      <4>3. QED
        BY <4>1, <4>2
    <3>2. CASE key \notin baselines
      <4>1. plan.base /\ r.class = "object" /\ key = BaselineKey(plan)
        BY <1>1, <2>1, <3>2
      <4>2. plan.depth = 0
        BY <1>8, <4>1 DEF FuzzInv, BaselineInv, Current
      <4>3. Probe(plan, r).plan = plan /\ Probe(plan, r).object
        BY <4>1 DEF Probe
      <4>4. n + 1 \in DOMAIN probes'
        BY <1>6
      <4>5. QED
        BY <1>6, <4>1, <4>2, <4>3, <4>4
    <3>3. QED
      BY <3>1, <3>2
  <2>2. (\A key \in baselines : \E j \in DOMAIN probes :
           /\ probes[j].plan.base /\ probes[j].plan.depth = 0
           /\ probes[j].object
           /\ key = BaselineKey(probes[j].plan))'
    BY <2>1 DEF BaselineKey
  <2>3. QED
    BY <1>10, <1>13, <2>2 DEF BaselineInv
<1>16. QED
  BY <1>13, <1>14, <1>15 DEF FuzzInv

\* One workflow step: executeStep shares the budget and the circuits.
LEMMA SendStepKeeps == ASSUME FuzzInv, SendStep PROVE FuzzInv'
<1> DEFINE plan == WorkflowPlan
           n == Len(probes)
<1>1. PICK r \in Response : \E outcome \in StepOutcome(r) :
        /\ probes' = Append(probes, Probe(plan, r))
        /\ RecordCircuit(Step.origin, r)
        /\ pc' = IF outcome = "stop" THEN "done"
                 ELSE IF outcome = "error" THEN "failed" ELSE pc
        /\ rateLimited' = (rateLimited \/ RateStops(r))
  BY DEF SendStep
<1>2. /\ pc = "workflow" /\ ~originBlocked(Step.origin) /\ ~BudgetSpent
      /\ UNCHANGED <<job, plans, index, baselines>>
  BY DEF SendStep, StepDue, AtStep, AtWorkflow, planVars
<1>3. plan.origin = Step.origin /\ plan.idor = FALSE
  BY DEF WorkflowPlan
<1>4. /\ job \in Job /\ IsSeq(plans) /\ IsSeq(probes) /\ index \in Nat \ {0}
      /\ Len(plans) <= job.budget
  BY DEF FuzzInv, BudgetInv, BudgetIsHard
<1>5. job.budget \in Nat
  BY <1>4, FuzzAssumption
<1> HIDE DEF plan
<1>6. /\ n \in Nat /\ IsSeq(probes') /\ Len(probes') = n + 1
      /\ DOMAIN probes = 1..n /\ DOMAIN probes' = 1..(n + 1)
      /\ \A i \in 1..n : probes'[i] = probes[i]
  BY <1>1, <1>4, AppendSeq
<1>7. /\ blocked \subseteq blocked'
      /\ job.isolate /\ r.rate => plan.origin \in blocked'
  BY <1>1, <1>3 DEF RecordCircuit, Opens, RateStops
<1>8. ~job.isolate /\ r.rate => rateLimited' /\ pc' \notin {"plan", "probe", "workflow"}
  BY <1>1 DEF StepOutcome, RateStops
<1>9. RateInv' /\ IDORFollowsBaseline'
  BY <1>1, <1>2, <1>3, <1>7, <1>8, SentProbe
<1>10. BudgetInv'
  <2>1. Len(probes') <= job.budget
    BY <1>2, <1>5, <1>6 DEF BudgetSpent, Requests
  <2>2. BudgetIsHard'
    BY <1>2, <1>4, <2>1 DEF BudgetIsHard, Requests
  <2>3. pc' \notin {"plan", "probe"}
    BY <1>1, <1>2
  <2>4. QED
    BY <1>2, <1>4, <1>6, <2>2, <2>3 DEF BudgetInv
<1>11. BaselineInv'
  <2>1. ASSUME NEW key \in baselines
        PROVE  \E j \in DOMAIN probes' :
                 /\ probes'[j].plan.base /\ probes'[j].plan.depth = 0
                 /\ probes'[j].object
                 /\ key = BaselineKey(probes'[j].plan)
    <3>1. PICK j \in DOMAIN probes :
            /\ probes[j].plan.base /\ probes[j].plan.depth = 0
            /\ probes[j].object
            /\ key = BaselineKey(probes[j].plan)
      BY DEF FuzzInv, BaselineInv
    <3>2. j \in DOMAIN probes' /\ probes'[j] = probes[j]
      BY <1>6
    <3>3. QED
      BY <3>1, <3>2
  <2>2. (\A key \in baselines : \E j \in DOMAIN probes :
           /\ probes[j].plan.base /\ probes[j].plan.depth = 0
           /\ probes[j].object
           /\ key = BaselineKey(probes[j].plan))'
    BY <1>2, <2>1 DEF BaselineKey
  <2>3. QED
    BY <1>2, <1>9, <2>2 DEF FuzzInv, BaselineInv
<1>12. QED
  BY <1>9, <1>10, <1>11 DEF FuzzInv

\* Every step of the run, and a cancellation, keeps the invariant.
LEMMA FuzzInvStep == ASSUME FuzzInv, [Next]_vars PROVE FuzzInv'
<1>1. index \in Nat
  BY DEF FuzzInv, BudgetInv
<1>2. CASE Refuse
  BY <1>1, <1>2, QuietStep DEF Refuse, planVars, circuitVars, reportVars
<1>3. CASE Begin
  BY <1>3, BeginKeeps
<1>4. CASE SkipIsolatedPlan
  <2>1. index' = index + 1
    BY <1>4 DEF SkipIsolatedPlan, SkipPlan
  <2>2. index' \in Nat /\ index' >= index
    BY <1>1, <2>1
  <2>3. QED
    BY <1>4, <2>2, QuietStep DEF SkipIsolatedPlan, SkipPlan, AtPlan, circuitVars
<1>5. CASE SkipInvalidIDOR
  <2>1. index' = index + 1
    BY <1>5 DEF SkipInvalidIDOR, SkipPlan
  <2>2. index' \in Nat /\ index' >= index
    BY <1>1, <2>1
  <2>3. QED
    BY <1>5, <2>2, QuietStep DEF SkipInvalidIDOR, SkipPlan, AtPlan, circuitVars
<1>6. CASE AbortProbes
  BY <1>1, <1>6, QuietStep DEF AbortProbes, planVars, circuitVars, reportVars
<1>7. CASE SendProbe
  BY <1>7, SendProbeKeeps
<1>8. CASE EndProbes
  <2>1. /\ UNCHANGED <<job, plans, index, probes, baselines, blocked, rateLimited>>
        /\ pc' = "done" \/ (pc' = "workflow" /\ RunsWorkflows)
    BY <1>8 DEF EndProbes, planVars, circuitVars, reportVars
  <2>2. RunsWorkflows => job.isolate \/ ~rateLimited
    BY DEF RunsWorkflows
  <2>3. QED
    BY <1>1, <2>1, <2>2, QuietStep
<1>9. CASE SkipUnsafeWorkflow
  BY <1>1, <1>9, QuietStep DEF SkipUnsafeWorkflow, AtWorkflow, planVars, circuitVars
<1>10. CASE StopWorkflowsOnBudget
  BY <1>1, <1>10, QuietStep DEF StopWorkflowsOnBudget, planVars, circuitVars
<1>11. CASE SkipIsolatedStep
  BY <1>1, <1>11, QuietStep
     DEF SkipIsolatedStep, AtStep, AtWorkflow, planVars, circuitVars
<1>12. CASE AbortWorkflows
  BY <1>1, <1>12, QuietStep DEF AbortWorkflows, planVars, circuitVars, reportVars
<1>13. CASE SendStep
  BY <1>13, SendStepKeeps
<1>14. CASE EndWorkflows
  BY <1>1, <1>14, QuietStep DEF EndWorkflows, planVars, circuitVars, reportVars
<1>15. CASE Cancel
  BY <1>1, <1>15, QuietStep DEF Cancel, planVars, circuitVars, reportVars
<1>16. CASE UNCHANGED vars
  BY <1>1, <1>16, QuietStep DEF vars, planVars, circuitVars, reportVars
<1>17. QED
  BY <1>2, <1>3, <1>4, <1>5, <1>6, <1>7, <1>8, <1>9, <1>10, <1>11, <1>12, <1>13,
     <1>14, <1>15, <1>16 DEF Next, RunStep

\* FuzzInv holds in every reachable state of a fuzz run.
THEOREM FuzzInvariant == Spec => []FuzzInv
<1>1. Init => FuzzInv
  BY FuzzInvInit
<1>2. FuzzInv /\ [Next]_vars => FuzzInv'
  BY FuzzInvStep
<1>3. QED
  BY <1>1, <1>2, PTL DEF Spec

\* The request budget of a run is hard for every input, however the responses
\* extend the plan (executeProbePlans, scheduleGuidedRetry, executeStep).
THEOREM FuzzBudget == Spec => []BudgetIsHard
<1>1. FuzzInv => BudgetIsHard
  BY DEF FuzzInv, BudgetInv
<1>2. QED
  BY <1>1, FuzzInvariant, PTL

\* A rate limit silences its origin, or the run without ContinueOnTargetError,
\* through probes, guided retries and workflows.
THEOREM FuzzSilence == Spec => []NothingAfterRateLimit
<1>1. FuzzInv => NothingAfterRateLimit
  BY DEF FuzzInv, RateInv
<1>2. QED
  BY <1>1, FuzzInvariant, PTL

\* Identifier cases and their repairs follow a captured baseline with object
\* data, of the same operation and identity.
THEOREM FuzzBaseline == Spec => []IDORFollowsBaseline
<1>1. FuzzInv => IDORFollowsBaseline
  BY DEF FuzzInv, BaselineInv
<1>2. QED
  BY <1>1, FuzzInvariant, PTL

-----------------------------------------------------------------------------
(* The planned requests                                                    *)

LEMMA JobTypes ==
  ASSUME job \in Job
  PROVE  /\ job.cases \in Seq(Case)
         /\ job.workflows \in Seq(Seq(WorkflowStep))
         /\ \A w \in DOMAIN job.workflows : job.workflows[w] # <<>>
         /\ job.identities \in Nat \ {0}
         /\ job.isolate \in BOOLEAN
         /\ job.guided \in Nat
         /\ job.budget \in Nat \ {0}
  BY FuzzAssumption

LEMMA SendableFinite ==
  ASSUME job \in Job
  PROVE  /\ IsFiniteSet(Sendable) /\ Cardinality(Sendable) \in Nat
         /\ Sendable \subseteq DOMAIN job.cases
         /\ DOMAIN job.cases = 1..Len(job.cases) /\ Len(job.cases) \in Nat
         /\ \A c : /\ SendableBefore(c) \subseteq Sendable
                   /\ IsFiniteSet(SendableBefore(c))
                   /\ Cardinality(SendableBefore(c)) \in Nat
<1>1. job.cases \in Seq(Case)
  BY JobTypes
<1>2. DOMAIN job.cases = 1..Len(job.cases) /\ Len(job.cases) \in Nat
  BY <1>1
<1>3. IsFiniteSet(1..Len(job.cases))
  BY <1>2, FS_Interval
<1>4. Sendable \subseteq DOMAIN job.cases
  BY DEF Sendable
<1>5. IsFiniteSet(Sendable)
  BY <1>2, <1>3, <1>4, FS_Subset
<1>6. \A c : SendableBefore(c) \subseteq Sendable
  BY DEF SendableBefore
<1>7. \A c : IsFiniteSet(SendableBefore(c))
  BY <1>5, <1>6, FS_Subset
<1>8. QED
  BY <1>2, <1>4, <1>5, <1>6, <1>7, FS_CardinalityType

\* Cases are ranked by their position: a later one has more before it.
LEMMA RankGrows ==
  ASSUME job \in Job, NEW c \in Sendable, NEW d \in Sendable, c < d
  PROVE  Cardinality(SendableBefore(c)) < Cardinality(SendableBefore(d))
<1>1. c \in Int /\ d \in Int /\ \A e \in Sendable : e \in Int
  BY SendableFinite
<1>2. c \notin SendableBefore(c)
  BY <1>1 DEF SendableBefore
<1>3. SendableBefore(c) \cup {c} \subseteq SendableBefore(d)
  <2>1. \A e \in SendableBefore(c) : e \in Sendable /\ e < d
    BY <1>1 DEF SendableBefore
  <2>2. QED
    BY <2>1 DEF SendableBefore
<1>4. Cardinality(SendableBefore(c) \cup {c}) = Cardinality(SendableBefore(c)) + 1
  BY <1>2, SendableFinite, FS_AddElement
<1>5. Cardinality(SendableBefore(c) \cup {c}) <= Cardinality(SendableBefore(d))
  BY <1>3, SendableFinite, FS_Subset
<1>6. QED
  BY <1>4, <1>5, SendableFinite

\* Nth(n) is the case with n - 1 sendable cases before it.
LEMMA NthCase ==
  ASSUME job \in Job, NEW n \in 1..Cardinality(Sendable)
  PROVE  Nth(n) \in Sendable /\ Cardinality(SendableBefore(Nth(n))) = n - 1
<1> DEFINE N == Cardinality(Sendable)
           rank == [c \in Sendable |-> Cardinality(SendableBefore(c))]
           T == (0..(N - 1)) \ {n - 1}
<1>1. N \in Nat /\ IsFiniteSet(Sendable)
  BY SendableFinite
<1>2. ASSUME NEW c \in Sendable
      PROVE  Cardinality(SendableBefore(c)) \in 0..(N - 1)
  <2>1. SendableBefore(c) \subseteq Sendable \ {c}
    BY SendableFinite DEF SendableBefore
  <2>2. IsFiniteSet(Sendable \ {c}) /\ Cardinality(Sendable \ {c}) = N - 1
    BY <1>1, FS_RemoveElement
  <2>3. Cardinality(SendableBefore(c)) <= N - 1
    BY <2>1, <2>2, FS_Subset
  <2>4. QED
    BY <1>1, <2>3, SendableFinite
<1>3. \E c \in Sendable : Cardinality(SendableBefore(c)) = n - 1
  <2> SUFFICES ASSUME \A c \in Sendable : Cardinality(SendableBefore(c)) # n - 1
               PROVE  FALSE
    OBVIOUS
  <2>1. rank \in [Sendable -> T]
    BY <1>2
  <2>2. IsFiniteSet(0..(N - 1)) /\ Cardinality(0..(N - 1)) = N
    <3> HIDE DEF N
    <3>1. N - 1 \in Int /\ 0 \in Int /\ n \in 1..N
      BY <1>1 DEF N
    <3>2. IsFiniteSet(0..(N - 1)) /\ Cardinality(0..(N - 1)) = IF 0 > N - 1 THEN 0 ELSE N - 1 - 0 + 1
      BY <3>1, FS_Interval
    <3>3. QED
      BY <1>1, <3>1, <3>2
  <2>3. IsFiniteSet(T) /\ Cardinality(T) = N - 1
    <3> HIDE DEF N
    <3>1. n - 1 \in 0..(N - 1)
      BY <1>1 DEF N
    <3>2. QED
      BY <2>2, <3>1, FS_RemoveElement
  <2>4. PICK c, d \in Sendable : c # d /\ rank[c] = rank[d]
    <3> HIDE DEF rank, T, N
    <3>1. Cardinality(T) < Cardinality(Sendable)
      BY <1>1, <2>3 DEF N
    <3>2. QED
      BY <1>1, <2>1, <2>3, <3>1, FS_PigeonHole
  <2>5. c < d \/ d < c
    BY <2>4, SendableFinite
  <2>6. QED
    BY <2>4, <2>5, RankGrows, SendableFinite
<1>4. QED
  BY <1>3, Zenon DEF Nth

LEMMA DivisionRemainder ==
  ASSUME NEW x \in Nat, NEW y \in Nat \ {0}
  PROVE  x \div y \in Int /\ x = y * (x \div y) + (x % y) /\ x % y \in 0..(y - 1)
<1>1. y \in Nat /\ y > 0
  OBVIOUS
<1>2. x \div y \in Int
  BY <1>1
<1>3. x = y * (x \div y) + (x % y)
  BY <1>1
<1>4. x % y \in 0..(y - 1)
  BY <1>1
<1>5. QED
  BY <1>2, <1>3, <1>4

\* The k-th planned request: which case, and as whom.
CaseOf(k) == Nth(((k - 1) \div job.identities) + 1)
IdentityOf(k) == ((k - 1) % job.identities) + 1

LEMMA PlannedCase ==
  ASSUME job \in Job, NEW k \in 1..(Cardinality(Sendable) * job.identities)
  PROVE  /\ CaseOf(k) \in Sendable
         /\ IdentityOf(k) \in Nat
         /\ k = job.identities * Cardinality(SendableBefore(CaseOf(k))) + IdentityOf(k)
<1> DEFINE I == job.identities
           N == Cardinality(Sendable)
           q == (k - 1) \div I
           m == (k - 1) % I
<1>1. I \in Nat \ {0} /\ N \in Nat
  BY JobTypes, SendableFinite
<1>2. k \in 1..(N * I)
  OBVIOUS
<1>3. k - 1 \in Nat /\ k - 1 < N * I
  <2>1. N * I \in Int
    BY <1>1
  <2>2. QED
    BY <1>2, <2>1
<1>4. q \in Int /\ k - 1 = I * q + m /\ m \in 0..(I - 1)
  BY <1>1, <1>3, DivisionRemainder
<1> HIDE DEF q, m, N, I
<1>5. q >= 0
  <2> SUFFICES ASSUME q <= -1 PROVE FALSE
    BY <1>4
  <2>1. I * q <= I * (-1)
    BY <1>1, <1>4
  <2>2. QED
    BY <1>1, <1>3, <1>4, <2>1
<1>6. q < N
  <2> SUFFICES ASSUME q >= N PROVE FALSE
    BY <1>1, <1>4
  <2>1. I * q >= I * N
    BY <1>1, <1>4
  <2>2. QED
    BY <1>1, <1>3, <1>4, <2>1
<1>7. q + 1 \in 1..N
  BY <1>1, <1>4, <1>5, <1>6
<1>8. Nth(q + 1) \in Sendable /\ Cardinality(SendableBefore(Nth(q + 1))) = q
  BY <1>4, <1>7, NthCase DEF N
<1>9. CaseOf(k) = Nth(q + 1) /\ IdentityOf(k) = m + 1
  BY DEF CaseOf, IdentityOf, q, m, I
<1>10. k = I * q + (m + 1)
  BY <1>1, <1>3, <1>4
<1>11. QED
  BY <1>4, <1>8, <1>9, <1>10 DEF I

LEMMA TripleParts ==
  ASSUME NEW a, NEW b, NEW c, NEW d, NEW e, NEW f, <<a, b, c>> = <<d, e, f>>
  PROVE  a = d /\ b = e /\ c = f
  OBVIOUS

\* Every planned request is well formed, begins a chain of its own, and is
\* planned once.
LEMMA AllPlansRows ==
  ASSUME job \in Job
  PROVE  /\ AllPlans \in Seq(Plan)
         /\ \A k \in DOMAIN AllPlans : /\ AllPlans[k].op # 0
                                       /\ AllPlans[k].depth = 0
                                       /\ AllPlans[k].root = Fingerprint(AllPlans[k])
         /\ \A j, k \in DOMAIN AllPlans :
              Fingerprint(AllPlans[j]) = Fingerprint(AllPlans[k]) => j = k
<1> DEFINE n == Cardinality(Sendable) * job.identities
<1>1. n \in Nat
  BY JobTypes, SendableFinite
<1>2. AllPlans = [k \in 1..n |-> PlanOf(CaseOf(k), IdentityOf(k))]
  BY DEF AllPlans, CaseOf, IdentityOf
<1>3. ASSUME NEW k \in 1..n
      PROVE  /\ CaseOf(k) \in Sendable /\ IdentityOf(k) \in Nat
             /\ k = job.identities * Cardinality(SendableBefore(CaseOf(k))) + IdentityOf(k)
  BY PlannedCase
<1>4. ASSUME NEW c \in Sendable, NEW id \in Nat
      PROVE  /\ PlanOf(c, id) \in Plan
             /\ PlanOf(c, id).op # 0
             /\ PlanOf(c, id).depth = 0
             /\ PlanOf(c, id).root = Fingerprint(PlanOf(c, id))
             /\ Fingerprint(PlanOf(c, id)) = <<job.cases[c].op, id, c>>
  <2>1. c \in DOMAIN job.cases /\ c \in Nat
    BY SendableFinite
  <2>2. job.cases[c] \in Case
    BY <2>1, JobTypes
  <2>3. /\ job.cases[c].op \in Nat \ {0} /\ job.cases[c].origin \in Origin
        /\ job.cases[c].base \in BOOLEAN /\ job.cases[c].idor \in BOOLEAN
    BY <2>2 DEF Case
  <2>4. QED
    BY <2>1, <2>3 DEF PlanOf, Plan, Fingerprint
<1> HIDE DEF n
<1>5. \A k \in 1..n : AllPlans[k] = PlanOf(CaseOf(k), IdentityOf(k))
  BY <1>2
<1>6. DOMAIN AllPlans = 1..n
  BY <1>2
<1>7. \A k \in 1..n : PlanOf(CaseOf(k), IdentityOf(k)) \in Plan
  BY <1>3, <1>4
<1>8. AllPlans \in Seq(Plan)
  <2>1. AllPlans \in [1..n -> Plan]
    BY <1>2, <1>7
  <2>2. QED
    BY <1>1, <2>1
<1>9. ASSUME NEW j \in 1..n, NEW k \in 1..n, Fingerprint(AllPlans[j]) = Fingerprint(AllPlans[k])
      PROVE  j = k
  <2>1. /\ Fingerprint(AllPlans[j]) = <<job.cases[CaseOf(j)].op, IdentityOf(j), CaseOf(j)>>
        /\ Fingerprint(AllPlans[k]) = <<job.cases[CaseOf(k)].op, IdentityOf(k), CaseOf(k)>>
    BY <1>3, <1>4, <1>5
  <2>2. CaseOf(j) = CaseOf(k) /\ IdentityOf(j) = IdentityOf(k)
    <3>1. <<job.cases[CaseOf(j)].op, IdentityOf(j), CaseOf(j)>>
            = <<job.cases[CaseOf(k)].op, IdentityOf(k), CaseOf(k)>>
      BY <1>9, <2>1, Zenon
    <3>2. QED
      BY <3>1, TripleParts, Zenon
  <2>3. QED
    BY <1>3, <2>2
<1>10. QED
  BY <1>3, <1>4, <1>5, <1>6, <1>8, <1>9

\* The plan a run begins with: the whole plan, or as much as the budget allows.
LEMMA BuildRows ==
  ASSUME job \in Job
  PROVE  /\ BuildProbePlans \in Seq(Plan)
         /\ Len(BuildProbePlans) <= Len(AllPlans)
         /\ \A k \in DOMAIN BuildProbePlans : /\ k \in DOMAIN AllPlans
                                              /\ BuildProbePlans[k] = AllPlans[k]
         /\ ~Truncated => BuildProbePlans = AllPlans
<1>1. job.budget \in Nat \ {0} /\ AllPlans \in Seq(Plan)
  BY JobTypes, AllPlansRows
<1>2. CASE Truncated
  <2>1. BuildProbePlans = SubSeq(AllPlans, 1, job.budget)
    BY <1>2 DEF BuildProbePlans
  <2>2. job.budget <= Len(AllPlans) /\ Len(AllPlans) \in Nat
    BY <1>1, <1>2 DEF Truncated
  <2>3. /\ SubSeq(AllPlans, 1, job.budget) \in Seq(Plan)
        /\ Len(SubSeq(AllPlans, 1, job.budget)) = job.budget
        /\ \A k \in 1..job.budget : SubSeq(AllPlans, 1, job.budget)[k] = AllPlans[k]
    BY <1>1, <2>2
  <2>4. DOMAIN BuildProbePlans = 1..job.budget
    BY <2>1, <2>3
  <2>5. \A k \in 1..job.budget : k \in DOMAIN AllPlans
    BY <1>1, <2>2
  <2>6. QED
    BY <1>2, <2>1, <2>2, <2>3, <2>4, <2>5
<1>3. CASE ~Truncated
  BY <1>1, <1>3 DEF BuildProbePlans
<1>4. QED
  BY <1>2, <1>3

\* The plan is a function of the options, which do not change.
LEMMA SamePlan ==
  ASSUME UNCHANGED job
  PROVE  AllPlans' = AllPlans /\ StepsToRun' = StepsToRun
<1>1. AllPlans' = AllPlans
  BY DEF AllPlans, PlanOf, Nth, SendableBefore, Sendable
<1>2. StepsToRun' = StepsToRun
  BY DEF StepsToRun, SkipsWorkflow, UnsafeSteps
<1>3. QED
  BY <1>1, <1>2

-----------------------------------------------------------------------------
(* Types                                                                   *)

Record == [plan : Plan, object : BOOLEAN, rate : BOOLEAN, fault : BOOLEAN]

\* The position in the workflows: none is begun before the probes are over,
\* and a workflow has a step at every position the run comes to.
FlowOK ==
  /\ flow.w \in Nat \ {0} /\ flow.s \in Nat \ {0}
  /\ flow.w <= Len(job.workflows) => flow.s <= Len(job.workflows[flow.w])
  /\ pc \in {"plan", "probe", "stopped"} => flow.w = 1

TypeInv == TypeOK /\ FlowOK

LEMMA ResponseTypes ==
  ASSUME NEW r \in Response
  PROVE  /\ r.class \in Class /\ r.rate \in BOOLEAN
         /\ r.rate => r.class \notin {"fault", "ambiguous"}
  BY DEF Response

LEMMA FlowSteps ==
  ASSUME job \in Job, NEW w \in Nat \ {0}, w <= Len(job.workflows)
  PROVE  /\ w \in DOMAIN job.workflows
         /\ job.workflows[w] \in Seq(WorkflowStep)
         /\ Len(job.workflows[w]) \in Nat \ {0}
         /\ UnsafeSteps(w) \in Nat
<1>1. job.workflows \in Seq(Seq(WorkflowStep))
  BY JobTypes
<1>2. w \in DOMAIN job.workflows /\ job.workflows[w] \in Seq(WorkflowStep)
  BY <1>1
<1>3. job.workflows[w] # <<>>
  BY <1>2, JobTypes
<1>4. Len(job.workflows[w]) \in Nat \ {0}
  BY <1>2, <1>3
<1>5. UnsafeSteps(w) \in Nat
  <2>1. DOMAIN job.workflows[w] = 1..Len(job.workflows[w])
    BY <1>2
  <2>2. IsFiniteSet(DOMAIN job.workflows[w])
    BY <1>4, <2>1, FS_Interval
  <2>3. QED
    BY <2>2, FS_Subset, FS_CardinalityType DEF UnsafeSteps
<1>6. QED
  BY <1>2, <1>4, <1>5

\* What a snapshot says about the state it is published in.
LEMMA Published ==
  ASSUME IsSeq(plans'), IsSeq(probes'), NEW d \in BOOLEAN, publishRunProgress(d)
  PROVE  /\ progress' \in [sent : Nat, planned : Nat, done : BOOLEAN]
         /\ progress'.done = d
         /\ progress'.sent = Len(probes')
         /\ progress'.sent <= progress'.planned
<1>1. Len(plans') \in Nat /\ Len(probes') \in Nat
  BY AppendSeq
<1> DEFINE sent == Len(probes')
           planned == IF Len(plans') > Len(probes') THEN Len(plans') ELSE Len(probes')
<1>2. progress' = [sent |-> sent, planned |-> planned, done |-> d]
  BY Zenon DEF publishRunProgress
<1>3. planned \in Nat /\ sent \in Nat /\ sent <= planned /\ sent = Len(probes')
  BY <1>1
<1> HIDE DEF sent, planned
<1>4. QED
  BY <1>2, <1>3

\* The counters of a response stay natural numbers.
LEMMA CountedTypes ==
  ASSUME NEW s \in Summary, NEW o, NEW r
  PROVE  Counted(s, o, r) \in Summary
<1>1. s.errors \in Nat /\ s.rateOrigins \in Nat /\ s.transportOrigins \in Nat
  BY DEF Summary
<1> DEFINE a == IF Failed(r) THEN s.errors + 1 ELSE s.errors
           b == IF Opens(o, r) /\ RateStops(r) THEN s.rateOrigins + 1 ELSE s.rateOrigins
           c == IF Opens(o, r) /\ ~RateStops(r) THEN s.transportOrigins + 1
                                               ELSE s.transportOrigins
<1>2. a \in Nat /\ b \in Nat /\ c \in Nat
  BY <1>1
<1>3. Counted(s, o, r) = [s EXCEPT !.errors = a, !.rateOrigins = b, !.transportOrigins = c]
  BY Zenon DEF Counted
<1> HIDE DEF a, b, c
<1>4. QED
  BY <1>2, <1>3 DEF Summary

LEMMA SkippedFinite ==
  ASSUME job \in Job
  PROVE  Cardinality(SkippedOperations) \in Nat
<1> DEFINE F(c) == job.cases[c].op
           D == (DOMAIN job.cases) \ Sendable
           T == {F(c) : c \in D}
<1>1. IsFiniteSet(DOMAIN job.cases)
  <2>1. DOMAIN job.cases = 1..Len(job.cases) /\ Len(job.cases) \in Nat
    BY SendableFinite
  <2>2. QED
    BY <2>1, FS_Interval
<1>2. IsFiniteSet(D)
  BY <1>1, FS_Subset
<1>3. IsFiniteSet(T)
  <2>1. [c \in D |-> F(c)] \in Surjection(D, T)
    BY DEF Surjection
  <2>2. QED
    BY <1>2, <2>1, FS_Surjection
<1>4. SkippedOperations \subseteq T
  BY DEF SkippedOperations
<1>5. IsFiniteSet(SkippedOperations)
  BY <1>3, <1>4, FS_Subset
<1>6. QED
  BY <1>5, FS_CardinalityType

LEMMA BlockedRestType ==
  ASSUME job \in Job, flow.w \in Nat \ {0}, flow.w <= Len(job.workflows), NEW open
  PROVE  BlockedRest(open) \in Nat
<1> DEFINE S == {s \in DOMAIN Steps : s > flow.s /\ Steps[s].origin \in open}
<1>1. Steps \in Seq(WorkflowStep)
  BY FlowSteps DEF Steps
<1>2. DOMAIN Steps = 1..Len(Steps) /\ Len(Steps) \in Nat
  BY <1>1
<1>3. IsFiniteSet(DOMAIN Steps)
  BY <1>2, FS_Interval
<1>4. S \subseteq DOMAIN Steps
  OBVIOUS
<1>5. BlockedRest(open) = IF job.isolate THEN Cardinality(S) ELSE 0
  BY DEF BlockedRest
<1> HIDE DEF S
<1>6. Cardinality(S) \in Nat
  BY <1>3, <1>4, FS_Subset, FS_CardinalityType
<1>7. QED
  BY <1>5, <1>6

\* What a repair looks like: a new variant of its predecessor, one step deeper.
LEMMA RetryTypes ==
  ASSUME NEW plan \in Plan, NEW r, NEW g \in Nat
  PROVE  Retry(plan, r, g) \in Plan
  BY DEF Retry, Plan

\* The hints of a response: none, an unresolved one, or a variant.
LEMMA HintTypes ==
  ASSUME job \in Job, NEW plan \in Plan, NEW r \in Response,
         NEW g \in GuidedRetry(plan, r)
  PROVE  g \in {NoHint, Unresolved} \cup Nat
<1> DEFINE cases == {c \in DOMAIN job.cases : job.cases[c].op = plan.op}
           repairs == (cases \cup {Len(job.cases) + i : i \in 1..Repairs}) \ {plan.variant}
<1>1. r.class \in Class
  BY ResponseTypes
<1>2. Repairs \in Nat
  BY FuzzAssumption
<1>3. repairs \subseteq Nat
  BY <1>2, SendableFinite
<1>4. GuidedRetry(plan, r) \subseteq {NoHint, Unresolved} \cup repairs
  <2> DEFINE R == repairs
  <2>1. GuidedRetry(plan, r) = CASE r.class \in {"fault", "ambiguous"} -> {NoHint}
       [] r.class = "unread" -> {NoHint, Unresolved}
       [] r.class = "failure" -> {Unresolved} \cup R
       [] OTHER -> {NoHint, Unresolved} \cup R
    BY Zenon DEF GuidedRetry
  <2> HIDE DEF repairs, R
  <2>2. QED
    BY <1>1, <2>1 DEF Class, R
<1>5. QED
  BY <1>3, <1>4

\* What one planned probe does: its response, and the hint that was taken.
Hint == {NoHint, Unresolved} \cup Nat
ProbeSent(r, g) ==
  /\ g \in Nat => AsksForGuidance(Current, r)
  /\ pc = "probe" /\ index \in DOMAIN plans /\ Current \in Plan
  /\ ~originBlocked(Current.origin)
  /\ probes' = Append(probes, Probe(Current, r))
  /\ baselines' \subseteq baselines \cup {BaselineKey(Current)}
  /\ RecordCircuit(Current.origin, r)
  /\ ScheduleGuidedRetry(Current, r, g)
  /\ IF RateStops(r) /\ ~job.isolate
     THEN pc' = "stopped" /\ UNCHANGED index
     ELSE index' = index + 1 /\ UNCHANGED pc
  /\ canceled' \in BOOLEAN
  /\ UNCHANGED <<job, flow, withheld>>
  /\ publishRunProgress(FALSE)

LEMMA ProbeFacts ==
  ASSUME TypeInv, FuzzInv, SendProbe
  PROVE  \E r \in Response : \E g \in Hint : ProbeSent(r, g)
<1>1. /\ job \in Job /\ plans \in Seq(Plan) /\ index \in Nat \ {0} /\ canceled \in BOOLEAN
  BY DEF TypeInv, TypeOK, FuzzInv, BudgetInv
<1>2. /\ pc = "probe" /\ index <= Len(plans) /\ ~originBlocked(Current.origin)
      /\ UNCHANGED <<job, flow, withheld>> /\ publishRunProgress(FALSE)
  BY DEF SendProbe, Due, AtPlan
<1>3. index \in DOMAIN plans /\ Current \in Plan
  BY <1>1, <1>2 DEF Current
<1>4. PICK r \in Response :
        /\ MayReceive(r)
        /\ probes' = Append(probes, Probe(Current, r))
        /\ baselines' = IF ~Current.base THEN baselines
                        ELSE IF r.class = "object" THEN baselines \cup {BaselineKey(Current)}
                        ELSE baselines \ {BaselineKey(Current)}
        /\ RecordCircuit(Current.origin, r)
        /\ \E g \in IF AsksForGuidance(Current, r) THEN GuidedRetry(Current, r)
                                                   ELSE {NoHint} :
             ScheduleGuidedRetry(Current, r, g)
        /\ IF RateStops(r) /\ ~job.isolate
           THEN pc' = "stopped" /\ UNCHANGED index
           ELSE index' = index + 1 /\ UNCHANGED pc
  BY Zenon DEF SendProbe
<1>5. PICK g \in IF AsksForGuidance(Current, r) THEN GuidedRetry(Current, r) ELSE {NoHint} :
        ScheduleGuidedRetry(Current, r, g)
  BY <1>4
<1>6. g \in Hint /\ (g \in Nat => AsksForGuidance(Current, r))
  <2>1. CASE AsksForGuidance(Current, r)
    <3>1. g \in GuidedRetry(Current, r)
      BY <1>5, <2>1
    <3>2. QED
      BY <1>1, <1>3, <2>1, <3>1, HintTypes DEF Hint
  <2>2. CASE ~AsksForGuidance(Current, r)
    BY <1>5, <2>2 DEF Hint, NoHint
  <2>3. QED
    BY <2>1, <2>2
<1>7. baselines' \subseteq baselines \cup {BaselineKey(Current)}
  BY <1>4
<1>8. canceled' \in BOOLEAN
  BY <1>1, <1>4 DEF MayReceive
<1>9. ProbeSent(r, g)
  BY <1>2, <1>3, <1>4, <1>5, <1>6, <1>7, <1>8, Zenon DEF ProbeSent
<1>10. QED
  BY <1>6, <1>9

\* What one workflow step does: its response, and what follows it.
StepSent(r, outcome) ==
  /\ outcome \in StepOutcome(r)
  /\ pc = "workflow" /\ flow.w <= Len(job.workflows) /\ ~SkipsWorkflow(flow.w)
  /\ WorkflowPlan \in Plan /\ WorkflowPlan.origin = Step.origin
  /\ ~BudgetSpent /\ ~originBlocked(Step.origin)
  /\ UNCHANGED <<job, planVars, budgetHit>>
  /\ probes' = Append(probes, Probe(WorkflowPlan, r))
  /\ RecordCircuit(Step.origin, r)
  /\ pc' = IF outcome = "stop" THEN "done"
           ELSE IF outcome = "error" THEN "failed" ELSE pc
  /\ flow' = IF \/ outcome \in {"open", "unverified"}
                \/ outcome = "continue" /\ flow.s = Len(Steps)
             THEN NextWorkflow
             ELSE IF outcome = "continue" THEN [flow EXCEPT !.s = @ + 1] ELSE flow
  /\ withheld' = IF outcome = "open" THEN withheld + Rest ELSE withheld
  /\ summary' = [Counted(summary, Step.origin, r) EXCEPT
       !.isolated = IF outcome \in {"open", "unverified"}
                    THEN @ + BlockedRest(blocked') ELSE @]
  /\ rateLimited' = (rateLimited \/ RateStops(r))
  /\ IF pc' = "workflow" THEN UNCHANGED progress ELSE publishRunProgress(TRUE)
  /\ canceled' \in BOOLEAN

LEMMA StepFacts ==
  ASSUME TypeInv, SendStep
  PROVE  \E r, outcome : r \in Response /\ StepSent(r, outcome)
<1>1. /\ job \in Job /\ flow.w \in Nat \ {0} /\ flow.s \in Nat \ {0} /\ canceled \in BOOLEAN
      /\ flow.w <= Len(job.workflows) => flow.s <= Len(job.workflows[flow.w])
  BY DEF TypeInv, TypeOK, FlowOK
<1>2. /\ pc = "workflow" /\ flow.w <= Len(job.workflows) /\ ~SkipsWorkflow(flow.w)
      /\ ~BudgetSpent /\ ~originBlocked(Step.origin)
      /\ UNCHANGED <<job, planVars>>
  BY DEF SendStep, StepDue, AtStep, AtWorkflow
<1>3. Step \in WorkflowStep
  BY <1>1, <1>2, FlowSteps DEF Step, Steps
<1>4. WorkflowPlan \in Plan /\ WorkflowPlan.origin = Step.origin
  <2>1. Step.origin \in Origin
    BY <1>3 DEF WorkflowStep
  <2>2. QED
    BY <1>1, <2>1 DEF WorkflowPlan, Plan
<1>5. PICK r \in Response : \E outcome \in StepOutcome(r) :
       /\ MayReceive(r)
       /\ probes' = Append(probes, Probe(WorkflowPlan, r))
       /\ RecordCircuit(Step.origin, r)
       /\ pc' = IF outcome = "stop" THEN "done"
                ELSE IF outcome = "error" THEN "failed" ELSE pc
       /\ flow' = IF \/ outcome \in {"open", "unverified"}
                     \/ outcome = "continue" /\ flow.s = Len(Steps)
                  THEN NextWorkflow
                  ELSE IF outcome = "continue" THEN [flow EXCEPT !.s = @ + 1] ELSE flow
       /\ withheld' = IF outcome = "open" THEN withheld + Rest ELSE withheld
       /\ summary' = [Counted(summary, Step.origin, r) EXCEPT
            !.isolated = IF outcome \in {"open", "unverified"}
                         THEN @ + BlockedRest(blocked') ELSE @]
       /\ rateLimited' = (rateLimited \/ RateStops(r))
       /\ UNCHANGED budgetHit
       /\ IF pc' = "workflow" THEN UNCHANGED progress ELSE publishRunProgress(TRUE)
  BY Zenon DEF SendStep
<1>6. canceled' \in BOOLEAN
  BY <1>1, <1>5 DEF MayReceive
<1>7. QED
  BY <1>2, <1>4, <1>5, <1>6, Zenon DEF StepSent

\* The types and the position in the workflows before the run plans anything.
LEMMA TypeInvInit == ASSUME Init PROVE TypeInv
<1>1. job \in Job
  BY DEF Init
<1>2. FlowOK
  <2>1. flow.w = 1 /\ flow.s = 1
    BY DEF Init
  <2>2. 1 <= Len(job.workflows) => 1 <= Len(job.workflows[1])
    BY <1>1, FlowSteps
  <2>3. QED
    BY <2>1, <2>2 DEF FlowOK
<1>3. TypeOK
  <2>1. plans \in Seq(Plan) /\ probes \in Seq(Record)
    BY DEF Init
  <2>2. summary \in Summary
    BY DEF Init, Summary
  <2>3. errs \in [Origin -> Nat] /\ flow \in [w : Nat, s : Nat]
    BY DEF Init
  <2>4. progress \in [sent : Nat, planned : Nat, done : BOOLEAN]
    BY DEF Init, NoProgress
  <2>5. QED
    BY <1>1, <2>1, <2>2, <2>3, <2>4 DEF Init, TypeOK, Record
<1>4. QED
  BY <1>2, <1>3 DEF TypeInv

\* A step that neither sends nor plans has types to mind for its own counters.
LEMMA TypesUnsent ==
  ASSUME TypeInv,
         UNCHANGED <<job, plans, probes, baselines, unresolved, blocked, errs>>,
         pc' \in {"plan", "probe", "stopped", "workflow", "done", "failed", "refused"},
         index' \in Nat, summary' \in Summary, withheld' \in Nat,
         rateLimited' \in BOOLEAN, budgetHit' \in BOOLEAN, canceled' \in BOOLEAN,
         UNCHANGED progress \/ \E d \in BOOLEAN : publishRunProgress(d),
         UNCHANGED flow \/ (flow' = NextWorkflow /\ pc = "workflow" /\ UNCHANGED pc),
         pc' \in {"plan", "probe", "stopped"} => UNCHANGED pc
  PROVE  TypeInv'
<1>1. progress' \in [sent : Nat, planned : Nat, done : BOOLEAN]
  <2>1. IsSeq(plans') /\ IsSeq(probes')
    BY DEF TypeInv, TypeOK, IsSeq
  <2>2. progress \in [sent : Nat, planned : Nat, done : BOOLEAN]
    BY DEF TypeInv, TypeOK
  <2>3. QED
    BY <2>1, <2>2, Published
<1>2. FlowOK' /\ flow' \in [w : Nat, s : Nat]
  <2>1. /\ job \in Job /\ flow.w \in Nat \ {0} /\ flow.s \in Nat \ {0}
        /\ flow \in [w : Nat, s : Nat]
    BY DEF TypeInv, TypeOK, FlowOK
  <2>2. CASE UNCHANGED flow
    BY <2>1, <2>2 DEF TypeInv, FlowOK
  <2>3. CASE flow' = NextWorkflow /\ pc = "workflow" /\ UNCHANGED pc
    <3>1. flow' = [w |-> flow.w + 1, s |-> 1]
      BY <2>3 DEF NextWorkflow
    <3>2. /\ flow'.w = flow.w + 1 /\ flow'.s = 1 /\ flow' \in [w : Nat, s : Nat]
          /\ flow'.w \in Nat \ {0}
      BY <2>1, <3>1
    <3>3. flow'.w <= Len(job.workflows) => 1 <= Len(job.workflows[flow'.w])
      BY <2>1, <3>2, FlowSteps
    <3>4. QED
      BY <2>3, <3>2, <3>3 DEF FlowOK
  <2>4. QED
    BY <2>2, <2>3
<1>3. TypeOK'
  BY <1>1, <1>2 DEF TypeInv, TypeOK
<1>4. QED
  BY <1>2, <1>3 DEF TypeInv

\* Begin fills the plan and counts the operations it leaves out.
LEMMA BeginTypes == ASSUME TypeInv, Begin PROVE TypeInv'
<1>1. /\ job \in Job /\ probes \in Seq(Record) /\ summary \in Summary /\ pc = "plan"
  BY DEF TypeInv, TypeOK, Begin, Record
<1>2. /\ plans' = BuildProbePlans /\ summary' = [summary EXCEPT !.unsafe = Cardinality(SkippedOperations)]
      /\ pc' = "probe" /\ budgetHit' = Truncated
      /\ UNCHANGED <<job, index, flow, probes, baselines, unresolved, blocked, errs,
                     rateLimited, canceled, withheld>>
      /\ publishRunProgress(FALSE)
  BY DEF Begin, circuitVars
<1>3. plans' \in Seq(Plan)
  BY <1>1, <1>2, BuildRows
<1>4. summary' \in Summary
  <2>1. Cardinality(SkippedOperations) \in Nat
    BY <1>1, SkippedFinite
  <2> DEFINE c == Cardinality(SkippedOperations)
  <2>2. summary' = [summary EXCEPT !.unsafe = c] /\ c \in Nat
    BY <1>2, <2>1
  <2> HIDE DEF c
  <2>3. QED
    BY <1>1, <2>2 DEF Summary
<1>5. budgetHit' \in BOOLEAN
  BY <1>2 DEF Truncated
<1>6. progress' \in [sent : Nat, planned : Nat, done : BOOLEAN]
  <2>1. IsSeq(plans') /\ IsSeq(probes')
    BY <1>1, <1>2, <1>3 DEF IsSeq
  <2>2. QED
    BY <1>2, <2>1, Published
<1>7. FlowOK'
  BY <1>1, <1>2 DEF TypeInv, FlowOK
<1>8. TypeOK'
  BY <1>2, <1>3, <1>4, <1>5, <1>6 DEF TypeInv, TypeOK
<1>9. QED
  BY <1>7, <1>8 DEF TypeInv

\* A response updates the circuit of its origin.
LEMMA CircuitTypes ==
  ASSUME blocked \subseteq Origin, errs \in [Origin -> Nat], NEW o \in Origin, NEW r,
         RecordCircuit(o, r)
  PROVE  blocked' \subseteq Origin /\ errs' \in [Origin -> Nat]
<1>1. blocked' \subseteq Origin
  BY DEF RecordCircuit
<1>2. errs' \in [Origin -> Nat]
  <2> DEFINE e == IF r.class = "fault" THEN errs[o] + 1 ELSE 0
  <2>1. e \in Nat
    OBVIOUS
  <2>2. errs' = [errs EXCEPT ![o] = e] \/ errs' = errs
    BY DEF RecordCircuit
  <2> HIDE DEF e
  <2>3. QED
    BY <2>1, <2>2
<1>3. QED
  BY <1>1, <1>2

\* One more request was sent.
LEMMA SentTypes ==
  ASSUME probes \in Seq(Record), NEW plan \in Plan, NEW r \in Response,
         probes' = Append(probes, Probe(plan, r))
  PROVE  probes' \in Seq(Record) /\ IsSeq(probes')
<1>1. Probe(plan, r) \in Record
  BY ResponseTypes DEF Probe, Record
<1>2. probes' \in Seq(Record)
  BY <1>1
<1>3. QED
  BY <1>2 DEF IsSeq

\* How a probe changes the plan: not at all, or by the retry it caused.
LEMMA PlansAfterProbe ==
  ASSUME plans \in Seq(Plan), NEW r \in Response, NEW g \in Hint, ProbeSent(r, g)
  PROVE  \/ plans' = plans
         \/ /\ plans' = Append(plans, Retry(Current, r, g))
            /\ g \in Nat /\ AsksForGuidance(Current, r)
            /\ Retry(Current, r, g) \in Plan
            /\ Fingerprint(Retry(Current, r, g)) \notin SeenPlans
<1> DEFINE retry == Retry(Current, r, g)
<1>1. \/ plans' = plans
      \/ /\ plans' = Append(plans, retry)
         /\ IsRepair(g) /\ Fingerprint(retry) \notin SeenPlans
  BY Zenon DEF ProbeSent, ScheduleGuidedRetry
<1>2. IsRepair(g) => g \in Nat
  BY DEF Hint, IsRepair, NoHint, Unresolved
<1>3. g \in Nat => AsksForGuidance(Current, r) /\ retry \in Plan
  BY RetryTypes DEF ProbeSent
<1>4. QED
  BY <1>1, <1>2, <1>3

LEMMA SendProbeTypes == ASSUME TypeInv, FuzzInv, SendProbe PROVE TypeInv'
<1>1. PICK r \in Response, g \in Hint : ProbeSent(r, g)
  BY ProbeFacts
<1>2. /\ job \in Job /\ plans \in Seq(Plan) /\ probes \in Seq(Record) /\ index \in Nat
      /\ baselines \subseteq Nat \X Nat /\ unresolved \subseteq Nat \X Nat \X Nat
      /\ blocked \subseteq Origin /\ errs \in [Origin -> Nat] /\ summary \in Summary
      /\ rateLimited \in BOOLEAN /\ budgetHit \in BOOLEAN /\ withheld \in Nat
      /\ flow \in [w : Nat, s : Nat]
  BY DEF TypeInv, TypeOK, Record
<1>3. /\ Current \in Plan /\ pc = "probe" /\ UNCHANGED <<job, flow, withheld>>
      /\ RecordCircuit(Current.origin, r) /\ ScheduleGuidedRetry(Current, r, g)
      /\ probes' = Append(probes, Probe(Current, r)) /\ publishRunProgress(FALSE)
      /\ canceled' \in BOOLEAN
  BY <1>1 DEF ProbeSent
<1>4. /\ Current.origin \in Origin /\ Current.op \in Nat /\ Current.id \in Nat
      /\ Current.root \in Nat \X Nat \X Nat
  BY <1>3 DEF Plan
<1>5. blocked' \subseteq Origin /\ errs' \in [Origin -> Nat]
  BY <1>2, <1>3, <1>4, CircuitTypes
<1>6. probes' \in Seq(Record) /\ IsSeq(probes')
  BY <1>2, <1>3, SentTypes
<1>7. plans' \in Seq(Plan) /\ IsSeq(plans')
  <2> DEFINE retry == Retry(Current, r, g)
  <2>1. plans' = plans \/ (plans' = Append(plans, retry) /\ retry \in Plan)
    BY <1>1, <1>2, PlansAfterProbe, Zenon
  <2> HIDE DEF retry
  <2>2. plans' \in Seq(Plan)
    BY <1>2, <2>1
  <2>3. QED
    BY <2>2 DEF IsSeq
<1>8. index' \in Nat /\ pc' \in {"probe", "stopped"}
  <2>1. (index' = index \/ index' = index + 1) /\ pc' \in {"probe", "stopped"}
    BY <1>1 DEF ProbeSent
  <2>2. QED
    BY <1>2, <2>1
<1>9. baselines' \subseteq Nat \X Nat
  BY <1>1, <1>2, <1>4 DEF ProbeSent, BaselineKey
<1>10. unresolved' \subseteq Nat \X Nat \X Nat
  BY <1>2, <1>3, <1>4 DEF ScheduleGuidedRetry
<1>11. budgetHit' \in BOOLEAN /\ rateLimited' \in BOOLEAN
  BY <1>3, Zenon DEF ScheduleGuidedRetry
<1>12. summary' \in Summary
  <2> DEFINE s == Counted(summary, Current.origin, r)
             a == IF Current.base /\ r.class = "object" THEN s.qualified + 1 ELSE s.qualified
             b == IF Current.base /\ r.class # "object" THEN s.rejected + 1 ELSE s.rejected
             c == IF Current.depth > 0 THEN s.guided + 1 ELSE s.guided
             d == IF /\ Current.depth > 0
                     /\ Current.fromFailure
                     /\ r.class \in {"object", "data"}
                  THEN s.successes + 1 ELSE s.successes
             e == IF g = Unresolved /\ Current.root \notin unresolved
                  THEN s.unresolved + 1 ELSE s.unresolved
  <2>1. summary' = [s EXCEPT !.qualified = a, !.rejected = b, !.guided = c,
                             !.successes = d, !.unresolved = e]
    BY <1>3, Zenon DEF ScheduleGuidedRetry
  <2>2. s \in Summary
    BY <1>2, CountedTypes
  <2> HIDE DEF s
  <2>3. /\ s.qualified \in Nat /\ s.rejected \in Nat /\ s.guided \in Nat
        /\ s.successes \in Nat /\ s.unresolved \in Nat
    BY <2>2 DEF Summary
  <2>4. a \in Nat /\ b \in Nat /\ c \in Nat /\ d \in Nat /\ e \in Nat
    BY <2>3
  <2> HIDE DEF a, b, c, d, e
  <2>5. QED
    BY <2>1, <2>2, <2>4 DEF Summary
<1>13. progress' \in [sent : Nat, planned : Nat, done : BOOLEAN]
  BY <1>3, <1>6, <1>7, Published
<1>14. FlowOK'
  BY <1>3, <1>8 DEF TypeInv, FlowOK
<1>15. TypeOK'
  BY <1>2, <1>3, <1>5, <1>6, <1>7, <1>8, <1>9, <1>10, <1>11, <1>12, <1>13
     DEF TypeOK, Record
<1>16. QED
  BY <1>14, <1>15 DEF TypeInv

\* Where the run goes after a workflow step.
LEMMA FlowAfterStep ==
  ASSUME TypeInv, NEW r, NEW outcome, StepSent(r, outcome)
  PROVE  /\ flow' \in [w : Nat, s : Nat] /\ flow'.w \in Nat \ {0} /\ flow'.s \in Nat \ {0}
         /\ flow'.w <= Len(job.workflows) => flow'.s <= Len(job.workflows[flow'.w])
         /\ Len(Steps) \in Nat /\ flow.s <= Len(Steps)
         /\ \/ flow'.w = flow.w + 1
            \/ flow'.w = flow.w /\ flow'.s = flow.s + 1
            \/ flow' = flow /\ pc' \in {"done", "failed"}
<1>1. /\ job \in Job /\ flow.w \in Nat \ {0} /\ flow.s \in Nat \ {0}
      /\ flow.w <= Len(job.workflows) /\ flow \in [w : Nat, s : Nat]
      /\ flow.s <= Len(job.workflows[flow.w]) /\ outcome \in StepOutcome(r)
      /\ pc' = IF outcome = "stop" THEN "done"
               ELSE IF outcome = "error" THEN "failed" ELSE pc
      /\ flow' = IF \/ outcome \in {"open", "unverified"}
                    \/ outcome = "continue" /\ flow.s = Len(Steps)
                 THEN NextWorkflow
                 ELSE IF outcome = "continue" THEN [flow EXCEPT !.s = @ + 1] ELSE flow
  BY DEF TypeInv, TypeOK, FlowOK, StepSent
<1>2. outcome \in {"stop", "open", "unverified", "error", "continue"}
  BY <1>1 DEF StepOutcome
<1>3. Len(Steps) \in Nat /\ flow.s <= Len(Steps)
  BY <1>1, FlowSteps DEF Steps
<1>4. CASE flow' = NextWorkflow
  <2>1. flow' = [w |-> flow.w + 1, s |-> 1]
    BY <1>4 DEF NextWorkflow
  <2>2. /\ flow'.w = flow.w + 1 /\ flow'.s = 1 /\ flow' \in [w : Nat, s : Nat]
        /\ flow'.w \in Nat \ {0}
    BY <1>1, <2>1
  <2>3. flow'.w <= Len(job.workflows) => 1 <= Len(job.workflows[flow'.w])
    BY <1>1, <2>2, FlowSteps
  <2>4. QED
    BY <1>3, <2>2, <2>3
<1>5. CASE outcome = "continue" /\ flow.s # Len(Steps)
  <2>1. flow' = [flow EXCEPT !.s = @ + 1]
    BY <1>1, <1>5
  <2>2. flow'.w = flow.w /\ flow'.s = flow.s + 1 /\ flow' \in [w : Nat, s : Nat]
    BY <1>1, <2>1
  <2>3. flow'.s <= Len(job.workflows[flow.w])
    BY <1>1, <1>3, <1>5, <2>2 DEF Steps
  <2>4. QED
    BY <1>1, <1>3, <2>2, <2>3
<1>6. CASE outcome \in {"stop", "error"}
  <2>1. flow' = flow /\ pc' \in {"done", "failed"}
    BY <1>1, <1>6
  <2>2. QED
    BY <1>1, <1>3, <2>1
<1>7. QED
  BY <1>1, <1>2, <1>4, <1>5, <1>6

LEMMA SendStepTypes == ASSUME TypeInv, SendStep PROVE TypeInv'
<1>1. PICK r, outcome : r \in Response /\ StepSent(r, outcome)
  BY StepFacts
<1>2. /\ job \in Job /\ plans \in Seq(Plan) /\ probes \in Seq(Record)
      /\ blocked \subseteq Origin /\ errs \in [Origin -> Nat] /\ summary \in Summary
      /\ rateLimited \in BOOLEAN /\ withheld \in Nat
      /\ flow.w \in Nat \ {0} /\ flow.s \in Nat \ {0}
      /\ progress \in [sent : Nat, planned : Nat, done : BOOLEAN]
  BY DEF TypeInv, TypeOK, Record, FlowOK
<1>3. /\ pc = "workflow" /\ flow.w <= Len(job.workflows)
      /\ WorkflowPlan \in Plan /\ WorkflowPlan.origin = Step.origin
      /\ UNCHANGED <<job, planVars, budgetHit>>
      /\ RecordCircuit(Step.origin, r)
      /\ probes' = Append(probes, Probe(WorkflowPlan, r))
      /\ pc' \in {"done", "failed", "workflow"}
      /\ withheld' = IF outcome = "open" THEN withheld + Rest ELSE withheld
      /\ summary' = [Counted(summary, Step.origin, r) EXCEPT
           !.isolated = IF outcome \in {"open", "unverified"}
                        THEN @ + BlockedRest(blocked') ELSE @]
      /\ rateLimited' = (rateLimited \/ RateStops(r))
      /\ IF pc' = "workflow" THEN UNCHANGED progress ELSE publishRunProgress(TRUE)
      /\ canceled' \in BOOLEAN
  BY <1>1 DEF StepSent
<1>4. Step.origin \in Origin
  BY <1>3 DEF Plan
<1>5. blocked' \subseteq Origin /\ errs' \in [Origin -> Nat]
  BY <1>2, <1>3, <1>4, CircuitTypes
<1>6. probes' \in Seq(Record) /\ IsSeq(probes')
  BY <1>1, <1>2, <1>3, SentTypes
<1>7. IsSeq(plans') /\ UNCHANGED <<plans, index, baselines, unresolved>>
  BY <1>2, <1>3 DEF IsSeq, planVars
<1>8. withheld' \in Nat
  <2>1. Rest \in Nat
    BY <1>1, <1>2, FlowAfterStep DEF Rest
  <2>2. QED
    BY <1>2, <1>3, <2>1
<1>9. summary' \in Summary
  <2> DEFINE s == Counted(summary, Step.origin, r)
             b == BlockedRest(blocked')
             a == IF outcome \in {"open", "unverified"} THEN s.isolated + b ELSE s.isolated
  <2>1. summary' = [s EXCEPT !.isolated = a]
    BY <1>3, Zenon
  <2>2. s \in Summary
    BY <1>2, CountedTypes
  <2>3. b \in Nat
    BY <1>2, <1>3, BlockedRestType
  <2> HIDE DEF s, b
  <2>4. s.isolated \in Nat
    BY <2>2 DEF Summary
  <2>5. a \in Nat
    BY <2>3, <2>4
  <2> HIDE DEF a
  <2>6. QED
    BY <2>1, <2>2, <2>5 DEF Summary
<1>10. progress' \in [sent : Nat, planned : Nat, done : BOOLEAN]
  BY <1>2, <1>3, <1>6, <1>7, Published
<1>11. /\ flow' \in [w : Nat, s : Nat] /\ flow'.w \in Nat \ {0} /\ flow'.s \in Nat \ {0}
       /\ flow'.w <= Len(job.workflows) => flow'.s <= Len(job.workflows[flow'.w])
  BY <1>1, FlowAfterStep
<1>12. rateLimited' \in BOOLEAN
  BY <1>3, Zenon
<1>13. FlowOK'
  BY <1>3, <1>11 DEF FlowOK
<1>14. TypeOK'
  BY <1>3, <1>5, <1>6, <1>7, <1>8, <1>9, <1>10, <1>11, <1>12
     DEF TypeInv, TypeOK, Record
<1>15. QED
  BY <1>13, <1>14 DEF TypeInv

\* Every step keeps the types.
LEMMA TypeInvStep == ASSUME TypeInv, FuzzInv, [Next]_vars PROVE TypeInv'
<1>1. /\ job \in Job /\ index \in Nat /\ summary \in Summary /\ withheld \in Nat
      /\ rateLimited \in BOOLEAN /\ budgetHit \in BOOLEAN /\ canceled \in BOOLEAN
      /\ pc \in {"plan", "probe", "stopped", "workflow", "done", "failed", "refused"}
      /\ flow.w \in Nat \ {0} /\ flow.s \in Nat \ {0}
      /\ flow.w <= Len(job.workflows) => flow.s <= Len(job.workflows[flow.w])
  BY DEF TypeInv, TypeOK, FlowOK
<1>2. /\ summary.isolated \in Nat /\ summary.invalid \in Nat /\ summary.unsafe \in Nat
  BY <1>1 DEF Summary
<1>3. CASE Refuse
  BY <1>1, <1>3, TypesUnsent DEF Refuse, planVars, circuitVars, reportVars
<1>4. CASE Begin
  BY <1>4, BeginTypes
<1>5. ASSUME NEW counted \in Summary, SkipPlan(counted), pc = "probe", withheld' \in Nat
      PROVE  TypeInv'
  <2>1. /\ summary' = counted /\ index' = index + 1
        /\ UNCHANGED <<job, pc, plans, flow, probes, baselines, unresolved, circuitVars,
                       rateLimited, budgetHit, canceled>>
        /\ publishRunProgress(FALSE)
    BY <1>5 DEF SkipPlan
  <2>2. index' \in Nat
    BY <1>1, <2>1
  <2>3. QED
    BY <1>1, <1>5, <2>1, <2>2, TypesUnsent DEF circuitVars
<1>6. CASE SkipIsolatedPlan
  <2>1. withheld' \in Nat
    BY <1>1, <1>6 DEF SkipIsolatedPlan
  <2>2. [summary EXCEPT !.isolated = @ + 1] \in Summary
    <3> DEFINE u == summary.isolated + 1
    <3>1. u \in Nat
      BY <1>2
    <3> HIDE DEF u
    <3>2. [summary EXCEPT !.isolated = u] \in Summary
      BY <1>1, <3>1 DEF Summary
    <3>3. QED
      BY <3>2, Zenon DEF u
  <2>3. QED
    BY <1>5, <1>6, <2>1, <2>2 DEF SkipIsolatedPlan, AtPlan
<1>7. CASE SkipInvalidIDOR
  <2>1. withheld' \in Nat
    BY <1>1, <1>7 DEF SkipInvalidIDOR
  <2>2. [summary EXCEPT !.invalid = @ + 1] \in Summary
    <3> DEFINE u == summary.invalid + 1
    <3>1. u \in Nat
      BY <1>2
    <3> HIDE DEF u
    <3>2. [summary EXCEPT !.invalid = u] \in Summary
      BY <1>1, <3>1 DEF Summary
    <3>3. QED
      BY <3>2, Zenon DEF u
  <2>3. QED
    BY <1>5, <1>7, <2>1, <2>2 DEF SkipInvalidIDOR, AtPlan
<1>8. CASE AbortProbes
  BY <1>1, <1>8, TypesUnsent DEF AbortProbes, planVars, circuitVars, reportVars
<1>9. CASE SendProbe
  BY <1>9, SendProbeTypes
<1>10. CASE EndProbes
  BY <1>1, <1>10, TypesUnsent DEF EndProbes, planVars, circuitVars, reportVars
<1>11. CASE SkipUnsafeWorkflow
  <2>1. UnsafeSteps(flow.w) \in Nat
    BY <1>1, <1>11, FlowSteps DEF SkipUnsafeWorkflow, AtWorkflow
  <2>2. summary' \in Summary
    <3> DEFINE u == summary.unsafe + UnsafeSteps(flow.w)
    <3>1. summary' = [summary EXCEPT !.unsafe = u]
      BY <1>11, Zenon DEF SkipUnsafeWorkflow
    <3>2. u \in Nat
      BY <1>2, <2>1
    <3> HIDE DEF u
    <3>3. QED
      BY <1>1, <3>1, <3>2 DEF Summary
  <2>3. /\ UNCHANGED <<job, pc, planVars, probes, circuitVars, rateLimited, budgetHit,
                       progress, canceled, withheld>>
        /\ flow' = NextWorkflow /\ pc = "workflow"
    BY <1>11 DEF SkipUnsafeWorkflow, AtWorkflow
  <2>4. QED
    BY <1>1, <2>2, <2>3, TypesUnsent DEF planVars, circuitVars
<1>12. CASE StopWorkflowsOnBudget
  BY <1>1, <1>12, TypesUnsent DEF StopWorkflowsOnBudget, planVars, circuitVars
<1>13. CASE SkipIsolatedStep
  <2>1. /\ pc = "workflow" /\ flow.w <= Len(job.workflows)
        /\ summary' = [summary EXCEPT !.isolated = @ + 1 + BlockedRest(blocked)]
        /\ withheld' = withheld + 1 + Rest
        /\ flow' = NextWorkflow
        /\ UNCHANGED <<job, pc, planVars, probes, circuitVars, rateLimited, budgetHit,
                       progress, canceled>>
    BY <1>13 DEF SkipIsolatedStep, AtStep, AtWorkflow
  <2>2. BlockedRest(blocked) \in Nat
    BY <1>1, <2>1, BlockedRestType
  <2>3. summary' \in Summary
    <3> DEFINE u == summary.isolated + 1 + BlockedRest(blocked)
    <3>1. summary' = [summary EXCEPT !.isolated = u]
      BY <2>1, Zenon
    <3>2. u \in Nat
      BY <1>2, <2>2
    <3> HIDE DEF u
    <3>3. QED
      BY <1>1, <3>1, <3>2 DEF Summary
  <2>4. withheld' \in Nat
    <3>1. Len(Steps) \in Nat /\ flow.s <= Len(Steps)
      BY <1>1, <2>1, FlowSteps DEF Steps
    <3>2. Rest \in Nat
      BY <1>1, <3>1 DEF Rest
    <3>3. QED
      BY <1>1, <2>1, <3>2
  <2>5. QED
    BY <1>1, <2>1, <2>3, <2>4, TypesUnsent DEF planVars, circuitVars
<1>14. CASE AbortWorkflows
  BY <1>1, <1>14, TypesUnsent DEF AbortWorkflows, planVars, circuitVars, reportVars
<1>15. CASE SendStep
  BY <1>15, SendStepTypes
<1>16. CASE EndWorkflows
  BY <1>1, <1>16, TypesUnsent DEF EndWorkflows, planVars, circuitVars, reportVars
<1>17. CASE Cancel
  BY <1>1, <1>17, TypesUnsent DEF Cancel, planVars, circuitVars, reportVars
<1>18. CASE UNCHANGED vars
  BY <1>1, <1>18, TypesUnsent DEF vars, planVars, circuitVars, reportVars
<1>19. QED
  BY <1>3, <1>4, <1>6, <1>7, <1>8, <1>9, <1>10, <1>11, <1>12, <1>13, <1>14, <1>15,
     <1>16, <1>17, <1>18 DEF Next, RunStep

\* The types, and the workflow position, hold in every reachable state: no
\* counter of the report goes below zero and no step is read past its workflow.
THEOREM FuzzTypes == Spec => []TypeInv
<1>1. Init => TypeInv
  BY TypeInvInit
<1>2. TypeInv /\ FuzzInv /\ [Next]_vars => TypeInv'
  BY TypeInvStep
<1>3. QED
  BY <1>1, <1>2, FuzzInvariant, PTL DEF Spec

\* A fuzz run keeps its types, whatever its job and its responses are.
THEOREM FuzzTypeCorrect == Spec => []TypeOK
<1>1. TypeInv => TypeOK
  BY DEF TypeInv
<1>2. QED
  BY <1>1, FuzzTypes, PTL

-----------------------------------------------------------------------------
(* Progress                                                                *)

\* A step that publishes says done exactly when the run returns.
LEMMA PublishedProgress ==
  ASSUME IsSeq(plans'), IsSeq(probes'), NEW d \in BOOLEAN, publishRunProgress(d),
         d <=> pc' \in {"done", "failed"}
  PROVE  ProgressIsFinal'
<1>1. /\ progress'.done = d /\ progress'.sent = Len(probes')
      /\ progress'.sent <= progress'.planned
  BY Published
<1>2. QED
  BY <1>1 DEF ProgressIsFinal, Requests

\* A step that publishes nothing leaves a run that returned alone.
LEMMA QuietProgress ==
  ASSUME ProgressIsFinal, UNCHANGED progress,
         pc \notin {"done", "failed"} \/ UNCHANGED <<pc, probes>>,
         pc' \notin {"done", "failed"} \/ UNCHANGED <<pc, probes>>
  PROVE  ProgressIsFinal'
  BY DEF ProgressIsFinal, Requests

LEMMA ProgressStep ==
  ASSUME TypeInv, TypeInv', FuzzInv, ProgressIsFinal, [Next]_vars
  PROVE  ProgressIsFinal'
<1>1. IsSeq(plans') /\ IsSeq(probes')
  BY DEF TypeInv, TypeOK, IsSeq
<1>2. CASE Refuse
  BY <1>2, QuietProgress DEF Refuse
<1>3. CASE Begin
  <2>1. publishRunProgress(FALSE) /\ pc' = "probe"
    BY <1>3 DEF Begin
  <2>2. QED
    BY <1>1, <2>1, PublishedProgress
<1>4. CASE SkipIsolatedPlan \/ SkipInvalidIDOR
  <2>1. publishRunProgress(FALSE) /\ pc' = "probe"
    BY <1>4 DEF SkipIsolatedPlan, SkipInvalidIDOR, SkipPlan, AtPlan
  <2>2. QED
    BY <1>1, <2>1, PublishedProgress
<1>5. CASE AbortProbes \/ StopWorkflowsOnBudget \/ AbortWorkflows \/ EndWorkflows
  <2>1. publishRunProgress(TRUE) /\ pc' \in {"done", "failed"}
    BY <1>5 DEF AbortProbes, StopWorkflowsOnBudget, AbortWorkflows, EndWorkflows
  <2>2. QED
    BY <1>1, <2>1, PublishedProgress
<1>6. CASE SendProbe
  <2>1. publishRunProgress(FALSE) /\ pc' \in {"probe", "stopped"}
    BY <1>6, ProbeFacts DEF ProbeSent
  <2>2. QED
    BY <1>1, <2>1, PublishedProgress
<1>7. CASE EndProbes
  <2>1. CASE RunsWorkflows
    BY <1>7, <2>1, QuietProgress DEF EndProbes, ProbesOver
  <2>2. CASE ~RunsWorkflows
    BY <1>1, <1>7, <2>2, PublishedProgress DEF EndProbes
  <2>3. QED
    BY <2>1, <2>2
<1>8. CASE SkipUnsafeWorkflow \/ SkipIsolatedStep
  <2>1. UNCHANGED <<progress, pc, probes>>
    BY <1>8 DEF SkipUnsafeWorkflow, SkipIsolatedStep
  <2>2. QED
    BY <2>1, QuietProgress
<1>9. CASE SendStep
  <2>1. /\ IF pc' = "workflow" THEN UNCHANGED progress ELSE publishRunProgress(TRUE)
        /\ pc = "workflow" /\ pc' \in {"done", "failed", "workflow"}
    BY <1>9, StepFacts DEF StepSent
  <2>2. QED
    BY <1>1, <2>1, PublishedProgress, QuietProgress
<1>10. CASE Cancel \/ UNCHANGED vars
  <2>1. UNCHANGED <<progress, pc, probes>>
    BY <1>10 DEF Cancel, vars
  <2>2. QED
    BY <2>1, QuietProgress
<1>11. QED
  BY <1>2, <1>3, <1>4, <1>5, <1>6, <1>7, <1>8, <1>9, <1>10 DEF Next, RunStep

\* publishRunProgress: the snapshot a renderer sees last is the final one, and
\* done is never seen before the run returns, on every path out of run.
THEOREM FuzzProgress == Spec => []ProgressIsFinal
<1>1. Init => ProgressIsFinal
  BY DEF Init, ProgressIsFinal, NoProgress
<1>2. TypeInv /\ TypeInv' /\ FuzzInv /\ ProgressIsFinal /\ [Next]_vars => ProgressIsFinal'
  BY ProgressStep
<1>3. QED
  BY <1>1, <1>2, FuzzTypes, FuzzInvariant, PTL DEF Spec

-----------------------------------------------------------------------------
(* Completeness                                                            *)

\* The plan begins with every case that may be sent.
PlanIsWhole ==
  /\ Len(AllPlans) <= Len(plans)
  /\ \A k \in 1..Len(AllPlans) : plans[k] = AllPlans[k]

\* What a run that is neither cut by its budget nor stopped by a rate limit
\* has gone through when it comes to its workflows and to its end.
CompleteInv ==
  /\ pc \notin {"plan", "refused"} => budgetHit \/ PlanIsWhole
  /\ pc = "stopped" => rateLimited /\ ~job.isolate
  /\ pc = "workflow" => index > Len(plans)
  /\ pc = "done" => \/ budgetHit
                    \/ rateLimited /\ ~job.isolate
                    \/ index > Len(plans) /\ flow.w > Len(job.workflows)

\* A step that leaves the plan and its position alone keeps what was complete.
LEMMA CompleteKept ==
  ASSUME CompleteInv, TypeInv,
         UNCHANGED <<job, plans, index>>,
         budgetHit => budgetHit', rateLimited => rateLimited',
         pc \notin {"plan", "refused"} \/ pc' \in {"plan", "refused"},
         pc' = "stopped" => pc = "stopped",
         pc' = "workflow" => pc = "workflow" \/ index > Len(plans),
         pc' = "done" => \/ budgetHit'
                         \/ rateLimited' /\ ~job.isolate
                         \/ index > Len(plans) /\ flow'.w > Len(job.workflows)
  PROVE  CompleteInv'
<1>1. PlanIsWhole => PlanIsWhole'
  BY SamePlan DEF PlanIsWhole
<1>2. QED
  BY <1>1 DEF CompleteInv

\* The plan only grows at its end.
LEMMA WholePlanKept ==
  ASSUME TypeInv, UNCHANGED job, NEW e, plans' = plans \/ plans' = Append(plans, e),
         PlanIsWhole
  PROVE  PlanIsWhole'
<1>1. IsSeq(plans) /\ job \in Job
  BY DEF TypeInv, TypeOK, IsSeq
<1>2. AllPlans' = AllPlans /\ Len(AllPlans) \in Nat
  BY <1>1, SamePlan, AllPlansRows
<1>3. /\ Len(plans) \in Nat /\ Len(plans') >= Len(plans)
      /\ \A k \in 1..Len(plans) : plans'[k] = plans[k]
  BY <1>1, AppendSeq
<1>4. QED
  BY <1>2, <1>3 DEF PlanIsWhole

LEMMA CompleteStep ==
  ASSUME CompleteInv, TypeInv, FuzzInv, [Next]_vars
  PROVE  CompleteInv'
<1>1. /\ job \in Job /\ plans \in Seq(Plan) /\ index \in Nat
      /\ pc \in {"plan", "probe", "stopped"} => flow.w = 1
  BY DEF TypeInv, TypeOK, FlowOK
<1>2. CASE Refuse
  BY <1>2, CompleteKept DEF Refuse, planVars, reportVars
<1>3. CASE Begin
  <2>1. /\ plans' = BuildProbePlans /\ pc' = "probe" /\ budgetHit' = Truncated
        /\ UNCHANGED job
    BY <1>3 DEF Begin
  <2>2. Len(AllPlans) \in Nat
    BY <1>1, AllPlansRows
  <2>3. ~Truncated => PlanIsWhole'
    BY <1>1, <2>1, <2>2, BuildRows, SamePlan DEF PlanIsWhole
  <2>4. QED
    BY <2>1, <2>3 DEF CompleteInv
<1>4. CASE SkipIsolatedPlan \/ SkipInvalidIDOR
  <2>1. UNCHANGED <<job, pc, plans, budgetHit, rateLimited>> /\ pc = "probe"
    BY <1>4 DEF SkipIsolatedPlan, SkipInvalidIDOR, SkipPlan, AtPlan
  <2>2. PlanIsWhole => PlanIsWhole'
    BY <2>1, WholePlanKept
  <2>3. QED
    BY <2>1, <2>2 DEF CompleteInv
<1>5. CASE AbortProbes
  BY <1>5, CompleteKept DEF AbortProbes, Due, AtPlan, planVars, reportVars
<1>6. CASE SendProbe
  <2>1. PICK r \in Response, g \in Hint : ProbeSent(r, g)
    BY <1>6, ProbeFacts
  <2>2. /\ pc = "probe" /\ UNCHANGED <<job, flow>> /\ ScheduleGuidedRetry(Current, r, g)
        /\ IF RateStops(r) /\ ~job.isolate THEN pc' = "stopped" ELSE pc' = "probe"
    BY <2>1 DEF ProbeSent
  <2>3. /\ budgetHit => budgetHit'
        /\ rateLimited => rateLimited'
        /\ RateStops(r) => rateLimited'
    BY <2>2, Zenon DEF ScheduleGuidedRetry
  <2>4. PlanIsWhole => PlanIsWhole'
    BY <1>1, <2>1, <2>2, PlansAfterProbe, WholePlanKept
  <2>5. QED
    BY <2>2, <2>3, <2>4 DEF CompleteInv
<1>7. CASE EndProbes
  <2>1. /\ ProbesOver /\ UNCHANGED <<job, plans, index, flow, budgetHit, rateLimited>>
        /\ IF RunsWorkflows THEN pc' = "workflow" ELSE pc' = "done"
    BY <1>7 DEF EndProbes, planVars, reportVars
  <2>2. RunsWorkflows => pc = "probe" /\ index > Len(plans)
    BY <2>1 DEF ProbesOver, RunsWorkflows, CompleteInv
  <2>3. ~RunsWorkflows => \/ rateLimited /\ ~job.isolate
                          \/ index > Len(plans) /\ flow.w > Len(job.workflows)
    <3>1. job.workflows = <<>> => flow.w > Len(job.workflows)
      BY <1>1, <2>1 DEF ProbesOver
    <3>2. QED
      BY <2>1, <3>1 DEF ProbesOver, RunsWorkflows, CompleteInv
  <2>4. pc \in {"probe", "stopped"}
    BY <2>1 DEF ProbesOver
  <2>5. QED
    BY <2>1, <2>2, <2>3, <2>4, CompleteKept
<1>8. CASE SkipUnsafeWorkflow \/ SkipIsolatedStep
  <2>1. UNCHANGED <<job, plans, index, pc, budgetHit, rateLimited>> /\ pc = "workflow"
    BY <1>8 DEF SkipUnsafeWorkflow, SkipIsolatedStep, AtStep, AtWorkflow, planVars
  <2>2. QED
    BY <2>1, CompleteKept
<1>9. CASE StopWorkflowsOnBudget
  BY <1>9, CompleteKept DEF StopWorkflowsOnBudget, AtStep, AtWorkflow, planVars
<1>10. CASE AbortWorkflows
  BY <1>10, CompleteKept
     DEF AbortWorkflows, StepDue, AtStep, AtWorkflow, planVars, reportVars
<1>11. CASE SendStep
  <2>1. PICK r, outcome : r \in Response /\ StepSent(r, outcome)
    BY <1>11, StepFacts
  <2>2. /\ pc = "workflow" /\ UNCHANGED <<job, plans, index, budgetHit>>
        /\ outcome \in StepOutcome(r)
        /\ pc' = IF outcome = "stop" THEN "done"
                 ELSE IF outcome = "error" THEN "failed" ELSE pc
        /\ rateLimited' = (rateLimited \/ RateStops(r))
    BY <2>1 DEF StepSent, planVars
  <2>3. outcome = "stop" => RateStops(r) /\ ~job.isolate
    BY <2>2 DEF StepOutcome
  <2>4. pc' = "done" => rateLimited' /\ ~job.isolate
    BY <2>2, <2>3
  <2>5. QED
    BY <2>2, <2>4, CompleteKept
<1>12. CASE EndWorkflows
  BY <1>12, CompleteKept DEF EndWorkflows, CompleteInv, planVars, reportVars
<1>13. CASE Cancel \/ UNCHANGED vars
  <2>1. UNCHANGED <<job, plans, index, pc, flow, budgetHit, rateLimited>>
    BY <1>13 DEF Cancel, vars, planVars, reportVars
  <2>2. QED
    BY <2>1, CompleteKept DEF CompleteInv
<1>14. QED
  BY <1>2, <1>3, <1>4, <1>5, <1>6, <1>7, <1>8, <1>9, <1>10, <1>11, <1>12, <1>13
     DEF Next, RunStep

\* A run that is past its plan and workflows hit the budget, was stopped by a
\* rate limit, or has gone through all of both; an uncut plan is whole.
THEOREM CompleteInvariant == Spec => []CompleteInv
<1>1. Init => CompleteInv
  BY DEF Init, CompleteInv
<1>2. CompleteInv /\ TypeInv /\ FuzzInv /\ [Next]_vars => CompleteInv'
  BY CompleteStep
<1>3. QED
  BY <1>1, <1>2, FuzzTypes, FuzzInvariant, PTL DEF Spec

\* fuzzCompletionErrorForMode: a run that reports no completion error has
\* planned every case that may be sent and gone through its whole plan, the
\* retries it scheduled on the way, and every workflow.
THEOREM FuzzComplete == Spec => []SuccessIsComplete
<1>1. ASSUME CompleteInv, TypeInv PROVE SuccessIsComplete
  <2> SUFFICES ASSUME pc = "done", CompletionError = "none"
               PROVE  /\ IsPrefix(AllPlans, plans)
                      /\ index > Len(plans)
                      /\ flow.w > Len(job.workflows)
    BY DEF SuccessIsComplete
  <2>1. ~budgetHit /\ ~(rateLimited /\ ~job.isolate)
    BY DEF CompletionError
  <2>2. index > Len(plans) /\ flow.w > Len(job.workflows) /\ PlanIsWhole
    BY <1>1, <2>1 DEF CompleteInv
  <2>3. IsPrefix(AllPlans, plans)
    <3> DEFINE n == Len(AllPlans)
    <3>1. AllPlans \in Seq(Plan) /\ plans \in Seq(Plan) /\ n \in Nat
      BY <1>1, AllPlansRows DEF TypeInv, TypeOK
    <3>2. n <= Len(plans) /\ \A k \in 1..n : plans[k] = AllPlans[k]
      BY <2>2 DEF PlanIsWhole
    <3>3. SubSeq(AllPlans, 1, n) = SubSeq(plans, 1, n)
      BY <3>1, <3>2
    <3>4. QED
      BY <3>2, <3>3 DEF IsPrefix
  <2>4. QED
    BY <2>2, <2>3
<1>2. QED
  BY <1>1, CompleteInvariant, FuzzTypes, PTL

-----------------------------------------------------------------------------
(* Consecutive faults                                                      *)

\* A request of probes or workflows goes out, or the circuits stay as they are.
LEMMA SendOrQuiet ==
  ASSUME TypeInv, FuzzInv, [Next]_vars
  PROVE  \/ UNCHANGED <<job, probes, blocked, errs>>
         \/ \E plan \in Plan, r \in Response :
              /\ UNCHANGED job
              /\ ~originBlocked(plan.origin)
              /\ probes' = Append(probes, Probe(plan, r))
              /\ RecordCircuit(plan.origin, r)
<1>1. CASE SendProbe
  BY <1>1, ProbeFacts DEF ProbeSent
<1>2. CASE SendStep
  <2>1. PICK r, outcome : r \in Response /\ StepSent(r, outcome)
    BY <1>2, StepFacts
  <2>2. /\ WorkflowPlan \in Plan /\ WorkflowPlan.origin = Step.origin
        /\ UNCHANGED job /\ ~originBlocked(Step.origin)
        /\ probes' = Append(probes, Probe(WorkflowPlan, r))
        /\ RecordCircuit(Step.origin, r)
    BY <2>1 DEF StepSent
  <2> HIDE DEF WorkflowPlan, Step
  <2>3. QED
    BY <2>1, <2>2
<1>3. CASE ~SendProbe /\ ~SendStep
  <2>1. CASE Refuse \/ Begin
    BY <2>1 DEF Refuse, Begin, circuitVars
  <2>2. CASE SkipIsolatedPlan \/ SkipInvalidIDOR \/ AbortProbes \/ EndProbes
    BY <2>2 DEF SkipIsolatedPlan, SkipInvalidIDOR, SkipPlan, AbortProbes, EndProbes,
                circuitVars
  <2>3. CASE SkipUnsafeWorkflow \/ StopWorkflowsOnBudget \/ SkipIsolatedStep
             \/ AbortWorkflows \/ EndWorkflows
    BY <2>3 DEF SkipUnsafeWorkflow, StopWorkflowsOnBudget, SkipIsolatedStep,
                AbortWorkflows, EndWorkflows, circuitVars
  <2>4. CASE Cancel \/ UNCHANGED vars
    BY <2>4 DEF Cancel, vars, circuitVars
  <2>5. QED
    BY <1>3, <2>1, <2>2, <2>3, <2>4 DEF Next, RunStep
<1>4. QED
  BY <1>1, <1>2, <1>3

\* The request i was a fault of origin o.
FaultAt(o, i) == probes[i].plan.origin = o /\ probes[i].fault
\* Nothing was sent to origin o between the requests i and k.
Quiet(o, i, k) ==
  \A x \in DOMAIN probes : i < x /\ x < k => probes[x].plan.origin # o
NextRequest == Len(probes) + 1

\* The counter of an origin covers its latest run of faults, and the third in
\* a row opened its circuit.
FaultInv ==
  job.isolate =>
    \A o \in Origin :
      /\ \A i \in DOMAIN probes :
           FaultAt(o, i) /\ Quiet(o, i, NextRequest) => errs[o] >= 1
      /\ \A i, m \in DOMAIN probes :
           /\ FaultAt(o, i) /\ FaultAt(o, m)
           /\ i < m /\ Quiet(o, i, m) /\ Quiet(o, m, NextRequest)
           => errs[o] >= 2
      /\ \A i, m, l \in DOMAIN probes :
           /\ FaultAt(o, i) /\ FaultAt(o, m) /\ FaultAt(o, l)
           /\ i < m /\ Quiet(o, i, m) /\ m < l /\ Quiet(o, m, l)
           => o \in blocked

\* A send of plan and its effect on the circuit of an origin o.
LEMMA FaultCounted ==
  ASSUME TypeInv, job.isolate, NEW plan \in Plan, NEW r \in Response,
         RecordCircuit(plan.origin, r), NEW o \in Origin
  PROVE  /\ o # plan.origin => errs'[o] = errs[o]
         /\ r.class = "fault" /\ o = plan.origin => errs'[o] = errs[o] + 1
         /\ r.class = "fault" /\ o = plan.origin /\ errs[o] >= 2 => o \in blocked'
         /\ o \in blocked => o \in blocked'
         /\ errs[o] \in Nat
<1>1. errs \in [Origin -> Nat] /\ plan.origin \in Origin
  BY DEF TypeInv, TypeOK, Plan
<1>2. r.class = "fault" => ~RateStops(r)
  BY ResponseTypes DEF RateStops
<1>3. /\ blocked' = IF Opens(plan.origin, r) THEN blocked \cup {plan.origin} ELSE blocked
      /\ errs' = IF ~RateStops(r)
                 THEN [errs EXCEPT ![plan.origin] =
                         IF r.class = "fault" THEN errs[plan.origin] + 1 ELSE 0]
                 ELSE errs
  BY Zenon DEF RecordCircuit
<1>4. r.class = "fault" /\ errs[plan.origin] >= 2 => Opens(plan.origin, r)
  BY <1>1, <1>2 DEF Opens, OpensByFault, maximumOriginTransportErrors
<1>5. QED
  BY <1>1, <1>2, <1>3, <1>4

LEMMA FaultSend ==
  ASSUME TypeInv, FaultInv, NEW plan \in Plan, NEW r \in Response,
         UNCHANGED job,
         probes' = Append(probes, Probe(plan, r)),
         RecordCircuit(plan.origin, r)
  PROVE  FaultInv'
<1>1. IsSeq(probes)
  BY DEF TypeInv, TypeOK, IsSeq
<1> PICK n : n = Len(probes)
  OBVIOUS
<1>2. /\ n \in Nat
      /\ DOMAIN probes = 1..n
      /\ DOMAIN probes' = 1..(n + 1)
      /\ Len(probes') = n + 1
      /\ \A i \in 1..n : probes'[i] = probes[i]
      /\ probes'[n + 1] = Probe(plan, r)
  BY <1>1, AppendSeq
<1>3. /\ probes'[n + 1].plan.origin = plan.origin
      /\ probes'[n + 1].fault = (r.class = "fault")
  BY <1>2 DEF Probe
<1> SUFFICES ASSUME job.isolate, NEW o \in Origin
             PROVE  (/\ \A i \in DOMAIN probes :
                          FaultAt(o, i) /\ Quiet(o, i, NextRequest) => errs[o] >= 1
                     /\ \A i, m \in DOMAIN probes :
                          /\ FaultAt(o, i) /\ FaultAt(o, m)
                          /\ i < m /\ Quiet(o, i, m) /\ Quiet(o, m, NextRequest)
                          => errs[o] >= 2
                     /\ \A i, m, l \in DOMAIN probes :
                          /\ FaultAt(o, i) /\ FaultAt(o, m) /\ FaultAt(o, l)
                          /\ i < m /\ Quiet(o, i, m) /\ m < l /\ Quiet(o, m, l)
                          => o \in blocked)'
  BY DEF FaultInv
<1>4. /\ o # plan.origin => errs'[o] = errs[o]
      /\ r.class = "fault" /\ o = plan.origin => errs'[o] = errs[o] + 1
      /\ r.class = "fault" /\ o = plan.origin /\ errs[o] >= 2 => o \in blocked'
      /\ o \in blocked => o \in blocked'
      /\ errs[o] \in Nat
  BY FaultCounted
<1>5. NextRequest = n + 1 /\ NextRequest' = n + 2
  BY <1>2 DEF NextRequest
<1>6. \A i \in DOMAIN probes' : i \in 1..n \/ i = n + 1
  BY <1>2
<1>7. \A i \in 1..n : FaultAt(o, i)' => FaultAt(o, i)
  BY <1>2 DEF FaultAt
<1>8. FaultAt(o, n + 1)' => r.class = "fault" /\ o = plan.origin
  BY <1>3 DEF FaultAt
<1>9. \A i \in DOMAIN probes', k \in 1..(n + 1) : Quiet(o, i, k)' => Quiet(o, i, k)
  <2> SUFFICES ASSUME NEW i \in DOMAIN probes', NEW k \in 1..(n + 1), Quiet(o, i, k)',
                      NEW x \in DOMAIN probes, i < x, x < k
               PROVE  probes[x].plan.origin # o
    BY DEF Quiet
  <2>1. x \in DOMAIN probes' /\ probes'[x] = probes[x]
    BY <1>2
  <2>2. QED
    BY <2>1 DEF Quiet
<1>10. \A i \in 1..n : Quiet(o, i, n + 2)' => o # plan.origin /\ Quiet(o, i, n + 1)
  <2> SUFFICES ASSUME NEW i \in 1..n, Quiet(o, i, n + 2)'
               PROVE  o # plan.origin /\ Quiet(o, i, n + 1)
    OBVIOUS
  <2>1. n + 1 \in DOMAIN probes' /\ i < n + 1 /\ n + 1 < n + 2
    BY <1>2
  <2>2. o # plan.origin
    BY <1>3, <2>1 DEF Quiet
  <2>3. ASSUME NEW x \in DOMAIN probes, i < x PROVE probes[x].plan.origin # o
    <3>1. x \in DOMAIN probes' /\ probes'[x] = probes[x] /\ x < n + 2
      BY <1>2
    <3>2. QED
      BY <2>3, <3>1 DEF Quiet
  <2>4. QED
    BY <2>2, <2>3 DEF Quiet
<1>11. ASSUME NEW i \in DOMAIN probes', FaultAt(o, i)', Quiet(o, i, n + 2)'
       PROVE  errs'[o] >= 1
  <2>1. CASE i \in 1..n
    BY <1>2, <1>4, <1>5, <1>7, <1>10, <1>11, <2>1 DEF FaultInv
  <2>2. CASE i = n + 1
    BY <1>4, <1>8, <1>11, <2>2
  <2>3. QED
    BY <1>6, <2>1, <2>2
<1>12. ASSUME NEW i \in DOMAIN probes', NEW m \in DOMAIN probes',
              FaultAt(o, i)', FaultAt(o, m)', i < m, Quiet(o, i, m)', Quiet(o, m, n + 2)'
       PROVE  errs'[o] >= 2
  <2>1. i \in 1..n
    BY <1>2, <1>6, <1>12
  <2>2. FaultAt(o, i) /\ Quiet(o, i, m)
    BY <1>2, <1>7, <1>9, <1>12, <2>1
  <2>3. CASE m \in 1..n
    <3>1. FaultAt(o, m) /\ Quiet(o, m, n + 1) /\ o # plan.origin
      BY <1>7, <1>10, <1>12, <2>3
    <3>2. errs[o] >= 2
      BY <1>2, <1>5, <1>12, <2>1, <2>2, <2>3, <3>1 DEF FaultInv
    <3>3. QED
      BY <1>4, <3>1, <3>2
  <2>4. CASE m = n + 1
    <3>1. errs[o] >= 1
      BY <1>2, <1>5, <2>1, <2>2, <2>4 DEF FaultInv
    <3>2. QED
      BY <1>4, <1>8, <1>12, <2>4, <3>1
  <2>5. QED
    BY <1>6, <2>3, <2>4
<1>13. ASSUME NEW i \in DOMAIN probes', NEW m \in DOMAIN probes', NEW l \in DOMAIN probes',
              FaultAt(o, i)', FaultAt(o, m)', FaultAt(o, l)',
              i < m, Quiet(o, i, m)', m < l, Quiet(o, m, l)'
       PROVE  o \in blocked'
  <2>1. i \in 1..n /\ m \in 1..n
    BY <1>2, <1>6, <1>13
  <2>2. FaultAt(o, i) /\ FaultAt(o, m) /\ Quiet(o, i, m) /\ Quiet(o, m, l)
    BY <1>2, <1>7, <1>9, <1>13, <2>1
  <2>3. CASE l \in 1..n
    BY <1>2, <1>4, <1>7, <1>13, <2>1, <2>2, <2>3 DEF FaultInv
  <2>4. CASE l = n + 1
    <3>1. errs[o] >= 2
      BY <1>2, <1>5, <1>13, <2>1, <2>2, <2>4 DEF FaultInv
    <3>2. QED
      BY <1>4, <1>8, <1>13, <2>4, <3>1
  <2>5. QED
    BY <1>6, <2>3, <2>4
<1>14. QED
  BY <1>5, <1>11, <1>12, <1>13, Zenon

\* After three faults in a row nothing more goes to their origin.
FaultSilence ==
  job.isolate =>
    \A o \in Origin : \A i, m, l, j \in DOMAIN probes :
      /\ FaultAt(o, i) /\ FaultAt(o, m) /\ FaultAt(o, l)
      /\ i < m /\ Quiet(o, i, m) /\ m < l /\ Quiet(o, m, l)
      /\ l < j
      => probes[j].plan.origin # o

LEMMA SilenceSend ==
  ASSUME TypeInv, FaultInv, FaultSilence, NEW plan \in Plan, NEW r \in Response,
         UNCHANGED job,
         ~originBlocked(plan.origin),
         probes' = Append(probes, Probe(plan, r))
  PROVE  FaultSilence'
<1>1. IsSeq(probes)
  BY DEF TypeInv, TypeOK, IsSeq
<1> PICK n : n = Len(probes)
  OBVIOUS
<1>2. /\ n \in Nat
      /\ DOMAIN probes = 1..n
      /\ DOMAIN probes' = 1..(n + 1)
      /\ \A i \in 1..n : probes'[i] = probes[i]
      /\ probes'[n + 1] = Probe(plan, r)
  BY <1>1, AppendSeq
<1>3. probes'[n + 1].plan.origin = plan.origin
  BY <1>2 DEF Probe
<1> SUFFICES ASSUME job.isolate, NEW o \in Origin,
                    NEW i \in DOMAIN probes', NEW m \in DOMAIN probes',
                    NEW l \in DOMAIN probes', NEW j \in DOMAIN probes',
                    FaultAt(o, i)', FaultAt(o, m)', FaultAt(o, l)',
                    i < m, Quiet(o, i, m)', m < l, Quiet(o, m, l)', l < j
             PROVE  probes'[j].plan.origin # o
  BY DEF FaultSilence
<1>4. i \in 1..n /\ m \in 1..n /\ l \in 1..n
  BY <1>2
<1>5. FaultAt(o, i) /\ FaultAt(o, m) /\ FaultAt(o, l)
  BY <1>2, <1>4 DEF FaultAt
<1>6. Quiet(o, i, m) /\ Quiet(o, m, l)
  <2>1. \A x \in DOMAIN probes : x \in DOMAIN probes' /\ probes'[x] = probes[x]
    BY <1>2
  <2>2. QED
    BY <2>1 DEF Quiet
<1>7. CASE j \in 1..n
  BY <1>2, <1>4, <1>5, <1>6, <1>7 DEF FaultSilence
<1>8. CASE j = n + 1
  <2>1. o \in blocked
    BY <1>2, <1>4, <1>5, <1>6 DEF FaultInv
  <2>2. QED
    BY <1>3, <1>8, <2>1 DEF originBlocked
<1>9. QED
  BY <1>2, <1>7, <1>8

LEMMA FaultStep ==
  ASSUME TypeInv, FuzzInv, FaultInv, FaultSilence, [Next]_vars
  PROVE  FaultInv' /\ FaultSilence'
<1>1. CASE UNCHANGED <<job, probes, blocked, errs>>
  <2>1. NextRequest' = NextRequest
    BY <1>1 DEF NextRequest
  <2>2. QED
    BY <1>1, <2>1 DEF FaultInv, FaultSilence, FaultAt, Quiet
<1>2. CASE \E plan \in Plan, r \in Response :
              /\ UNCHANGED job
              /\ ~originBlocked(plan.origin)
              /\ probes' = Append(probes, Probe(plan, r))
              /\ RecordCircuit(plan.origin, r)
  BY <1>2, FaultSend, SilenceSend
<1>3. QED
  BY <1>1, <1>2, SendOrQuiet

\* A set of three numbers between its members first and last.
LEMMA ThreeBetween ==
  ASSUME NEW S, S \subseteq Int, IsFiniteSet(S), Cardinality(S) = 3,
         NEW first \in S, NEW last \in S, \A i \in S : first <= i /\ i <= last
  PROVE  \E m \in S : /\ first < m /\ m < last
                      /\ \A i \in S : i \in {first, m, last}
<1> DEFINE A == S \ {first}
           B == A \ {last}
<1>1. IsFiniteSet(A) /\ Cardinality(A) = 2
  BY FS_RemoveElement
<1>2. first # last
  <2> SUFFICES ASSUME first = last PROVE FALSE
    OBVIOUS
  <2>1. A = {}
    <3>1. \A i \in S : i = first
      OBVIOUS
    <3>2. QED
      BY <3>1
  <2> HIDE DEF A
  <2>2. Cardinality(A) = 0
    BY <2>1, FS_EmptySet
  <2>3. QED
    BY <1>1, <2>2
<1>3. IsFiniteSet(B) /\ Cardinality(B) = 1
  BY <1>1, <1>2, FS_RemoveElement
<1>4. PICK m : m \in B
  BY <1>3, FS_EmptySet
<1>5. IsFiniteSet(B \ {m}) /\ Cardinality(B \ {m}) = 0
  BY <1>3, <1>4, FS_RemoveElement
<1>6. B \ {m} = {}
  BY <1>5, FS_EmptySet
<1>7. \A i \in S : i \in {first, m, last}
  BY <1>6
<1>8. m \in S /\ m # first /\ m # last
  BY <1>4
<1>9. first < m /\ m < last
  BY <1>8
<1>10. QED
  BY <1>7, <1>8, <1>9

\* The error counter of an origin is no less than the faults its traffic ends
\* with, up to two; after three in a row it is blocked and gets nothing more.
THEOREM FaultInvariant == Spec => [](FaultInv /\ FaultSilence)
<1>1. Init => FaultInv /\ FaultSilence
  <2>1. Init => DOMAIN probes = {}
    BY DEF Init
  <2>2. QED
    BY <2>1 DEF FaultInv, FaultSilence
<1>2. TypeInv /\ FuzzInv /\ FaultInv /\ FaultSilence /\ [Next]_vars
        => FaultInv' /\ FaultSilence'
  BY FaultStep
<1>3. QED
  BY <1>1, <1>2, FuzzTypes, FuzzInvariant, PTL DEF Spec

\* recordTransportResult: with ContinueOnTargetError an origin that failed three
\* times in a row, with nothing else sent to it in between, is never contacted
\* again, however probes, retries and workflows of other origins interleave.
THEOREM FuzzFaults == Spec => []NothingAfterThreeFaults
<1>1. ASSUME TypeInv, FaultSilence PROVE NothingAfterThreeFaults
  <2> SUFFICES ASSUME job.isolate, NEW j \in DOMAIN probes,
                      NEW first, NEW last,
                      LET earlier == {i \in 1..(j - 1) : probes[i].plan.origin = probes[j].plan.origin}
                          between == {i \in earlier : first <= i /\ i <= last}
                      IN /\ first \in earlier /\ last \in earlier
                         /\ Cardinality(between) = maximumOriginTransportErrors
                         /\ \A i \in between : probes[i].fault
               PROVE  FALSE
    BY DEF NothingAfterThreeFaults
  <2> DEFINE o == probes[j].plan.origin
             earlier == {i \in 1..(j - 1) : probes[i].plan.origin = o}
             between == {i \in earlier : first <= i /\ i <= last}
  <2>1. /\ first \in earlier /\ last \in earlier /\ Cardinality(between) = 3
        /\ \A i \in between : probes[i].fault
    BY DEF maximumOriginTransportErrors
  <2>2. probes \in Seq(Record) /\ DOMAIN probes = 1..Len(probes) /\ j \in Nat
    BY <1>1 DEF TypeInv, TypeOK, Record
  <2>3. o \in Origin
    <3>1. probes[j] \in Record
      BY <2>2
    <3>2. probes[j].plan \in Plan
      BY <3>1 DEF Record
    <3>3. QED
      BY <3>2 DEF Plan
  <2>4. 1..(j - 1) \subseteq DOMAIN probes
    BY <2>2
  <2>5. IsFiniteSet(between) /\ between \subseteq Int
    <3>1. IsFiniteSet(1..(j - 1))
      BY <2>2, FS_Interval
    <3>2. between \subseteq 1..(j - 1) /\ 1..(j - 1) \subseteq Int
      OBVIOUS
    <3> HIDE DEF between
    <3>3. between \subseteq Int
      BY <3>2
    <3>4. IsFiniteSet(between)
      BY <3>1, <3>2, FS_Subset
    <3>5. QED
      BY <3>3, <3>4
  <2>6. \A i \in between : first <= i /\ i <= last
    OBVIOUS
  <2>7. first <= last
    <3>1. between # {}
      BY <2>1, FS_EmptySet
    <3>2. QED
      BY <2>1, <2>5, <3>1
  <2>8. first \in between /\ last \in between
    BY <2>1, <2>7
  <2>9. PICK m \in between : /\ first < m /\ m < last
                              /\ \A i \in between : i \in {first, m, last}
    <3> HIDE DEF between, earlier
    <3>1. Cardinality(between) = 3
      BY <2>1
    <3>2. PICK S : S = between
      OBVIOUS
    <3>3. /\ S \subseteq Int /\ IsFiniteSet(S) /\ Cardinality(S) = 3
          /\ first \in S /\ last \in S /\ \A i \in S : first <= i /\ i <= last
      BY <2>5, <2>6, <2>8, <3>1, <3>2
    <3>4. \E m \in S : first < m /\ m < last /\ \A i \in S : i \in {first, m, last}
      BY <3>3, ThreeBetween
    <3>5. QED
      BY <3>2, <3>4
  <2>10. ASSUME NEW x \in DOMAIN probes, first < x, x < last, probes[x].plan.origin = o
         PROVE  x = m
    <3>1. x \in 1..(j - 1)
      BY <2>1, <2>2, <2>10
    <3>2. x \in between
      BY <2>10, <3>1, <2>1
    <3>3. QED
      BY <2>9, <2>10, <3>2
  <2>11. Quiet(o, first, m) /\ Quiet(o, m, last)
    BY <2>1, <2>2, <2>9, <2>10 DEF Quiet
  <2>12. FaultAt(o, first) /\ FaultAt(o, m) /\ FaultAt(o, last)
    BY <2>1, <2>8, <2>9 DEF FaultAt
  <2>13. /\ first \in DOMAIN probes /\ m \in DOMAIN probes /\ last \in DOMAIN probes
         /\ last < j
    BY <2>1, <2>2, <2>4, <2>9
  <2> HIDE DEF between, earlier
  <2>14. QED
    BY <1>1, <2>3, <2>9, <2>11, <2>12, <2>13 DEF FaultSilence
<1>2. QED
  BY <1>1, FaultInvariant, FuzzTypes, PTL

-----------------------------------------------------------------------------
(* Chains of guided retries                                                *)

PlannedRoots == {Fingerprint(AllPlans[k]) : k \in DOMAIN AllPlans}

\* Two requests are told apart by what they send and by their place in a chain.
Distinct(p, q) ==
  /\ Fingerprint(p) # Fingerprint(q)
  /\ <<p.root, p.depth>> # <<q.root, q.depth>>

\* The request before plan p in its chain was sent, and not rate limited.
PredecessorSent(p) ==
  \E j \in DOMAIN probes : /\ probes[j].plan.root = p.root
                           /\ probes[j].plan.depth = p.depth - 1
                           /\ ~probes[j].rate

\* A planned request belongs to the chain of a case, and a retry has a
\* predecessor that was answered.
PlannedRow(k) ==
  /\ plans[k].op # 0
  /\ plans[k].depth <= job.guided
  /\ plans[k].root \in PlannedRoots
  /\ plans[k].depth > 0 => PredecessorSent(plans[k])

PlansInv ==
  /\ \A k \in DOMAIN plans : PlannedRow(k)
  /\ \A j, k \in DOMAIN plans : j # k => Distinct(plans[j], plans[k])

BeforeFlow(w, s) == w < flow.w \/ (w = flow.w /\ s < flow.s)

\* A request that was sent: a plan the run has come past, or a step of a
\* workflow it has come past.
PlanRow(i) ==
  /\ probes[i].plan.op # 0
  /\ \E k \in DOMAIN plans : probes[i].plan = plans[k] /\ (pc = "probe" => k < index)
StepRow(i) ==
  /\ probes[i].plan.op = 0
  /\ probes[i].plan.depth = 0
  /\ probes[i].plan.root = Fingerprint(probes[i].plan)
  /\ <<probes[i].plan.id, probes[i].plan.variant>> \in StepsToRun
  /\ pc \notin {"plan", "probe", "stopped"}
  /\ pc = "workflow" => BeforeFlow(probes[i].plan.id, probes[i].plan.variant)

ChainInv ==
  /\ PlansInv
  /\ \A i \in DOMAIN probes : PlanRow(i) \/ StepRow(i)
  /\ GuidedRetriesAreChains

LEMMA SentRows ==
  ASSUME TypeInv
  PROVE  \A i \in DOMAIN probes :
           /\ probes[i].plan \in Plan /\ probes[i].plan.id \in Nat
           /\ probes[i].plan.variant \in Nat /\ probes[i].plan.depth \in Nat
           /\ probes[i].rate \in BOOLEAN
<1>1. probes \in Seq(Record)
  BY DEF TypeInv, TypeOK, Record
<1>2. \A i \in DOMAIN probes : probes[i] \in Record
  BY <1>1
<1>3. \A i \in DOMAIN probes : probes[i].plan \in Plan /\ probes[i].rate \in BOOLEAN
  BY <1>2 DEF Record
<1>4. QED
  BY <1>3 DEF Plan

\* A workflow step is in no chain of a case.
LEMMA RootsAreOfCases ==
  ASSUME job \in Job, NEW root \in PlannedRoots, NEW w, NEW s
  PROVE  root # <<0, w, s>>
<1>1. PICK k \in DOMAIN AllPlans : root = Fingerprint(AllPlans[k])
  BY DEF PlannedRoots
<1>2. root = <<AllPlans[k].op, AllPlans[k].id, AllPlans[k].variant>> /\ AllPlans[k].op # 0
  BY <1>1, AllPlansRows DEF Fingerprint
<1>3. QED
  BY <1>2, TripleParts, Zenon

LEMMA SameRoots == ASSUME UNCHANGED job PROVE PlannedRoots' = PlannedRoots
<1>1. AllPlans' = AllPlans
  BY SamePlan
<1>2. QED
  BY <1>1 DEF PlannedRoots, Fingerprint

\* A step that sends nothing and plans nothing.
LEMMA ChainQuiet ==
  ASSUME TypeInv, TypeInv', ChainInv,
         UNCHANGED <<job, plans, probes>>,
         pc' = "probe" => pc = "probe" /\ index <= index',
         pc' \in {"plan", "probe", "stopped"} => pc \in {"plan", "probe", "stopped"},
         pc' = "workflow" => \/ pc \in {"probe", "stopped"}
                             \/ pc = "workflow" /\ (flow' = flow \/ flow'.w = flow.w + 1)
  PROVE  ChainInv'
<1>1. PlannedRoots' = PlannedRoots /\ StepsToRun' = StepsToRun
  BY SameRoots, SamePlan
<1>2. PlansInv'
  BY <1>1 DEF ChainInv, PlansInv, PlannedRow, PredecessorSent, Distinct, Fingerprint
<1>3. GuidedRetriesAreChains'
  BY DEF ChainInv, GuidedRetriesAreChains, Fingerprint
<1>4. /\ DOMAIN plans \subseteq Nat /\ index \in Nat /\ index' \in Nat
      /\ flow.w \in Nat /\ flow.s \in Nat
  BY DEF TypeInv, TypeOK
<1>5. ASSUME NEW i \in DOMAIN probes PROVE PlanRow(i)' \/ StepRow(i)'
  <2>1. CASE PlanRow(i)
    <3>1. PICK k \in DOMAIN plans : probes[i].plan = plans[k] /\ (pc = "probe" => k < index)
      BY <2>1 DEF PlanRow
    <3>2. pc' = "probe" => k < index'
      BY <1>4, <3>1
    <3>3. PlanRow(i)'
      BY <2>1, <3>1, <3>2 DEF PlanRow
    <3>4. QED
      BY <3>3
  <2>2. CASE StepRow(i)
    <3>1. pc \notin {"plan", "probe", "stopped"}
      BY <2>2 DEF StepRow
    <3>2. pc' \notin {"plan", "probe", "stopped"}
      BY <3>1
    <3> DEFINE w == probes[i].plan.id
               s == probes[i].plan.variant
    <3>3. w \in Nat /\ s \in Nat
      BY SentRows
    <3> HIDE DEF w, s
    <3>4. ASSUME pc' = "workflow" PROVE w < flow'.w \/ (w = flow'.w /\ s < flow'.s)
      <4>1. BeforeFlow(w, s) /\ (flow' = flow \/ flow'.w = flow.w + 1)
        BY <2>2, <3>1, <3>4 DEF StepRow, w, s
      <4>2. QED
        BY <1>4, <3>3, <4>1 DEF BeforeFlow
    <3>5. StepRow(i)'
      BY <1>1, <2>2, <3>2, <3>4 DEF StepRow, BeforeFlow, Fingerprint, w, s
    <3>6. QED
      BY <3>5
  <2>3. QED
    BY <2>1, <2>2 DEF ChainInv
<1>6. QED
  BY <1>2, <1>3, <1>5 DEF ChainInv

\* The plan a run begins with has one chain for each of its requests.
LEMMA ChainBegin ==
  ASSUME TypeInv, FuzzInv, ChainInv, Begin
  PROVE  ChainInv'
<1>1. /\ job \in Job /\ probes = <<>> /\ UNCHANGED <<job, probes>>
      /\ plans' = BuildProbePlans
  BY DEF TypeInv, TypeOK, FuzzInv, BudgetInv, Begin
<1>2. DOMAIN probes' = {} /\ job.guided \in Nat
  BY <1>1, JobTypes
<1>3. PlannedRoots' = PlannedRoots
  BY <1>1, SameRoots
<1>4. \A k \in DOMAIN plans' :
        /\ k \in DOMAIN AllPlans /\ plans'[k] = AllPlans[k]
        /\ AllPlans[k].op # 0 /\ AllPlans[k].depth = 0
        /\ AllPlans[k].root = Fingerprint(AllPlans[k])
  BY <1>1, BuildRows, AllPlansRows
<1>5. \A k \in DOMAIN plans' : PlannedRow(k)'
  <2> SUFFICES ASSUME NEW k \in DOMAIN plans' PROVE PlannedRow(k)'
    OBVIOUS
  <2>1. plans'[k].root \in PlannedRoots
    BY <1>4 DEF PlannedRoots
  <2>2. /\ plans'[k].op # 0 /\ plans'[k].depth = 0
    BY <1>4
  <2>3. QED
    BY <1>1, <1>2, <1>3, <2>1, <2>2 DEF PlannedRow
<1>6. \A j, k \in DOMAIN plans' : j # k => Distinct(plans[j], plans[k])'
  <2> SUFFICES ASSUME NEW j \in DOMAIN plans', NEW k \in DOMAIN plans', j # k
               PROVE  Distinct(plans[j], plans[k])'
    OBVIOUS
  <2>1. Fingerprint(AllPlans[j]) # Fingerprint(AllPlans[k])
    BY <1>1, <1>4, AllPlansRows
  <2>2. AllPlans[j].root # AllPlans[k].root
    BY <1>4, <2>1
  <2>3. Distinct(AllPlans[j], AllPlans[k])
    BY <2>1, <2>2 DEF Distinct
  <2>4. QED
    BY <1>4, <2>3, Zenon DEF Distinct, Fingerprint
<1>7. GuidedRetriesAreChains'
  BY <1>2 DEF GuidedRetriesAreChains
<1>8. QED
  BY <1>2, <1>5, <1>6, <1>7 DEF ChainInv, PlansInv

\* The retry a probe may cause has a place in its chain that is still free: a
\* plan in that place would have followed the probe, which is only now sent.
LEMMA RetryIsNext ==
  ASSUME TypeInv, ChainInv, NEW r \in Response, NEW g \in Hint, ProbeSent(r, g),
         NEW k \in DOMAIN plans
  PROVE  <<plans[k].root, plans[k].depth>> # <<Current.root, Current.depth + 1>>
<1> SUFFICES ASSUME plans[k].root = Current.root, plans[k].depth = Current.depth + 1
             PROVE  FALSE
  OBVIOUS
<1>1. /\ pc = "probe" /\ index \in DOMAIN plans /\ Current \in Plan /\ Current = plans[index]
  BY DEF ProbeSent, Current
<1>2. Current.depth \in Nat
  BY <1>1 DEF Plan
<1>3. PredecessorSent(plans[k])
  BY <1>2 DEF ChainInv, PlansInv, PlannedRow
<1>4. PICK j \in DOMAIN probes : /\ probes[j].plan.root = Current.root
                                 /\ probes[j].plan.depth = Current.depth
  BY <1>2, <1>3 DEF PredecessorSent
<1>5. PlanRow(j)
  BY <1>1 DEF ChainInv, StepRow
<1>6. PICK m \in DOMAIN plans : probes[j].plan = plans[m] /\ m < index
  BY <1>1, <1>5 DEF PlanRow
<1>7. m # index
  <2>1. m \in Nat /\ index \in Nat
    BY DEF TypeInv, TypeOK
  <2>2. QED
    BY <1>6, <2>1
<1>8. Distinct(plans[m], plans[index])
  BY <1>1, <1>7 DEF ChainInv, PlansInv
<1>9. QED
  BY <1>1, <1>4, <1>6, <1>8 DEF Distinct

\* One more request keeps the chains when it differs from all before it and
\* its predecessor was sent.
LEMMA ChainsGrow ==
  ASSUME TypeInv, GuidedRetriesAreChains, UNCHANGED job, NEW plan \in Plan, NEW r,
         probes' = Append(probes, Probe(plan, r)),
         plan.depth <= job.guided,
         plan.depth > 0 => PredecessorSent(plan),
         \A j \in DOMAIN probes : Distinct(probes[j].plan, plan)
  PROVE  GuidedRetriesAreChains'
<1>1. IsSeq(probes)
  BY DEF TypeInv, TypeOK, IsSeq
<1> PICK n : n = Len(probes)
  OBVIOUS
<1>2. /\ n \in Nat
      /\ DOMAIN probes = 1..n
      /\ DOMAIN probes' = 1..(n + 1)
      /\ \A i \in 1..n : probes'[i] = probes[i]
      /\ probes'[n + 1] = Probe(plan, r)
  BY <1>1, AppendSeq
<1>3. probes'[n + 1].plan = plan
  BY <1>2 DEF Probe
<1>4. ASSUME NEW i \in 1..(n + 1)
      PROVE  /\ probes'[i].plan.depth <= job.guided
             /\ probes'[i].plan.depth > 0 => \E j \in 1..(i - 1) :
                  /\ probes'[j].plan.root = probes'[i].plan.root
                  /\ probes'[j].plan.depth = probes'[i].plan.depth - 1
                  /\ ~probes'[j].rate
             /\ \A j \in 1..(i - 1) : Distinct(probes'[j].plan, probes'[i].plan)
  <2>1. CASE i \in 1..n
    <3>1. /\ probes[i].plan.depth <= job.guided
          /\ probes[i].plan.depth > 0 => \E j \in 1..(i - 1) :
               /\ probes[j].plan.root = probes[i].plan.root
               /\ probes[j].plan.depth = probes[i].plan.depth - 1
               /\ ~probes[j].rate
          /\ \A j \in 1..(i - 1) : Distinct(probes[j].plan, probes[i].plan)
      BY <1>2, <2>1 DEF GuidedRetriesAreChains, Distinct
    <3>2. probes'[i] = probes[i] /\ \A j \in 1..(i - 1) : probes'[j] = probes[j]
      BY <1>2, <2>1
    <3>3. QED
      BY <3>1, <3>2
  <2>2. CASE i = n + 1
    <3>1. /\ 1..(i - 1) = DOMAIN probes /\ probes'[i].plan = plan
          /\ \A j \in DOMAIN probes : probes'[j] = probes[j]
      BY <1>2, <1>3, <2>2
    <3>2. plan.depth > 0 => \E j \in DOMAIN probes :
            /\ probes'[j].plan.root = plan.root
            /\ probes'[j].plan.depth = plan.depth - 1
            /\ ~probes'[j].rate
      BY <3>1 DEF PredecessorSent
    <3>3. \A j \in DOMAIN probes : Distinct(probes'[j].plan, plan)
      BY <3>1
    <3>4. QED
      BY <3>1, <3>2, <3>3
  <2>3. QED
    BY <1>2, <2>1, <2>2
<1>5. QED
  BY <1>2, <1>4 DEF GuidedRetriesAreChains, Distinct, Fingerprint

LEMMA ChainSendProbe ==
  ASSUME TypeInv, ChainInv, FuzzInv, SendProbe
  PROVE  ChainInv'
<1>1. PICK r \in Response, g \in Hint : ProbeSent(r, g)
  BY ProbeFacts
<1> DEFINE retry == Retry(Current, r, g)
<1>2. /\ pc = "probe" /\ index \in DOMAIN plans /\ Current \in Plan /\ Current = plans[index]
      /\ probes' = Append(probes, Probe(Current, r)) /\ UNCHANGED <<job, flow>>
      /\ IF RateStops(r) /\ ~job.isolate THEN pc' = "stopped" /\ UNCHANGED index
         ELSE index' = index + 1 /\ UNCHANGED pc
  BY <1>1 DEF ProbeSent, Current
<1>3. IsSeq(probes) /\ IsSeq(plans) /\ plans \in Seq(Plan) /\ job \in Job /\ index \in Nat
  BY DEF TypeInv, TypeOK, IsSeq
<1> PICK n : n = Len(probes)
  OBVIOUS
<1> PICK p : p = Current
  OBVIOUS
<1>4. /\ n \in Nat
      /\ DOMAIN probes = 1..n
      /\ DOMAIN probes' = 1..(n + 1)
      /\ \A i \in 1..n : probes'[i] = probes[i]
      /\ probes'[n + 1] = Probe(p, r)
  BY <1>2, <1>3, AppendSeq
<1>5. probes'[n + 1].plan = p /\ probes'[n + 1].rate = RateStops(r)
  BY <1>4 DEF Probe, RateStops
<1>6. ASSUME NEW j \in DOMAIN probes PROVE Distinct(probes[j].plan, p)
  <2>1. PlanRow(j)
    BY <1>2 DEF ChainInv, StepRow
  <2>2. PICK m \in DOMAIN plans : probes[j].plan = plans[m] /\ m < index
    BY <1>2, <2>1 DEF PlanRow
  <2>3. m # index
    BY <1>3, <2>2
  <2>4. QED
    BY <1>2, <2>2, <2>3 DEF ChainInv, PlansInv
<1>7. PlannedRow(index)
  BY <1>2 DEF ChainInv, PlansInv
<1>8. GuidedRetriesAreChains'
  BY <1>2, <1>6, <1>7, ChainsGrow DEF ChainInv, PlannedRow
<1>9. PICK q : /\ plans' = plans \/ plans' = Append(plans, q)
               /\ plans' # plans => /\ q = retry /\ AsksForGuidance(Current, r)
                                    /\ Fingerprint(q) \notin SeenPlans
  BY <1>1, <1>3, PlansAfterProbe, Zenon
<1>10. ASSUME plans' # plans
       PROVE  /\ q.op = p.op /\ q.depth = p.depth + 1 /\ q.root = p.root
              /\ q.depth <= job.guided /\ ~RateStops(r) /\ p.depth \in Nat
              /\ \A k \in DOMAIN plans : Distinct(plans[k], q) /\ Distinct(q, plans[k])
  <2>1. q.op = p.op /\ q.depth = p.depth + 1 /\ q.root = p.root
    BY <1>9, <1>10 DEF Retry
  <2>2. p.depth \in Nat /\ job.guided \in Nat
    BY <1>2, <1>3, JobTypes DEF Plan
  <2>3. q.depth <= job.guided /\ ~RateStops(r)
    BY <1>9, <1>10, <2>1, <2>2 DEF AsksForGuidance
  <2>4. ASSUME NEW k \in DOMAIN plans
        PROVE  Distinct(plans[k], q) /\ Distinct(q, plans[k])
    <3>1. Fingerprint(plans[k]) # Fingerprint(q)
      BY <1>9, <1>10 DEF SeenPlans
    <3>2. <<plans[k].root, plans[k].depth>> # <<Current.root, Current.depth + 1>>
      BY <1>1, RetryIsNext
    <3>3. <<plans[k].root, plans[k].depth>> # <<q.root, q.depth>>
      BY <2>1, <3>2
    <3>4. QED
      BY <3>1, <3>3, Zenon DEF Distinct
  <2>5. QED
    BY <2>1, <2>2, <2>3, <2>4
<1>11. /\ \A k \in DOMAIN plans : k \in DOMAIN plans' /\ plans'[k] = plans[k]
       /\ \A k \in DOMAIN plans' : k \in DOMAIN plans \/ (plans' # plans /\ plans'[k] = q)
       /\ \A j, k \in DOMAIN plans' :
            j \notin DOMAIN plans /\ k \notin DOMAIN plans => j = k
  <2>1. CASE plans' = plans
    BY <2>1
  <2>2. CASE plans' = Append(plans, q) /\ plans' # plans
    <3>1. /\ Len(plans) \in Nat /\ DOMAIN plans = 1..Len(plans)
          /\ DOMAIN plans' = 1..(Len(plans) + 1)
          /\ \A i \in 1..Len(plans) : plans'[i] = plans[i]
          /\ plans'[Len(plans) + 1] = q
      BY <1>3, <2>2, AppendSeq
    <3>2. \A k \in DOMAIN plans : k \in DOMAIN plans'
      BY <3>1
    <3>3. \A k \in DOMAIN plans' : k \in DOMAIN plans \/ k = Len(plans) + 1
      BY <3>1
    <3>4. QED
      BY <2>2, <3>1, <3>2, <3>3, Zenon
  <2>3. QED
    BY <1>9, <2>1, <2>2
<1>12. PlannedRoots' = PlannedRoots
  BY <1>2, SameRoots
<1>13. ASSUME NEW k \in DOMAIN plans' PROVE PlannedRow(k)'
  <2>1. CASE k \in DOMAIN plans
    <3>1. plans'[k] = plans[k] /\ PlannedRow(k)
      BY <1>11, <2>1 DEF ChainInv, PlansInv
    <3>2. PredecessorSent(plans[k]) => PredecessorSent(plans[k])'
      <4> SUFFICES ASSUME PredecessorSent(plans[k])
                   PROVE  PredecessorSent(plans[k])'
        OBVIOUS
      <4>1. PICK j \in DOMAIN probes : /\ probes[j].plan.root = plans[k].root
                                       /\ probes[j].plan.depth = plans[k].depth - 1
                                       /\ ~probes[j].rate
        BY DEF PredecessorSent
      <4>2. j \in DOMAIN probes' /\ probes'[j] = probes[j]
        BY <1>4
      <4>3. QED
        BY <3>1, <4>1, <4>2 DEF PredecessorSent
    <3>3. QED
      BY <1>2, <1>12, <3>1, <3>2 DEF PlannedRow
  <2>2. CASE k \notin DOMAIN plans
    <3>1. plans' # plans /\ plans'[k] = q
      BY <1>11, <2>2
    <3>2. /\ q.op = p.op /\ q.depth = p.depth + 1 /\ q.root = p.root
          /\ q.depth <= job.guided /\ ~RateStops(r) /\ p.depth \in Nat
      BY <1>10, <3>1
    <3>3. p.op # 0 /\ p.root \in PlannedRoots
      BY <1>2, <1>7 DEF PlannedRow
    <3>4. n + 1 \in DOMAIN probes' /\ p.depth = q.depth - 1
      BY <1>4, <3>2
    <3>5. PredecessorSent(plans[k])'
      BY <1>5, <3>1, <3>2, <3>4 DEF PredecessorSent
    <3>6. QED
      BY <1>2, <1>12, <3>1, <3>2, <3>3, <3>5 DEF PlannedRow
  <2>3. QED
    BY <2>1, <2>2
<1>14. ASSUME NEW j \in DOMAIN plans', NEW k \in DOMAIN plans', j # k
       PROVE  Distinct(plans'[j], plans'[k])
  <2>1. CASE j \in DOMAIN plans /\ k \in DOMAIN plans
    BY <1>11, <1>14, <2>1 DEF ChainInv, PlansInv
  <2>2. CASE j \in DOMAIN plans /\ k \notin DOMAIN plans
    BY <1>10, <1>11, <2>2
  <2>3. CASE j \notin DOMAIN plans /\ k \in DOMAIN plans
    BY <1>10, <1>11, <2>3
  <2>4. QED
    BY <1>11, <1>14, <2>1, <2>2, <2>3
<1>15. PlansInv'
  <2>1. \A j, k \in DOMAIN plans' : j # k => Distinct(plans[j], plans[k])'
    BY <1>14 DEF Distinct, Fingerprint
  <2>2. QED
    BY <1>13, <2>1 DEF PlansInv
<1>16. ASSUME NEW i \in DOMAIN probes' PROVE PlanRow(i)'
  <2>1. CASE i \in DOMAIN probes
    <3>1. PlanRow(i) /\ probes'[i] = probes[i]
      BY <1>2, <1>4, <2>1 DEF ChainInv, StepRow
    <3>2. PICK k \in DOMAIN plans : probes[i].plan = plans[k] /\ k < index
      BY <1>2, <3>1 DEF PlanRow
    <3>3. pc' = "probe" => k < index'
      BY <1>2, <1>3, <3>2
    <3>4. QED
      BY <1>11, <3>1, <3>2, <3>3 DEF PlanRow
  <2>2. CASE i = n + 1
    <3>1. p.op # 0 /\ p = plans'[index] /\ index \in DOMAIN plans'
      BY <1>2, <1>7, <1>11 DEF PlannedRow
    <3>2. pc' = "probe" => index < index'
      BY <1>2, <1>3
    <3>3. QED
      BY <1>5, <2>2, <3>1, <3>2 DEF PlanRow
  <2>3. QED
    BY <1>4, <2>1, <2>2
<1>17. QED
  BY <1>8, <1>15, <1>16 DEF ChainInv

\* A workflow step is no step the run has sent before.
LEMMA ChainSendStep ==
  ASSUME TypeInv, TypeInv', ChainInv, SendStep
  PROVE  ChainInv'
<1>1. PICK r, outcome : r \in Response /\ StepSent(r, outcome)
  BY StepFacts
<1>2. /\ pc = "workflow" /\ flow.w <= Len(job.workflows) /\ ~SkipsWorkflow(flow.w)
      /\ WorkflowPlan \in Plan /\ UNCHANGED <<job, plans, index>>
      /\ probes' = Append(probes, Probe(WorkflowPlan, r))
      /\ pc' \in {"done", "failed", "workflow"}
  BY <1>1 DEF StepSent, planVars
<1>3. /\ IsSeq(probes) /\ job \in Job /\ job.guided \in Nat
      /\ flow.w \in Nat \ {0} /\ flow.s \in Nat \ {0}
      /\ flow'.w \in Nat /\ flow'.s \in Nat
      /\ flow.s <= Len(job.workflows[flow.w])
  BY <1>2, JobTypes DEF TypeInv, TypeOK, FlowOK, IsSeq
<1> PICK n : n = Len(probes)
  OBVIOUS
<1> PICK p : p = WorkflowPlan
  OBVIOUS
<1>4. /\ n \in Nat
      /\ DOMAIN probes = 1..n
      /\ DOMAIN probes' = 1..(n + 1)
      /\ \A i \in 1..n : probes'[i] = probes[i]
      /\ probes'[n + 1] = Probe(p, r)
  BY <1>2, <1>3, AppendSeq
<1>5. probes'[n + 1].plan = p
  BY <1>4 DEF Probe
<1>6. /\ p.op = 0 /\ p.id = flow.w /\ p.variant = flow.s /\ p.depth = 0
      /\ p.root = <<0, flow.w, flow.s>> /\ Fingerprint(p) = <<0, flow.w, flow.s>>
  BY DEF WorkflowPlan, Fingerprint
<1>7. ASSUME NEW j \in DOMAIN probes PROVE Distinct(probes[j].plan, p)
  <2> DEFINE b == probes[j].plan
  <2>1. Fingerprint(b) = <<b.op, b.id, b.variant>>
    BY DEF Fingerprint
  <2>2. CASE PlanRow(j)
    <3>1. b.op # 0 /\ b.root \in PlannedRoots
      BY <2>2 DEF PlanRow, ChainInv, PlansInv, PlannedRow
    <3>2. b.root # p.root
      BY <1>3, <1>6, <3>1, RootsAreOfCases
    <3>3. Fingerprint(b) # Fingerprint(p)
      BY <1>6, <2>1, <3>1, TripleParts
    <3> HIDE DEF b
    <3>4. Distinct(b, p)
      BY <3>2, <3>3 DEF Distinct
    <3>5. QED
      BY <3>4 DEF b
  <2>3. CASE StepRow(j)
    <3>1. /\ b.root = Fingerprint(b) /\ BeforeFlow(b.id, b.variant)
      BY <1>2, <2>3 DEF StepRow
    <3>2. b.id # flow.w \/ b.variant # flow.s
      <4>1. b.id \in Nat /\ b.variant \in Nat
        BY SentRows
      <4> HIDE DEF b
      <4>2. QED
        BY <1>3, <3>1, <4>1 DEF BeforeFlow
    <3>3. Fingerprint(b) # Fingerprint(p)
      BY <1>6, <2>1, <3>2, TripleParts
    <3>4. b.root # p.root
      BY <1>6, <3>1, <3>3
    <3> HIDE DEF b
    <3>5. Distinct(b, p)
      BY <3>3, <3>4 DEF Distinct
    <3>6. QED
      BY <3>5 DEF b
  <2>4. QED
    BY <2>2, <2>3 DEF ChainInv
<1>8. GuidedRetriesAreChains'
  BY <1>2, <1>3, <1>6, <1>7, ChainsGrow DEF ChainInv
<1>9. PlannedRoots' = PlannedRoots /\ StepsToRun' = StepsToRun
  BY <1>2, SameRoots, SamePlan
<1>10. PlansInv'
  <2>1. ASSUME NEW k \in DOMAIN plans, PredecessorSent(plans[k])
        PROVE  PredecessorSent(plans[k])'
    <3>1. PICK j \in DOMAIN probes : /\ probes[j].plan.root = plans[k].root
                                     /\ probes[j].plan.depth = plans[k].depth - 1
                                     /\ ~probes[j].rate
      BY <2>1 DEF PredecessorSent
    <3>2. j \in DOMAIN probes' /\ probes'[j] = probes[j]
      BY <1>4
    <3>3. QED
      BY <1>2, <3>1, <3>2 DEF PredecessorSent
  <2>2. \A k \in DOMAIN plans : PlannedRow(k)'
    BY <1>2, <1>9, <2>1 DEF ChainInv, PlansInv, PlannedRow
  <2>3. \A j, k \in DOMAIN plans : j # k => Distinct(plans[j], plans[k])'
    BY <1>2 DEF ChainInv, PlansInv, Distinct, Fingerprint
  <2>4. QED
    BY <1>2, <2>2, <2>3 DEF PlansInv
<1>11. ASSUME NEW w \in Nat, NEW s \in Nat, pc' = "workflow",
              BeforeFlow(w, s) \/ (w = flow.w /\ s = flow.s)
       PROVE  BeforeFlow(w, s)'
  <2>1. flow'.w = flow.w + 1 \/ (flow'.w = flow.w /\ flow'.s = flow.s + 1)
    BY <1>1, <1>11, FlowAfterStep
  <2>2. QED
    BY <1>3, <1>11, <2>1 DEF BeforeFlow
<1>12. ASSUME NEW i \in DOMAIN probes' PROVE PlanRow(i)' \/ StepRow(i)'
  <2>1. CASE i \in DOMAIN probes
    <3>1. probes'[i] = probes[i]
      BY <1>4, <2>1
    <3>2. CASE PlanRow(i)
      <4>1. PlanRow(i)'
        BY <1>2, <3>1, <3>2 DEF PlanRow
      <4>2. QED
        BY <4>1
    <3>3. CASE StepRow(i)
      <4>1. probes[i].plan.id \in Nat /\ probes[i].plan.variant \in Nat
        BY <2>1, SentRows
      <4>2. BeforeFlow(probes[i].plan.id, probes[i].plan.variant)
        BY <1>2, <3>3 DEF StepRow
      <4>3. pc' = "workflow" => BeforeFlow(probes[i].plan.id, probes[i].plan.variant)'
        BY <1>11, <3>1, <4>1, <4>2 DEF BeforeFlow
      <4>4. StepRow(i)'
        BY <1>2, <1>9, <3>1, <3>3, <4>3 DEF StepRow, Fingerprint
      <4>5. QED
        BY <4>4
    <3>4. QED
      BY <2>1, <3>2, <3>3 DEF ChainInv
  <2>2. CASE i = n + 1
    <3>1. <<flow.w, flow.s>> \in StepsToRun
      <4>1. /\ flow.w \in DOMAIN job.workflows
            /\ flow.s \in DOMAIN job.workflows[flow.w]
        BY <1>2, <1>3, FlowSteps
      <4>2. QED
        BY <1>2, <4>1 DEF StepsToRun
    <3>2. pc' = "workflow" => BeforeFlow(p.id, p.variant)'
      BY <1>3, <1>6, <1>11 DEF BeforeFlow
    <3>3. /\ probes'[i].plan = p /\ p.op = 0 /\ p.depth = 0 /\ p.root = Fingerprint(p)
          /\ <<p.id, p.variant>> \in StepsToRun
      BY <1>5, <1>6, <2>2, <3>1
    <3>4. StepRow(i)'
      BY <1>2, <1>9, <3>2, <3>3 DEF StepRow, Fingerprint
    <3>5. QED
      BY <3>4
  <2>3. QED
    BY <1>4, <2>1, <2>2
<1>13. QED
  BY <1>8, <1>10, <1>12 DEF ChainInv

LEMMA ChainStep ==
  ASSUME TypeInv, TypeInv', FuzzInv, ChainInv, [Next]_vars
  PROVE  ChainInv'
<1>1. index \in Nat
  BY DEF TypeInv, TypeOK
<1>2. CASE Refuse
  BY <1>2, ChainQuiet DEF Refuse, planVars
<1>3. CASE Begin
  BY <1>3, ChainBegin
<1>4. CASE SkipIsolatedPlan \/ SkipInvalidIDOR
  <2>1. UNCHANGED <<job, pc, plans, probes>> /\ pc = "probe" /\ index' = index + 1
    BY <1>4 DEF SkipIsolatedPlan, SkipInvalidIDOR, SkipPlan, AtPlan
  <2>2. index <= index'
    BY <1>1, <2>1
  <2>3. QED
    BY <2>1, <2>2, ChainQuiet
<1>5. CASE AbortProbes \/ StopWorkflowsOnBudget \/ AbortWorkflows \/ EndWorkflows
  <2>1. UNCHANGED <<job, plans, probes>> /\ pc' \in {"done", "failed"}
    BY <1>5 DEF AbortProbes, StopWorkflowsOnBudget, AbortWorkflows, EndWorkflows, planVars
  <2>2. QED
    BY <2>1, ChainQuiet
<1>6. CASE SendProbe
  BY <1>6, ChainSendProbe
<1>7. CASE EndProbes
  <2>1. /\ UNCHANGED <<job, plans, probes>> /\ pc' \in {"workflow", "done"}
        /\ pc \in {"probe", "stopped"}
    BY <1>7 DEF EndProbes, ProbesOver, planVars
  <2>2. QED
    BY <2>1, ChainQuiet
<1>8. CASE SkipUnsafeWorkflow \/ SkipIsolatedStep
  <2>1. /\ UNCHANGED <<job, plans, probes, pc>> /\ pc = "workflow"
        /\ flow' = NextWorkflow
    BY <1>8 DEF SkipUnsafeWorkflow, SkipIsolatedStep, AtStep, AtWorkflow, planVars
  <2>2. flow'.w = flow.w + 1
    BY <2>1 DEF NextWorkflow
  <2>3. QED
    BY <2>1, <2>2, ChainQuiet
<1>9. CASE SendStep
  BY <1>9, ChainSendStep
<1>10. CASE Cancel \/ UNCHANGED vars
  <2>1. UNCHANGED <<job, plans, probes, pc, index, flow>>
    BY <1>10 DEF Cancel, vars, planVars
  <2>2. index <= index'
    BY <1>1, <2>1
  <2>3. QED
    BY <2>1, <2>2, ChainQuiet
<1>11. QED
  BY <1>2, <1>3, <1>4, <1>5, <1>6, <1>7, <1>8, <1>9, <1>10 DEF Next, RunStep

\* Every request sent is a plan's or a step's, the plans are free of repetition
\* and their retries form chains: the inductive form of the property below.
THEOREM ChainInvariant == Spec => []ChainInv
<1>1. Init => ChainInv
  <2>1. Init => DOMAIN probes = {} /\ DOMAIN plans = {}
    BY DEF Init
  <2>2. QED
    BY <2>1 DEF ChainInv, PlansInv, GuidedRetriesAreChains
<1>2. TypeInv /\ TypeInv' /\ FuzzInv /\ ChainInv /\ [Next]_vars => ChainInv'
  BY ChainStep
<1>3. QED
  BY <1>1, <1>2, FuzzTypes, FuzzInvariant, PTL DEF Spec

\* scheduleGuidedRetry: the retries of a case form one chain of at most
\* MaxGuidedRetries, each answered before its successor is sent, and no request
\* goes out twice, for every job and every sequence of responses.
THEOREM FuzzChains == Spec => []GuidedRetriesAreChains
<1>1. ChainInv => GuidedRetriesAreChains
  BY DEF ChainInv
<1>2. QED
  BY <1>1, ChainInvariant, PTL

-----------------------------------------------------------------------------
(* The preflight                                                           *)

\* The places a plan can take: a chain and a depth.
Places == PlannedRoots \X (0..job.guided)

LEMMA PlacesCount ==
  ASSUME job \in Job
  PROVE  /\ IsFiniteSet(Places) /\ Cardinality(Places) \in Nat /\ Len(AllPlans) \in Nat
         /\ Cardinality(Places) <= Len(AllPlans) + Len(AllPlans) * job.guided
<1> DEFINE n == Len(AllPlans)
           m == job.guided
<1>1. n \in Nat /\ m \in Nat /\ DOMAIN AllPlans = 1..n
  BY JobTypes, AllPlansRows
<1> HIDE DEF n, m
<1>2. IsFiniteSet(1..n) /\ Cardinality(1..n) = n
  BY <1>1, FS_Interval
<1>3. IsFiniteSet(0..m) /\ Cardinality(0..m) = m + 1
  <2>1. IsFiniteSet(0..m) /\ Cardinality(0..m) = IF 0 > m THEN 0 ELSE m - 0 + 1
    BY <1>1, FS_Interval
  <2>2. QED
    BY <1>1, <2>1
<1>4. [k \in 1..n |-> Fingerprint(AllPlans[k])] \in Surjection(1..n, PlannedRoots)
  BY <1>1 DEF Surjection, PlannedRoots
<1>5. IsFiniteSet(PlannedRoots) /\ Cardinality(PlannedRoots) <= n
  BY <1>2, <1>4, FS_Surjection
<1>6. /\ IsFiniteSet(Places)
      /\ Cardinality(Places) = Cardinality(PlannedRoots) * Cardinality(0..m)
  BY <1>3, <1>5, FS_Product DEF Places, m
<1> DEFINE c == Cardinality(PlannedRoots)
<1>7. c \in Nat /\ c <= n /\ Cardinality(Places) = c * (m + 1)
  BY <1>3, <1>5, <1>6, FS_CardinalityType
<1> HIDE DEF c
<1>8. c * (m + 1) <= n * (m + 1)
  BY <1>1, <1>7
<1>9. n * (m + 1) = n + n * m /\ c * (m + 1) \in Nat
  BY <1>1, <1>7
<1>10. QED
  BY <1>1, <1>6, <1>7, <1>8, <1>9 DEF n, m

LEMMA StepsCount ==
  ASSUME job \in Job
  PROVE  IsFiniteSet(StepsToRun) /\ PlannedSteps \in Nat
<1> DEFINE D == DOMAIN job.workflows
           V == {v \in D : ~SkipsWorkflow(v)}
           F == [w \in V |-> {w} \X DOMAIN job.workflows[w]]
           R == {{w} \X DOMAIN job.workflows[w] : w \in V}
<1>1. job.workflows \in Seq(Seq(WorkflowStep))
  BY JobTypes
<1>2. D = 1..Len(job.workflows) /\ Len(job.workflows) \in Nat
  BY <1>1
<1>3. IsFiniteSet(V)
  <2>1. IsFiniteSet(D)
    BY <1>2, FS_Interval
  <2>2. V \subseteq D
    OBVIOUS
  <2> HIDE DEF V, D
  <2>3. QED
    BY <2>1, <2>2, FS_Subset
<1>4. IsFiniteSet(R)
  <2>1. F \in Surjection(V, R)
    BY DEF Surjection
  <2> HIDE DEF F, V, R
  <2>2. QED
    BY <1>3, <2>1, FS_Surjection
<1>5. ASSUME NEW S \in R PROVE IsFiniteSet(S)
  <2>1. PICK w \in V : S = {w} \X DOMAIN job.workflows[w]
    BY <1>5
  <2>2. job.workflows[w] \in Seq(WorkflowStep)
    BY <1>1
  <2>3. DOMAIN job.workflows[w] = 1..Len(job.workflows[w]) /\ Len(job.workflows[w]) \in Nat
    BY <2>2
  <2>4. IsFiniteSet(DOMAIN job.workflows[w])
    BY <2>3, FS_Interval
  <2>5. IsFiniteSet({w})
    BY FS_Singleton
  <2>6. QED
    BY <2>1, <2>4, <2>5, FS_Product
<1>6. StepsToRun = UNION R
  BY DEF StepsToRun
<1> HIDE DEF R
<1>7. IsFiniteSet(StepsToRun)
  BY <1>4, <1>5, <1>6, FS_UNION
<1>8. QED
  BY <1>7, FS_CardinalityType DEF PlannedSteps

\* A retry that is asked for finds a place: the plan with it still fits.
LEMMA RetryFits ==
  ASSUME TypeInv, ChainInv, NEW r \in Response, NEW g \in Hint, ProbeSent(r, g), g \in Nat
  PROVE  Len(plans) < Cardinality(Places)
<1> DEFINE n == Len(plans)
           x == <<Current.root, Current.depth + 1>>
           place == [k \in 1..n |-> <<plans[k].root, plans[k].depth>>]
<1>1. /\ job \in Job /\ plans \in Seq(Plan) /\ index \in DOMAIN plans /\ Current = plans[index]
      /\ Current \in Plan /\ AsksForGuidance(Current, r) /\ job.guided \in Nat
  BY JobTypes DEF TypeInv, TypeOK, ProbeSent, Current
<1>2. n \in Nat /\ DOMAIN plans = 1..n
  BY <1>1
<1>3. ASSUME NEW k \in 1..n
      PROVE  plans[k].root \in PlannedRoots /\ plans[k].depth \in 0..job.guided
  <2>1. plans[k] \in Plan /\ PlannedRow(k)
    BY <1>1, <1>2 DEF ChainInv, PlansInv
  <2>2. plans[k].depth \in Nat
    BY <2>1 DEF Plan
  <2>3. QED
    BY <1>1, <2>1, <2>2 DEF PlannedRow
<1>4. x \in Places
  <2>1. Current.root \in PlannedRoots
    BY <1>1, <1>2, <1>3
  <2>2. Current.depth \in Nat
    BY <1>1 DEF Plan
  <2>3. Current.depth + 1 \in 0..job.guided
    BY <1>1, <2>2 DEF AsksForGuidance
  <2>4. QED
    BY <2>1, <2>3 DEF Places
<1>5. \A k \in 1..n : <<plans[k].root, plans[k].depth>> # x
  BY <1>2, RetryIsNext
<1>6. \A j, k \in 1..n :
        <<plans[j].root, plans[j].depth>> = <<plans[k].root, plans[k].depth>> => j = k
  BY <1>2 DEF ChainInv, PlansInv, Distinct
<1>7. place \in Injection(1..n, Places \ {x})
  <2>1. \A k \in 1..n : <<plans[k].root, plans[k].depth>> \in Places \ {x}
    BY <1>3, <1>5 DEF Places
  <2> HIDE DEF x
  <2>2. place \in [1..n -> Places \ {x}]
    BY <2>1
  <2>3. IsInjective(place)
    BY <1>6 DEF IsInjective
  <2> HIDE DEF place
  <2>4. QED
    BY <2>2, <2>3 DEF Injection
<1>8. /\ IsFiniteSet(Places) /\ Cardinality(Places) \in Nat
  BY <1>1, PlacesCount
<1> HIDE DEF x, place, n
<1>9. IsFiniteSet(Places \ {x}) /\ Cardinality(Places \ {x}) = Cardinality(Places) - 1
  BY <1>4, <1>8, FS_RemoveElement
<1>10. Cardinality(1..n) <= Cardinality(Places \ {x})
  BY <1>7, <1>9, FS_Injection
<1>11. Cardinality(1..n) = n
  BY <1>2, FS_Interval
<1>12. QED
  BY <1>2, <1>8, <1>9, <1>10, <1>11 DEF n

\* A workflow step that is due finds its reserve: what was sent are requests of
\* chains and other steps.
LEMMA StepFits ==
  ASSUME TypeInv, ChainInv, AtStep
  PROVE  Requests < Cardinality(Places) + PlannedSteps
<1> DEFINE n == Len(probes)
           here == <<flow.w, flow.s>>
           V == StepsToRun \ {here}
           U == {<<(<<0, v[1], v[2]>>), 0>> : v \in V}
           place == [i \in 1..n |-> <<probes[i].plan.root, probes[i].plan.depth>>]
<1>1. /\ job \in Job /\ IsSeq(probes) /\ job.guided \in Nat /\ pc = "workflow"
      /\ flow.w \in Nat \ {0} /\ flow.s \in Nat \ {0} /\ flow.w <= Len(job.workflows)
      /\ flow.s <= Len(job.workflows[flow.w]) /\ ~SkipsWorkflow(flow.w)
  BY JobTypes DEF TypeInv, TypeOK, FlowOK, IsSeq, AtStep, AtWorkflow
<1>2. n \in Nat /\ DOMAIN probes = 1..n
  BY <1>1, AppendSeq
<1>3. here \in StepsToRun
  <2>1. flow.w \in DOMAIN job.workflows /\ flow.s \in DOMAIN job.workflows[flow.w]
    BY <1>1, FlowSteps
  <2>2. QED
    BY <1>1, <2>1 DEF StepsToRun
<1>4. IsFiniteSet(StepsToRun) /\ PlannedSteps \in Nat /\ Cardinality(StepsToRun) = PlannedSteps
  BY <1>1, StepsCount DEF PlannedSteps
<1>5. IsFiniteSet(V) /\ Cardinality(V) = PlannedSteps - 1
  <2> HIDE DEF here
  <2>1. QED
    BY <1>3, <1>4, FS_RemoveElement
<1>6. IsFiniteSet(U) /\ Cardinality(U) <= PlannedSteps - 1 /\ Cardinality(U) \in Nat
  <2>1. [v \in V |-> <<(<<0, v[1], v[2]>>), 0>>] \in Surjection(V, U)
    BY DEF Surjection
  <2> HIDE DEF V, U
  <2>2. IsFiniteSet(U) /\ Cardinality(U) <= Cardinality(V)
    BY <1>5, <2>1, FS_Surjection
  <2>3. QED
    BY <1>5, <2>2, FS_CardinalityType
<1>7. ASSUME NEW i \in 1..n
      PROVE  <<probes[i].plan.root, probes[i].plan.depth>> \in Places \cup U
  <2>1. /\ probes[i].plan.id \in Nat /\ probes[i].plan.variant \in Nat
        /\ probes[i].plan.depth \in Nat
    BY <1>2, SentRows
  <2>2. CASE PlanRow(i)
    <3>1. probes[i].plan.root \in PlannedRoots /\ probes[i].plan.depth <= job.guided
      BY <2>2 DEF PlanRow, ChainInv, PlansInv, PlannedRow
    <3>2. QED
      BY <1>1, <2>1, <3>1 DEF Places
  <2>3. CASE StepRow(i)
    <3> DEFINE v == <<probes[i].plan.id, probes[i].plan.variant>>
    <3>1. /\ probes[i].plan.op = 0 /\ probes[i].plan.depth = 0
          /\ probes[i].plan.root = <<0, probes[i].plan.id, probes[i].plan.variant>>
          /\ v \in StepsToRun
          /\ BeforeFlow(probes[i].plan.id, probes[i].plan.variant)
      BY <1>1, <2>3 DEF StepRow, Fingerprint
    <3>2. probes[i].plan.id # flow.w \/ probes[i].plan.variant # flow.s
      BY <1>1, <2>1, <3>1 DEF BeforeFlow
    <3>3. v # here
      BY <3>2
    <3>4. v \in V
      BY <3>1, <3>3
    <3>5. v[1] = probes[i].plan.id /\ v[2] = probes[i].plan.variant
      OBVIOUS
    <3> HIDE DEF v, V
    <3>6. <<(<<0, v[1], v[2]>>), 0>> \in U
      BY <3>4
    <3>7. QED
      BY <3>1, <3>5, <3>6
  <2>4. QED
    BY <1>2, <2>2, <2>3 DEF ChainInv
<1>8. \A i, j \in 1..n :
        <<probes[j].plan.root, probes[j].plan.depth>>
          = <<probes[i].plan.root, probes[i].plan.depth>> => i = j
  <2>1. ASSUME NEW i \in 1..n, NEW j \in 1..n, j < i
        PROVE  <<probes[j].plan.root, probes[j].plan.depth>>
                 # <<probes[i].plan.root, probes[i].plan.depth>>
    <3>1. j \in 1..(i - 1)
      BY <2>1
    <3>2. QED
      BY <1>2, <3>1 DEF ChainInv, GuidedRetriesAreChains
  <2>2. \A i, j \in 1..n : i < j \/ j < i \/ i = j
    BY <1>2
  <2>3. QED
    BY <2>1, <2>2
<1>9. place \in Injection(1..n, Places \cup U)
  <2> HIDE DEF U
  <2>1. place \in [1..n -> Places \cup U]
    BY <1>7
  <2>2. IsInjective(place)
    BY <1>8 DEF IsInjective
  <2> HIDE DEF place
  <2>3. QED
    BY <2>1, <2>2 DEF Injection
<1>10. IsFiniteSet(Places) /\ Cardinality(Places) \in Nat
  BY <1>1, PlacesCount
<1> HIDE DEF n, U, place
<1>11. /\ IsFiniteSet(Places \cup U)
       /\ Cardinality(Places \cup U) <= Cardinality(Places) + Cardinality(U)
  <2>1. /\ IsFiniteSet(Places \cup U)
        /\ Cardinality(Places \cup U)
             = Cardinality(Places) + Cardinality(U) - Cardinality(Places \cap U)
    BY <1>6, <1>10, FS_Union
  <2>2. Cardinality(Places \cap U) \in Nat
    <3>1. Places \cap U \subseteq U
      OBVIOUS
    <3>2. IsFiniteSet(Places \cap U)
      BY <1>6, <3>1, FS_Subset
    <3>3. QED
      BY <3>2, FS_CardinalityType
  <2>3. QED
    BY <1>6, <1>10, <2>1, <2>2
<1>12. Cardinality(1..n) <= Cardinality(Places \cup U)
  BY <1>9, <1>11, FS_Injection
<1>13. Cardinality(1..n) = n
  BY <1>2, FS_Interval
<1>14. Cardinality(Places \cup U) \in Nat
  BY <1>11, FS_CardinalityType
<1>15. n < Cardinality(Places) + PlannedSteps
  BY <1>2, <1>4, <1>6, <1>10, <1>11, <1>12, <1>13, <1>14
<1>16. QED
  BY <1>15 DEF n, Requests

\* What the preflight established is still true while the run spends it.
PreflightInv ==
  job.preflight => /\ ~budgetHit
                   /\ pc \notin {"plan", "refused"} => RequiredRequests <= job.budget

LEMMA RequiredCounts ==
  ASSUME job \in Job
  PROVE  /\ RequiredRequests \in Nat /\ Len(AllPlans) \in Nat /\ job.budget \in Nat
         /\ Len(AllPlans) <= RequiredRequests
         /\ Cardinality(Places) \in Nat /\ PlannedSteps \in Nat
         /\ Cardinality(Places) + PlannedSteps <= RequiredRequests
<1> DEFINE n == Len(AllPlans)
           m == n * job.guided
           c == Cardinality(Places)
           s == PlannedSteps
<1>1. n \in Nat /\ c \in Nat /\ s \in Nat /\ c <= n + m /\ job.guided \in Nat
      /\ job.budget \in Nat
  BY PlacesCount, StepsCount, JobTypes
<1>2. m \in Nat
  BY <1>1
<1>3. RequiredRequests = (n + s) + m
  BY DEF RequiredRequests, DeterministicRequests
<1> HIDE DEF n, m, c, s
<1>4. QED
  BY <1>1, <1>2, <1>3 DEF n, c, s

LEMMA PreflightKept ==
  ASSUME PreflightInv, UNCHANGED <<job, budgetHit>>,
         pc \notin {"plan", "refused"} \/ pc' \in {"plan", "refused"}
  PROVE  PreflightInv'
<1>1. RequiredRequests' = RequiredRequests
  BY SamePlan DEF RequiredRequests, DeterministicRequests, PlannedSteps
<1>2. QED
  BY <1>1 DEF PreflightInv

LEMMA PreflightStep ==
  ASSUME TypeInv, FuzzInv, ChainInv, PreflightInv, [Next]_vars
  PROVE  PreflightInv'
<1>1. job \in Job
  BY DEF TypeInv, TypeOK
<1>2. /\ RequiredRequests \in Nat /\ Len(AllPlans) \in Nat /\ job.budget \in Nat
      /\ Len(AllPlans) <= RequiredRequests
      /\ Cardinality(Places) \in Nat /\ PlannedSteps \in Nat
      /\ Cardinality(Places) + PlannedSteps <= RequiredRequests
  BY <1>1, RequiredCounts
<1>3. CASE Refuse
  BY <1>3, PreflightKept DEF Refuse, reportVars
<1>4. CASE Begin
  <2>1. /\ UNCHANGED job /\ budgetHit' = Truncated
        /\ job.preflight => RequiredRequests <= job.budget
    BY <1>2, <1>4 DEF Begin, PreflightRefuses
  <2>2. RequiredRequests' = RequiredRequests
    BY <2>1, SamePlan DEF RequiredRequests, DeterministicRequests, PlannedSteps
  <2>3. job.preflight => ~Truncated
    BY <1>2, <2>1 DEF Truncated
  <2>4. QED
    BY <2>1, <2>2, <2>3 DEF PreflightInv
<1>5. CASE SkipIsolatedPlan \/ SkipInvalidIDOR
  <2>1. UNCHANGED <<job, budgetHit, pc>>
    BY <1>5 DEF SkipIsolatedPlan, SkipInvalidIDOR, SkipPlan
  <2>2. QED
    BY <2>1, PreflightKept
<1>6. CASE AbortProbes \/ EndProbes \/ AbortWorkflows \/ EndWorkflows
  <2>1. UNCHANGED <<job, budgetHit>> /\ pc \notin {"plan", "refused"}
    BY <1>6 DEF AbortProbes, Due, AtPlan, EndProbes, ProbesOver, AbortWorkflows, StepDue,
                AtStep, AtWorkflow, EndWorkflows, reportVars
  <2>2. QED
    BY <2>1, PreflightKept
<1>7. CASE SendProbe
  <2>1. PICK r \in Response, g \in Hint : ProbeSent(r, g)
    BY <1>7, ProbeFacts
  <2>2. /\ UNCHANGED job /\ pc = "probe" /\ pc' \in {"probe", "stopped"}
        /\ ScheduleGuidedRetry(Current, r, g)
    BY <2>1 DEF ProbeSent
  <2>3. budgetHit' => budgetHit \/ (IsRepair(g) /\ Len(plans) >= job.budget)
    BY <2>2, Zenon DEF ScheduleGuidedRetry
  <2>4. IsRepair(g) => g \in Nat
    BY DEF Hint, IsRepair, NoHint, Unresolved
  <2>5. job.preflight => ~budgetHit /\ RequiredRequests <= job.budget
    BY <2>2 DEF PreflightInv
  <2>6. ASSUME job.preflight PROVE ~(IsRepair(g) /\ Len(plans) >= job.budget)
    <3> SUFFICES ASSUME IsRepair(g), Len(plans) >= job.budget PROVE FALSE
      OBVIOUS
    <3>1. Len(plans) < Cardinality(Places)
      BY <2>1, <2>4, RetryFits
    <3>2. Len(plans) \in Nat
      BY DEF TypeInv, TypeOK
    <3>3. QED
      BY <1>2, <2>5, <2>6, <3>1, <3>2
  <2>7. RequiredRequests' = RequiredRequests
    BY <2>2, SamePlan DEF RequiredRequests, DeterministicRequests, PlannedSteps
  <2>8. QED
    BY <2>2, <2>3, <2>5, <2>6, <2>7 DEF PreflightInv
<1>8. CASE SkipUnsafeWorkflow \/ SkipIsolatedStep
  <2>1. UNCHANGED <<job, budgetHit, pc>>
    BY <1>8 DEF SkipUnsafeWorkflow, SkipIsolatedStep
  <2>2. QED
    BY <2>1, PreflightKept
<1>9. CASE StopWorkflowsOnBudget
  <2>1. AtStep /\ Requests >= job.budget /\ UNCHANGED job /\ pc = "workflow"
    BY <1>9 DEF StopWorkflowsOnBudget, BudgetSpent, AtStep, AtWorkflow
  <2>2. Requests < Cardinality(Places) + PlannedSteps
    BY <2>1, StepFits
  <2>3. Requests \in Nat
    BY DEF TypeInv, TypeOK, Requests
  <2>4. ~job.preflight
    <3> SUFFICES ASSUME job.preflight PROVE FALSE
      OBVIOUS
    <3>1. RequiredRequests <= job.budget
      BY <2>1 DEF PreflightInv
    <3> HIDE DEF Requests
    <3>2. QED
      BY <1>2, <2>1, <2>2, <2>3, <3>1
  <2>5. QED
    BY <2>1, <2>4 DEF PreflightInv
<1>10. CASE SendStep
  <2>1. UNCHANGED <<job, budgetHit>> /\ pc = "workflow"
    BY <1>10, StepFacts DEF StepSent
  <2>2. QED
    BY <2>1, PreflightKept
<1>11. CASE Cancel \/ UNCHANGED vars
  <2>1. UNCHANGED <<job, budgetHit, pc>>
    BY <1>11 DEF Cancel, vars, reportVars
  <2>2. QED
    BY <2>1, PreflightKept
<1>12. QED
  BY <1>3, <1>4, <1>5, <1>6, <1>7, <1>8, <1>9, <1>10, <1>11 DEF Next, RunStep

\* fuzz.Plan reserves enough for every job: a run RunFuzz has let through never
\* meets its request budget, neither when a response extends the plan nor when
\* a workflow step is due.
THEOREM FuzzPreflight == Spec => []PreflightSuffices
<1>1. Init => PreflightInv
  BY DEF Init, PreflightInv
<1>2. TypeInv /\ FuzzInv /\ ChainInv /\ PreflightInv /\ [Next]_vars => PreflightInv'
  BY PreflightStep
<1>3. PreflightInv => PreflightSuffices
  BY DEF PreflightInv, PreflightSuffices
<1>4. QED
  BY <1>1, <1>2, <1>3, FuzzTypes, FuzzInvariant, ChainInvariant, PTL DEF Spec

=============================================================================
