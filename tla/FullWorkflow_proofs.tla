------------------------ MODULE FullWorkflow_proofs ------------------------
(***************************************************************************)
(* Proofs about FullWorkflow, for every set of invocations.                *)
(***************************************************************************)
EXTENDS FullWorkflow, FiniteSetTheorems, WellFoundedInduction, TLAPS

-----------------------------------------------------------------------------
(* Induction                                                               *)

LEMMA NatSetInduction ==
  ASSUME NEW T, 0 \in T, \A i \in Nat : i \in T => i + 1 \in T
  PROVE  Nat \subseteq T
<1> DEFINE R == OpToRel(<, Nat)
           M == Nat \ T
<1>1. IsWellFoundedOn(R, Nat)
  BY NatLessThanWellFounded
<1> SUFFICES ASSUME M # {} PROVE FALSE
  OBVIOUS
<1>2. \E x \in M : \A y \in M : ~(<<y, x>> \in R)
  <2> HIDE DEF R
  <2> QED BY <1>1, WFMin
<1>3. PICK x \in M : \A y \in M : ~(<<y, x>> \in R)
  BY <1>2
<1>4. \A y \in M : ~(y < x)
  BY <1>3 DEF OpToRel
<1>5. x \in Nat /\ x # 0 /\ x - 1 \in Nat
  OBVIOUS
<1>6. x - 1 \in T
  BY <1>4, <1>5
<1>7. QED
  BY <1>5, <1>6

\* Body takes members of S to members of S; f holds the values of n rounds.
Body(g, S, n) == g \in [S \X (1..n) -> S]
Rounds(f, g, base, S, n) ==
  f \in [0..n -> S] /\ f[0] = base /\ \A i \in 1..n : f[i] = g[<<f[i - 1], i>>]

LEMMA LoopRuns ==
  \A S, base, n, g : base \in S /\ n \in Nat /\ Body(g, S, n) => \E f : Rounds(f, g, base, S, n)
<1> SUFFICES ASSUME NEW S, NEW base \in S, NEW n \in Nat, NEW g, Body(g, S, n)
             PROVE  \E f : Rounds(f, g, base, S, n)
  OBVIOUS
<1>1. g \in [S \X (1..n) -> S]
  BY DEF Body
<1> DEFINE Good(f, k) == f[0] = base /\ \A i \in 1..k : f[i] = g[<<f[i - 1], i>>]
           T == {k \in Nat : k <= n => \E f \in [0..k -> S] : Good(f, k)}
<1>2. 0 \in T
  <2>1. [i \in 0..0 |-> base] \in [0..0 -> S] /\ Good([i \in 0..0 |-> base], 0)
    OBVIOUS
  <2>2. QED
    BY <2>1
<1>3. ASSUME NEW k \in Nat, k \in T PROVE k + 1 \in T
  <2> SUFFICES ASSUME k + 1 <= n PROVE \E f \in [0..(k + 1) -> S] : Good(f, k + 1)
    OBVIOUS
  <2>1. PICK f \in [0..k -> S] : Good(f, k)
    BY <1>3
  <2> DEFINE last == g[<<f[k], k + 1>>]
             h == [i \in 0..(k + 1) |-> IF i <= k THEN f[i] ELSE last]
  <2>2. f[k] \in S /\ k + 1 \in 1..n
    BY <2>1
  <2>3. last \in S
    BY <1>1, <2>2
  <2>4. h \in [0..(k + 1) -> S]
    BY <2>3
  <2>5. Good(h, k + 1)
    <3>1. h[0] = base
      BY <2>1
    <3>2. ASSUME NEW i \in 1..(k + 1) PROVE h[i] = g[<<h[i - 1], i>>]
      <4>1. h[i - 1] = f[i - 1]
        OBVIOUS
      <4>2. CASE i <= k
        BY <2>1, <4>1, <4>2
      <4>3. CASE i = k + 1
        BY <4>1, <4>3
      <4>4. QED
        BY <4>2, <4>3
    <3>3. QED
      BY <3>1, <3>2
  <2>6. QED
    BY <2>4, <2>5
<1>4. Nat \subseteq T
  <2> HIDE DEF T
  <2> QED BY <1>2, <1>3, NatSetInduction
<1>5. n \in T
  BY <1>4
<1>6. \E f \in [0..n -> S] : Good(f, n)
  BY <1>5
<1>7. QED
  BY <1>6 DEF Rounds

\* What holds before a loop and is kept by its body holds after it.
LEMMA LoopTyped ==
  ASSUME NEW S, NEW n \in Nat, NEW f, f[0] \in S,
         \A i \in 1..n : f[i - 1] \in S => f[i] \in S
  PROVE  \A i \in 0..n : f[i] \in S
<1> DEFINE T == {i \in Nat : i <= n => f[i] \in S}
<1>1. 0 \in T
  OBVIOUS
<1>2. ASSUME NEW i \in Nat, i \in T PROVE i + 1 \in T
  BY <1>2
<1>3. Nat \subseteq T
  <2> HIDE DEF T
  <2> QED BY <1>1, <1>2, NatSetInduction
<1>4. QED
  BY <1>3

-----------------------------------------------------------------------------
(* Request plans                                                           *)

LEMMA PlannedOperationsTyped ==
  ASSUME NEW item \in PathItem, NEW config \in PlanConfig
  PROVE  PlannedOperations(item, config)
           \in Seq({operation \in Operation : Planned(operation, config)})
<1> DEFINE n == Len(item.operations)
           S == Seq({operation \in Operation : Planned(operation, config)})
           step(x, k) == IF Planned(item.operations[k], config)
                         THEN Append(x, item.operations[k]) ELSE x
           g == [x \in S \X (1..n) |-> step(x[1], x[2])]
           kept == CHOOSE f : f = [k \in 0..n |-> IF k = 0 THEN <<>> ELSE step(f[k - 1], k)]
<1>1. n \in Nat /\ item.operations \in Seq(Operation)
  BY DEF PathItem
<1>2. \A x \in S, k \in 1..n : step(x, k) \in S
  BY <1>1
<1>3. Body(g, S, n) /\ \A x \in S, k \in 1..n : g[<<x, k>>] = step(x, k)
  BY <1>2 DEF Body
<1>4. PICK empty : empty = <<>>
  OBVIOUS
<1>5. empty \in S
  BY <1>4
<1> HIDE DEF g, n, S, step
<1>6. PICK f : Rounds(f, g, empty, S, n)
  BY <1>1, <1>3, <1>5, LoopRuns
<1>7. f = [k \in 0..n |-> IF k = 0 THEN empty ELSE step(f[k - 1], k)]
  <2>1. \A i \in 1..n : f[i - 1] \in S
    BY <1>1, <1>6 DEF Rounds
  <2>2. \A i \in 1..n : f[i] = step(f[i - 1], i)
    BY <1>3, <1>6, <2>1 DEF Rounds
  <2>3. QED
    BY <1>1, <1>6, <2>2 DEF Rounds
<1>8. kept = [k \in 0..n |-> IF k = 0 THEN <<>> ELSE step(kept[k - 1], k)]
  BY <1>4, <1>7, Zenon
<1>9. kept[0] \in S /\ \A i \in 1..n : kept[i] = step(kept[i - 1], i)
  <2> HIDE DEF kept
  <2>1. DOMAIN kept = 0..n
    BY <1>8, Zenon
  <2>2. kept[0] = empty
    BY <1>1, <1>4, <1>8
  <2>3. QED
    BY <1>1, <1>5, <1>8, <2>2
<1>10. kept[n] \in S
  <2>1. \A i \in 1..n : kept[i - 1] \in S => kept[i] \in S
    BY <1>2, <1>9
  <2> HIDE DEF kept
  <2>2. \A i \in 0..n : kept[i] \in S
    BY <1>1, <1>9, <2>1, LoopTyped
  <2>3. QED
    BY <1>1, <2>2
<1>11. PlannedOperations(item, config) = kept[n]
  BY Zenon DEF PlannedOperations, n, step
<1>12. QED
  BY <1>10, <1>11 DEF S

PlannedRequest(config) ==
  {request \in Request : /\ request.method # "DELETE"
                         /\ request.method = "PATCH" => config.allowPatch
                         /\ request.method \notin config.excluded}

LEMMA OriginsOfPlans ==
  ASSUME NEW document \in Document, NEW config \in PlanConfig, NEW source \in Origin,
         NEW item \in PathItem, NEW operation \in Operation
  PROVE  OperationOrigin(item, operation, config, ConfigureTarget(document, config, source), source)
           \in Origin
<1>1. /\ config.target \subseteq Origin /\ document.server \in Server
      /\ item.server \in Server /\ operation.server \in Server
  BY DEF Document, PlanConfig, PathItem, Operation
<1>2. \A server \in Server : ResolveServer(server, source) \in Origin
  BY DEF ResolveServer, Server
<1>3. ConfigureTarget(document, config, source) \in Origin
  <2>1. CASE config.target # {}
    <3>1. (CHOOSE o \in config.target : TRUE) \in config.target
      BY <2>1
    <3>2. QED
      BY <1>1, <2>1, <3>1 DEF ConfigureTarget
  <2>2. CASE config.target = {}
    BY <1>1, <1>2, <2>2 DEF ConfigureTarget
  <2>3. QED
    BY <2>1, <2>2
<1>4. OperationServer(item, operation) \in Server
  BY <1>1 DEF OperationServer
<1>5. QED
  BY <1>2, <1>3, <1>4 DEF OperationOrigin

\* Every planned request goes to an origin, and none has a method that may not
\* be planned.
LEMMA RequestPlansTyped ==
  ASSUME NEW document \in Document, NEW config \in PlanConfig, NEW source \in Origin
  PROVE  BuildRequestPlans(document, config, source) \in Seq(PlannedRequest(config))
<1> DEFINE n == Len(document.paths)
           S == Seq(PlannedRequest(config))
           target == ConfigureTarget(document, config, source)
           plan(item, operation) ==
             [origin |-> OperationOrigin(item, operation, config, target, source),
              method |-> operation.method, dangerous |-> operation.dangerous]
           planned(item) == PlannedOperations(item, config)
           plansOf(item) == [i \in DOMAIN planned(item) |-> plan(item, planned(item)[i])]
           step(x, k) == x \o plansOf(document.paths[k])
           g == [x \in S \X (1..n) |-> step(x[1], x[2])]
           plans == CHOOSE f : f = [k \in 0..n |-> IF k = 0 THEN <<>> ELSE step(f[k - 1], k)]
<1>1. n \in Nat /\ \A k \in 1..n : document.paths[k] \in PathItem
  BY DEF Document
<1>2. ASSUME NEW item \in PathItem PROVE plansOf(item) \in S
  <2>1. planned(item) \in Seq({operation \in Operation : Planned(operation, config)})
    BY PlannedOperationsTyped
  <2>2. ASSUME NEW operation \in Operation, Planned(operation, config)
        PROVE  plan(item, operation) \in PlannedRequest(config)
    <3>1. operation.method \in Method /\ operation.dangerous \in BOOLEAN
      BY DEF Operation
    <3>2. plan(item, operation) \in Request
      BY <3>1, OriginsOfPlans DEF Request
    <3>3. plan(item, operation).method = operation.method
      OBVIOUS
    <3>4. QED
      BY <2>2, <3>2, <3>3 DEF PlannedRequest, Planned
  <2>3. PICK m \in Nat : /\ DOMAIN planned(item) = 1..m
                         /\ \A i \in 1..m : /\ planned(item)[i] \in Operation
                                            /\ Planned(planned(item)[i], config)
    <3> HIDE DEF planned
    <3>1. QED
      BY <2>1
  <2> HIDE DEF plan, planned
  <2>4. plansOf(item) \in [1..m -> PlannedRequest(config)]
    BY <2>2, <2>3
  <2>5. QED
    BY <2>4
<1>3. \A x \in S, k \in 1..n : step(x, k) \in S
  <2> HIDE DEF plansOf
  <2>1. QED
    BY <1>1, <1>2
<1>4. Body(g, S, n) /\ \A x \in S, k \in 1..n : g[<<x, k>>] = step(x, k)
  <2> HIDE DEF step, S
  <2>1. QED
    BY <1>3 DEF Body
<1>5. PICK empty : empty = <<>>
  OBVIOUS
<1>6. empty \in S
  BY <1>5
<1> HIDE DEF g, n, S, step
<1>7. PICK f : Rounds(f, g, empty, S, n)
  BY <1>1, <1>4, <1>6, LoopRuns
<1>8. f = [k \in 0..n |-> IF k = 0 THEN empty ELSE step(f[k - 1], k)]
  <2>1. \A i \in 1..n : f[i - 1] \in S
    BY <1>1, <1>7 DEF Rounds
  <2>2. \A i \in 1..n : f[i] = step(f[i - 1], i)
    BY <1>4, <1>7, <2>1 DEF Rounds
  <2>3. QED
    BY <1>1, <1>7, <2>2 DEF Rounds
<1>9. plans = [k \in 0..n |-> IF k = 0 THEN <<>> ELSE step(plans[k - 1], k)]
  BY <1>5, <1>8, Zenon
<1>10. plans[0] \in S /\ \A i \in 1..n : plans[i] = step(plans[i - 1], i)
  <2> HIDE DEF plans
  <2>1. plans[0] = empty
    BY <1>1, <1>5, <1>9
  <2>2. QED
    BY <1>1, <1>6, <1>9, <2>1
<1>11. plans[n] \in S
  <2>1. \A i \in 1..n : plans[i - 1] \in S => plans[i] \in S
    BY <1>3, <1>10
  <2> HIDE DEF plans
  <2>2. \A i \in 0..n : plans[i] \in S
    BY <1>1, <1>10, <2>1, LoopTyped
  <2>3. QED
    BY <1>1, <2>2
<1>12. BuildRequestPlans(document, config, source) = plans[n]
  BY Zenon DEF BuildRequestPlans, n, step
<1>13. QED
  BY <1>11, <1>12 DEF S


-----------------------------------------------------------------------------
(* Sources                                                                 *)

LEMMA SetToSeqFacts ==
  ASSUME NEW S, IsFiniteSet(S)
  PROVE  /\ SetToSeq(S) \in [1..Cardinality(S) -> S] /\ Cardinality(S) \in Nat
         /\ SetToSeq(S) \in Seq(S)
         /\ \A x \in S : \E i \in 1..Cardinality(S) : SetToSeq(S)[i] = x
<1> DEFINE n == Cardinality(S)
           f == SetToSeq(S)
<1>1. n \in Nat /\ ExistsBijection(1..n, S)
  BY FS_CardinalityType
<1>2. \E h \in [1..n -> S] : IsInjective(h)
  BY <1>1 DEF ExistsBijection, Bijection, Injection
<1>3. f \in [1..n -> S] /\ IsInjective(f)
  BY <1>2, Zenon DEF SetToSeq
<1>4. f \in Injection(1..n, S)
  BY <1>3 DEF Injection
<1>5. Cardinality(1..n) = Cardinality(S)
  BY <1>1, FS_Interval
<1>6. f \in Surjection(1..n, S)
  BY <1>4, <1>5, FS_Injection
<1>7. \A x \in S : \E i \in 1..n : f[i] = x
  BY <1>6 DEF Surjection
<1>8. f \in Seq(S)
  BY <1>1, <1>3
<1>9. QED
  BY <1>1, <1>3, <1>7, <1>8

\* The collector keeps some of the URLs it is given, each once.
LEMMA CollectedTyped ==
  ASSUME NEW T, NEW sources \in Seq(T)
  PROVE  Collected(sources) \in Seq(T) /\ IsInjective(Collected(sources))
<1> DEFINE n == Len(sources)
           S == {x \in Seq(T) : IsInjective(x)}
           step(x, k) == IF sources[k] \in Range(x) THEN x ELSE Append(x, sources[k])
           g == [x \in S \X (1..n) |-> step(x[1], x[2])]
           collected == CHOOSE f : f = [k \in 0..n |-> IF k = 0 THEN <<>> ELSE step(f[k - 1], k)]
<1>1. n \in Nat /\ \A k \in 1..n : sources[k] \in T
  OBVIOUS
<1>2. \A x \in S, k \in 1..n : step(x, k) \in S
  <2> SUFFICES ASSUME NEW x \in S, NEW k \in 1..n, sources[k] \notin Range(x)
               PROVE  Append(x, sources[k]) \in S
    BY Zenon
  <2> PICK y : y = Append(x, sources[k])
    OBVIOUS
  <2>1. /\ y \in Seq(T) /\ Len(y) = Len(x) + 1 /\ Len(x) \in Nat
        /\ DOMAIN y = 1..(Len(x) + 1) /\ DOMAIN x = 1..Len(x)
        /\ \A i \in 1..Len(x) : y[i] = x[i]
        /\ y[Len(x) + 1] = sources[k]
    BY <1>1
  <2>2. \A i \in 1..Len(x) : x[i] # sources[k]
    BY <2>1 DEF Range
  <2>3. ASSUME NEW i \in DOMAIN y, NEW h \in DOMAIN y, y[i] = y[h] PROVE i = h
    <3>1. CASE i \in 1..Len(x) /\ h \in 1..Len(x)
      BY <2>1, <2>3, <3>1 DEF IsInjective
    <3>2. CASE i = Len(x) + 1 \/ h = Len(x) + 1
      BY <2>1, <2>2, <2>3, <3>2
    <3>3. QED
      BY <2>1, <3>1, <3>2
  <2>4. QED
    BY <2>1, <2>3 DEF IsInjective
<1>3. Body(g, S, n) /\ \A x \in S, k \in 1..n : g[<<x, k>>] = step(x, k)
  <2> HIDE DEF step
  <2>1. QED
    BY <1>2 DEF Body
<1>4. PICK empty : empty = <<>>
  OBVIOUS
<1>5. empty \in S
  BY <1>4 DEF IsInjective
<1> HIDE DEF g, n, S, step
<1>6. PICK f : Rounds(f, g, empty, S, n)
  BY <1>1, <1>3, <1>5, LoopRuns
<1>7. f = [k \in 0..n |-> IF k = 0 THEN empty ELSE step(f[k - 1], k)]
  <2>1. \A i \in 1..n : f[i - 1] \in S
    BY <1>1, <1>6 DEF Rounds
  <2>2. \A i \in 1..n : f[i] = step(f[i - 1], i)
    BY <1>3, <1>6, <2>1 DEF Rounds
  <2>3. QED
    BY <1>1, <1>6, <2>2 DEF Rounds
<1>8. collected = [k \in 0..n |-> IF k = 0 THEN <<>> ELSE step(collected[k - 1], k)]
  BY <1>4, <1>7, Zenon
<1>9. collected[0] \in S /\ \A i \in 1..n : collected[i] = step(collected[i - 1], i)
  <2> HIDE DEF collected
  <2>1. collected[0] = empty
    BY <1>1, <1>4, <1>8
  <2>2. QED
    BY <1>1, <1>5, <1>8, <2>1
<1>10. collected[n] \in S
  <2>1. \A i \in 1..n : collected[i - 1] \in S => collected[i] \in S
    BY <1>2, <1>9
  <2> HIDE DEF collected
  <2>2. \A i \in 0..n : collected[i] \in S
    BY <1>1, <1>9, <2>1, LoopTyped
  <2>3. QED
    BY <1>1, <2>2
<1>11. Collected(sources) = collected[n]
  BY Zenon DEF Collected, n, step
<1>12. QED
  BY <1>10, <1>11 DEF S

\* What brute found are URLs.
LEMMA FoundSpecsTyped ==
  ASSUME bruteJob \in BruteJob,
         \A t \in Target : scan[t].found \subseteq Url /\ IsFiniteSet(scan[t].found)
  PROVE  FoundSpecs \in Seq(Url)
<1> DEFINE n == Len(bruteJob.targets)
           S == Seq(Url)
           step(x, k) == x \o SetToSeq(scan[bruteJob.targets[k]].found)
           g == [x \in S \X (1..n) |-> step(x[1], x[2])]
           specs == CHOOSE f : f = [k \in 0..n |-> IF k = 0 THEN <<>> ELSE step(f[k - 1], k)]
<1>1. n \in Nat /\ \A k \in 1..n : bruteJob.targets[k] \in Target
  BY DEF BruteJob
<1>2. \A x \in S, k \in 1..n : step(x, k) \in S
  <2> SUFFICES ASSUME NEW x \in S, NEW k \in 1..n PROVE step(x, k) \in S
    OBVIOUS
  <2> PICK F : F = scan[bruteJob.targets[k]].found
    OBVIOUS
  <2>1. F \subseteq Url /\ IsFiniteSet(F)
    BY <1>1
  <2>2. SetToSeq(F) \in Seq(F)
    BY <2>1, SetToSeqFacts
  <2>3. SetToSeq(F) \in Seq(Url)
    BY <2>1, <2>2
  <2>4. QED
    BY <2>3
<1>3. Body(g, S, n) /\ \A x \in S, k \in 1..n : g[<<x, k>>] = step(x, k)
  <2> HIDE DEF step, n
  <2>1. QED
    BY <1>2 DEF Body
<1>4. PICK empty : empty = <<>>
  OBVIOUS
<1>5. empty \in S
  BY <1>4
<1> HIDE DEF g, n, S, step
<1>6. PICK f : Rounds(f, g, empty, S, n)
  BY <1>1, <1>3, <1>5, LoopRuns
<1>7. f = [k \in 0..n |-> IF k = 0 THEN empty ELSE step(f[k - 1], k)]
  <2>1. \A i \in 1..n : f[i - 1] \in S
    BY <1>1, <1>6 DEF Rounds
  <2>2. \A i \in 1..n : f[i] = step(f[i - 1], i)
    BY <1>3, <1>6, <2>1 DEF Rounds
  <2>3. QED
    BY <1>1, <1>6, <2>2 DEF Rounds
<1>8. specs = [k \in 0..n |-> IF k = 0 THEN <<>> ELSE step(specs[k - 1], k)]
  BY <1>4, <1>7, Zenon
<1>9. specs[0] \in S /\ \A i \in 1..n : specs[i] = step(specs[i - 1], i)
  <2> HIDE DEF specs
  <2>1. specs[0] = empty
    BY <1>1, <1>4, <1>8
  <2>2. QED
    BY <1>1, <1>5, <1>8, <2>1
<1>10. specs[n] \in S
  <2>1. \A i \in 1..n : specs[i - 1] \in S => specs[i] \in S
    BY <1>2, <1>9
  <2> HIDE DEF specs
  <2>2. \A i \in 0..n : specs[i] \in S
    BY <1>1, <1>9, <2>1, LoopTyped
  <2>3. QED
    BY <1>1, <2>2
<1>11. FoundSpecs = specs[n]
  BY Zenon DEF FoundSpecs, n, step
<1>12. QED
  BY <1>10, <1>11 DEF S

-----------------------------------------------------------------------------
(* The scan of one target                                                  *)

ScanPc == {"none", "candidates", "variations", "done", "failed", "canceled"}
PageShape == [url : Url, exact : 1..2]
ScanState ==
  [pc : ScanPc, index : Nat, tested : SUBSET Url, known : SUBSET Url,
   queue : Seq(Candidate), found : SUBSET Url, interesting : SUBSET Url,
   shapes : Seq(PageShape), skipped : SUBSET Url, filtered : SUBSET Url, faults : Nat,
   down : Nat, shape : {"none", "down1", "down2"}, challenges : Nat, limits : SUBSET Limit]

GoodJob(j) ==
  /\ j \in BruteJob
  /\ IsInjective(j.targets)
  /\ \A u \in Url : IsFiniteSet(j.references[u]) /\ IsFiniteSet(j.variations[u])

\* The URLs a scan has answered for: fetched, counted as skipped, or queued.
Covered(s) == s.tested \cup s.skipped \cup Queued(s)
Pages(s) == s.interesting \cup s.filtered \cup {s.shapes[i].url : i \in DOMAIN s.shapes}

\* The books of a scan of the candidates list are in order, except for the
\* variations of the definitions in open.
BooksBut(j, list, s, open) ==
  /\ IsFiniteSet(s.known)
  /\ Cardinality(s.known) <= Max({j.maxCandidates, Len(list)})
  /\ Range(list) \cup s.tested \cup Queued(s) \subseteq s.known
  /\ s.known \subseteq Range(list) \cup s.tested \cup Queued(s)
  /\ s.found \subseteq s.known
  /\ \A u \in Pages(s) : j.references[u] \subseteq Covered(s)
  /\ \A u \in s.found \ open : j.variations[u] \subseteq Covered(s) \cup Range(list)
Books(j, list, s) == BooksBut(j, list, s, {})

\* Two states of a scan with the same books, at the same place.
SameBooks(r, s) ==
  /\ r.tested = s.tested /\ r.known = s.known /\ r.queue = s.queue /\ r.found = s.found
  /\ r.interesting = s.interesting /\ r.shapes = s.shapes /\ r.skipped = s.skipped
  /\ r.filtered = s.filtered
SamePlace(r, s) == r.pc = s.pc /\ r.index = s.index

LEMMA BooksOfSame ==
  ASSUME NEW j, NEW list, NEW r, NEW s, NEW open, SameBooks(r, s), BooksBut(j, list, s, open)
  PROVE  BooksBut(j, list, r, open)
<1>1. Queued(r) = Queued(s) /\ Pages(r) = Pages(s) /\ Covered(r) = Covered(s)
  BY DEF SameBooks, Queued, Pages, Covered
<1>2. QED
  BY <1>1 DEF BooksBut, SameBooks

LEMMA Zeros == 0 \in Nat /\ 1 \in Nat
OBVIOUS

LEMMA ResponseLimitKeeps ==
  ASSUME NEW s \in ScanState, NEW event \in BruteEvent
  PROVE  /\ RecordResponseLimit(s, event) \in ScanState
         /\ SameBooks(RecordResponseLimit(s, event), s)
         /\ SamePlace(RecordResponseLimit(s, event), s)
<1> PICK r : r = RecordResponseLimit(s, event)
  OBVIOUS
<1> SUFFICES r \in ScanState /\ SameBooks(r, s) /\ SamePlace(r, s)
  OBVIOUS
<1>1. CASE event.kind = "limited" \/ event.low
  <2>1. r =
          [s EXCEPT !.limits = s.limits \cup {"rate"}, !.down = 0, !.shape = "none"]
    BY <1>1, Zenon DEF RecordResponseLimit
  <2>2. s.limits \cup {"rate"} \in SUBSET Limit
    BY DEF Limit, ScanState
  <2>3. r \in ScanState
    BY <2>1, <2>2, Zeros, ZenonT(40) DEF ScanState
  <2>4. SameBooks(r, s) /\ SamePlace(r, s)
    BY <2>1, <2>2 DEF ScanState, SameBooks, SamePlace
  <2>5. QED
    BY <2>3, <2>4
<1>2. CASE ~(event.kind = "limited" \/ event.low) /\ event.kind \notin {"down1", "down2"}
  <2>1. r = [s EXCEPT !.down = 0, !.shape = "none"]
    BY <1>2, Zenon DEF RecordResponseLimit
  <2>2. r \in ScanState
    BY <2>1, Zeros, Zenon DEF ScanState
  <2>3. SameBooks(r, s) /\ SamePlace(r, s)
    BY <2>1 DEF ScanState, SameBooks, SamePlace
  <2>4. QED
    BY <2>2, <2>3
<1>3. CASE /\ ~(event.kind = "limited" \/ event.low) /\ event.kind \in {"down1", "down2"}
           /\ event.kind # s.shape
  <2>1. r = [s EXCEPT !.down = 1, !.shape = event.kind]
    BY <1>3, Zenon DEF RecordResponseLimit
  <2>2. r \in ScanState
    BY <1>3, <2>1, Zeros, Zenon DEF ScanState
  <2>3. SameBooks(r, s) /\ SamePlace(r, s)
    BY <1>3, <2>1 DEF ScanState, SameBooks, SamePlace
  <2>4. QED
    BY <2>2, <2>3
<1>4. CASE /\ ~(event.kind = "limited" \/ event.low) /\ event.kind \in {"down1", "down2"}
           /\ event.kind = s.shape
  <2> DEFINE limits == IF s.down + 1 >= MaxConsecutive
                       THEN s.limits \cup {"unavailable"} ELSE s.limits
  <2>1. r = [s EXCEPT !.down = s.down + 1, !.limits = limits]
    BY <1>4, Zenon DEF RecordResponseLimit
  <2>2. limits \in SUBSET Limit /\ s.down + 1 \in Nat /\ s.challenges + 1 \in Nat
    BY DEF Limit, ScanState
  <2> HIDE DEF limits
  <2>3. r \in ScanState
    BY <2>1, <2>2, Zenon DEF ScanState
  <2>4. SameBooks(r, s) /\ SamePlace(r, s)
    BY <2>1, <2>2 DEF ScanState, SameBooks, SamePlace
  <2>5. QED
    BY <2>3, <2>4
<1>5. QED
  BY <1>1, <1>2, <1>3, <1>4

LEMMA WAFLimitKeeps ==
  ASSUME NEW j, NEW t, NEW s \in ScanState, NEW challenge \in BOOLEAN
  PROVE  /\ RecordWAFChallengeLimit(j, t, s, challenge) \in ScanState
         /\ SameBooks(RecordWAFChallengeLimit(j, t, s, challenge), s)
         /\ SamePlace(RecordWAFChallengeLimit(j, t, s, challenge), s)
<1> PICK r : r = RecordWAFChallengeLimit(j, t, s, challenge)
  OBVIOUS
<1> SUFFICES r \in ScanState /\ SameBooks(r, s) /\ SamePlace(r, s)
  OBVIOUS
<1>1. CASE ~challenge
  <2>1. r = [s EXCEPT !.challenges = 0]
    BY <1>1, Zenon DEF RecordWAFChallengeLimit
  <2>2. r \in ScanState
    BY <2>1, Zeros, Zenon DEF ScanState
  <2>3. SameBooks(r, s) /\ SamePlace(r, s)
    BY <2>1 DEF ScanState, SameBooks, SamePlace
  <2>4. QED
    BY <2>2, <2>3
<1>2. CASE challenge
  <2> DEFINE limits == IF /\ s.challenges + 1 >= MaxConsecutive
                          /\ Cardinality(s.tested) >= MinimumWAFChallengeCoverage(j, t)
                       THEN s.limits \cup {"waf"} ELSE s.limits
  <2>1. r =
          [s EXCEPT !.challenges = s.challenges + 1, !.limits = limits]
    BY <1>2, Zenon DEF RecordWAFChallengeLimit
  <2>2. limits \in SUBSET Limit /\ s.down + 1 \in Nat /\ s.challenges + 1 \in Nat
    BY DEF Limit, ScanState
  <2> HIDE DEF limits
  <2>3. r \in ScanState
    BY <2>1, <2>2, Zenon DEF ScanState
  <2>4. SameBooks(r, s) /\ SamePlace(r, s)
    BY <2>1, <2>2 DEF ScanState, SameBooks, SamePlace
  <2>5. QED
    BY <2>3, <2>4
<1>3. QED
  BY <1>1, <1>2

-----------------------------------------------------------------------------
(* Requests of the automate command                                        *)

WireState ==
  [limited : SUBSET Origin, streak : [Origin -> 0..3], late : SUBSET Origin,
   private : SUBSET Origin, unsafe : SUBSET Request]
CircuitState ==
  [blocked : [Origin -> {"no", "rate-limited", "transport-unavailable"}],
   faults : [Origin -> 0..3], skipped : [Origin -> Nat]]
Stops(response) == response.status = 429 \/ response.low
Risky(request) == IsUnsafeMethod(request.method) \/ request.dangerous

LEMMA EventFacts ==
  ASSUME NEW event \in Event
  PROVE  /\ event.fault \in {"none", "target", "route", "alert"}
         /\ event.status \in {0} \cup Answered
         /\ event.low \in BOOLEAN /\ event.hint \in BOOLEAN /\ event.cut \in BOOLEAN
         /\ event.status # 0 <=> event.fault = "none"
<1>1. CASE event \in {Lost("target"), Lost("route"), Lost("alert")}
  <2>1. PICK fault \in {"target", "route", "alert"} : event = Lost(fault)
    BY <1>1, Zenon
  <2>2. /\ event.fault = fault /\ event.status = 0
        /\ event.low = FALSE /\ event.hint = FALSE /\ event.cut = FALSE
    BY <2>1 DEF Lost
  <2>3. QED
    BY <2>2
<1>2. CASE event \in Answer
  BY <1>2 DEF Answer, Answered
<1>3. QED
  BY <1>1, <1>2 DEF Event

\* What a caller learns: only a request that left the client is answered, and
\* nothing is said about the target by one that did not.
LEMMA MakeRequestFacts ==
  ASSUME NEW client \in Client, NEW request, NEW enforce \in BOOLEAN, NEW event \in Event
  PROVE  LET response == MakeRequest(client, request, enforce, event)
         IN  /\ response \in Response
             /\ response.sent => Sendable(client, request, enforce)
             /\ response.status >= 100 => response.sent
             /\ ~response.sent => ~Stops(response) /\ ~response.originFault
<1>1. CASE client.initErr
  BY <1>1 DEF MakeRequest, NotSent, Response, Stops
<1>2. CASE ~client.initErr /\ ~Sendable(client, request, enforce)
  BY <1>2 DEF MakeRequest, NotSent, Response, Stops
<1>3. CASE ~client.initErr /\ Sendable(client, request, enforce)
  <2> DEFINE status == IF event.fault = "alert" THEN 1 ELSE event.status
             originFault == event.fault # "none" /\ IsTargetOriginTransportError(client, event.fault)
             hint == event.hint /\ ~event.cut
  <2>1. MakeRequest(client, request, enforce, event) =
          [status |-> status, sent |-> TRUE, originFault |-> originFault, low |-> event.low,
           hint |-> hint, failure |-> event.cut]
    BY <1>3 DEF MakeRequest, Received
  <2>2. status \in {0, 1} \cup Answered /\ event.low \in BOOLEAN /\ event.cut \in BOOLEAN
    BY EventFacts
  <2>3. originFault \in BOOLEAN /\ hint \in BOOLEAN
    BY EventFacts, Zenon DEF IsTargetOriginTransportError
  <2> HIDE DEF status, originFault, hint
  <2>4. MakeRequest(client, request, enforce, event) \in Response
    BY <2>1, <2>2, <2>3 DEF Response
  <2>5. QED
    BY <1>3, <2>1, <2>4
<1>4. QED
  BY <1>1, <1>2, <1>3

LEMMA StreakBound ==
  ASSUME NEW n \in 0..3
  PROVE  Min({3, n + 1}) \in 0..3 /\ Min({3, n + 1}) <= n + 1
<1>1. \E x \in {3, n + 1} : \A y \in {3, n + 1} : x <= y
  OBVIOUS
<1> DEFINE m == CHOOSE x \in {3, n + 1} : \A y \in {3, n + 1} : x <= y
<1>2. m \in {3, n + 1} /\ \A y \in {3, n + 1} : m <= y
  BY <1>1
<1>3. Min({3, n + 1}) = m
  BY DEF Min
<1> HIDE DEF m
<1>4. QED
  BY <1>2, <1>3

\* What one exchange leaves on the wire, with an origin that is not stopped.
LEMMA Exchange ==
  ASSUME NEW w \in WireState, NEW request \in Request, NEW response \in Response,
         request.origin \notin w.limited, w.streak[request.origin] < 3
  PROVE  LET o == request.origin
             r == Arrived(Departed(w, request), o, response)
         IN  /\ r \in WireState /\ r.late = w.late
             /\ r.private \subseteq w.private \cup automateJob.authorized
             /\ r.unsafe = IF Risky(request) THEN w.unsafe \cup {request} ELSE w.unsafe
             /\ r.limited = IF Stops(response) THEN w.limited \cup {o} ELSE w.limited
             /\ \A p \in Origin \ {o} : r.streak[p] = w.streak[p]
             /\ response.status >= 100 => r.streak[o] = 0
             /\ response.originFault /\ response.status = 0 => r.streak[o] <= w.streak[o] + 1
             /\ response.status < 100 /\ ~(response.originFault /\ response.status = 0) =>
                  r.streak[o] = w.streak[o]
<1> DEFINE o == request.origin
           private == w.private \cup PrivateHeaders(automateJob, o)
           unsafe == IF IsUnsafeMethod(request.method) \/ request.dangerous
                     THEN w.unsafe \cup {request} ELSE w.unsafe
           limited == IF response.status = 429 \/ response.low
                      THEN w.limited \cup {o} ELSE w.limited
           count == IF response.status >= 100 THEN 0
                    ELSE IF response.originFault /\ response.status = 0
                         THEN Min({3, w.streak[o] + 1})
                    ELSE w.streak[o]
           streak == [w.streak EXCEPT ![o] = count]
           r == Arrived(Departed(w, request), o, response)
<1>1. o \in Origin /\ w.streak[o] \in 0..3 /\ w.streak \in [Origin -> 0..3]
  BY DEF WireState, Request
<1>2. /\ private \in SUBSET Origin /\ unsafe \in SUBSET Request /\ limited \in SUBSET Origin
      /\ private \subseteq w.private \cup automateJob.authorized
  BY <1>1 DEF WireState, PrivateHeaders
<1>3. count \in 0..3
  BY <1>1, StreakBound
<1>4. streak \in [Origin -> 0..3]
  BY <1>1, <1>3
<1>5. /\ response.status >= 100 => count = 0
      /\ response.originFault /\ response.status = 0 => count <= w.streak[o] + 1
      /\ response.status < 100 /\ ~(response.originFault /\ response.status = 0) =>
           count = w.streak[o]
  <2>1. response.status \in Nat
    BY DEF Response, Answered
  <2>2. Min({3, w.streak[o] + 1}) <= w.streak[o] + 1
    BY <1>1, StreakBound
  <2>3. response.status >= 100 \/ response.status < 100
    BY <2>1
  <2>4. response.status >= 100 => response.status # 0
    BY <2>1
  <2>5. response.status < 100 => ~(response.status >= 100)
    BY <2>1
  <2>6. QED
    BY <2>2, <2>3, <2>4, <2>5, Zenon
<1>6. Departed(w, request) = [w EXCEPT !.private = private, !.unsafe = unsafe]
  <2>1. ~(o \in w.limited \/ w.streak[o] >= 3)
    BY <1>1
  <2>2. Departed(w, request) =
          [w EXCEPT !.late = w.late, !.private = private, !.unsafe = unsafe]
    BY <2>1, Zenon DEF Departed
  <2> HIDE DEF private, unsafe
  <2>3. QED
    BY <2>2 DEF WireState
<1>7. r = [w EXCEPT !.private = private, !.unsafe = unsafe, !.limited = limited,
                    !.streak = streak]
  <2> PICK d : d = Departed(w, request)
    OBVIOUS
  <2> DEFINE count2 == IF response.status >= 100 THEN 0
                       ELSE IF response.originFault /\ response.status = 0
                            THEN Min({3, d.streak[o] + 1})
                       ELSE d.streak[o]
             limited2 == IF response.status = 429 \/ response.low
                         THEN d.limited \cup {o} ELSE d.limited
  <2>1. r = [d EXCEPT !.limited = limited2, !.streak[o] = count2]
    BY Zenon DEF Arrived
  <2>2. d.streak = w.streak /\ d.limited = w.limited
    <3> HIDE DEF private, unsafe
    <3>1. QED
      BY <1>6 DEF WireState
  <2>3. count2 = count /\ limited2 = limited
    BY <2>2
  <2> HIDE DEF count, limited, count2, limited2, private, unsafe, r
  <2>4. QED
    BY <1>6, <2>1, <2>2, <2>3 DEF WireState
<1> HIDE DEF private, limited, count, unsafe, streak
<1>8. r \in WireState
  <2> HIDE DEF r
  <2>1. QED
    BY <1>2, <1>4, <1>7, Zenon DEF WireState
<1>9. /\ r.late = w.late /\ r.private = private /\ r.unsafe = unsafe /\ r.limited = limited
      /\ r.streak = streak
  <2> HIDE DEF r
  <2>1. QED
    BY <1>7 DEF WireState
<1>10. streak[o] = count /\ \A p \in Origin \ {o} : streak[p] = w.streak[p]
  BY <1>1 DEF streak
<1>11. QED
  <2> HIDE DEF r
  <2>1. /\ unsafe = IF Risky(request) THEN w.unsafe \cup {request} ELSE w.unsafe
        /\ limited = IF Stops(response) THEN w.limited \cup {o} ELSE w.limited
    BY DEF unsafe, limited, Risky, Stops
  <2>2. /\ r \in WireState /\ r.late = w.late
        /\ r.private \subseteq w.private \cup automateJob.authorized
        /\ r.unsafe = IF Risky(request) THEN w.unsafe \cup {request} ELSE w.unsafe
        /\ r.limited = IF Stops(response) THEN w.limited \cup {o} ELSE w.limited
        /\ \A p \in Origin \ {o} : r.streak[p] = w.streak[p]
        /\ response.status >= 100 => r.streak[o] = 0
        /\ response.originFault /\ response.status = 0 => r.streak[o] <= w.streak[o] + 1
        /\ response.status < 100 /\ ~(response.originFault /\ response.status = 0) =>
                  r.streak[o] = w.streak[o]
    BY <1>2, <1>5, <1>8, <1>9, <1>10, <2>1
  <2>3. QED
    BY <2>2 DEF r

\* A copy of a request, whose answer nobody looks at.
LEMMA Copy ==
  ASSUME NEW w \in WireState, NEW request \in Request,
         request.origin \notin w.limited, w.streak[request.origin] < 3
  PROVE  LET r == Departed(w, request)
         IN  /\ r \in WireState /\ r.late = w.late /\ r.limited = w.limited
             /\ r.streak = w.streak
             /\ r.private \subseteq w.private \cup automateJob.authorized
             /\ r.unsafe = IF Risky(request) THEN w.unsafe \cup {request} ELSE w.unsafe
<1> DEFINE o == request.origin
           private == w.private \cup PrivateHeaders(automateJob, o)
           unsafe == IF IsUnsafeMethod(request.method) \/ request.dangerous
                     THEN w.unsafe \cup {request} ELSE w.unsafe
<1>1. o \in Origin /\ w.streak[o] \in 0..3
  BY DEF WireState, Request
<1>2. /\ private \in SUBSET Origin /\ unsafe \in SUBSET Request
      /\ private \subseteq w.private \cup automateJob.authorized
  BY <1>1 DEF WireState, PrivateHeaders
<1>3. ~(o \in w.limited \/ w.streak[o] >= 3)
  BY <1>1
<1>4. Departed(w, request) =
        [w EXCEPT !.late = w.late, !.private = private, !.unsafe = unsafe]
  BY <1>3, Zenon DEF Departed
<1>5. unsafe = IF Risky(request) THEN w.unsafe \cup {request} ELSE w.unsafe
  BY DEF Risky
<1> PICK r : r = Departed(w, request)
  OBVIOUS
<1> HIDE DEF private, unsafe
<1>6. /\ r.late = w.late /\ r.limited = w.limited /\ r.streak = w.streak
      /\ r.private = private /\ r.unsafe = unsafe
  BY <1>4 DEF WireState
<1>7. r \in WireState
  <2>1. w.late \in SUBSET Origin
    BY DEF WireState
  <2>2. QED
    BY <1>2, <1>4, <2>1, Zenon DEF WireState
<1>8. QED
  BY <1>2, <1>5, <1>6, <1>7

NotTripped(c) == \A o \in Origin : Allow(c, o) => c.faults[o] <= 2
\* The circuit of an origin knows what the wire has seen of it.
Settled(w, c, o) ==
  /\ o \in w.limited => ~Allow(c, o)
  /\ Allow(c, o) => w.streak[o] <= c.faults[o]
\* It still has to be told of the last response.
Lagging(w, c, o, response) ==
  /\ Allow(c, o)
  /\ o \in w.limited => Stops(response)
  /\ response.status >= 100 => response.sent /\ w.streak[o] = 0
  /\ response.originFault /\ response.status = 0 => w.streak[o] <= c.faults[o] + 1
  /\ response.status < 100 /\ ~(response.originFault /\ response.status = 0) =>
       w.streak[o] <= c.faults[o]

\* A request to an origin whose circuit is closed.
LEMMA Sent ==
  ASSUME NEW w \in WireState, NEW c \in CircuitState, NotTripped(c),
         NEW request \in Request, Allow(c, request.origin),
         \A p \in Origin : Settled(w, c, p),
         NEW enforce \in BOOLEAN, NEW event \in Event, automateJob \in AutomateJob
  PROVE  LET o == request.origin
             response == MakeRequest(automateJob.client, request, enforce, event)
             r == IF response.sent THEN Arrived(Departed(w, request), o, response) ELSE w
         IN  /\ r \in WireState /\ r.late = w.late
             /\ r.private \subseteq w.private \cup automateJob.authorized
             /\ r.unsafe \subseteq w.unsafe \cup {request}
             /\ request \in w.unsafe
                \/ (Risky(request) /\ Sendable(automateJob.client, request, enforce))
                \/ r.unsafe = w.unsafe
             /\ Lagging(r, c, o, response)
             /\ \A p \in Origin \ {o} : Settled(r, c, p)
             /\ response \in Response
             /\ response.sent => Sendable(automateJob.client, request, enforce)
<1> PICK o : o = request.origin
  OBVIOUS
<1> PICK response : response = MakeRequest(automateJob.client, request, enforce, event)
  OBVIOUS
<1> PICK r : r = IF response.sent THEN Arrived(Departed(w, request), o, response) ELSE w
  OBVIOUS
<1>1. o \in Origin /\ w.streak[o] \in 0..3 /\ c.faults[o] \in 0..3 /\ w.streak \in [Origin -> 0..3]
  BY DEF Request, WireState, CircuitState
<1>2. o \notin w.limited /\ w.streak[o] <= c.faults[o] /\ c.faults[o] <= 2
  BY <1>1 DEF Settled, NotTripped
<1>3. w.streak[o] < 3
  BY <1>1, <1>2
<1>4. automateJob.client \in Client
  BY DEF AutomateJob
<1>5. /\ response \in Response
      /\ response.sent => Sendable(automateJob.client, request, enforce)
      /\ response.status >= 100 => response.sent
      /\ ~response.sent => ~Stops(response) /\ ~response.originFault
  BY <1>4, MakeRequestFacts
<1>6. response.status \in Nat
  BY <1>5 DEF Response, Answered
<1>7. CASE ~response.sent
  <2>1. r = w
    BY <1>7
  <2>2. Lagging(r, c, o, response)
    BY <1>1, <1>2, <1>5, <1>6, <1>7, <2>1 DEF Lagging
  <2>3. QED
    BY <1>5, <2>1, <2>2
<1>8. CASE response.sent
  <2>1. r = Arrived(Departed(w, request), o, response)
    BY <1>8
  <2>2. /\ r \in WireState /\ r.late = w.late
        /\ r.private \subseteq w.private \cup automateJob.authorized
        /\ r.unsafe = IF Risky(request) THEN w.unsafe \cup {request} ELSE w.unsafe
        /\ r.limited = IF Stops(response) THEN w.limited \cup {o} ELSE w.limited
        /\ \A p \in Origin \ {o} : r.streak[p] = w.streak[p]
        /\ response.status >= 100 => r.streak[o] = 0
        /\ response.originFault /\ response.status = 0 => r.streak[o] <= w.streak[o] + 1
        /\ response.status < 100 /\ ~(response.originFault /\ response.status = 0) =>
             r.streak[o] = w.streak[o]
    <3>1. request.origin \notin w.limited /\ w.streak[request.origin] < 3
      BY <1>2, <1>3
    <3>2. r = Arrived(Departed(w, request), request.origin, response)
      BY <2>1
    <3> DEFINE q == Arrived(Departed(w, request), request.origin, response)
    <3>3. LET p0 == request.origin IN
          /\ q \in WireState /\ q.late = w.late
          /\ q.private \subseteq w.private \cup automateJob.authorized
          /\ q.unsafe = IF Risky(request) THEN w.unsafe \cup {request} ELSE w.unsafe
          /\ q.limited = IF Stops(response) THEN w.limited \cup {p0} ELSE w.limited
          /\ \A p \in Origin \ {p0} : q.streak[p] = w.streak[p]
          /\ response.status >= 100 => q.streak[p0] = 0
          /\ response.originFault /\ response.status = 0 => q.streak[p0] <= w.streak[p0] + 1
          /\ response.status < 100 /\ ~(response.originFault /\ response.status = 0) =>
               q.streak[p0] = w.streak[p0]
      BY <1>5, <3>1, Exchange, ZenonT(60)
    <3> HIDE DEF q
    <3>4. r = q /\ o = request.origin
      BY <3>2 DEF q
    <3>5. QED
      BY <3>3, <3>4
  <2>3. r.streak[o] \in 0..3
    BY <1>1, <2>2 DEF WireState
  <2>4. Lagging(r, c, o, response)
    <3>1. o \in r.limited => Stops(response)
      BY <1>2, <2>2
    <3>2. response.originFault /\ response.status = 0 => r.streak[o] <= c.faults[o] + 1
      BY <1>1, <1>2, <2>2, <2>3
    <3>3. QED
      BY <1>2, <1>8, <2>2, <3>1, <3>2 DEF Lagging
  <2>5. \A p \in Origin \ {o} : Settled(r, c, p)
    BY <2>2 DEF Settled
  <2>6. QED
    BY <1>5, <1>8, <2>2, <2>4, <2>5
<1>9. QED
  BY <1>7, <1>8

\* Once the circuit has observed the response, it is up to date.
LEMMA Observed ==
  ASSUME NEW w \in WireState, NEW c \in CircuitState, NotTripped(c), NEW o \in Origin,
         NEW response \in Response, Lagging(w, c, o, response),
         \A p \in Origin \ {o} : Settled(w, c, p)
  PROVE  /\ Observe(c, o, response) \in CircuitState
         /\ NotTripped(Observe(c, o, response))
         /\ \A p \in Origin : Settled(w, Observe(c, o, response), p)
<1> PICK d : d = Observe(c, o, response)
  OBVIOUS
<1>1. /\ c.blocked \in [Origin -> {"no", "rate-limited", "transport-unavailable"}]
      /\ c.faults \in [Origin -> 0..3] /\ c.faults[o] \in 0..2
      /\ c.blocked[o] = "no" /\ w.streak[o] \in 0..3
      /\ response.status \in Nat /\ c.skipped \in [Origin -> Nat]
  BY DEF Lagging, NotTripped, Allow, CircuitState, WireState, Response, Answered
<1> DEFINE Fits(blocked, faults) ==
             /\ blocked \in [Origin -> {"no", "rate-limited", "transport-unavailable"}]
             /\ faults \in [Origin -> 0..3]
             /\ d = [c EXCEPT !.blocked = blocked, !.faults = faults]
             /\ \A p \in Origin \ {o} : blocked[p] = c.blocked[p] /\ faults[p] = c.faults[p]
             /\ o \in w.limited => blocked[o] # "no"
             /\ blocked[o] = "no" => w.streak[o] <= faults[o] /\ faults[o] <= 2
<1>2. ASSUME NEW blocked, NEW faults, Fits(blocked, faults)
      PROVE  /\ d \in CircuitState /\ NotTripped(d)
             /\ \A p \in Origin : Settled(w, d, p)
  <2>1. d \in CircuitState
    BY <1>2, Zenon DEF CircuitState
  <2>2. d.blocked = blocked /\ d.faults = faults
    BY <1>2 DEF CircuitState
  <2>3. NotTripped(d)
    BY <1>2, <2>2 DEF NotTripped, Allow
  <2>4. \A p \in Origin : Settled(w, d, p)
    BY <1>2, <2>2 DEF Settled, Allow
  <2>5. QED
    BY <2>1, <2>3, <2>4
<1>3. CASE Stops(response)
  <2> DEFINE blocked == [c.blocked EXCEPT ![o] = "rate-limited"]
  <2>1. d = [c EXCEPT !.blocked[o] = "rate-limited"]
    BY <1>3, Zenon DEF Observe, Stops
  <2>2. d = [c EXCEPT !.blocked = blocked, !.faults = c.faults]
    BY <2>1 DEF CircuitState
  <2>3. /\ blocked \in [Origin -> {"no", "rate-limited", "transport-unavailable"}]
        /\ blocked[o] # "no"
        /\ \A p \in Origin \ {o} : blocked[p] = c.blocked[p]
    BY <1>1
  <2> HIDE DEF blocked
  <2>4. Fits(blocked, c.faults)
    BY <1>1, <2>2, <2>3
  <2> HIDE DEF Fits
  <2>5. QED
    BY <1>2, <2>4, Zenon
<1>4. CASE ~Stops(response) /\ response.status = 0 /\ response.originFault
  <2> DEFINE word == IF c.faults[o] + 1 >= 3 THEN "transport-unavailable" ELSE c.blocked[o]
             blocked == [c.blocked EXCEPT ![o] = word]
             faults == [c.faults EXCEPT ![o] = c.faults[o] + 1]
  <2>1. d = [c EXCEPT !.faults[o] = c.faults[o] + 1, !.blocked[o] = word]
    BY <1>4, Zenon DEF Observe, Stops, MaximumConsecutiveOriginTransportErrors
  <2>2. d = [c EXCEPT !.blocked = blocked, !.faults = faults]
    <3> HIDE DEF word
    <3>1. QED
      BY <2>1 DEF CircuitState
  <2>3. /\ word \in {"no", "rate-limited", "transport-unavailable"}
        /\ word = "no" => c.faults[o] + 1 <= 2
    BY <1>1
  <2>4. /\ blocked \in [Origin -> {"no", "rate-limited", "transport-unavailable"}]
        /\ blocked[o] = word
        /\ \A p \in Origin \ {o} : blocked[p] = c.blocked[p]
    <3> HIDE DEF word
    <3>1. QED
      BY <1>1, <2>3
  <2>5. /\ faults \in [Origin -> 0..3] /\ faults[o] = c.faults[o] + 1
        /\ \A p \in Origin \ {o} : faults[p] = c.faults[p]
    BY <1>1
  <2>6. o \notin w.limited /\ w.streak[o] <= faults[o]
    BY <1>4, <2>5 DEF Lagging
  <2> HIDE DEF blocked, word, faults
  <2>7. Fits(blocked, faults)
    BY <1>1, <2>2, <2>3, <2>4, <2>5, <2>6
  <2> HIDE DEF Fits
  <2>8. QED
    BY <1>2, <2>7, Zenon
<1>5. CASE /\ ~Stops(response) /\ ~(response.status = 0 /\ response.originFault)
           /\ response.status >= 100 /\ response.sent
  <2> DEFINE faults == [c.faults EXCEPT ![o] = 0]
  <2>1. d = [c EXCEPT !.faults[o] = 0]
    BY <1>5, Zenon DEF Observe, Stops
  <2>2. d = [c EXCEPT !.blocked = c.blocked, !.faults = faults]
    BY <2>1 DEF CircuitState
  <2>3. /\ faults \in [Origin -> 0..3] /\ faults[o] = 0
        /\ \A p \in Origin \ {o} : faults[p] = c.faults[p]
    BY <1>1
  <2>4. o \notin w.limited /\ w.streak[o] <= faults[o] /\ faults[o] <= 2
    BY <1>1, <1>5, <2>3 DEF Lagging
  <2> HIDE DEF faults
  <2>5. Fits(c.blocked, faults)
    BY <1>1, <2>2, <2>3, <2>4
  <2> HIDE DEF Fits
  <2>6. QED
    BY <1>2, <2>5, Zenon
<1>6. CASE /\ ~Stops(response) /\ ~(response.status = 0 /\ response.originFault)
           /\ ~(response.status >= 100 /\ response.sent)
  <2>1. d = c
    BY <1>6, Zenon DEF Observe, Stops
  <2>2. ~(response.status >= 100)
    BY <1>6 DEF Lagging
  <2>3. response.status < 100
    BY <1>1, <2>2
  <2>4. Settled(w, c, o)
    BY <1>6, <2>3 DEF Lagging, Settled
  <2>5. QED
    BY <2>1, <2>4
<1>7. QED
  BY <1>3, <1>4, <1>5, <1>6

-----------------------------------------------------------------------------
(* The automate scan                                                       *)

AutoState ==
  [pc : {"idle", "source", "plan", "settle", "over"}, source : Nat, plan : Nat,
   attempt : 0..3, replayed : BOOLEAN, response : Response,
   error : SUBSET {"fatal", "canceled"}]
WrittenState ==
  [results : SUBSET (Source \X Nat), failures : SUBSET Source, parsed : SUBSET Source]

PlansAt(j, a) ==
  BuildRequestPlans(j.documents[j.sources[a.source]], j.config, j.originOf[j.sources[a.source]])
PlanAt(j, a) == PlansAt(j, a)[a.plan]
\* The loops are at a source of the batch, and at a plan of it.
Placed(j, a) ==
  /\ a \in AutoState
  /\ a.pc \in {"source", "plan", "settle"} => a.source \in 1..Len(j.sources)
  /\ a.pc \in {"plan", "settle"} => a.plan \in 1..Len(PlansAt(j, a))
Consented(j) == {request \in PlannedRequest(j.config) : j.client.acceptRisk}

AutoOK(j, a, c, w) ==
  /\ j \in AutomateJob /\ Placed(j, a)
  /\ c \in CircuitState /\ NotTripped(c)
  /\ w \in WireState /\ w.late = {} /\ w.unsafe \subseteq Consented(j)
  /\ a.pc \in {"source", "plan"} => \A o \in Origin : Settled(w, c, o)
  /\ a.pc = "settle" =>
       /\ Lagging(w, c, PlanAt(j, a).origin, a.response)
       /\ \A o \in Origin \ {PlanAt(j, a).origin} : Settled(w, c, o)
       /\ a.response.sent => Sendable(j.client, PlanAt(j, a), TRUE)

LEMMA SourceFacts ==
  ASSUME automateJob \in AutomateJob, auto.source \in 1..Len(automateJob.sources)
  PROVE  /\ CurrentSource \in Source /\ SourceOrigin \in Origin
         /\ PlansOf(CurrentSource) = PlansAt(automateJob, auto)
         /\ PlansOf(CurrentSource) \in Seq(PlannedRequest(automateJob.config))
         /\ FetchRequest(SourceOrigin) \in Request /\ ~Risky(FetchRequest(SourceOrigin))
<1>1. /\ CurrentSource \in Source /\ automateJob.documents[CurrentSource] \in Document
      /\ automateJob.config \in PlanConfig /\ SourceOrigin \in Origin
  BY DEF CurrentSource, SourceOrigin, AutomateJob
<1>2. PlansOf(CurrentSource) \in Seq(PlannedRequest(automateJob.config))
  BY <1>1, RequestPlansTyped DEF PlansOf, SourceOrigin
<1>3. FetchRequest(SourceOrigin) \in Request /\ ~Risky(FetchRequest(SourceOrigin))
  BY <1>1 DEF FetchRequest, Request, Method, Risky, IsUnsafeMethod
<1>4. PlansOf(CurrentSource) = PlansAt(automateJob, auto)
  BY DEF PlansOf, PlansAt, CurrentSource
<1>5. QED
  BY <1>1, <1>2, <1>3, <1>4

LEMMA PlanFacts ==
  ASSUME automateJob \in AutomateJob, Placed(automateJob, auto), auto.pc \in {"plan", "settle"}
  PROVE  /\ CurrentPlan = PlanAt(automateJob, auto)
         /\ CurrentPlan \in PlannedRequest(automateJob.config)
         /\ CurrentPlan \in Request /\ CurrentPlan.origin \in Origin
         /\ auto.plan \in 1..Len(PlansOf(CurrentSource)) /\ CurrentSource \in Source
<1>1. /\ auto.source \in 1..Len(automateJob.sources)
      /\ auto.plan \in 1..Len(PlansAt(automateJob, auto))
  BY DEF Placed
<1>2. /\ PlansOf(CurrentSource) = PlansAt(automateJob, auto) /\ CurrentSource \in Source
      /\ PlansOf(CurrentSource) \in Seq(PlannedRequest(automateJob.config))
  BY <1>1, SourceFacts
<1>3. CurrentPlan = PlanAt(automateJob, auto)
  BY <1>2 DEF CurrentPlan, PlanAt
<1>4. CurrentPlan \in PlannedRequest(automateJob.config)
  BY <1>1, <1>2 DEF CurrentPlan
<1>5. QED
  BY <1>1, <1>2, <1>3, <1>4 DEF PlannedRequest, Request

LEMMA IdleTyped ==
  /\ AutoIdle \in AutoState /\ NewTargetCircuit \in CircuitState
  /\ QuietWire \in WireState /\ NothingWritten \in WrittenState
<1>1. NotSent(0) \in Response
  BY DEF NotSent, Response
<1>2. AutoIdle \in AutoState
  BY <1>1 DEF AutoIdle, AutoState
<1>3. /\ [o \in Origin |-> "no"] \in [Origin -> {"no", "rate-limited", "transport-unavailable"}]
      /\ [o \in Origin |-> 0] \in [Origin -> 0..3] /\ [o \in Origin |-> 0] \in [Origin -> Nat]
  OBVIOUS
<1>4. NewTargetCircuit \in CircuitState
  BY <1>3, Zenon DEF NewTargetCircuit, CircuitState
<1>5. QuietWire \in WireState
  <2>1. {} \in SUBSET Origin /\ {} \in SUBSET Request
    OBVIOUS
  <2>2. QED
    BY <1>3, <2>1, Zenon DEF QuietWire, WireState
<1>6. NothingWritten \in WrittenState
  BY DEF NothingWritten, WrittenState
<1>7. QED
  BY <1>2, <1>4, <1>5, <1>6

LEMMA NextSourcePlaced ==
  ASSUME automateJob \in AutomateJob, auto \in AutoState,
         auto.source \in 1..Len(automateJob.sources)
  PROVE  Placed(automateJob, NextSource) /\ NextSource.pc \in {"source", "over"}
<1>1. Len(automateJob.sources) \in Nat
  BY DEF AutomateJob
<1>2. CASE auto.source = Len(automateJob.sources)
  <2>1. NextSource = [AutoIdle EXCEPT !.pc = "over"]
    BY <1>2 DEF NextSource
  <2>2. NextSource \in AutoState /\ NextSource.pc = "over"
    BY <2>1, IdleTyped DEF AutoState
  <2>3. QED
    BY <2>2 DEF Placed
<1>3. CASE auto.source # Len(automateJob.sources)
  <2>1. NextSource = [AutoIdle EXCEPT !.pc = "source", !.source = auto.source + 1]
    BY <1>3 DEF NextSource
  <2>2. auto.source + 1 \in Nat /\ auto.source + 1 \in 1..Len(automateJob.sources)
    BY <1>1, <1>3
  <2>3. /\ NextSource \in AutoState /\ NextSource.pc = "source"
        /\ NextSource.source = auto.source + 1
    BY <2>1, <2>2, IdleTyped DEF AutoState
  <2>4. QED
    BY <2>2, <2>3 DEF Placed
<1>4. QED
  BY <1>2, <1>3

LEMMA NextPlanPlaced ==
  ASSUME automateJob \in AutomateJob, Placed(automateJob, auto), auto.pc \in {"plan", "settle"}
  PROVE  Placed(automateJob, NextPlan) /\ NextPlan.pc \in {"source", "plan", "over"}
<1>1. /\ auto \in AutoState /\ auto.source \in 1..Len(automateJob.sources)
      /\ auto.plan \in 1..Len(PlansAt(automateJob, auto))
  BY DEF Placed
<1>2. /\ PlansOf(CurrentSource) = PlansAt(automateJob, auto)
      /\ Len(PlansOf(CurrentSource)) \in Nat
  BY <1>1, SourceFacts
<1>3. CASE auto.plan = Len(PlansOf(CurrentSource))
  <2>1. NextPlan = NextSource
    BY <1>3 DEF NextPlan
  <2>2. QED
    BY <1>1, <2>1, NextSourcePlaced
<1>4. CASE auto.plan # Len(PlansOf(CurrentSource))
  <2>1. NextPlan = [AutoIdle EXCEPT !.pc = "plan", !.source = auto.source, !.plan = auto.plan + 1]
    BY <1>4 DEF NextPlan
  <2>2. auto.source \in Nat /\ auto.plan + 1 \in Nat
        /\ auto.plan + 1 \in 1..Len(PlansAt(automateJob, auto))
    BY <1>1, <1>2, <1>4
  <2>3. /\ NextPlan \in AutoState /\ NextPlan.pc = "plan"
        /\ NextPlan.source = auto.source /\ NextPlan.plan = auto.plan + 1
    BY <2>1, <2>2, IdleTyped DEF AutoState
  <2>4. PlansAt(automateJob, NextPlan) = PlansAt(automateJob, auto)
    BY <2>3 DEF PlansAt
  <2>5. QED
    BY <1>1, <2>2, <2>3, <2>4 DEF Placed
<1>5. QED
  BY <1>3, <1>4

LEMMA EndedPlaced ==
  ASSUME NEW j, NEW error \in {"fatal", "canceled"}
  PROVE  Placed(j, Ended(error)) /\ Ended(error).pc = "over"
<1>1. Ended(error) = [AutoIdle EXCEPT !.pc = "over", !.error = {error}]
  BY DEF Ended
<1>2. {error} \in SUBSET {"fatal", "canceled"}
  OBVIOUS
<1>3. Ended(error) \in AutoState /\ Ended(error).pc = "over"
  BY <1>1, <1>2, IdleTyped DEF AutoState
<1>4. QED
  BY <1>3 DEF Placed

LEMMA SkipKeeps ==
  ASSUME NEW c \in CircuitState, NotTripped(c), NEW o \in Origin, NEW w,
         \A p \in Origin : Settled(w, c, p)
  PROVE  /\ Skip(c, o) \in CircuitState /\ NotTripped(Skip(c, o))
         /\ \A p \in Origin : Settled(w, Skip(c, o), p)
<1> DEFINE skipped == [c.skipped EXCEPT ![o] = c.skipped[o] + 1]
<1>1. c.skipped \in [Origin -> Nat]
  BY DEF CircuitState
<1>2. skipped \in [Origin -> Nat]
  BY <1>1
<1>3. Skip(c, o) = [c EXCEPT !.skipped = skipped]
  BY DEF Skip, CircuitState
<1> HIDE DEF skipped
<1>4. Skip(c, o) \in CircuitState
  BY <1>2, <1>3, Zenon DEF CircuitState
<1>5. Skip(c, o).blocked = c.blocked /\ Skip(c, o).faults = c.faults
  BY <1>3 DEF CircuitState
<1>6. NotTripped(Skip(c, o))
  BY <1>5 DEF NotTripped, Allow
<1>7. \A p \in Origin : Settled(w, Skip(c, o), p)
  BY <1>5 DEF Settled, Allow
<1>8. QED
  BY <1>4, <1>6, <1>7

\* What a step of the scan keeps.
AutoStepOK ==
  /\ AutoOK(automateJob, auto', circuit', wire') /\ written' \in WrittenState
  /\ automateJob' = automateJob /\ auto'.pc # "idle"
  /\ wire'.private \subseteq wire.private \cup automateJob.authorized

LEMMA SkipStep ==
  ASSUME AutoOK(automateJob, auto, circuit, wire), written \in WrittenState,
         SkipSource \/ SkipPlan
  PROVE  AutoStepOK
<1>1. /\ automateJob \in AutomateJob /\ Placed(automateJob, auto) /\ auto \in AutoState
      /\ circuit \in CircuitState /\ NotTripped(circuit)
  BY DEF AutoOK, Placed
<1>2. PICK o : o \in Origin /\ circuit' = Skip(circuit, o) /\ Placed(automateJob, auto')
               /\ auto'.pc \in {"source", "plan", "over"}
  <2>1. CASE SkipSource
    <3>1. auto.source \in 1..Len(automateJob.sources)
      BY <1>1, <2>1 DEF SkipSource, Placed
    <3>2. QED
      BY <1>1, <2>1, <3>1, SourceFacts, NextSourcePlaced DEF SkipSource
  <2>2. CASE SkipPlan
    <3>1. auto.pc \in {"plan", "settle"}
      BY <2>2 DEF SkipPlan
    <3>2. QED
      BY <1>1, <2>2, <3>1, PlanFacts, NextPlanPlaced DEF SkipPlan
  <2>3. QED
    BY <2>1, <2>2
<1>3. auto.pc \in {"source", "plan"} /\ UNCHANGED <<automateJob, written, wire>>
  BY DEF SkipSource, SkipPlan
<1>4. \A p \in Origin : Settled(wire, circuit, p)
  BY <1>3 DEF AutoOK
<1>5. /\ circuit' \in CircuitState /\ NotTripped(circuit')
      /\ \A p \in Origin : Settled(wire, circuit', p)
  BY <1>1, <1>2, <1>4, SkipKeeps
<1>6. AutoOK(automateJob, auto', circuit', wire')
  BY <1>1, <1>2, <1>3, <1>5 DEF AutoOK
<1>7. QED
  BY <1>2, <1>3, <1>6 DEF AutoStepOK

LEMMA ScanSourceStep ==
  ASSUME AutoOK(automateJob, auto, circuit, wire), written \in WrittenState,
         NEW event \in Event, ScanSource(event)
  PROVE  AutoStepOK
<1> PICK request : request = FetchRequest(SourceOrigin)
  OBVIOUS
<1> PICK response : response = MakeRequest(automateJob.client, request, FALSE, event)
  OBVIOUS
<1> PICK s : s = CurrentSource
  OBVIOUS
<1> PICK o : o = SourceOrigin
  OBVIOUS
<1> PICK r : r = IF response.sent THEN Arrived(Departed(wire, request), o, response) ELSE wire
  OBVIOUS
<1>1. /\ automateJob \in AutomateJob /\ Placed(automateJob, auto) /\ auto \in AutoState
      /\ circuit \in CircuitState /\ NotTripped(circuit) /\ wire \in WireState
      /\ wire.late = {} /\ wire.unsafe \subseteq Consented(automateJob)
  BY DEF AutoOK, Placed
<1>2. /\ auto.pc = "source" /\ Allow(circuit, o)
      /\ wire' = r /\ circuit' = Observe(circuit, o, response)
      /\ IF SourceFails(response)
           THEN /\ written' = [written EXCEPT !.failures = IF automateJob.batch
                                                           THEN @ \cup {s} ELSE @]
                /\ auto' = IF automateJob.batch THEN NextSource ELSE Ended("fatal")
           ELSE /\ written' = [written EXCEPT !.parsed = @ \cup {s}]
                /\ auto' = IF PlansOf(s) = <<>> THEN NextSource
                           ELSE [auto EXCEPT !.pc = "plan", !.plan = 1]
      /\ automateJob' = automateJob
  <2>1. o = request.origin
    BY DEF FetchRequest
  <2>2. QED
    BY <2>1 DEF ScanSource, OnWire
<1>3. auto.source \in 1..Len(automateJob.sources)
  BY <1>1, <1>2 DEF Placed
<1>4. /\ s \in Source /\ o \in Origin /\ request \in Request /\ ~Risky(request)
      /\ PlansOf(s) = PlansAt(automateJob, auto)
      /\ PlansOf(s) \in Seq(PlannedRequest(automateJob.config)) /\ request.origin = o
  <2>1. request.origin = o
    BY DEF FetchRequest
  <2>2. QED
    BY <1>1, <1>3, <2>1, SourceFacts
<1>5. \A p \in Origin : Settled(wire, circuit, p)
  BY <1>2 DEF AutoOK
<1>6. /\ r \in WireState /\ r.late = wire.late
      /\ r.private \subseteq wire.private \cup automateJob.authorized
      /\ Lagging(r, circuit, o, response)
      /\ \A p \in Origin \ {o} : Settled(r, circuit, p)
      /\ response \in Response
      /\ request \in wire.unsafe \/ r.unsafe = wire.unsafe
      /\ r.unsafe \subseteq wire.unsafe \cup {request}
  <2> DEFINE answer == MakeRequest(automateJob.client, request, FALSE, event)
             q == IF answer.sent THEN Arrived(Departed(wire, request), request.origin, answer)
                  ELSE wire
  <2>1. Allow(circuit, request.origin) /\ FALSE \in BOOLEAN
    BY <1>2, <1>4
  <2>2. /\ q \in WireState /\ q.late = wire.late
        /\ q.private \subseteq wire.private \cup automateJob.authorized
        /\ Lagging(q, circuit, request.origin, answer)
        /\ \A p \in Origin \ {request.origin} : Settled(q, circuit, p)
        /\ answer \in Response
        /\ \/ request \in wire.unsafe
           \/ Risky(request) /\ Sendable(automateJob.client, request, FALSE)
           \/ q.unsafe = wire.unsafe
        /\ q.unsafe \subseteq wire.unsafe \cup {request}
    BY <1>1, <1>4, <1>5, <2>1, Sent
  <2>3. q = r /\ answer = response
    BY <1>4
  <2> HIDE DEF q, answer
  <2>4. QED
    BY <1>4, <2>2, <2>3
<1>7. /\ circuit' \in CircuitState /\ NotTripped(circuit')
      /\ \A p \in Origin : Settled(r, circuit', p)
  BY <1>1, <1>2, <1>4, <1>6, Observed
<1>8. r.unsafe \subseteq Consented(automateJob)
  BY <1>1, <1>6
<1>9. Placed(automateJob, auto') /\ auto'.pc \in {"source", "plan", "over"}
  <2>1. CASE auto' = NextSource
    BY <1>1, <1>3, <2>1, NextSourcePlaced
  <2>2. CASE auto' = Ended("fatal")
    BY <2>2, EndedPlaced
  <2>3. CASE PlansOf(s) # <<>> /\ auto' = [auto EXCEPT !.pc = "plan", !.plan = 1]
    <3>1. 1 \in 1..Len(PlansAt(automateJob, auto))
      BY <1>4, <2>3
    <3>2. /\ auto' \in AutoState /\ auto'.pc = "plan" /\ auto'.source = auto.source
          /\ auto'.plan = 1
      BY <1>1, <2>3, Zeros DEF AutoState
    <3>3. PlansAt(automateJob, auto') = PlansAt(automateJob, auto)
      BY <3>2 DEF PlansAt
    <3>4. QED
      BY <1>3, <3>1, <3>2, <3>3 DEF Placed
  <2>4. QED
    BY <1>2, <2>1, <2>2, <2>3
<1>10. written' \in WrittenState
  <2>1. /\ written.failures \cup {s} \in SUBSET Source /\ written.failures \in SUBSET Source
        /\ written.parsed \cup {s} \in SUBSET Source
    BY <1>4 DEF WrittenState
  <2>2. \/ written' = [written EXCEPT !.failures = written.failures \cup {s}]
        \/ written' = [written EXCEPT !.failures = written.failures]
        \/ written' = [written EXCEPT !.parsed = written.parsed \cup {s}]
    BY <1>2
  <2>3. QED
    BY <2>1, <2>2, Zenon DEF WrittenState
<1>11. AutoOK(automateJob, auto', circuit', wire')
  BY <1>1, <1>2, <1>6, <1>7, <1>8, <1>9 DEF AutoOK
<1>12. QED
  BY <1>2, <1>6, <1>9, <1>10, <1>11 DEF AutoStepOK

LEMMA PlanSent ==
  ASSUME AutoOK(automateJob, auto, circuit, wire), written \in WrittenState,
         auto.pc \in {"plan", "settle"}, Allow(circuit, CurrentPlan.origin),
         \A p \in Origin : Settled(wire, circuit, p), NEW event \in Event,
         OnWire(CurrentPlan, MakeRequest(automateJob.client, CurrentPlan, TRUE, event)),
         auto'.response = MakeRequest(automateJob.client, CurrentPlan, TRUE, event),
         auto'.response \in Response => auto' \in AutoState,
         auto'.pc = "settle", auto'.source = auto.source, auto'.plan = auto.plan,
         UNCHANGED <<automateJob, circuit, written>>
  PROVE  AutoStepOK
<1> PICK request : request = CurrentPlan
  OBVIOUS
<1> PICK response : response = MakeRequest(automateJob.client, request, TRUE, event)
  OBVIOUS
<1> PICK o : o = request.origin
  OBVIOUS
<1>1. /\ automateJob \in AutomateJob /\ Placed(automateJob, auto) /\ auto \in AutoState
      /\ circuit \in CircuitState /\ NotTripped(circuit) /\ wire \in WireState
      /\ wire.late = {} /\ wire.unsafe \subseteq Consented(automateJob)
  BY DEF AutoOK, Placed
<1>2. /\ request = PlanAt(automateJob, auto) /\ request \in PlannedRequest(automateJob.config)
      /\ request \in Request /\ o \in Origin
  BY <1>1, PlanFacts
<1>3. /\ wire' \in WireState /\ wire'.late = wire.late
      /\ wire'.private \subseteq wire.private \cup automateJob.authorized
      /\ Lagging(wire', circuit, o, response)
      /\ \A p \in Origin \ {o} : Settled(wire', circuit, p)
      /\ response \in Response
      /\ response.sent => Sendable(automateJob.client, request, TRUE)
      /\ \/ request \in wire.unsafe
         \/ Risky(request) /\ Sendable(automateJob.client, request, TRUE)
         \/ wire'.unsafe = wire.unsafe
      /\ wire'.unsafe \subseteq wire.unsafe \cup {request}
  <2> DEFINE answer == MakeRequest(automateJob.client, request, TRUE, event)
             q == IF answer.sent THEN Arrived(Departed(wire, request), request.origin, answer)
                  ELSE wire
  <2>1. Allow(circuit, request.origin) /\ TRUE \in BOOLEAN
    BY <1>2
  <2>2. /\ q \in WireState /\ q.late = wire.late
        /\ q.private \subseteq wire.private \cup automateJob.authorized
        /\ Lagging(q, circuit, request.origin, answer)
        /\ \A p \in Origin \ {request.origin} : Settled(q, circuit, p)
        /\ answer \in Response
        /\ answer.sent => Sendable(automateJob.client, request, TRUE)
        /\ \/ request \in wire.unsafe
           \/ Risky(request) /\ Sendable(automateJob.client, request, TRUE)
           \/ q.unsafe = wire.unsafe
        /\ q.unsafe \subseteq wire.unsafe \cup {request}
    BY <1>1, <1>2, <2>1, Sent
  <2>3. q = wire' /\ answer = response
    BY DEF OnWire
  <2> HIDE DEF q, answer
  <2>4. QED
    BY <2>2, <2>3
<1>4. Risky(request) /\ Sendable(automateJob.client, request, TRUE) => automateJob.client.acceptRisk
  BY DEF Risky, Sendable, RefusesUnsafe
<1>5. wire'.unsafe \subseteq Consented(automateJob)
  BY <1>1, <1>2, <1>3, <1>4 DEF Consented
<1>6. PlansAt(automateJob, auto') = PlansAt(automateJob, auto)
      /\ PlanAt(automateJob, auto') = PlanAt(automateJob, auto)
  BY DEF PlansAt, PlanAt
<1>7. auto' \in AutoState /\ auto'.response = response
  BY <1>3
<1>8. Placed(automateJob, auto')
  BY <1>1, <1>6, <1>7 DEF Placed
<1>9. AutoOK(automateJob, auto', circuit', wire')
  BY <1>1, <1>2, <1>3, <1>5, <1>6, <1>7, <1>8 DEF AutoOK
<1>10. QED
  BY <1>3, <1>9 DEF AutoStepOK

LEMMA SendPlanStep ==
  ASSUME AutoOK(automateJob, auto, circuit, wire), written \in WrittenState,
         NEW event \in Event, SendPlan(event)
  PROVE  AutoStepOK
<1> PICK response : response = MakeRequest(automateJob.client, CurrentPlan, TRUE, event)
  OBVIOUS
<1>1. /\ auto.pc = "plan" /\ Allow(circuit, CurrentPlan.origin)
      /\ OnWire(CurrentPlan, response)
      /\ auto' = [auto EXCEPT !.pc = "settle", !.response = response]
      /\ UNCHANGED <<automateJob, circuit, written>>
  BY DEF SendPlan
<1>2. auto \in AutoState /\ \A p \in Origin : Settled(wire, circuit, p)
  BY <1>1 DEF AutoOK, Placed
<1>3. /\ auto'.response = response /\ auto'.pc = "settle" /\ auto'.source = auto.source
      /\ auto'.plan = auto.plan
  BY <1>1, <1>2 DEF AutoState
<1>4. ASSUME response \in Response PROVE auto' \in AutoState
  BY <1>1, <1>2, <1>4 DEF AutoState
<1>5. QED
  BY <1>1, <1>2, <1>3, <1>4, PlanSent

\* A response that is followed up leaves the circuit with nothing to learn.
LEMMA FollowUp ==
  ASSUME AutoOK(automateJob, auto, circuit, wire), auto.pc = "settle",
         auto.response.status >= 100, ~Stops(auto.response)
  PROVE  /\ Allow(circuit, CurrentPlan.origin)
         /\ \A p \in Origin : Settled(wire, circuit, p)
         /\ Sendable(automateJob.client, CurrentPlan, TRUE)
         /\ CurrentPlan.origin \notin wire.limited /\ wire.streak[CurrentPlan.origin] = 0
<1> PICK o : o = CurrentPlan.origin
  OBVIOUS
<1>1. /\ automateJob \in AutomateJob /\ Placed(automateJob, auto)
      /\ circuit \in CircuitState /\ auto.response \in Response
  BY DEF AutoOK, Placed, AutoState
<1>2. CurrentPlan = PlanAt(automateJob, auto) /\ o \in Origin
  BY <1>1, PlanFacts
<1>3. /\ Lagging(wire, circuit, o, auto.response)
      /\ \A p \in Origin \ {o} : Settled(wire, circuit, p)
      /\ auto.response.sent => Sendable(automateJob.client, CurrentPlan, TRUE)
  BY <1>2 DEF AutoOK
<1>4. o \notin wire.limited /\ wire.streak[o] = 0 /\ auto.response.sent /\ Allow(circuit, o)
  BY <1>3 DEF Lagging
<1>5. circuit.faults[o] >= 0
  BY <1>1, <1>2 DEF CircuitState
<1>6. Settled(wire, circuit, o)
  BY <1>4, <1>5 DEF Settled
<1>7. QED
  BY <1>3, <1>4, <1>6

LEMMA SendRetryStep ==
  ASSUME AutoOK(automateJob, auto, circuit, wire), written \in WrittenState,
         NEW event \in Event, NEW identical \in BOOLEAN, SendRetry(event, identical)
  PROVE  AutoStepOK
<1> PICK response : response = MakeRequest(automateJob.client, CurrentPlan, TRUE, event)
  OBVIOUS
<1> DEFINE attempt == IF identical THEN MaxHintRetries ELSE auto.attempt + 1
<1>1. /\ auto.pc = "settle" /\ RetryWanted
      /\ OnWire(CurrentPlan, response)
      /\ auto' = [auto EXCEPT !.response = response, !.attempt = attempt]
      /\ UNCHANGED <<automateJob, circuit, written>>
  BY DEF SendRetry
<1>2. auto \in AutoState
  BY DEF AutoOK, Placed
<1>3. /\ auto.response.status = 401 /\ ~auto.response.low /\ auto.attempt < 3
  BY <1>1 DEF RetryWanted, MaxHintRetries
<1>4. auto.response.status >= 100 /\ ~Stops(auto.response)
  BY <1>3 DEF Stops
<1>5. /\ Allow(circuit, CurrentPlan.origin)
      /\ \A p \in Origin : Settled(wire, circuit, p)
  BY <1>1, <1>4, FollowUp
<1>6. attempt \in 0..3
  BY <1>2, <1>3 DEF AutoState, MaxHintRetries
<1> HIDE DEF attempt
<1>7. /\ auto'.response = response /\ auto'.pc = "settle" /\ auto'.source = auto.source
      /\ auto'.plan = auto.plan
  BY <1>1, <1>2 DEF AutoState
<1>8. ASSUME response \in Response PROVE auto' \in AutoState
  BY <1>1, <1>2, <1>6, <1>8, Zenon DEF AutoState
<1>9. QED
  BY <1>1, <1>5, <1>7, <1>8, PlanSent

LEMMA SendReplayStep ==
  ASSUME AutoOK(automateJob, auto, circuit, wire), written \in WrittenState, SendReplay
  PROVE  AutoStepOK
<1>1. /\ auto.pc = "settle" /\ ReplayWanted
      /\ wire' = Departed(wire, CurrentPlan)
      /\ auto' = [auto EXCEPT !.replayed = TRUE]
      /\ UNCHANGED <<automateJob, circuit, written>>
  BY DEF SendReplay
<1>2. /\ automateJob \in AutomateJob /\ Placed(automateJob, auto) /\ auto \in AutoState
      /\ circuit \in CircuitState /\ NotTripped(circuit) /\ wire \in WireState
      /\ wire.late = {} /\ wire.unsafe \subseteq Consented(automateJob)
  BY DEF AutoOK, Placed
<1>3. /\ CurrentPlan = PlanAt(automateJob, auto)
      /\ CurrentPlan \in PlannedRequest(automateJob.config) /\ CurrentPlan \in Request
  BY <1>1, <1>2, PlanFacts
<1>4. auto.response.status >= 100 /\ ~Stops(auto.response)
  BY <1>1 DEF ReplayWanted, Stops
<1>5. /\ Sendable(automateJob.client, CurrentPlan, TRUE)
      /\ CurrentPlan.origin \notin wire.limited /\ wire.streak[CurrentPlan.origin] < 3
  <2>1. /\ Sendable(automateJob.client, CurrentPlan, TRUE)
        /\ CurrentPlan.origin \notin wire.limited /\ wire.streak[CurrentPlan.origin] = 0
    BY <1>1, <1>4, FollowUp, Zenon
  <2>2. wire.streak[CurrentPlan.origin] < 3
    <3>1. \A n : n = 0 => n < 3
      OBVIOUS
    <3>2. QED
      BY <2>1, <3>1, Zenon
  <2>3. QED
    BY <2>1, <2>2, Zenon
<1>6. /\ wire' \in WireState /\ wire'.late = wire.late /\ wire'.limited = wire.limited
      /\ wire'.streak = wire.streak
      /\ wire'.private \subseteq wire.private \cup automateJob.authorized
      /\ wire'.unsafe = IF Risky(CurrentPlan) THEN wire.unsafe \cup {CurrentPlan} ELSE wire.unsafe
  BY <1>1, <1>2, <1>3, <1>5, Copy
<1>7. Risky(CurrentPlan) => automateJob.client.acceptRisk
  BY <1>5 DEF Risky, Sendable, RefusesUnsafe
<1>8. wire'.unsafe \subseteq Consented(automateJob)
  BY <1>2, <1>3, <1>6, <1>7 DEF Consented
<1>9. /\ auto' \in AutoState /\ auto'.pc = "settle" /\ auto'.source = auto.source
      /\ auto'.plan = auto.plan /\ auto'.response = auto.response
  BY <1>1, <1>2 DEF AutoState
<1>10. PlansAt(automateJob, auto') = PlansAt(automateJob, auto)
       /\ PlanAt(automateJob, auto') = PlanAt(automateJob, auto)
  BY <1>9 DEF PlansAt, PlanAt
<1>11. Placed(automateJob, auto')
  BY <1>1, <1>2, <1>9, <1>10 DEF Placed
<1>12. /\ Lagging(wire', circuit, PlanAt(automateJob, auto).origin, auto.response)
       /\ \A o \in Origin \ {PlanAt(automateJob, auto).origin} : Settled(wire', circuit, o)
       /\ auto.response.sent => Sendable(automateJob.client, PlanAt(automateJob, auto), TRUE)
  BY <1>1, <1>6 DEF AutoOK, Lagging, Settled
<1>13. AutoOK(automateJob, auto', circuit', wire')
  BY <1>1, <1>2, <1>6, <1>8, <1>9, <1>10, <1>11, <1>12 DEF AutoOK
<1>14. QED
  BY <1>1, <1>6, <1>9, <1>13 DEF AutoStepOK

LEMMA RecordResultStep ==
  ASSUME AutoOK(automateJob, auto, circuit, wire), written \in WrittenState, RecordResult
  PROVE  AutoStepOK
<1> PICK o : o = CurrentPlan.origin
  OBVIOUS
<1>1. /\ auto.pc = "settle"
      /\ written' = [written EXCEPT !.results = @ \cup {<<CurrentSource, auto.plan>>}]
      /\ circuit' = Observe(circuit, o, auto.response)
      /\ auto' = NextPlan
      /\ UNCHANGED <<automateJob, wire>>
  BY DEF RecordResult
<1>2. /\ automateJob \in AutomateJob /\ Placed(automateJob, auto) /\ auto \in AutoState
      /\ circuit \in CircuitState /\ NotTripped(circuit) /\ wire \in WireState
      /\ wire.late = {} /\ wire.unsafe \subseteq Consented(automateJob)
      /\ auto.response \in Response
  BY DEF AutoOK, Placed, AutoState
<1>3. CurrentPlan = PlanAt(automateJob, auto) /\ o \in Origin /\ CurrentSource \in Source
  BY <1>1, <1>2, PlanFacts
<1>4. /\ Lagging(wire, circuit, o, auto.response)
      /\ \A p \in Origin \ {o} : Settled(wire, circuit, p)
  BY <1>1, <1>3 DEF AutoOK
<1>5. /\ circuit' \in CircuitState /\ NotTripped(circuit')
      /\ \A p \in Origin : Settled(wire, circuit', p)
  BY <1>1, <1>2, <1>3, <1>4, Observed
<1>6. Placed(automateJob, auto') /\ auto'.pc \in {"source", "plan", "over"}
  BY <1>1, <1>2, NextPlanPlaced
<1>7. written' \in WrittenState
  <2> DEFINE results == written.results \cup {<<CurrentSource, auto.plan>>}
  <2>1. results \in SUBSET (Source \X Nat)
    BY <1>2, <1>3 DEF WrittenState, AutoState
  <2>2. written' = [written EXCEPT !.results = results]
    BY <1>1
  <2> HIDE DEF results
  <2>3. QED
    BY <2>1, <2>2, Zenon DEF WrittenState
<1>8. AutoOK(automateJob, auto', circuit', wire')
  BY <1>1, <1>2, <1>5, <1>6 DEF AutoOK
<1>9. QED
  BY <1>1, <1>6, <1>7, <1>8 DEF AutoStepOK

LEMMA AutomateStepKeeps ==
  ASSUME AutoOK(automateJob, auto, circuit, wire), written \in WrittenState, AutomateNext
  PROVE  AutoStepOK
<1>1. CASE AutomateCanceled
  <2>1. /\ auto' = Ended("canceled")
        /\ UNCHANGED <<automateJob, circuit, written, wire>>
    BY <1>1 DEF AutomateCanceled
  <2>2. Placed(automateJob, auto') /\ auto'.pc = "over"
    BY <2>1, EndedPlaced
  <2>3. AutoOK(automateJob, auto', circuit', wire')
    BY <2>1, <2>2 DEF AutoOK
  <2>4. QED
    BY <2>1, <2>2, <2>3 DEF AutoStepOK
<1>2. CASE SkipSource \/ SkipPlan
  BY <1>2, SkipStep
<1>3. CASE \E event \in Event : \/ ScanSource(event) \/ SendPlan(event)
                                \/ \E identical \in BOOLEAN : SendRetry(event, identical)
  BY <1>3, ScanSourceStep, SendPlanStep, SendRetryStep
<1>4. QED
  BY <1>1, <1>2, <1>3, SendReplayStep, RecordResultStep DEF AutomateNext

-----------------------------------------------------------------------------
(* What a response adds to a scan                                          *)

LEMMA MaxOfTwo ==
  ASSUME NEW a \in Nat, NEW b \in Nat
  PROVE  Max({a, b}) \in Nat /\ a <= Max({a, b}) /\ b <= Max({a, b})
<1>1. \E x \in {a, b} : \A y \in {a, b} : x >= y
  OBVIOUS
<1> DEFINE m == CHOOSE x \in {a, b} : \A y \in {a, b} : x >= y
<1>2. m \in {a, b} /\ \A y \in {a, b} : m >= y
  BY <1>1
<1>3. Max({a, b}) = m
  BY DEF Max
<1> HIDE DEF m
<1>4. QED
  BY <1>2, <1>3

\* r has all that s has, and more that is queued or skipped.
Grows(r, s) ==
  /\ r.pc = s.pc /\ r.index = s.index /\ r.tested = s.tested /\ r.found = s.found
  /\ r.interesting = s.interesting /\ r.shapes = s.shapes /\ r.filtered = s.filtered
  /\ r.limits = s.limits /\ r.faults = s.faults
  /\ s.skipped \subseteq r.skipped /\ Queued(s) \subseteq Queued(r)
Extends(j, list, open, r, s) == r \in ScanState /\ BooksBut(j, list, r, open) /\ Grows(r, s)

LEMMA ExtendsTransitive ==
  ASSUME NEW j, NEW list, NEW open, NEW q, NEW r, NEW s,
         Extends(j, list, open, q, r), Extends(j, list, open, r, s)
  PROVE  Extends(j, list, open, q, s) /\ Covered(r) \subseteq Covered(q)
BY DEF Extends, Grows, Covered

LEMMA ExtendsReflexive ==
  ASSUME NEW j, NEW list, NEW open, NEW s, s \in ScanState, BooksBut(j, list, s, open)
  PROVE  Extends(j, list, open, s, s)
BY DEF Extends, Grows

LEMMA SkippedExtends ==
  ASSUME NEW j, NEW list, NEW open, NEW s \in ScanState, BooksBut(j, list, s, open),
         NEW u \in Url, NEW r, r = [s EXCEPT !.skipped = s.skipped \cup {u}]
  PROVE  Extends(j, list, open, r, s) /\ u \in Covered(r)
<1>1. s.skipped \cup {u} \in SUBSET Url
  BY DEF ScanState
<1>2. r \in ScanState
  BY <1>1, Zenon DEF ScanState
<1>3. /\ r.pc = s.pc /\ r.index = s.index /\ r.tested = s.tested /\ r.found = s.found
      /\ r.interesting = s.interesting /\ r.shapes = s.shapes /\ r.filtered = s.filtered
      /\ r.limits = s.limits /\ r.faults = s.faults /\ r.known = s.known /\ r.queue = s.queue
      /\ r.skipped = s.skipped \cup {u}
  BY DEF ScanState
<1>4. Queued(r) = Queued(s) /\ Pages(r) = Pages(s)
  BY <1>3 DEF Queued, Pages
<1>5. Covered(r) = Covered(s) \cup {u}
  BY <1>3, <1>4 DEF Covered
<1>6. BooksBut(j, list, r, open)
  BY <1>3, <1>4, <1>5 DEF BooksBut
<1>7. Grows(r, s)
  BY <1>3, <1>4 DEF Grows
<1>8. QED
  BY <1>2, <1>5, <1>6, <1>7 DEF Extends

LEMMA QueueCandidateExtends ==
  ASSUME NEW j, GoodJob(j), NEW list \in Seq(Url), NEW open, NEW s \in ScanState,
         BooksBut(j, list, s, open), NEW c \in Candidate
  PROVE  LET r == QueueCandidate(j, s, c)
         IN  Extends(j, list, open, r, s) /\ c.url \in Covered(r)
<1> PICK r : r = QueueCandidate(j, s, c)
  OBVIOUS
<1> PICK u : u = c.url
  OBVIOUS
<1>0. u \in Url
  BY DEF Candidate
<1>1. CASE u \in s.tested \cup Queued(s)
  <2>1. r = s
    BY <1>1 DEF QueueCandidate
  <2>2. QED
    BY <1>1, <2>1, ExtendsReflexive DEF Covered
<1>2. CASE /\ u \notin s.tested \cup Queued(s)
           /\ u \notin s.known /\ Cardinality(s.known) >= j.maxCandidates
  <2>1. r = [s EXCEPT !.skipped = s.skipped \cup {u}]
    BY <1>2, Zenon DEF QueueCandidate
  <2>2. QED
    BY <1>0, <2>1, SkippedExtends
<1>3. CASE /\ u \notin s.tested \cup Queued(s)
           /\ ~(u \notin s.known /\ Cardinality(s.known) >= j.maxCandidates)
  <2> DEFINE known == s.known \cup {u}
             queue == Append(s.queue, c)
  <2>1. r = [s EXCEPT !.known = known, !.queue = queue]
    BY <1>3, Zenon DEF QueueCandidate
  <2>2. known \in SUBSET Url /\ queue \in Seq(Candidate)
    BY <1>0 DEF ScanState
  <2>3. Range(queue) = Range(s.queue) \cup {c}
    <3>1. PICK q : q = s.queue /\ q \in Seq(Candidate)
      BY DEF ScanState
    <3>2. Range(Append(q, c)) = Range(q) \cup {c}
      <4>1. /\ DOMAIN Append(q, c) = 1..(Len(q) + 1) /\ DOMAIN q = 1..Len(q) /\ Len(q) \in Nat
            /\ \A i \in 1..Len(q) : Append(q, c)[i] = q[i]
            /\ Append(q, c)[Len(q) + 1] = c
        BY <3>1
      <4> PICK p : p = Append(q, c)
        OBVIOUS
      <4>2. \A x \in Range(p) : x \in Range(q) \cup {c}
        BY <4>1 DEF Range
      <4>3. c \in Range(p) /\ \A x \in Range(q) : x \in Range(p)
        BY <4>1 DEF Range
      <4>4. QED
        BY <4>2, <4>3
    <3>3. QED
      BY <3>1, <3>2
  <2> HIDE DEF known, queue
  <2>4. r \in ScanState
    BY <2>1, <2>2, Zenon DEF ScanState
  <2>5. /\ r.pc = s.pc /\ r.index = s.index /\ r.tested = s.tested /\ r.found = s.found
        /\ r.interesting = s.interesting /\ r.shapes = s.shapes /\ r.filtered = s.filtered
        /\ r.limits = s.limits /\ r.faults = s.faults /\ r.known = known /\ r.queue = queue
        /\ r.skipped = s.skipped
    BY <2>1 DEF ScanState
  <2>6. Queued(r) = Queued(s) \cup {u} /\ Pages(r) = Pages(s)
    BY <2>3, <2>5 DEF Queued, Pages
  <2>7. Covered(r) = Covered(s) \cup {u}
    BY <2>5, <2>6 DEF Covered
  <2>8. IsFiniteSet(known) /\ Cardinality(known) <= Max({j.maxCandidates, Len(list)})
    <3>1. IsFiniteSet(s.known) /\ Cardinality(s.known) <= Max({j.maxCandidates, Len(list)})
      BY DEF BooksBut
    <3>2. CASE u \in s.known
      <4>1. known = s.known
        BY <3>2 DEF known
      <4>2. QED
        BY <3>1, <4>1
    <3>3. CASE u \notin s.known
      <4>1. /\ IsFiniteSet(known) /\ Cardinality(known) = Cardinality(s.known) + 1
            /\ Cardinality(s.known) \in Nat
        BY <3>1, <3>3, FS_AddElement, FS_CardinalityType DEF known
      <4>2. j.maxCandidates \in Nat /\ Len(list) \in Nat
        BY DEF GoodJob, BruteJob
      <4>3. j.maxCandidates <= Max({j.maxCandidates, Len(list)})
            /\ Max({j.maxCandidates, Len(list)}) \in Nat
        BY <4>2, MaxOfTwo
      <4>4. Cardinality(s.known) < j.maxCandidates
        BY <1>3, <3>3, <4>1, <4>2
      <4>5. QED
        BY <4>1, <4>2, <4>3, <4>4
    <3>4. QED
      BY <3>2, <3>3
  <2>9. BooksBut(j, list, r, open)
    <3>1. /\ Range(list) \cup r.tested \cup Queued(r) \subseteq r.known
          /\ r.known \subseteq Range(list) \cup r.tested \cup Queued(r)
          /\ r.found \subseteq r.known
      BY <2>5, <2>6 DEF BooksBut, known
    <3>2. /\ \A v \in Pages(r) : j.references[v] \subseteq Covered(r)
          /\ \A v \in r.found \ open : j.variations[v] \subseteq Covered(r) \cup Range(list)
      BY <2>5, <2>6, <2>7 DEF BooksBut
    <3>3. QED
      BY <2>5, <2>8, <3>1, <3>2 DEF BooksBut
  <2>10. Grows(r, s)
    BY <2>5, <2>6 DEF Grows
  <2>11. QED
    BY <2>4, <2>7, <2>9, <2>10 DEF Extends
<1>4. QED
  BY <1>1, <1>2, <1>3

LEMMA QueueReferenceExtends ==
  ASSUME NEW j, GoodJob(j), NEW list \in Seq(Url), NEW open, NEW s \in ScanState,
         BooksBut(j, list, s, open), NEW c \in Candidate
  PROVE  LET r == QueueReference(j, s, c)
         IN  Extends(j, list, open, r, s) /\ c.url \in Covered(r)
<1>1. c.url \in Url
  BY DEF Candidate
<1>2. CASE c.depth > MaxReferenceDepth
  <2>1. QueueReference(j, s, c) = [s EXCEPT !.skipped = s.skipped \cup {c.url}]
    BY <1>2, Zenon DEF QueueReference
  <2>2. QED
    BY <1>1, <2>1, SkippedExtends
<1>3. CASE ~(c.depth > MaxReferenceDepth)
  <2>1. QueueReference(j, s, c) = QueueCandidate(j, s, c)
    BY <1>3 DEF QueueReference
  <2>2. QED
    BY <2>1, QueueCandidateExtends
<1>4. QED
  BY <1>2, <1>3

LEMMA QueueVariationExtends ==
  ASSUME NEW j, GoodJob(j), NEW list \in Seq(Url), NEW open, NEW s \in ScanState,
         BooksBut(j, list, s, open), NEW c \in Candidate
  PROVE  LET r == QueueVariation(j, s, c)
         IN  Extends(j, list, open, r, s) /\ c.url \in Covered(r) \cup Range(list)
<1>1. CASE c.url \in s.known
  <2>1. QueueVariation(j, s, c) = s
    BY <1>1 DEF QueueVariation
  <2>2. c.url \in Covered(s) \cup Range(list)
    BY <1>1 DEF BooksBut, Covered
  <2>3. QED
    BY <2>1, <2>2, ExtendsReflexive
<1>2. CASE c.url \notin s.known
  <2>1. QueueVariation(j, s, c) = QueueCandidate(j, s, c)
    BY <1>2 DEF QueueVariation
  <2>2. QED
    BY <2>1, QueueCandidateExtends
<1>3. QED
  BY <1>1, <1>2

LEMMA AsCandidatesFacts ==
  ASSUME NEW urls \in SUBSET Url, IsFiniteSet(urls), NEW depth \in Nat
  PROVE  /\ AsCandidates(urls, depth) \in Seq(Candidate)
         /\ \A u \in urls : \E i \in 1..Len(AsCandidates(urls, depth)) :
              AsCandidates(urls, depth)[i].url = u
<1> PICK order : order = SetToSeq(urls)
  OBVIOUS
<1> PICK n : n = Cardinality(urls)
  OBVIOUS
<1>1. /\ order \in [1..n -> urls] /\ n \in Nat
      /\ \A u \in urls : \E i \in 1..n : order[i] = u
  BY SetToSeqFacts
<1> PICK f : f = [i \in 1..n |-> [url |-> order[i], depth |-> depth]]
  OBVIOUS
<1>2. AsCandidates(urls, depth) = f
  BY <1>1 DEF AsCandidates
<1>3. f \in [1..n -> Candidate] /\ \A i \in 1..n : f[i].url = order[i]
  BY <1>1 DEF Candidate
<1>4. f \in Seq(Candidate) /\ Len(f) = n
  <2>1. \A h, m : m \in Nat /\ h \in [1..m -> Candidate] => h \in Seq(Candidate) /\ Len(h) = m
    OBVIOUS
  <2>2. QED
    BY <1>1, <1>3, <2>1, Zenon
<1>5. QED
  BY <1>1, <1>2, <1>3, <1>4

LEMMA AddReferencesExtends ==
  ASSUME NEW j, GoodJob(j), NEW list \in Seq(Url), NEW s \in ScanState,
         BooksBut(j, list, s, {}), NEW c \in Candidate
  PROVE  LET r == AddReferences(j, s, c)
         IN  Extends(j, list, {}, r, s) /\ j.references[c.url] \subseteq Covered(r)
<1> PICK open : open = {}
  OBVIOUS
<1> PICK urls : urls = j.references[c.url]
  OBVIOUS
<1> PICK references : references = AsCandidates(urls, c.depth + 1)
  OBVIOUS
<1> DEFINE n == Len(references)
           S == {r \in ScanState : Extends(j, list, open, r, s)}
           step(x, k) == QueueReference(j, x, references[k])
           g == [x \in S \X (1..n) |-> step(x[1], x[2])]
           added == CHOOSE f : f = [k \in 0..n |-> IF k = 0 THEN s ELSE step(f[k - 1], k)]
<1>1. urls \in SUBSET Url /\ IsFiniteSet(urls) /\ c.depth + 1 \in Nat
  BY DEF GoodJob, BruteJob, Candidate
<1>2. references \in Seq(Candidate) /\ \A u \in urls : \E i \in 1..n : references[i].url = u
  BY <1>1, AsCandidatesFacts
<1>3. n \in Nat /\ \A k \in 1..n : references[k] \in Candidate
  BY <1>2
<1>4. s \in S
  BY ExtendsReflexive
<1>5. ASSUME NEW x \in S, NEW k \in 1..n
      PROVE  /\ step(x, k) \in S /\ Extends(j, list, open, step(x, k), x)
             /\ references[k].url \in Covered(step(x, k))
  <2>1. x \in ScanState /\ BooksBut(j, list, x, open) /\ Extends(j, list, open, x, s)
    BY DEF Extends
  <2>2. Extends(j, list, open, step(x, k), x) /\ references[k].url \in Covered(step(x, k))
    BY <1>3, <2>1, QueueReferenceExtends
  <2> HIDE DEF step
  <2>3. Extends(j, list, open, step(x, k), s)
    BY <2>1, <2>2, ExtendsTransitive
  <2>4. step(x, k) \in ScanState
    BY <2>2 DEF Extends
  <2>5. QED
    BY <2>2, <2>3, <2>4
<1>6. Body(g, S, n) /\ \A x \in S, k \in 1..n : g[<<x, k>>] = step(x, k)
  <2> HIDE DEF step, n, S
  <2>1. QED
    BY <1>5 DEF Body
<1> HIDE DEF g, n, S, step
<1>7. PICK f : Rounds(f, g, s, S, n)
  BY <1>3, <1>4, <1>6, LoopRuns
<1>8. f = [k \in 0..n |-> IF k = 0 THEN s ELSE step(f[k - 1], k)]
  <2>1. \A i \in 1..n : f[i - 1] \in S
    BY <1>3, <1>7 DEF Rounds
  <2>2. \A i \in 1..n : f[i] = step(f[i - 1], i)
    BY <1>6, <1>7, <2>1 DEF Rounds
  <2>3. QED
    BY <1>3, <1>7, <2>2 DEF Rounds
<1>9. added = [k \in 0..n |-> IF k = 0 THEN s ELSE step(added[k - 1], k)]
  BY <1>8, Zenon
<1>10. added[0] = s /\ \A i \in 1..n : added[i] = step(added[i - 1], i)
  <2> HIDE DEF added
  <2>1. QED
    BY <1>3, <1>9
<1> DEFINE T == {i \in Nat : i <= n => /\ added[i] \in S
                                       /\ \A k \in 1..i : references[k].url \in Covered(added[i])}
<1>11. n \in T
  <2> HIDE DEF added
  <2>1. 0 \in T
    BY <1>4, <1>10
  <2>2. ASSUME NEW i \in Nat, i \in T PROVE i + 1 \in T
    <3> SUFFICES ASSUME i + 1 <= n
                 PROVE  /\ added[i + 1] \in S
                        /\ \A k \in 1..(i + 1) : references[k].url \in Covered(added[i + 1])
      OBVIOUS
    <3>1. /\ added[i] \in S /\ \A k \in 1..i : references[k].url \in Covered(added[i])
          /\ i + 1 \in 1..n
      BY <1>3, <2>2
    <3>2. added[i + 1] = step(added[i], i + 1)
      BY <1>10, <3>1
    <3>3. /\ added[i + 1] \in S /\ Extends(j, list, open, added[i + 1], added[i])
          /\ references[i + 1].url \in Covered(added[i + 1])
      BY <1>5, <3>1, <3>2
    <3>4. Covered(added[i]) \subseteq Covered(added[i + 1])
      BY <3>3 DEF Extends, Grows, Covered
    <3>5. QED
      BY <3>1, <3>3, <3>4
  <2>3. Nat \subseteq T
    <3> HIDE DEF T
    <3> QED BY <2>1, <2>2, NatSetInduction
  <2>4. QED
    BY <1>3, <2>3
<1>12. added[n] \in S /\ \A k \in 1..n : references[k].url \in Covered(added[n])
  BY <1>3, <1>11
<1>13. urls \subseteq Covered(added[n])
  BY <1>2, <1>12, SMTT(30) DEF n
<1>14. AddReferences(j, s, c) = added[n]
  BY Zenon DEF AddReferences, n, step
<1>15. QED
  BY <1>12, <1>13, <1>14 DEF S

LEMMA AddSpecExtends ==
  ASSUME NEW j, GoodJob(j), NEW list \in Seq(Url), NEW s \in ScanState,
         BooksBut(j, list, s, {}), NEW c \in Candidate, c.url \in s.known
  PROVE  LET r == AddSpec(j, s, c)
             base == [s EXCEPT !.found = s.found \cup {c.url}]
         IN  Extends(j, list, {c.url}, r, base)
             /\ j.variations[c.url] \subseteq Covered(r) \cup Range(list)
<1> PICK open : open = {c.url}
  OBVIOUS
<1> PICK base : base = [s EXCEPT !.found = s.found \cup {c.url}]
  OBVIOUS
<1> PICK urls : urls = j.variations[c.url]
  OBVIOUS
<1> PICK variations : variations = AsCandidates(urls, c.depth)
  OBVIOUS
<1> DEFINE n == Len(variations)
           S == {r \in ScanState : Extends(j, list, open, r, base)}
           step(x, k) == QueueVariation(j, x, variations[k])
           g == [x \in S \X (1..n) |-> step(x[1], x[2])]
           added == CHOOSE f : f = [k \in 0..n |-> IF k = 0 THEN base ELSE step(f[k - 1], k)]
<1>1. urls \in SUBSET Url /\ IsFiniteSet(urls) /\ c.depth \in Nat
  BY DEF GoodJob, BruteJob, Candidate
<1>2. variations \in Seq(Candidate) /\ \A u \in urls : \E i \in 1..n : variations[i].url = u
  BY <1>1, AsCandidatesFacts
<1>3. n \in Nat /\ \A k \in 1..n : variations[k] \in Candidate
  BY <1>2
<1>4. base \in S
  <2>1. s.found \cup {c.url} \in SUBSET Url
    BY DEF ScanState, Candidate
  <2>2. base \in ScanState
    BY <2>1, Zenon DEF ScanState
  <2>3. /\ base.tested = s.tested /\ base.known = s.known /\ base.queue = s.queue
        /\ base.found = s.found \cup open /\ base.interesting = s.interesting
        /\ base.shapes = s.shapes /\ base.skipped = s.skipped /\ base.filtered = s.filtered
    BY DEF ScanState
  <2>4. Queued(base) = Queued(s) /\ Pages(base) = Pages(s) /\ Covered(base) = Covered(s)
    BY <2>3 DEF Queued, Pages, Covered
  <2>5. BooksBut(j, list, base, open)
    BY <2>3, <2>4 DEF BooksBut
  <2>6. QED
    BY <2>2, <2>5, ExtendsReflexive
<1>5. ASSUME NEW x \in S, NEW k \in 1..n
      PROVE  /\ step(x, k) \in S /\ Extends(j, list, open, step(x, k), x)
             /\ variations[k].url \in Covered(step(x, k)) \cup Range(list)
  <2>1. x \in ScanState /\ BooksBut(j, list, x, open) /\ Extends(j, list, open, x, base)
    BY DEF Extends
  <2>2. /\ Extends(j, list, open, step(x, k), x)
        /\ variations[k].url \in Covered(step(x, k)) \cup Range(list)
    BY <1>3, <2>1, QueueVariationExtends
  <2> HIDE DEF step
  <2>3. Extends(j, list, open, step(x, k), base)
    BY <2>1, <2>2, ExtendsTransitive
  <2>4. step(x, k) \in ScanState
    BY <2>2 DEF Extends
  <2>5. QED
    BY <2>2, <2>3, <2>4
<1>6. Body(g, S, n) /\ \A x \in S, k \in 1..n : g[<<x, k>>] = step(x, k)
  <2> HIDE DEF step, n, S
  <2>1. QED
    BY <1>5 DEF Body
<1> HIDE DEF g, n, S, step
<1>7. PICK f : Rounds(f, g, base, S, n)
  BY <1>3, <1>4, <1>6, LoopRuns
<1>8. f = [k \in 0..n |-> IF k = 0 THEN base ELSE step(f[k - 1], k)]
  <2>1. \A i \in 1..n : f[i - 1] \in S
    BY <1>3, <1>7 DEF Rounds
  <2>2. \A i \in 1..n : f[i] = step(f[i - 1], i)
    BY <1>6, <1>7, <2>1 DEF Rounds
  <2>3. QED
    BY <1>3, <1>7, <2>2 DEF Rounds
<1>9. added = [k \in 0..n |-> IF k = 0 THEN base ELSE step(added[k - 1], k)]
  BY <1>8, Zenon
<1>10. added[0] = base /\ \A i \in 1..n : added[i] = step(added[i - 1], i)
  <2> HIDE DEF added
  <2>1. QED
    BY <1>3, <1>9, SMTT(30)
<1> DEFINE T == {i \in Nat : i <= n =>
                   /\ added[i] \in S
                   /\ \A k \in 1..i : variations[k].url \in Covered(added[i]) \cup Range(list)}
<1>11. n \in T
  <2> HIDE DEF added
  <2>1. 0 \in T
    BY <1>4, <1>10
  <2>2. ASSUME NEW i \in Nat, i \in T PROVE i + 1 \in T
    <3> SUFFICES ASSUME i + 1 <= n
                 PROVE  /\ added[i + 1] \in S
                        /\ \A k \in 1..(i + 1) :
                             variations[k].url \in Covered(added[i + 1]) \cup Range(list)
      OBVIOUS
    <3>1. /\ added[i] \in S
          /\ \A k \in 1..i : variations[k].url \in Covered(added[i]) \cup Range(list)
          /\ i + 1 \in 1..n
      BY <1>3, <2>2
    <3>2. added[i + 1] = step(added[i], i + 1)
      BY <1>10, <3>1
    <3>3. /\ added[i + 1] \in S /\ Extends(j, list, open, added[i + 1], added[i])
          /\ variations[i + 1].url \in Covered(added[i + 1]) \cup Range(list)
      BY <1>5, <3>1, <3>2
    <3>4. Covered(added[i]) \subseteq Covered(added[i + 1])
      BY <3>3 DEF Extends, Grows, Covered
    <3>5. QED
      BY <3>1, <3>3, <3>4
  <2>3. Nat \subseteq T
    <3> HIDE DEF T
    <3> QED BY <2>1, <2>2, NatSetInduction
  <2>4. QED
    BY <1>3, <2>3
<1>12. added[n] \in S /\ \A k \in 1..n : variations[k].url \in Covered(added[n]) \cup Range(list)
  <2> HIDE DEF added
  <2>1. QED
    BY <1>3, <1>11
<1>13. urls \subseteq Covered(added[n]) \cup Range(list)
  <2> HIDE DEF added
  <2>1. QED
    BY <1>2, <1>12 DEF n
<1>14. AddSpec(j, s, c) = added[n]
  BY Zenon DEF AddSpec, n, step
<1>15. QED
  BY <1>12, <1>13, <1>14 DEF S

\* The state in which a candidate's response arrives.
Fetched(s, c) == [s EXCEPT !.tested = s.tested \cup {c.url}, !.known = s.known \cup {c.url}]

LEMMA FetchedTyped ==
  ASSUME NEW s \in ScanState, NEW c \in Candidate
  PROVE  LET f == Fetched(s, c)
         IN  /\ f \in ScanState /\ SamePlace(f, s) /\ f.tested = s.tested \cup {c.url}
             /\ f.known = s.known \cup {c.url} /\ f.queue = s.queue /\ f.found = s.found
             /\ f.interesting = s.interesting /\ f.shapes = s.shapes /\ f.skipped = s.skipped
             /\ f.filtered = s.filtered
<1> PICK f : f = Fetched(s, c)
  OBVIOUS
<1>1. s.tested \cup {c.url} \in SUBSET Url /\ s.known \cup {c.url} \in SUBSET Url
  BY DEF ScanState, Candidate
<1>2. f \in ScanState
  BY <1>1, Zenon DEF Fetched, ScanState
<1>3. QED
  BY <1>2 DEF Fetched, ScanState, SamePlace

LEMMA SameTransitive ==
  ASSUME NEW q, NEW r, NEW s, SameBooks(q, r), SamePlace(q, r), SameBooks(r, s), SamePlace(r, s)
  PROVE  SameBooks(q, s) /\ SamePlace(q, s)
BY DEF SameBooks, SamePlace

OneMore(long, short, last) ==
  \A i \in DOMAIN long : (i \in DOMAIN short /\ long[i] = short[i]) \/ long[i] = last

LEMMA AppendPage ==
  ASSUME NEW old \in Seq(PageShape), NEW new \in PageShape
  PROVE  Append(old, new) \in Seq(PageShape) /\ OneMore(Append(old, new), old, new)
BY DEF OneMore

NowTested(r, s, c) == r.tested = s.tested \cup {c.url}

LEMMA ProcessKeeps ==
  ASSUME NEW j, GoodJob(j), NEW t, NEW list \in Seq(Url), NEW s \in ScanState, NEW c \in Candidate,
         NEW event \in BruteEvent, Books(j, list, Fetched(s, c))
  PROVE  LET r == ProcessCandidate(j, t, s, c, event)
         IN  /\ r \in ScanState /\ Books(j, list, r) /\ SamePlace(r, s)
             /\ NowTested(r, s, c)
<1> PICK f : f = Fetched(s, c)
  OBVIOUS
<1> DEFINE mute == [f EXCEPT !.down = 0, !.shape = "none", !.faults = f.faults + 1]
           silent == RecordWAFChallengeLimit(j, t, mute, FALSE)
           heard == [f EXCEPT !.faults = 0]
           limited == RecordResponseLimit(heard, event)
           challenged(challenge) == RecordWAFChallengeLimit(j, t, limited, challenge)
           r == ProcessCandidate(j, t, s, c, event)
<1>1. f \in ScanState /\ SamePlace(f, s) /\ f.tested = s.tested \cup {c.url} /\ c.url \in f.known
  BY FetchedTyped
<1>2. Books(j, list, f)
  OBVIOUS
<1>3. ASSUME NEW q \in ScanState, SameBooks(q, f), SamePlace(q, f)
      PROVE  q \in ScanState /\ Books(j, list, q) /\ SamePlace(q, s) /\ q.tested = s.tested \cup {c.url}
  BY <1>1, <1>2, <1>3, BooksOfSame DEF Books, SamePlace, SameBooks
<1>4. mute \in ScanState /\ SameBooks(mute, f) /\ SamePlace(mute, f)
  <2>1. f.faults + 1 \in Nat
    BY <1>1 DEF ScanState
  <2>2. mute \in ScanState
    BY <1>1, <2>1, Zeros, Zenon DEF ScanState
  <2>3. QED
    BY <1>1, <2>2 DEF ScanState, SameBooks, SamePlace
<1>5. heard \in ScanState /\ SameBooks(heard, f) /\ SamePlace(heard, f)
  <2>1. heard \in ScanState
    BY <1>1, Zeros, Zenon DEF ScanState
  <2>2. QED
    BY <1>1, <2>1 DEF ScanState, SameBooks, SamePlace
<1> HIDE DEF mute, heard
<1>6. silent \in ScanState /\ SameBooks(silent, f) /\ SamePlace(silent, f)
  <2>1. FALSE \in BOOLEAN
    OBVIOUS
  <2>2. silent \in ScanState /\ SameBooks(silent, mute) /\ SamePlace(silent, mute)
    BY <1>4, <2>1, WAFLimitKeeps
  <2> HIDE DEF silent
  <2>3. QED
    BY <1>4, <2>2, SameTransitive
<1>7. limited \in ScanState /\ SameBooks(limited, f) /\ SamePlace(limited, f)
  <2>1. limited \in ScanState /\ SameBooks(limited, heard) /\ SamePlace(limited, heard)
    BY <1>5, ResponseLimitKeeps
  <2> HIDE DEF limited
  <2>2. QED
    BY <1>5, <2>1, SameTransitive
<1> HIDE DEF limited
<1>8. ASSUME NEW challenge \in BOOLEAN
      PROVE  /\ challenged(challenge) \in ScanState /\ SameBooks(challenged(challenge), f)
             /\ SamePlace(challenged(challenge), f)
  <2>1. /\ challenged(challenge) \in ScanState /\ SameBooks(challenged(challenge), limited)
        /\ SamePlace(challenged(challenge), limited)
    BY <1>7, WAFLimitKeeps
  <2> HIDE DEF challenged
  <2>2. QED
    BY <1>7, <2>1, SameTransitive
<1>9. r = CASE event.kind = "none" -> silent
          [] event.kind = "empty" -> challenged(FALSE)
          [] event.kind \in {"challenge", "challenge2xx"} -> challenged(TRUE)
          [] event.kind = "spec" -> AddSpec(j, challenged(FALSE), c)
          [] event.kind = "page" ->
               AddInteresting(j, AddReferences(j, challenged(FALSE), c), c, event)
          [] OTHER -> challenged(FALSE)
  BY Zenon DEF ProcessCandidate, Fetched, mute, heard, limited
<1> PICK calm : calm = challenged(FALSE)
  OBVIOUS
<1> PICK alarm : alarm = challenged(TRUE)
  OBVIOUS
<1> PICK still : still = silent
  OBVIOUS
<1>10. /\ calm \in ScanState /\ SameBooks(calm, f) /\ SamePlace(calm, f)
       /\ alarm \in ScanState /\ SameBooks(alarm, f) /\ SamePlace(alarm, f)
       /\ still \in ScanState /\ SameBooks(still, f) /\ SamePlace(still, f)
  <2>1. TRUE \in BOOLEAN /\ FALSE \in BOOLEAN
    OBVIOUS
  <2> HIDE DEF challenged, silent
  <2>2. QED
    BY <1>6, <1>8, <2>1
<1>11. r = CASE event.kind = "none" -> still
           [] event.kind = "empty" -> calm
           [] event.kind \in {"challenge", "challenge2xx"} -> alarm
           [] event.kind = "spec" -> AddSpec(j, calm, c)
           [] event.kind = "page" -> AddInteresting(j, AddReferences(j, calm, c), c, event)
           [] OTHER -> calm
  <2> HIDE DEF challenged, silent, r
  <2>1. QED
    BY <1>9
<1> HIDE DEF silent, challenged, r
<1>12. /\ BooksBut(j, list, calm, {}) /\ calm.tested = s.tested \cup {c.url} /\ SamePlace(calm, s)
       /\ c.url \in calm.known
  <2>1. Books(j, list, calm) /\ calm.tested = s.tested \cup {c.url} /\ SamePlace(calm, s)
    BY <1>3, <1>10
  <2>2. calm.known = f.known
    BY <1>10 DEF SameBooks
  <2>3. QED
    BY <1>1, <2>1, <2>2 DEF Books
<1>13. CASE event.kind = "spec"
  <2>1. r = AddSpec(j, calm, c)
    BY <1>11, <1>13
  <2> PICK base : base = [calm EXCEPT !.found = calm.found \cup {c.url}]
    OBVIOUS
  <2>2. /\ Extends(j, list, {c.url}, r, base)
        /\ j.variations[c.url] \subseteq Covered(r) \cup Range(list)
    BY <1>10, <1>12, <2>1, AddSpecExtends
  <2>3. base.pc = calm.pc /\ base.index = calm.index /\ base.tested = calm.tested
    BY <1>10 DEF ScanState
  <2>4. r \in ScanState /\ BooksBut(j, list, r, {c.url}) /\ Grows(r, base)
    BY <2>2 DEF Extends
  <2>5. BooksBut(j, list, r, {})
    BY <2>2, <2>4 DEF BooksBut
  <2>6. SamePlace(r, s) /\ r.tested = s.tested \cup {c.url}
    BY <1>12, <2>3, <2>4 DEF Grows, SamePlace
  <2>7. QED
    BY <2>4, <2>5, <2>6 DEF Books, NowTested, r
<1>14. CASE event.kind = "page"
  <2> PICK q : q = AddReferences(j, calm, c)
    OBVIOUS
  <2>1. r = AddInteresting(j, q, c, event)
    BY <1>11, <1>14
  <2>2. Extends(j, list, {}, q, calm) /\ j.references[c.url] \subseteq Covered(q)
    BY <1>10, <1>12, AddReferencesExtends
  <2>3. q \in ScanState /\ BooksBut(j, list, q, {}) /\ Grows(q, calm)
    BY <2>2 DEF Extends
  <2>4. SamePlace(q, s) /\ q.tested = s.tested \cup {c.url}
    BY <1>12, <2>3 DEF Grows, SamePlace
  <2>5. CASE r = q
    BY <2>3, <2>4, <2>5 DEF Books, NowTested, r
  <2>6. CASE r # q
    <3> DEFINE shape == [url |-> c.url, exact |-> event.exact]
               interesting == q.interesting \cup {c.url}
               shapes == Append(q.shapes, shape)
    <3>1. r = [q EXCEPT !.interesting = interesting, !.shapes = shapes]
      BY <2>1, <2>6, Zenon DEF AddInteresting
    <3>2. shape \in PageShape /\ interesting \in SUBSET Url /\ q.shapes \in Seq(PageShape)
      BY <2>3 DEF BruteEvent, Candidate, PageShape, ScanState
    <3>3. shape.url = c.url
      OBVIOUS
    <3> HIDE DEF shape
    <3>4. /\ shapes \in Seq(PageShape)
          /\ OneMore(shapes, q.shapes, shape)
      BY <3>2, AppendPage, Zenon
    <3> HIDE DEF interesting, shapes
    <3>5. r \in ScanState
      BY <2>3, <3>1, <3>2, <3>4, Zenon DEF ScanState
    <3>6. /\ r.pc = q.pc /\ r.index = q.index /\ r.tested = q.tested /\ r.known = q.known
          /\ r.queue = q.queue /\ r.found = q.found /\ r.skipped = q.skipped
          /\ r.filtered = q.filtered /\ r.interesting = interesting /\ r.shapes = shapes
      BY <2>3, <3>1 DEF ScanState
    <3>7. Queued(r) = Queued(q)
      BY <3>6 DEF Queued
    <3>8. Covered(r) = Covered(q)
      BY <3>6, <3>7 DEF Covered
    <3>9. Pages(r) \subseteq Pages(q) \cup {c.url}
      <4> SUFFICES ASSUME NEW u \in Pages(r) PROVE u \in Pages(q) \cup {c.url}
        OBVIOUS
      <4>1. CASE \E i \in DOMAIN shapes : u = shapes[i].url
        <5>1. PICK i \in DOMAIN shapes : u = shapes[i].url
          BY <4>1
        <5>2. (i \in DOMAIN q.shapes /\ u = q.shapes[i].url) \/ u = c.url
          BY <3>3, <3>4, <5>1 DEF OneMore
        <5>3. QED
          BY <5>2 DEF Pages
      <4>2. CASE u \in interesting \cup q.filtered
        BY <4>2 DEF Pages, interesting
      <4>3. QED
        BY <3>6, <4>1, <4>2 DEF Pages
    <3>10. BooksBut(j, list, r, {})
      BY <2>2, <2>3, <3>6, <3>7, <3>8, <3>9 DEF BooksBut
    <3>11. QED
      BY <2>4, <3>5, <3>6, <3>10 DEF Books, SamePlace, NowTested, r
  <2>7. QED
    BY <2>5, <2>6
<1>15. CASE event.kind \notin {"spec", "page"}
  <2>1. r = still \/ r = calm \/ r = alarm
    BY <1>11, <1>15
  <2>2. QED
    BY <1>3, <1>10, <2>1 DEF NowTested, r
<1>16. QED
  BY <1>13, <1>14, <1>15

-----------------------------------------------------------------------------
(* The loop of one scan                                                    *)

Tested(list, s, n) == \A k \in 1..n : list[k] \in s.tested
\* Whatever state a scan is in, and what more is known of it where it is.
Bounded(j, list, s) ==
  /\ IsFiniteSet(s.known) /\ s.found \subseteq s.known
  /\ Cardinality(s.known) <= Max({j.maxCandidates, Len(list)})
ScanOK(j, list, s) ==
  /\ s \in ScanState /\ Bounded(j, list, s)
  /\ Running(s) => Books(j, list, s) /\ s.index \in 1..Len(list)
  /\ s.pc = "candidates" => Tested(list, s, s.index - 1)
  /\ s.pc = "variations" => Tested(list, s, s.index) /\ s.queue # <<>>
  /\ s.pc = "done" /\ s.limits = {} =>
       /\ Books(j, list, s) /\ s.queue = <<>>
       /\ s.found = {} => Tested(list, s, Len(list))

LEMMA FinishedFacts ==
  ASSUME NEW s \in ScanState
  PROVE  LET r == Finished(s)
         IN  /\ r \in ScanState /\ r.pc = "done" /\ r.tested = s.tested /\ r.known = s.known
             /\ r.queue = s.queue /\ r.found = s.found /\ r.skipped = s.skipped
             /\ r.shapes = s.shapes /\ r.limits = s.limits /\ Pages(r) \subseteq Pages(s)
<1> PICK d : d = [s EXCEPT !.pc = "done"]
  OBVIOUS
<1> PICK r : r = Finished(s)
  OBVIOUS
<1>1. d \in ScanState
  <2>1. "done" \in ScanPc
    BY DEF ScanPc
  <2>2. QED
    BY <2>1, Zenon DEF ScanState
<1>2. /\ d.pc = "done" /\ d.tested = s.tested /\ d.known = s.known /\ d.queue = s.queue
      /\ d.found = s.found /\ d.skipped = s.skipped /\ d.limits = s.limits
      /\ d.shapes = s.shapes /\ d.interesting = s.interesting /\ d.filtered = s.filtered
  BY DEF ScanState
<1>3. Pages(d) = Pages(s)
  BY <1>2 DEF Pages
<1>4. r = FilterWildcardResponses(d)
  BY DEF Finished
<1>5. CASE r = d
  BY <1>1, <1>2, <1>3, <1>5
<1>6. CASE r # d
  <2> DEFINE same(shape) == Cardinality({i \in DOMAIN d.shapes : d.shapes[i].exact = shape.exact})
             chosen == {k \in DOMAIN d.shapes : \/ same(d.shapes[k]) >= MinExactWildcard
                                                \/ Len(d.shapes) >= MinSizeWildcard}
             wildcard == {d.shapes[i].url : i \in chosen}
             interesting == d.interesting \ wildcard
  <2>1. r = [d EXCEPT !.interesting = interesting, !.filtered = wildcard]
    BY <1>4, <1>6, Zenon DEF FilterWildcardResponses
  <2>2. chosen \subseteq DOMAIN d.shapes
    OBVIOUS
  <2> HIDE DEF chosen
  <2>3. wildcard \subseteq {d.shapes[i].url : i \in DOMAIN d.shapes}
    BY <2>2
  <2>4. \A i \in DOMAIN d.shapes : d.shapes[i].url \in Url
    <3>1. d.shapes \in Seq(PageShape)
      BY <1>1 DEF ScanState
    <3>2. \A i \in DOMAIN d.shapes : d.shapes[i] \in PageShape
      BY <3>1
    <3>3. QED
      BY <3>2 DEF PageShape
  <2>5. wildcard \in SUBSET Url /\ interesting \in SUBSET Url
    BY <1>1, <2>2, <2>4 DEF ScanState
  <2>6. interesting \subseteq d.interesting
    OBVIOUS
  <2> HIDE DEF wildcard, interesting
  <2>7. r \in ScanState
    BY <1>1, <2>1, <2>5, ZenonT(40) DEF ScanState
  <2>8. /\ r.pc = d.pc /\ r.tested = d.tested /\ r.known = d.known /\ r.queue = d.queue
        /\ r.found = d.found /\ r.skipped = d.skipped /\ r.limits = d.limits
        /\ r.shapes = d.shapes /\ r.interesting = interesting /\ r.filtered = wildcard
    BY <1>1, <2>1 DEF ScanState
  <2>9. Pages(r) \subseteq Pages(d)
    BY <2>3, <2>6, <2>8 DEF Pages
  <2>10. QED
    BY <1>2, <1>3, <2>7, <2>8, <2>9
<1>7. QED
  BY <1>5, <1>6

LEMMA FinishedBooks ==
  ASSUME NEW j, NEW list, NEW s \in ScanState, Books(j, list, s)
  PROVE  Books(j, list, Finished(s))
<1> PICK r : r = Finished(s)
  OBVIOUS
<1>1. /\ r.tested = s.tested /\ r.known = s.known
      /\ r.queue = s.queue /\ r.found = s.found /\ r.skipped = s.skipped
      /\ Pages(r) \subseteq Pages(s)
  BY FinishedFacts
<1>2. Queued(r) = Queued(s) /\ Covered(r) = Covered(s)
  BY <1>1 DEF Queued, Covered
<1>3. QED
  BY <1>1, <1>2 DEF Books, BooksBut

LEMMA AfterCandidateKeeps ==
  ASSUME NEW j, GoodJob(j), NEW t \in Target, NEW s \in ScanState,
         Books(j, j.candidates[t], s), s.index \in 1..Len(j.candidates[t]),
         Tested(j.candidates[t], s, s.index)
  PROVE  ScanOK(j, j.candidates[t], AfterCandidate(j, t, s))
<1> PICK list : list = j.candidates[t]
  OBVIOUS
<1> PICK r : r = AfterCandidate(j, t, s)
  OBVIOUS
<1>1. list \in Seq(Url) /\ Len(list) \in Nat /\ s.index \in Nat
  BY DEF GoodJob, BruteJob
<1>2. Bounded(j, list, s)
  BY DEF Books, BooksBut, Bounded
<1>3. CASE ScanLimitReached(s)
  <2>1. PICK empty : empty = <<>>
    OBVIOUS
  <2> DEFINE limits == IF s.faults >= MaxConsecutive THEN s.limits \cup {"transport"} ELSE s.limits
             e == [s EXCEPT !.queue = empty, !.limits = limits]
  <2>2. r = Finished(e)
    BY <1>3, <2>1, Zenon DEF AfterCandidate
  <2>3. limits \in SUBSET Limit /\ limits # {} /\ empty \in Seq(Candidate)
    <3>1. s.limits \in SUBSET Limit
      BY DEF ScanState
    <3>2. limits \in SUBSET Limit /\ limits # {}
      BY <1>3, <3>1 DEF ScanLimitReached, Limit
    <3>3. <<>> \in Seq(Candidate)
      OBVIOUS
    <3>4. QED
      BY <2>1, <3>2, <3>3
  <2> HIDE DEF limits
  <2>4. e \in ScanState
    BY <2>3, Zenon DEF ScanState
  <2>5. e.limits = limits /\ e.known = s.known /\ e.found = s.found
    BY <2>3 DEF ScanState
  <2> HIDE DEF e
  <2>6. /\ r \in ScanState /\ r.pc = "done" /\ r.known = s.known /\ r.found = s.found
        /\ r.limits # {}
    BY <2>2, <2>3, <2>4, <2>5, FinishedFacts
  <2>7. QED
    BY <1>2, <2>6 DEF ScanOK, Bounded, Running
<1>4. CASE ~ScanLimitReached(s) /\ s.queue # <<>>
  <2>1. r = [s EXCEPT !.pc = "variations"]
    BY <1>4 DEF AfterCandidate
  <2>2. r \in ScanState
    <3>1. "variations" \in ScanPc
      BY DEF ScanPc
    <3>2. QED
      BY <2>1, <3>1, Zenon DEF ScanState
  <2>3. SameBooks(r, s) /\ r.index = s.index /\ r.pc = "variations" /\ r.queue = s.queue
    BY <2>1 DEF ScanState, SameBooks
  <2>4. Books(j, list, r)
    BY <2>3, BooksOfSame DEF Books
  <2>5. Bounded(j, list, r) /\ Tested(list, r, r.index)
    BY <1>2, <2>3 DEF Bounded, Tested, SameBooks
  <2>6. QED
    BY <1>4, <2>2, <2>3, <2>4, <2>5 DEF ScanOK
<1>5. CASE /\ ~ScanLimitReached(s) /\ s.queue = <<>>
           /\ (s.found # {} /\ s.index > j.priority) \/ s.index = Len(list)
  <2>1. r = Finished(s)
    BY <1>5, Zenon DEF AfterCandidate
  <2>2. /\ r \in ScanState /\ r.pc = "done" /\ r.known = s.known /\ r.found = s.found
        /\ r.tested = s.tested /\ r.queue = s.queue
    BY <2>1, FinishedFacts
  <2>3. Books(j, list, r)
    BY <2>1, FinishedBooks
  <2>4. s.found = {} => Tested(list, r, Len(list))
    BY <1>5, <2>2 DEF Tested
  <2>5. QED
    BY <1>2, <1>5, <2>2, <2>3, <2>4 DEF ScanOK, Bounded, Running
<1>6. CASE /\ ~ScanLimitReached(s) /\ s.queue = <<>>
           /\ ~(s.found # {} /\ s.index > j.priority) /\ s.index # Len(list)
  <2>1. r = [s EXCEPT !.pc = "candidates", !.index = s.index + 1]
    BY <1>6, Zenon DEF AfterCandidate
  <2>2. r \in ScanState
    <3>1. "candidates" \in ScanPc /\ s.index + 1 \in Nat
      BY <1>1 DEF ScanPc
    <3>2. QED
      BY <2>1, <3>1, Zenon DEF ScanState
  <2>3. SameBooks(r, s) /\ r.index = s.index + 1 /\ r.pc = "candidates"
    BY <2>1 DEF ScanState, SameBooks
  <2>4. Books(j, list, r)
    BY <2>3, BooksOfSame DEF Books
  <2>5. Bounded(j, list, r) /\ Tested(list, r, r.index - 1) /\ r.index \in 1..Len(list)
    <3>1. r.index \in 1..Len(list) /\ r.index - 1 = s.index
      BY <1>1, <1>6, <2>3
    <3>2. QED
      BY <1>2, <2>3, <3>1 DEF Bounded, Tested, SameBooks
  <2>6. QED
    BY <2>2, <2>3, <2>4, <2>5 DEF ScanOK
<1>7. QED
  BY <1>3, <1>4, <1>5, <1>6

LEMMA HeadAndTail ==
  ASSUME NEW queue \in Seq(Candidate), queue # <<>>
  PROVE  /\ Head(queue) \in Candidate /\ Tail(queue) \in Seq(Candidate)
         /\ Range(queue) = Range(Tail(queue)) \cup {Head(queue)}
<1>1. /\ Head(queue) \in Candidate /\ Tail(queue) \in Seq(Candidate)
      /\ Len(queue) \in Nat \ {0} /\ DOMAIN queue = 1..Len(queue)
      /\ DOMAIN Tail(queue) = 1..(Len(queue) - 1) /\ Head(queue) = queue[1]
      /\ \A i \in 1..(Len(queue) - 1) : Tail(queue)[i] = queue[i + 1]
  OBVIOUS
<1> PICK rest : rest = Tail(queue)
  OBVIOUS
<1> PICK first : first = Head(queue)
  OBVIOUS
<1>2. \A x \in Range(queue) : x \in Range(rest) \cup {first}
  <2> SUFFICES ASSUME NEW i \in DOMAIN queue PROVE queue[i] \in Range(rest) \cup {first}
    BY DEF Range
  <2>1. CASE i = 1
    BY <1>1, <2>1
  <2>2. CASE i # 1
    <3>1. i - 1 \in DOMAIN rest /\ rest[i - 1] = queue[i]
      BY <1>1, <2>2
    <3>2. QED
      BY <3>1 DEF Range
  <2>3. QED
    BY <2>1, <2>2
<1>3. \A x \in Range(rest) \cup {first} : x \in Range(queue)
  BY <1>1 DEF Range
<1>4. QED
  BY <1>1, <1>2, <1>3

\* The next candidate is a URL the scan knows, and once it is fetched the books
\* are in order again.
LEMMA FetchedBooks ==
  ASSUME NEW j, GoodJob(j), NEW t \in Target, NEW s, Running(s), ScanOK(j, j.candidates[t], s)
  PROVE  LET c == NextCandidate(j, t, s)
             d == Dequeued(s)
         IN  /\ c \in Candidate /\ d \in ScanState /\ SamePlace(d, s) /\ d.tested = s.tested
             /\ Books(j, j.candidates[t], Fetched(d, c))
             /\ \A k \in 1..s.index : j.candidates[t][k] \in s.tested \cup {c.url}
<1> PICK list : list = j.candidates[t]
  OBVIOUS
<1> PICK c : c = NextCandidate(j, t, s)
  OBVIOUS
<1> PICK d : d = Dequeued(s)
  OBVIOUS
<1>1. /\ list \in Seq(Url) /\ Len(list) \in Nat /\ s \in ScanState /\ Books(j, list, s)
      /\ s.index \in 1..Len(list) /\ BooksBut(j, list, s, {})
  BY DEF GoodJob, BruteJob, ScanOK, Books
<1>2. list[s.index] \in Url /\ list[s.index] \in Range(list)
  BY <1>1 DEF Range
<1>3. /\ c \in Candidate /\ d \in ScanState /\ SamePlace(d, s) /\ d.tested = s.tested
      /\ d.known = s.known /\ d.found = s.found /\ d.skipped = s.skipped /\ Pages(d) = Pages(s)
      /\ Queued(s) \cup {c.url} = Queued(d) \cup {c.url} /\ c.url \in s.known
      /\ Queued(d) \subseteq Queued(s)
      /\ \A k \in 1..s.index : list[k] \in s.tested \cup {c.url}
  <2>1. CASE s.pc = "candidates"
    <3>1. c = [url |-> list[s.index], depth |-> 0]
      BY <2>1 DEF NextCandidate
    <3>2. c \in Candidate /\ c.url = list[s.index]
      BY <1>2, <3>1 DEF Candidate
    <3>3. d = s
      BY <2>1 DEF Dequeued
    <3>4. c.url \in s.known
      BY <1>1, <1>2, <3>2 DEF BooksBut
    <3>5. \A k \in 1..s.index : list[k] \in s.tested \cup {c.url}
      BY <1>1, <2>1, <3>2 DEF ScanOK, Tested
    <3>6. QED
      BY <1>1, <3>2, <3>3, <3>4, <3>5 DEF SamePlace
  <2>2. CASE s.pc = "variations"
    <3> PICK rest : rest = Tail(s.queue)
      OBVIOUS
    <3>1. s.queue # <<>> /\ s.queue \in Seq(Candidate) /\ Tested(list, s, s.index)
      BY <1>1, <2>2 DEF ScanOK, ScanState
    <3>2. c = Head(s.queue)
      BY <2>2 DEF NextCandidate
    <3>3. c \in Candidate /\ rest \in Seq(Candidate) /\ Range(s.queue) = Range(rest) \cup {c}
      BY <3>1, <3>2, HeadAndTail
    <3>4. d = [s EXCEPT !.queue = rest]
      BY <2>2, Zenon DEF Dequeued
    <3>5. d \in ScanState
      BY <1>1, <3>3, <3>4, Zenon DEF ScanState
    <3>6. /\ d.pc = s.pc /\ d.index = s.index /\ d.tested = s.tested /\ d.known = s.known
          /\ d.found = s.found /\ d.interesting = s.interesting /\ d.shapes = s.shapes
          /\ d.skipped = s.skipped /\ d.filtered = s.filtered /\ d.queue = rest
      BY <1>1, <3>4 DEF ScanState
    <3>7. Queued(s) = Queued(d) \cup {c.url} /\ Pages(d) = Pages(s)
      BY <3>3, <3>6 DEF Queued, Pages
    <3>8. c.url \in s.known
      BY <1>1, <3>7 DEF BooksBut
    <3>9. QED
      BY <3>1, <3>3, <3>5, <3>6, <3>7, <3>8 DEF SamePlace, Tested
  <2>3. QED
    BY <2>1, <2>2 DEF Running
<1> PICK f : f = Fetched(d, c)
  OBVIOUS
<1>4. /\ f.tested = s.tested \cup {c.url} /\ f.known = s.known /\ f.found = s.found
      /\ f.skipped = s.skipped /\ f.queue = d.queue /\ f.interesting = d.interesting
      /\ f.shapes = d.shapes /\ f.filtered = d.filtered
  <2> DEFINE q == Fetched(d, c)
  <2>1. /\ q.tested = d.tested \cup {c.url}
        /\ q.known = d.known \cup {c.url} /\ q.queue = d.queue /\ q.found = d.found
        /\ q.interesting = d.interesting /\ q.shapes = d.shapes /\ q.skipped = d.skipped
        /\ q.filtered = d.filtered
    BY <1>3, FetchedTyped
  <2> HIDE DEF q
  <2>2. f = q
    BY DEF q
  <2>3. QED
    BY <1>3, <2>1, <2>2
<1>5. Queued(f) = Queued(d) /\ Pages(f) = Pages(s)
  BY <1>3, <1>4 DEF Queued, Pages
<1>6. Covered(s) \subseteq Covered(f)
  BY <1>3, <1>4, <1>5 DEF Covered
<1>7. BooksBut(j, list, f, {})
  <2>1. /\ IsFiniteSet(f.known) /\ Cardinality(f.known) <= Max({j.maxCandidates, Len(list)})
        /\ f.found \subseteq f.known
    BY <1>1, <1>4 DEF BooksBut
  <2>2. Range(list) \cup f.tested \cup Queued(f) \subseteq f.known
    BY <1>1, <1>3, <1>4, <1>5 DEF BooksBut
  <2>3. f.known \subseteq Range(list) \cup f.tested \cup Queued(f)
    BY <1>1, <1>3, <1>4, <1>5 DEF BooksBut
  <2>4. /\ \A u \in Pages(f) : j.references[u] \subseteq Covered(f)
        /\ \A u \in f.found \ {} : j.variations[u] \subseteq Covered(f) \cup Range(list)
    BY <1>1, <1>4, <1>5, <1>6 DEF BooksBut
  <2>5. QED
    BY <2>1, <2>2, <2>3, <2>4 DEF BooksBut
<1>8. QED
  BY <1>3, <1>7 DEF Books

LEMMA NewScanOK ==
  ASSUME NEW j, GoodJob(j), NEW list \in Seq(Url)
  PROVE  /\ list # <<>> => ScanOK(j, list, NewScan(list)) /\ Running(NewScan(list))
         /\ ScanOK(j, list, NoScan) /\ ScanOK(j, list, [NoScan EXCEPT !.pc = "failed"])
         /\ ~Running([NoScan EXCEPT !.pc = "failed"])
<1>1. Len(list) \in Nat /\ j.maxCandidates \in Nat /\ Range(list) \in SUBSET Url
  BY DEF GoodJob, BruteJob, Range
<1>2. /\ Max({j.maxCandidates, Len(list)}) \in Nat
      /\ Len(list) <= Max({j.maxCandidates, Len(list)})
  BY <1>1, MaxOfTwo
<1>3. IsFiniteSet(Range(list)) /\ Cardinality(Range(list)) <= Len(list)
  <2>1. IsFiniteSet(1..Len(list)) /\ Cardinality(1..Len(list)) = Len(list)
    <3>1. 1 \in Int /\ Len(list) \in Int
      BY <1>1
    <3>2. /\ IsFiniteSet(1..Len(list))
          /\ Cardinality(1..Len(list)) = IF 1 > Len(list) THEN 0 ELSE Len(list) - 1 + 1
      BY <3>1, FS_Interval
    <3>3. QED
      BY <1>1, <3>2
  <2>2. list \in Surjection(1..Len(list), Range(list))
    BY DEF Surjection, Range
  <2>3. QED
    BY <2>1, <2>2, FS_Surjection
<1> PICK empty : empty = <<>>
  OBVIOUS
<1>4. empty = <<>> /\ empty \in Seq(Candidate) /\ empty \in Seq(PageShape)
  OBVIOUS
<1>5. "candidates" \in ScanPc /\ "none" \in ScanPc /\ "failed" \in ScanPc
  BY DEF ScanPc
<1>6. ASSUME NEW known \in SUBSET Url, NEW pc \in ScanPc, NEW s,
             s = [pc |-> pc, index |-> 1, tested |-> {}, known |-> known,
                  queue |-> empty, found |-> {}, interesting |-> {}, shapes |-> empty,
                  skipped |-> {}, filtered |-> {}, faults |-> 0, down |-> 0, shape |-> "none",
                  challenges |-> 0, limits |-> {}]
      PROVE  /\ s \in ScanState /\ s.pc = pc /\ s.index = 1 /\ s.tested = {} /\ s.known = known
             /\ s.queue = empty /\ s.found = {} /\ Pages(s) = {} /\ Queued(s) = {} /\ s.limits = {}
  <2>1. {} \in SUBSET Url /\ {} \in SUBSET Limit /\ "none" \in {"none", "down1", "down2"}
    OBVIOUS
  <2>2. s \in ScanState
    BY <1>4, <1>6, <2>1, Zeros, Zenon DEF ScanState
  <2>3. /\ s.pc = pc /\ s.index = 1 /\ s.tested = {} /\ s.known = known /\ s.queue = empty
        /\ s.found = {} /\ s.limits = {} /\ s.interesting = {} /\ s.filtered = {}
        /\ s.shapes = empty
    BY <1>6
  <2>4. Queued(s) = {}
    BY <1>4, <2>3 DEF Queued, Range
  <2>5. Pages(s) = {}
    BY <1>4, <2>3 DEF Pages
  <2>6. QED
    BY <2>2, <2>3, <2>4, <2>5
<1>7. list # <<>> => ScanOK(j, list, NewScan(list)) /\ Running(NewScan(list))
  <2> SUFFICES ASSUME list # <<>> PROVE ScanOK(j, list, NewScan(list)) /\ Running(NewScan(list))
    OBVIOUS
  <2> PICK s : s = NewScan(list)
    OBVIOUS
  <2>1. /\ s \in ScanState /\ s.pc = "candidates" /\ s.index = 1 /\ s.tested = {}
        /\ s.known = Range(list) /\ s.found = {} /\ Pages(s) = {} /\ Queued(s) = {}
    BY <1>1, <1>4, <1>5, <1>6 DEF NewScan
  <2>2. 1 \in 1..Len(list)
    BY <1>1
  <2>3. Books(j, list, s)
    BY <1>1, <1>2, <1>3, <2>1, FS_CardinalityType DEF Books, BooksBut
  <2>4. Bounded(j, list, s) /\ Tested(list, s, s.index - 1)
    BY <2>1, <2>3 DEF Bounded, Books, BooksBut, Tested
  <2>5. QED
    BY <2>1, <2>2, <2>3, <2>4 DEF ScanOK, Running
<1>8. ASSUME NEW pc \in {"none", "failed"}, NEW s, s = [NoScan EXCEPT !.pc = pc]
      PROVE  ScanOK(j, list, s) /\ ~Running(s)
  <2>1. Range(<<>>) = {} /\ {} \in SUBSET Url
    BY DEF Range
  <2>2. /\ s \in ScanState /\ s.pc = pc /\ s.known = {} /\ s.found = {}
    <3>1. s = [pc |-> pc, index |-> 1, tested |-> {}, known |-> Range(<<>>),
               queue |-> <<>>, found |-> {}, interesting |-> {}, shapes |-> <<>>,
               skipped |-> {}, filtered |-> {}, faults |-> 0, down |-> 0, shape |-> "none",
               challenges |-> 0, limits |-> {}]
      BY <1>8 DEF NoScan, NewScan
    <3>2. pc \in ScanPc
      BY <1>5
    <3>3. QED
      BY <1>4, <1>6, <2>1, <3>1, <3>2
  <2>3. Bounded(j, list, s)
    <3>1. IsFiniteSet({}) /\ Cardinality({}) = 0
      BY FS_EmptySet
    <3>2. QED
      BY <1>2, <2>2, <3>1 DEF Bounded
  <2>4. QED
    BY <2>2, <2>3 DEF ScanOK, Running
<1>9. NoScan = [NoScan EXCEPT !.pc = "none"]
  BY DEF NoScan, NewScan
<1>10. QED
  BY <1>7, <1>8, <1>9

-----------------------------------------------------------------------------
(* The pool                                                                *)

PoolState == [next : Nat, open : BOOLEAN, at : [BruteWorker -> Target \cup {NoTarget}]]
\* A busy worker has a running scan of its own, of a target already dispatched.
PoolOK ==
  /\ pool \in PoolState /\ pool.next \in 1..(Len(bruteJob.targets) + 1)
  /\ \A w \in BruteWorker : pool.at[w] # NoTarget =>
       /\ Running(scan[pool.at[w]])
       /\ \E k \in 1..(pool.next - 1) : pool.at[w] = bruteJob.targets[k]
  /\ \A v, w \in BruteWorker : pool.at[v] = pool.at[w] /\ pool.at[v] # NoTarget => v = w
BruteOK ==
  /\ GoodJob(bruteJob)
  /\ scan \in [Target -> ScanState]
  /\ \A t \in Target : ScanOK(bruteJob, bruteJob.candidates[t], scan[t])
  /\ PoolOK

LEMMA ReportKeeps ==
  ASSUME BruteOK, NEW w \in BruteWorker, pool.at[w] # NoTarget, NEW r,
         ScanOK(bruteJob, bruteJob.candidates[pool.at[w]], r),
         Report(w, pool.at[w], r), bruteJob' = bruteJob
  PROVE  BruteOK'
<1> PICK t : t = pool.at[w]
  OBVIOUS
<1>1. /\ scan' = [scan EXCEPT ![t] = r]
      /\ pool' = IF Running(r) THEN pool ELSE [pool EXCEPT !.at[w] = NoTarget]
  BY DEF Report
<1>2. /\ scan \in [Target -> ScanState] /\ pool \in PoolState
      /\ pool.at \in [BruteWorker -> Target \cup {NoTarget}] /\ t \in Target /\ r \in ScanState
  BY DEF BruteOK, PoolOK, PoolState, ScanOK
<1>3. scan' \in [Target -> ScanState] /\ scan'[t] = r /\ \A x \in Target \ {t} : scan'[x] = scan[x]
  BY <1>1, <1>2
<1>4. \A x \in Target : ScanOK(bruteJob, bruteJob.candidates[x], scan'[x])
  BY <1>3 DEF BruteOK
<1>5. ASSUME NEW v \in BruteWorker, v # w, pool.at[v] # NoTarget PROVE scan'[pool.at[v]] = scan[pool.at[v]]
  <2>1. pool.at[v] \in Target /\ pool.at[v] # t
    BY <1>2, <1>5 DEF BruteOK, PoolOK
  <2>2. QED
    BY <1>3, <2>1
<1>6. PoolOK'
  <2>1. CASE Running(r)
    <3>1. pool' = pool
      BY <1>1, <2>1
    <3>2. \A v \in BruteWorker : pool.at[v] # NoTarget => Running(scan'[pool.at[v]])
      BY <1>3, <1>5, <2>1 DEF BruteOK, PoolOK
    <3>3. QED
      BY <3>1, <3>2 DEF BruteOK, PoolOK
  <2>2. CASE ~Running(r)
    <3> DEFINE at == [pool.at EXCEPT ![w] = NoTarget]
    <3>1. pool' = [pool EXCEPT !.at = at]
      BY <1>1, <1>2, <2>2 DEF PoolState
    <3>2. at \in [BruteWorker -> Target \cup {NoTarget}] /\ at[w] = NoTarget
          /\ \A v \in BruteWorker \ {w} : at[v] = pool.at[v]
      BY <1>2
    <3> HIDE DEF at
    <3>3. pool' \in PoolState
      BY <1>2, <3>1, <3>2, Zenon DEF PoolState
    <3>4. pool'.next = pool.next /\ pool'.at = at
      BY <1>2, <3>1 DEF PoolState
    <3>5. \A v \in BruteWorker : at[v] # NoTarget =>
            /\ Running(scan'[at[v]])
            /\ \E k \in 1..(pool.next - 1) : at[v] = bruteJob.targets[k]
      BY <1>5, <3>2 DEF BruteOK, PoolOK
    <3>6. \A u, v \in BruteWorker : at[u] = at[v] /\ at[u] # NoTarget => u = v
      BY <3>2 DEF BruteOK, PoolOK
    <3>7. QED
      BY <3>3, <3>4, <3>5, <3>6 DEF BruteOK, PoolOK
  <2>3. QED
    BY <2>1, <2>2
<1>7. QED
  BY <1>3, <1>4, <1>6 DEF BruteOK

LEMMA DispatchKeeps ==
  ASSUME BruteOK, WorkflowAssumption, NEW w \in BruteWorker, Dispatch(w)
  PROVE  BruteOK'
<1> PICK t : t = bruteJob.targets[pool.next]
  OBVIOUS
<1> PICK list : list = bruteJob.candidates[t]
  OBVIOUS
<1> PICK s : s = IF list = <<>> THEN [NoScan EXCEPT !.pc = "failed"] ELSE NewScan(list)
  OBVIOUS
<1> PICK here : here = IF list = <<>> THEN NoTarget ELSE t
  OBVIOUS
<1>1. /\ pool.next <= Len(bruteJob.targets) /\ pool.at[w] = NoTarget
      /\ scan' = [scan EXCEPT ![t] = s]
      /\ pool' = [pool EXCEPT !.next = pool.next + 1, !.at[w] = here]
      /\ bruteJob' = bruteJob
  BY DEF Dispatch
<1>2. /\ scan \in [Target -> ScanState] /\ pool \in PoolState /\ pool.next \in Nat \ {0}
      /\ pool.at \in [BruteWorker -> Target \cup {NoTarget}]
      /\ GoodJob(bruteJob) /\ Len(bruteJob.targets) \in Nat
      /\ pool.next \in 1..Len(bruteJob.targets)
  BY <1>1 DEF BruteOK, PoolOK, PoolState, GoodJob, BruteJob
<1>3. t \in Target /\ list \in Seq(Url)
  BY <1>2 DEF GoodJob, BruteJob
<1>4. ScanOK(bruteJob, list, s) /\ (here # NoTarget => Running(s) /\ here = t)
  BY <1>2, <1>3, NewScanOK
<1>5. s \in ScanState
  BY <1>4 DEF ScanOK
<1>6. scan' \in [Target -> ScanState] /\ scan'[t] = s /\ \A x \in Target \ {t} : scan'[x] = scan[x]
  BY <1>1, <1>2, <1>3, <1>5
<1>7. \A x \in Target : ScanOK(bruteJob, bruteJob.candidates[x], scan'[x])
  BY <1>4, <1>6 DEF BruteOK
<1>8. \A v \in BruteWorker : pool.at[v] # t
  <2> SUFFICES ASSUME NEW v \in BruteWorker, pool.at[v] = t PROVE FALSE
    OBVIOUS
  <2>1. t # NoTarget
    BY <1>3 DEF WorkflowAssumption
  <2>2. PICK k \in 1..(pool.next - 1) : t = bruteJob.targets[k]
    BY <2>1 DEF BruteOK, PoolOK
  <2>3. k \in DOMAIN bruteJob.targets /\ pool.next \in DOMAIN bruteJob.targets /\ k # pool.next
    BY <1>2, SMTT(30) DEF GoodJob, BruteJob
  <2>4. QED
    BY <1>2, <2>2, <2>3 DEF GoodJob, IsInjective
<1> DEFINE at == [pool.at EXCEPT ![w] = here]
<1>9. pool' = [pool EXCEPT !.next = pool.next + 1, !.at = at]
  BY <1>1, <1>2 DEF PoolState
<1>10. at \in [BruteWorker -> Target \cup {NoTarget}] /\ at[w] = here
       /\ \A v \in BruteWorker \ {w} : at[v] = pool.at[v]
  BY <1>2, <1>3
<1> HIDE DEF at
<1>11. pool' \in PoolState
  <2>1. pool.next + 1 \in Nat
    BY <1>2
  <2>2. QED
    BY <1>2, <1>9, <1>10, <2>1, Zenon DEF PoolState
<1>12. pool'.next = pool.next + 1 /\ pool'.at = at
  BY <1>2, <1>9 DEF PoolState
<1>13. \A v \in BruteWorker : at[v] # NoTarget =>
         /\ Running(scan'[at[v]])
         /\ \E k \in 1..pool.next : at[v] = bruteJob.targets[k]
  <2> SUFFICES ASSUME NEW v \in BruteWorker, at[v] # NoTarget
               PROVE  /\ Running(scan'[at[v]])
                      /\ \E k \in 1..pool.next : at[v] = bruteJob.targets[k]
    OBVIOUS
  <2>1. CASE v = w
    <3>1. at[v] = t /\ Running(s)
      BY <1>4, <1>10, <2>1
    <3>2. QED
      BY <1>2, <1>6, <3>1
  <2>2. CASE v # w
    <3>1. at[v] = pool.at[v] /\ at[v] \in Target /\ at[v] # t
      BY <1>2, <1>8, <1>10, <2>2
    <3>2. Running(scan[at[v]]) /\ \E k \in 1..(pool.next - 1) : at[v] = bruteJob.targets[k]
      BY <3>1 DEF BruteOK, PoolOK
    <3>3. QED
      BY <1>2, <1>6, <3>1, <3>2
  <2>3. QED
    BY <2>1, <2>2
<1>14. \A u, v \in BruteWorker : at[u] = at[v] /\ at[u] # NoTarget => u = v
  <2>1. here = t \/ here = NoTarget
    OBVIOUS
  <2>2. QED
    BY <1>8, <1>10, <2>1 DEF BruteOK, PoolOK
<1>15. pool'.next \in 1..(Len(bruteJob.targets) + 1) /\ pool'.next - 1 = pool.next
  BY <1>2, <1>12
<1>16. PoolOK'
  <2>1. \A v \in BruteWorker : pool'.at[v] # NoTarget =>
          /\ Running(scan'[pool'.at[v]])
          /\ \E k \in 1..(pool'.next - 1) : pool'.at[v] = bruteJob'.targets[k]
    BY <1>1, <1>12, <1>13, <1>15
  <2>2. \A u, v \in BruteWorker : pool'.at[u] = pool'.at[v] /\ pool'.at[u] # NoTarget => u = v
    BY <1>12, <1>14
  <2>3. pool' \in PoolState /\ pool'.next \in 1..(Len(bruteJob'.targets) + 1)
    BY <1>1, <1>11, <1>15
  <2>4. QED
    BY <2>1, <2>2, <2>3, Zenon DEF PoolOK, Running
<1>17. QED
  BY <1>1, <1>2, <1>6, <1>7, <1>16 DEF BruteOK

LEMMA ScansKeep ==
  ASSUME BruteOK, NEW w \in BruteWorker,
         (\E event \in BruteEvent : BruteFetch(w, event)) \/ BruteSkip(w) \/ BruteCancel(w)
  PROVE  BruteOK'
<1> PICK t : t = pool.at[w]
  OBVIOUS
<1> PICK s : s = scan[t]
  OBVIOUS
<1> PICK list : list = bruteJob.candidates[t]
  OBVIOUS
<1>1. t # NoTarget /\ bruteJob' = bruteJob
  BY DEF BruteFetch, BruteSkip, BruteCancel
<1>2. /\ t \in Target /\ GoodJob(bruteJob) /\ Running(s) /\ ScanOK(bruteJob, list, s)
      /\ s \in ScanState
  BY <1>1 DEF BruteOK, PoolOK, PoolState, ScanOK
<1> PICK c : c = NextCandidate(bruteJob, t, s)
  OBVIOUS
<1> PICK d : d = Dequeued(s)
  OBVIOUS
<1>3. /\ c \in Candidate /\ d \in ScanState /\ SamePlace(d, s) /\ d.tested = s.tested
      /\ Books(bruteJob, list, Fetched(d, c))
      /\ \A k \in 1..s.index : list[k] \in s.tested \cup {c.url}
  BY <1>2, FetchedBooks
<1>4. s.index \in 1..Len(list) /\ list \in Seq(Url)
  BY <1>2 DEF ScanOK, GoodJob, BruteJob
<1>5. ASSUME NEW event \in BruteEvent, BruteFetch(w, event) PROVE BruteOK'
  <2> PICK p : p = ProcessCandidate(bruteJob, t, d, c, event)
    OBVIOUS
  <2>1. /\ p \in ScanState /\ Books(bruteJob, list, p) /\ SamePlace(p, d)
        /\ p.tested = d.tested \cup {c.url}
    <3> DEFINE q == ProcessCandidate(bruteJob, t, d, c, event)
    <3>1. /\ q \in ScanState /\ Books(bruteJob, list, q) /\ SamePlace(q, d)
          /\ NowTested(q, d, c)
      <4>1. /\ event \in BruteEvent /\ list \in Seq(Url) /\ d \in ScanState /\ c \in Candidate
            /\ GoodJob(bruteJob) /\ Books(bruteJob, list, Fetched(d, c))
        BY <1>2, <1>3, <1>4
      <4>2. QED
        BY <4>1, ProcessKeeps
    <3> HIDE DEF q
    <3>2. p = q
      BY DEF q
    <3>3. QED
      BY <3>1, <3>2 DEF NowTested
  <2> PICK r : r = IF canceled THEN [p EXCEPT !.pc = "canceled"] ELSE AfterCandidate(bruteJob, t, p)
    OBVIOUS
  <2>2. Report(w, t, r)
    BY <1>5 DEF BruteFetch
  <2>3. ScanOK(bruteJob, list, r)
    <3>1. CASE canceled
      <4>1. r = [p EXCEPT !.pc = "canceled"] /\ "canceled" \in ScanPc
        BY <3>1 DEF ScanPc
      <4>2. r \in ScanState
        BY <2>1, <4>1, ZenonT(40) DEF ScanState
      <4>3. r.pc = "canceled" /\ r.known = p.known /\ r.found = p.found
        BY <2>1, <4>1 DEF ScanState
      <4>4. Bounded(bruteJob, list, p)
        BY <2>1, Zenon DEF Books, BooksBut, Bounded
      <4>5. Bounded(bruteJob, list, r)
        BY <4>3, <4>4 DEF Bounded
      <4>6. QED
        BY <4>2, <4>3, <4>5 DEF ScanOK, Running
    <3>2. CASE ~canceled
      <4>1. p.index = s.index /\ Tested(list, p, p.index)
        BY <1>3, <2>1, ZenonT(60) DEF SamePlace, Tested
      <4>2. QED
        BY <1>2, <1>4, <2>1, <3>2, <4>1, AfterCandidateKeeps
    <3>3. QED
      BY <3>1, <3>2
  <2>4. QED
    BY <1>1, <2>2, <2>3, ReportKeeps
<1>6. CASE BruteSkip(w)
  <2> PICK r : r = AfterCandidate(bruteJob, t, d)
    OBVIOUS
  <2>1. Report(w, t, r) /\ c.url \in s.tested
    BY <1>6 DEF BruteSkip
  <2> PICK f : f = Fetched(d, c)
    OBVIOUS
  <2>2. /\ f.tested = d.tested \cup {c.url} /\ f.known = d.known \cup {c.url}
        /\ f.queue = d.queue /\ f.found = d.found /\ f.interesting = d.interesting
        /\ f.shapes = d.shapes /\ f.skipped = d.skipped /\ f.filtered = d.filtered
    <3> DEFINE q == Fetched(d, c)
    <3>1. /\ q.tested = d.tested \cup {c.url} /\ q.known = d.known \cup {c.url}
          /\ q.queue = d.queue /\ q.found = d.found /\ q.interesting = d.interesting
          /\ q.shapes = d.shapes /\ q.skipped = d.skipped /\ q.filtered = d.filtered
      BY <1>3, FetchedTyped, ZenonT(60)
    <3> HIDE DEF q
    <3>2. QED
      BY <3>1 DEF q
  <2>3. d.known = s.known /\ c.url \in s.known
    <3>1. d.known = s.known
      BY <1>2 DEF Dequeued, ScanState
    <3>2. c.url \in s.known
      BY <1>2, <2>1 DEF ScanOK, Books, BooksBut
    <3>3. QED
      BY <3>1, <3>2
  <2>4. SameBooks(d, f)
    <3>1. d.tested \cup {c.url} = d.tested /\ d.known \cup {c.url} = d.known
      BY <1>3, <2>1, <2>3
    <3>2. QED
      BY <2>2, <3>1 DEF SameBooks
  <2>5. Books(bruteJob, list, d)
    BY <1>3, <2>4, BooksOfSame DEF Books
  <2>6. d.index = s.index /\ Tested(list, d, d.index)
    BY <1>3, <2>1 DEF SamePlace, Tested
  <2>7. ScanOK(bruteJob, list, r)
    BY <1>2, <1>3, <1>4, <2>5, <2>6, AfterCandidateKeeps
  <2>8. QED
    BY <1>1, <2>1, <2>7, ReportKeeps
<1>7. CASE BruteCancel(w)
  <2> PICK r : r = [s EXCEPT !.pc = "canceled"]
    OBVIOUS
  <2>1. Report(w, t, r) /\ "canceled" \in ScanPc
    BY <1>7 DEF BruteCancel, ScanPc
  <2>2. r \in ScanState
    BY <1>2, <2>1, Zenon DEF ScanState
  <2>3. r.pc = "canceled" /\ r.known = s.known /\ r.found = s.found
    BY <1>2 DEF ScanState
  <2>4. ScanOK(bruteJob, list, r)
    BY <1>2, <2>2, <2>3 DEF ScanOK, Bounded, Running
  <2>5. QED
    BY <1>1, <2>1, <2>4, ReportKeeps
<1>8. QED
  BY <1>5, <1>6, <1>7

LEMMA BruteStepKeeps ==
  ASSUME BruteOK, WorkflowAssumption, BruteNext
  PROVE  BruteOK'
<1>1. CASE StopDispatch
  <2>1. pool' = [pool EXCEPT !.open = FALSE] /\ UNCHANGED <<bruteJob, scan>> /\ pool \in PoolState
    BY <1>1 DEF StopDispatch, BruteOK, PoolOK
  <2>2. pool' \in PoolState /\ pool'.next = pool.next /\ pool'.at = pool.at
    BY <2>1 DEF PoolState
  <2>3. QED
    BY <2>1, <2>2 DEF BruteOK, PoolOK
<1>2. QED
  BY <1>1, DispatchKeeps, ScansKeep DEF BruteNext

LEMMA BruteStarts ==
  ASSUME GoodJob(bruteJob), scan = [t \in Target |-> NoScan], pool = IdlePool
  PROVE  BruteOK
<1>1. \A t \in Target : bruteJob.candidates[t] \in Seq(Url)
  BY DEF GoodJob, BruteJob
<1>2. \A t \in Target : ScanOK(bruteJob, bruteJob.candidates[t], NoScan)
  BY <1>1, NewScanOK
<1>3. \A t \in Target : NoScan \in ScanState
  BY <1>2 DEF ScanOK
<1>4. scan \in [Target -> ScanState]
  BY <1>3
<1>5. /\ pool.next = 1 /\ pool.at = [w \in BruteWorker |-> NoTarget] /\ pool \in PoolState
  BY DEF IdlePool, PoolState
<1>6. Len(bruteJob.targets) \in Nat
  BY DEF GoodJob, BruteJob
<1>7. PoolOK
  BY <1>5, <1>6 DEF PoolOK
<1>8. QED
  BY <1>2, <1>4, <1>7 DEF BruteOK

-----------------------------------------------------------------------------
(* The steps of a stage                                                    *)

LEMMA FollowsAt ==
  ASSUME NEW steps, NEW i \in DOMAIN steps, Steps[flow.stage] = steps,
         flow.step = steps[i], \A k \in DOMAIN steps : steps[k] = steps[i] => k = i
  PROVE  FollowingStep = steps[1 + i]
<1>1. (CHOOSE k \in DOMAIN steps : steps[k] = flow.step) = i
  OBVIOUS
<1>2. QED
  BY <1>1, Zenon DEF FollowingStep

LEMMA StepsOfStages ==
  /\ Steps["brute"] = <<"begin", "work", "observations", "write", "finish">>
  /\ Steps["automate"] = <<"begin", "work", "observations", "write", "finish">>
  /\ Steps["fuzz"] = <<"begin", "work", "observations", "findings", "write", "finish">>
  /\ Steps["collection"] = <<"begin", "work", "observations", "finish">>
  /\ Steps["report"] = <<"begin", "observations", "findings", "write", "finish">>
  /\ Steps["assessment"] = <<"plan", "store-plan", "run", "store-run", "reports">>
  /\ Steps["ended"] = <<"begin">>
BY DEF Steps

LEMMA ScanSteps ==
  ASSUME flow.stage \in {"brute", "automate"}
  PROVE  /\ flow.step = "begin" => FollowingStep = "work"
         /\ flow.step = "work" => FollowingStep = "observations"
         /\ flow.step = "observations" => FollowingStep = "write"
         /\ flow.step = "write" => FollowingStep = "finish"
<1> PICK steps : steps = <<"begin", "work", "observations", "write", "finish">>
  OBVIOUS
<1>1. Steps[flow.stage] = steps
  BY StepsOfStages
<1>2. /\ DOMAIN steps = 1..5
      /\ steps[1] = "begin"
      /\ steps[2] = "work"
      /\ steps[3] = "observations"
      /\ steps[4] = "write"
      /\ steps[5] = "finish"
  OBVIOUS
<1>3. \A i \in 1..4 : flow.step = steps[i] => FollowingStep = steps[1 + i]
  <2> SUFFICES ASSUME NEW i \in 1..4, flow.step = steps[i] PROVE FollowingStep = steps[1 + i]
    OBVIOUS
  <2>1. i \in DOMAIN steps /\ \A k \in DOMAIN steps : steps[k] = steps[i] => k = i
    BY <1>2
  <2>2. QED
    BY <1>1, <2>1, FollowsAt
<1>4. QED
  BY <1>2, <1>3

LEMMA FuzzSteps ==
  ASSUME flow.stage \in {"fuzz"}
  PROVE  /\ flow.step = "begin" => FollowingStep = "work"
         /\ flow.step = "work" => FollowingStep = "observations"
         /\ flow.step = "observations" => FollowingStep = "findings"
         /\ flow.step = "findings" => FollowingStep = "write"
         /\ flow.step = "write" => FollowingStep = "finish"
<1> PICK steps : steps = <<"begin", "work", "observations", "findings", "write", "finish">>
  OBVIOUS
<1>1. Steps[flow.stage] = steps
  BY StepsOfStages
<1>2. /\ DOMAIN steps = 1..6
      /\ steps[1] = "begin"
      /\ steps[2] = "work"
      /\ steps[3] = "observations"
      /\ steps[4] = "findings"
      /\ steps[5] = "write"
      /\ steps[6] = "finish"
  OBVIOUS
<1>3. \A i \in 1..5 : flow.step = steps[i] => FollowingStep = steps[1 + i]
  <2> SUFFICES ASSUME NEW i \in 1..5, flow.step = steps[i] PROVE FollowingStep = steps[1 + i]
    OBVIOUS
  <2>1. i \in DOMAIN steps /\ \A k \in DOMAIN steps : steps[k] = steps[i] => k = i
    BY <1>2
  <2>2. QED
    BY <1>1, <2>1, FollowsAt
<1>4. QED
  BY <1>2, <1>3

LEMMA CollectionSteps ==
  ASSUME flow.stage \in {"collection"}
  PROVE  /\ flow.step = "begin" => FollowingStep = "work"
         /\ flow.step = "work" => FollowingStep = "observations"
         /\ flow.step = "observations" => FollowingStep = "finish"
<1> PICK steps : steps = <<"begin", "work", "observations", "finish">>
  OBVIOUS
<1>1. Steps[flow.stage] = steps
  BY StepsOfStages
<1>2. /\ DOMAIN steps = 1..4
      /\ steps[1] = "begin"
      /\ steps[2] = "work"
      /\ steps[3] = "observations"
      /\ steps[4] = "finish"
  OBVIOUS
<1>3. \A i \in 1..3 : flow.step = steps[i] => FollowingStep = steps[1 + i]
  <2> SUFFICES ASSUME NEW i \in 1..3, flow.step = steps[i] PROVE FollowingStep = steps[1 + i]
    OBVIOUS
  <2>1. i \in DOMAIN steps /\ \A k \in DOMAIN steps : steps[k] = steps[i] => k = i
    BY <1>2
  <2>2. QED
    BY <1>1, <2>1, FollowsAt
<1>4. QED
  BY <1>2, <1>3

LEMMA ReportSteps ==
  ASSUME flow.stage \in {"report"}
  PROVE  /\ flow.step = "begin" => FollowingStep = "observations"
         /\ flow.step = "observations" => FollowingStep = "findings"
         /\ flow.step = "findings" => FollowingStep = "write"
         /\ flow.step = "write" => FollowingStep = "finish"
<1> PICK steps : steps = <<"begin", "observations", "findings", "write", "finish">>
  OBVIOUS
<1>1. Steps[flow.stage] = steps
  BY StepsOfStages
<1>2. /\ DOMAIN steps = 1..5
      /\ steps[1] = "begin"
      /\ steps[2] = "observations"
      /\ steps[3] = "findings"
      /\ steps[4] = "write"
      /\ steps[5] = "finish"
  OBVIOUS
<1>3. \A i \in 1..4 : flow.step = steps[i] => FollowingStep = steps[1 + i]
  <2> SUFFICES ASSUME NEW i \in 1..4, flow.step = steps[i] PROVE FollowingStep = steps[1 + i]
    OBVIOUS
  <2>1. i \in DOMAIN steps /\ \A k \in DOMAIN steps : steps[k] = steps[i] => k = i
    BY <1>2
  <2>2. QED
    BY <1>1, <2>1, FollowsAt
<1>4. QED
  BY <1>2, <1>3

LEMMA AssessmentSteps ==
  ASSUME flow.stage \in {"assessment"}
  PROVE  /\ flow.step = "plan" => FollowingStep = "store-plan"
         /\ flow.step = "store-plan" => FollowingStep = "run"
         /\ flow.step = "run" => FollowingStep = "store-run"
         /\ flow.step = "store-run" => FollowingStep = "reports"
<1> PICK steps : steps = <<"plan", "store-plan", "run", "store-run", "reports">>
  OBVIOUS
<1>1. Steps[flow.stage] = steps
  BY StepsOfStages
<1>2. /\ DOMAIN steps = 1..5
      /\ steps[1] = "plan"
      /\ steps[2] = "store-plan"
      /\ steps[3] = "run"
      /\ steps[4] = "store-run"
      /\ steps[5] = "reports"
  OBVIOUS
<1>3. \A i \in 1..4 : flow.step = steps[i] => FollowingStep = steps[1 + i]
  <2> SUFFICES ASSUME NEW i \in 1..4, flow.step = steps[i] PROVE FollowingStep = steps[1 + i]
    OBVIOUS
  <2>1. i \in DOMAIN steps /\ \A k \in DOMAIN steps : steps[k] = steps[i] => k = i
    BY <1>2
  <2>2. QED
    BY <1>1, <2>1, FollowsAt
<1>4. QED
  BY <1>2, <1>3

-----------------------------------------------------------------------------
(* The workflow                                                            *)

StepName ==
  {"begin", "work", "observations", "findings", "write", "finish",
   "plan", "store-plan", "run", "store-run", "reports"}
FlowState ==
  [stage : Stage, step : StepName, errors : SUBSET Error, failures : Nat, incomplete : BOOLEAN]
PolicyState == [loaded : BOOLEAN, origins : SUBSET Origin]
FlowTypes ==
  /\ job \in Job /\ canceled \in BOOLEAN
  /\ flow \in FlowState /\ flow.failures <= job.maxFailures
  /\ outcome \in [Stage -> SUBSET Error] /\ files \subseteq Artifact
  /\ runs \in [Command -> Run] /\ policy \in PolicyState

\* Where a step of the workflow arrives.
Arrives(stage, step, errors) ==
  /\ flow' \in FlowState /\ flow'.failures <= job.maxFailures
  /\ flow'.stage = stage /\ flow'.step = step /\ flow'.errors = errors

LEMMA ContextErrorFacts == ContextError \in SUBSET {"fatal", "canceled"} /\ ContextError # {}
BY DEF ContextError

LEMMA Exceptions ==
  ASSUME FlowTypes, NEW stage \in Stage, NEW step \in StepName, NEW errors \in SUBSET Error
  PROVE  LET next == [flow EXCEPT !.stage = stage, !.step = step, !.errors = errors]
         IN  /\ next \in FlowState /\ next.stage = stage /\ next.step = step
             /\ next.errors = errors /\ next.failures = flow.failures
             /\ next.incomplete = flow.incomplete
BY DEF FlowTypes, FlowState

LEMMA AdvanceFacts ==
  ASSUME FlowTypes, FollowingStep \in StepName, NEW errors \in SUBSET Error
  PROVE  LET next == Advance(errors)
         IN  /\ next \in FlowState /\ next.stage = flow.stage /\ next.step = FollowingStep
             /\ next.errors = errors /\ next.failures = flow.failures
<1> PICK step : step = FollowingStep
  OBVIOUS
<1>1. Advance(errors) = [flow EXCEPT !.step = step, !.errors = errors]
  BY DEF Advance
<1>2. QED
  BY <1>1 DEF FlowTypes, FlowState

LEMMA GiveUpFacts ==
  ASSUME FlowTypes, NEW errors \in SUBSET Error
  PROVE  LET next == GiveUp(errors)
         IN  /\ next \in FlowState /\ next.stage = flow.stage /\ next.step = "finish"
             /\ next.errors = errors /\ next.failures = flow.failures
<1>1. GiveUp(errors) = [flow EXCEPT !.step = "finish", !.errors = errors]
  BY DEF GiveUp
<1>2. "finish" \in StepName
  BY DEF StepName
<1>3. QED
  BY <1>1, <1>2 DEF FlowTypes, FlowState

LEMMA FirstSteps ==
  /\ \A c \in Command : Steps[c][1] = "begin"
  /\ Steps["assessment"][1] = "plan" /\ Steps["ended"][1] = "begin"
BY StepsOfStages DEF Command

LEMMA EnterFacts ==
  ASSUME FlowTypes, NEW stage \in Command \cup {"assessment", "ended"}
  PROVE  LET next == Enter(stage)
         IN  /\ next \in FlowState /\ next.stage = stage
             /\ next.step = IF stage = "assessment" THEN "plan" ELSE "begin"
             /\ next.errors = {} /\ next.failures = flow.failures
<1> PICK step : step = Steps[stage][1]
  OBVIOUS
<1>1. Enter(stage) = [flow EXCEPT !.stage = stage, !.step = step, !.errors = {}]
  BY DEF Enter
<1>2. step = (IF stage = "assessment" THEN "plan" ELSE "begin") /\ stage \in Stage
  BY FirstSteps DEF Stage, Command
<1>3. step \in StepName /\ {} \in SUBSET Error
  BY <1>2 DEF StepName
<1>4. QED
  BY <1>1, <1>2, <1>3 DEF FlowTypes, FlowState

LEMMA MayFailFacts ==
  ASSUME FlowTypes, NEW next \in FlowState, next.failures = flow.failures, NEW ok \in BOOLEAN,
         MayFail(ok, next)
  PROVE  Arrives(next.stage, next.step, next.errors) /\ flow'.incomplete = next.incomplete
<1> PICK failures : failures = IF ok THEN next.failures ELSE next.failures + 1
  OBVIOUS
<1>1. flow' = [next EXCEPT !.failures = failures]
  BY DEF MayFail
<1>2. failures \in Nat /\ failures <= job.maxFailures
  BY DEF MayFail, FlowTypes, FlowState, Job
<1>3. flow' \in FlowState
  BY <1>1, <1>2, Zenon DEF FlowState
<1>4. QED
  BY <1>1, <1>2, <1>3 DEF FlowState, Arrives

\* The order of the stages.
Rank(s) ==
  IF s = "workflow" THEN 0 ELSE IF s = "brute" THEN 1 ELSE IF s = "automate" THEN 2
  ELSE IF s = "fuzz" THEN 3 ELSE IF s = "collection" THEN 4 ELSE IF s = "report" THEN 5
  ELSE IF s = "assessment" THEN 6 ELSE 7

\* What a command leaves behind that ended without an error.
Complete(c) ==
  /\ c \in files
  /\ c = "collection" => "operations" \in files
  /\ job.database /\ c # "brute" =>
       runs[c].observations /\ runs[c].status \in {"succeeded", "failed"}
Told(c) ==
  /\ runs[c].status = "running" => "persistence" \in outcome[c]
  /\ runs[c].status = "succeeded" =>
       runs[c].observations /\ c \in files /\ outcome[c] \subseteq {"persistence"}
\* The stages before and after the current one.
Past ==
  /\ \A s \in Stage : Rank(s) >= Rank(flow.stage) => outcome[s] = {}
  /\ \A c \in Command : Rank(c) > Rank(flow.stage) => runs[c] = NoRun
  /\ \A c \in Command : c # flow.stage => Told(c)
  /\ (\A s \in Stage : outcome[s] = {}) =>
       /\ \A c \in Command : Rank(c) < Rank(flow.stage) /\ (c = "brute" => job.mode = "brute") =>
            Complete(c)
       /\ flow.stage = "ended" /\ job.assessment => {"plan", "run", "assessment"} \subseteq files
\* The steps of a command.
HasStep(c, step) ==
  /\ step \in {"begin", "work", "observations", "findings", "write", "finish"}
  /\ step = "work" => c # "report"
  /\ step = "findings" => c \in {"fuzz", "report"}
  /\ step = "write" => c # "collection"
\* The command at work: its run, and the files it has written.
NowAt(c, step, errors, run, disk, database) ==
  /\ HasStep(c, step)
  /\ run.status \in {"none", "running"}
  /\ step = "begin" => run = NoRun
  /\ step \in {"findings", "write", "finish"} /\ errors = {} /\ run.status # "none" =>
       run.observations
  /\ step = "finish" /\ errors = {} =>
       c \in disk /\ (c = "collection" => "operations" \in disk)
  /\ c = "collection" /\ step = "observations" => {"collection", "operations"} \subseteq disk
  /\ database /\ step # "begin" /\ run.status = "none" =>
       step = "finish" /\ errors # {} /\ "partial" \notin errors
  /\ c = "automate" /\ "partial" \in errors =>
       step = "finish" /\ errors = {"partial"} /\ (run.status # "none" => run.observations)
Now(c) == NowAt(c, flow.step, flow.errors, runs[c], files, job.database)
Assessed ==
  flow.stage = "assessment" =>
    /\ flow.step \in {"plan", "store-plan", "run", "store-run", "reports"}
    /\ flow.step \in {"run", "store-run", "reports"} => "plan" \in files
    /\ flow.step = "reports" => "run" \in files
FlowOK == FlowTypes /\ Past /\ (\A c \in Command : flow.stage = c => Now(c)) /\ Assessed

\* A step within a stage.
LEMMA PastKept ==
  ASSUME FlowTypes, Past, flow'.stage = flow.stage, outcome' = outcome, job' = job,
         files \subseteq files', \A c \in Command : c # flow.stage => runs'[c] = runs[c]
  PROVE  Past'
<1>1. \A s \in Stage : Rank(s)' = Rank(s)
  BY DEF Rank
<1>2. \A c \in Command : c # flow.stage => /\ Told(c) => Told(c)'
                                           /\ Complete(c) => Complete(c)'
  BY DEF Told, Complete
<1>3. \A c \in Command : /\ Rank(c) > Rank(flow.stage) => c # flow.stage
                         /\ Rank(c) < Rank(flow.stage) => c # flow.stage
  BY DEF Rank
<1>4. (\A s \in Stage : Rank(s) >= Rank(flow.stage) => outcome[s] = {})'
  BY <1>1 DEF Past, Rank
<1>5. (\A c \in Command : Rank(c) > Rank(flow.stage) => runs[c] = NoRun)'
  BY <1>3 DEF Past, Rank, NoRun
<1>6. (\A c \in Command : c # flow.stage => Told(c))'
  BY <1>2 DEF Past
<1>7. ((\A s \in Stage : outcome[s] = {}) =>
       /\ \A c \in Command : Rank(c) < Rank(flow.stage) /\ (c = "brute" => job.mode = "brute") =>
            Complete(c)
       /\ flow.stage = "ended" /\ job.assessment => {"plan", "run", "assessment"} \subseteq files)'
  BY <1>2, <1>3 DEF Past, Rank
<1>8. QED
  BY <1>4, <1>5, <1>6, <1>7 DEF Past

LEMMA WithinStage ==
  ASSUME FlowOK, NEW c \in Command, flow.stage = c, NEW step, NEW errors, Arrives(c, step, errors),
         outcome' = outcome, job' = job, canceled' \in BOOLEAN, policy' \in PolicyState,
         files \subseteq files', files' \subseteq Artifact, runs' \in [Command -> Run],
         \A d \in Command : d # c => runs'[d] = runs[d],
         NowAt(c, step, errors, runs'[c], files', job.database)
  PROVE  FlowOK'
<1>1. FlowTypes'
  BY DEF FlowOK, FlowTypes, Arrives
<1>2. Past'
  BY PastKept DEF FlowOK, Arrives
<1>3. flow'.stage = c /\ flow'.step = step /\ flow'.errors = errors
  BY DEF Arrives
<1>4. Now(c)'
  BY <1>3, Zenon DEF Now
<1>5. c # "assessment"
  BY DEF Command
<1>6. Assessed'
  BY <1>3, <1>5 DEF Assessed
<1>7. QED
  BY <1>1, <1>2, <1>3, <1>4, <1>6 DEF FlowOK

\* The step after one that returned no error.
NextStep(c, step) ==
  IF step = "begin" THEN IF c = "report" THEN "observations" ELSE "work"
  ELSE IF step = "work" THEN "observations"
  ELSE IF step = "observations"
    THEN IF c \in {"fuzz", "report"} THEN "findings"
         ELSE IF c = "collection" THEN "finish" ELSE "write"
  ELSE IF step = "findings" THEN "write" ELSE "finish"

LEMMA NextSteps ==
  ASSUME flow.stage \in Command, HasStep(flow.stage, flow.step), flow.step # "finish"
  PROVE  FollowingStep = NextStep(flow.stage, flow.step)
<1>1. CASE flow.stage \in {"brute", "automate"}
  BY <1>1, ScanSteps DEF HasStep, NextStep
<1>2. CASE flow.stage = "fuzz"
  BY <1>2, FuzzSteps DEF HasStep, NextStep
<1>3. CASE flow.stage = "collection"
  BY <1>3, CollectionSteps DEF HasStep, NextStep
<1>4. CASE flow.stage = "report"
  BY <1>4, ReportSteps DEF HasStep, NextStep
<1>5. QED
  BY <1>1, <1>2, <1>3, <1>4 DEF Command

LEMMA Advances ==
  ASSUME FlowOK, NEW c \in Command, flow.stage = c, flow.step # "finish", NEW errors \in SUBSET Error
  PROVE  LET next == Advance(errors)
         IN  /\ next \in FlowState /\ next.stage = c /\ next.step = NextStep(c, flow.step)
             /\ next.errors = errors /\ next.failures = flow.failures
             /\ next.failures <= job.maxFailures
<1>1. HasStep(c, flow.step) /\ FlowTypes
  BY DEF FlowOK, Now, NowAt
<1>2. FollowingStep = NextStep(c, flow.step)
  BY <1>1, NextSteps
<1>3. NextStep(c, flow.step) \in StepName
  BY DEF NextStep, StepName
<1>4. QED
  BY <1>1, <1>2, <1>3, AdvanceFacts DEF FlowTypes

LEMMA GivesUp ==
  ASSUME FlowOK, NEW c \in Command, flow.stage = c, NEW errors \in SUBSET Error
  PROVE  LET next == GiveUp(errors)
         IN  /\ next \in FlowState /\ next.stage = c /\ next.step = "finish"
             /\ next.errors = errors /\ next.failures = flow.failures
             /\ next.failures <= job.maxFailures
<1>1. FlowTypes
  BY DEF FlowOK
<1>2. QED
  BY <1>1, GiveUpFacts DEF FlowTypes

LEMMA AdvanceArrives ==
  ASSUME FlowOK, NEW c \in Command, flow.stage = c, flow.step # "finish",
         NEW errors \in SUBSET Error, flow' = Advance(errors)
  PROVE  Arrives(c, NextStep(c, flow.step), errors)
BY Advances DEF Arrives

LEMMA GiveUpArrives ==
  ASSUME FlowOK, NEW c \in Command, flow.stage = c, NEW errors \in SUBSET Error,
         flow' = GiveUp(errors)
  PROVE  Arrives(c, "finish", errors)
BY GivesUp DEF Arrives

LEMMA MayFailArrives ==
  ASSUME FlowOK, NEW ok \in BOOLEAN, NEW next \in FlowState, next.failures = flow.failures,
         MayFail(ok, next)
  PROVE  Arrives(next.stage, next.step, next.errors)
BY MayFailFacts DEF FlowOK

LEMMA MayFailAdvance ==
  ASSUME FlowOK, NEW c \in Command, flow.stage = c, flow.step # "finish",
         NEW errors \in SUBSET Error, NEW ok \in BOOLEAN, MayFail(ok, Advance(errors))
  PROVE  Arrives(c, NextStep(c, flow.step), errors)
<1> DEFINE next == Advance(errors)
<1>1. /\ next \in FlowState /\ next.stage = c /\ next.step = NextStep(c, flow.step)
      /\ next.errors = errors /\ next.failures = flow.failures /\ MayFail(ok, next)
  BY Advances
<1> HIDE DEF next
<1>2. Arrives(next.stage, next.step, next.errors)
  BY <1>1, MayFailArrives
<1>3. QED
  BY <1>1, <1>2

LEMMA MayFailGiveUp ==
  ASSUME FlowOK, NEW c \in Command, flow.stage = c,
         NEW errors \in SUBSET Error, NEW ok \in BOOLEAN, MayFail(ok, GiveUp(errors))
  PROVE  Arrives(c, "finish", errors)
<1> DEFINE next == GiveUp(errors)
<1>1. /\ next \in FlowState /\ next.stage = c /\ next.step = "finish"
      /\ next.errors = errors /\ next.failures = flow.failures /\ MayFail(ok, next)
  BY GivesUp
<1> HIDE DEF next
<1>2. Arrives(next.stage, next.step, next.errors)
  BY <1>1, MayFailArrives
<1>3. QED
  BY <1>1, <1>2

-----------------------------------------------------------------------------
(* The steps of the workflow keep FlowOK                                   *)

LEMMA ContextErrors == ContextError \in SUBSET Error /\ ContextError # {} /\ "partial" \notin ContextError
BY DEF ContextError, Error

LEMMA ScanReturnsFlow ==
  ASSUME FlowOK, BruteReturns \/ AutomateReturns, auto.error \subseteq {"fatal", "canceled"}
  PROVE  FlowOK'
<1>1. FlowTypes
  BY DEF FlowOK
<1>2. UNCHANGED <<job, outcome, files, policy, runs, canceled>>
  BY DEF BruteReturns, AutomateReturns
<1>3. CASE BruteReturns
  <2>1. flow.stage = "brute" /\ flow.step = "work" /\ flow' = Advance(BruteErrors)
    BY <1>3 DEF BruteReturns, At
  <2>2. "brute" \in Command /\ BruteErrors \in SUBSET Error
    BY DEF Command, BruteErrors, Error
  <2>3. Arrives("brute", "observations", BruteErrors)
    BY <2>1, <2>2, AdvanceArrives DEF NextStep
  <2>4. Now("brute")
    BY <2>1, <2>2 DEF FlowOK
  <2>5. NowAt("brute", "observations", BruteErrors, runs["brute"], files, job.database)
    BY <2>1, <2>4 DEF Now, NowAt, HasStep
  <2>6. QED
    BY <1>1, <1>2, <2>1, <2>2, <2>3, <2>5, WithinStage DEF FlowTypes
<1>4. CASE AutomateReturns
  <2>1. /\ flow.stage = "automate" /\ flow.step = "work" /\ "automate" \in Command
        /\ auto.error = {} => flow' = Advance({})
        /\ auto.error # {} => flow' = GiveUp(auto.error)
    BY <1>4 DEF AutomateReturns, At, Command
  <2>2. {} \in SUBSET Error /\ auto.error \in SUBSET Error
    BY DEF Error
  <2>3. Now("automate")
    BY <2>1 DEF FlowOK
  <2>4. CASE auto.error = {}
    <3>1. Arrives("automate", "observations", {})
      BY <2>1, <2>2, <2>4, AdvanceArrives DEF NextStep
    <3>2. NowAt("automate", "observations", {}, runs["automate"], files, job.database)
      BY <2>1, <2>3 DEF Now, NowAt, HasStep
    <3>3. QED
      BY <1>1, <1>2, <2>1, <3>1, <3>2, WithinStage DEF FlowTypes
  <2>5. CASE auto.error # {}
    <3>1. Arrives("automate", "finish", auto.error)
      BY <2>1, <2>2, <2>5, GiveUpArrives
    <3>2. NowAt("automate", "finish", auto.error, runs["automate"], files, job.database)
      BY <2>1, <2>3, <2>5 DEF Now, NowAt, HasStep
    <3>3. QED
      BY <1>1, <1>2, <2>1, <3>1, <3>2, WithinStage DEF FlowTypes
  <2>6. QED
    BY <2>4, <2>5
<1>5. QED
  BY <1>3, <1>4

LEMMA FuzzReturnsFlow ==
  ASSUME FlowOK, NEW error, NEW incomplete \in BOOLEAN, FuzzReturns(error, incomplete)
  PROVE  FlowOK'
<1>1. /\ FlowTypes /\ flow.stage = "fuzz" /\ flow.step = "work" /\ "fuzz" \in Command
      /\ UNCHANGED <<job, outcome, files, policy, runs, canceled>>
      /\ error \in {{}, ContextError}
  BY DEF FlowOK, FuzzReturns, At, Command
<1>2. error \in SUBSET Error /\ {} \in SUBSET Error
  BY <1>1, ContextErrors
<1>3. Now("fuzz")
  BY <1>1 DEF FlowOK
<1>4. CASE error # {}
  <2>1. flow' = GiveUp(error) /\ "partial" \notin error
    BY <1>1, <1>4, ContextErrors DEF FuzzReturns
  <2>2. Arrives("fuzz", "finish", error)
    BY <1>1, <1>2, <2>1, GiveUpArrives
  <2>3. NowAt("fuzz", "finish", error, runs["fuzz"], files, job.database)
    BY <1>1, <1>3, <1>4, <2>1 DEF Now, NowAt, HasStep
  <2>4. QED
    BY <1>1, <2>2, <2>3, WithinStage DEF FlowTypes
<1>5. CASE error = {}
  <2> DEFINE next == Advance({})
  <2>1. flow' = [next EXCEPT !.incomplete = incomplete]
    BY <1>5 DEF FuzzReturns
  <2>2. /\ next \in FlowState /\ next.stage = "fuzz" /\ next.step = NextStep("fuzz", "work")
        /\ next.errors = {} /\ next.failures = flow.failures
        /\ next.failures <= job.maxFailures
    BY <1>1, <1>2, Advances
  <2> HIDE DEF next
  <2>3. flow' \in FlowState
    BY <2>1, <2>2, Zenon DEF FlowState
  <2>4. Arrives("fuzz", "observations", {})
    BY <2>1, <2>2, <2>3 DEF FlowState, NextStep, Arrives
  <2>5. NowAt("fuzz", "observations", {}, runs["fuzz"], files, job.database)
    BY <1>1, <1>3 DEF Now, NowAt, HasStep
  <2>6. QED
    BY <1>1, <2>4, <2>5, WithinStage DEF FlowTypes
<1>6. QED
  BY <1>4, <1>5

LEMMA GenerateCollectionFlow ==
  ASSUME FlowOK, NEW ok \in BOOLEAN, GenerateCollection(ok)
  PROVE  FlowOK'
<1>1. /\ FlowTypes /\ flow.stage = "collection" /\ flow.step = "work" /\ "collection" \in Command
      /\ UNCHANGED <<job, outcome, policy, runs, canceled>>
  BY DEF FlowOK, GenerateCollection, At, Command
<1>2. {} \in SUBSET Error /\ {"fatal"} \in SUBSET Error
  BY DEF Error
<1>3. Now("collection")
  BY <1>1 DEF FlowOK
<1>4. files' \subseteq Artifact /\ files \subseteq files'
  BY <1>1 DEF FlowTypes, GenerateCollection, Artifact
<1>5. CASE "operations" \in files /\ ok
  <2>1. MayFail(ok, Advance({})) /\ files' = files \cup {"collection"}
    BY <1>5 DEF GenerateCollection
  <2>2. Arrives("collection", "observations", {})
    BY <1>1, <1>2, <2>1, MayFailAdvance DEF NextStep
  <2>3. NowAt("collection", "observations", {}, runs["collection"], files', job.database)
    BY <1>1, <1>3, <1>5, <2>1 DEF Now, NowAt, HasStep
  <2>4. QED
    BY <1>1, <1>4, <2>2, <2>3, WithinStage DEF FlowTypes
<1>6. CASE ~("operations" \in files /\ ok)
  <2>1. flow' = GiveUp({"fatal"}) \/ MayFail(ok, GiveUp({"fatal"}))
    BY <1>6 DEF GenerateCollection
  <2>2. Arrives("collection", "finish", {"fatal"})
    BY <1>1, <1>2, <2>1, MayFailGiveUp, GiveUpArrives
  <2>3. NowAt("collection", "finish", {"fatal"}, runs["collection"], files', job.database)
    BY <1>1, <1>3, <1>6 DEF Now, NowAt, HasStep
  <2>4. QED
    BY <1>1, <1>4, <2>2, <2>3, WithinStage DEF FlowTypes
<1>7. QED
  BY <1>5, <1>6

LEMMA LoadTyped ==
  ASSUME FlowTypes, automateJob \in AutomateJob, NEW explicit \in SUBSET Origin
  PROVE  LoadPrivateHeaders(policy, explicit) \in PolicyState
<1>1. automateJob.config.target \in SUBSET Origin
  BY DEF AutomateJob, PlanConfig
<1>2. QED
  BY <1>1 DEF LoadPrivateHeaders, PolicyState, FlowTypes

LEMMA SourceOriginsTyped ==
  ASSUME automateJob \in AutomateJob
  PROVE  SourceOrigins \in SUBSET Origin
<1>1. Range(automateJob.sources) \subseteq Source
  BY DEF AutomateJob, Range
<1>2. QED
  BY <1>1 DEF SourceOrigins, AutomateJob

LEMMA BeginCommandFlow ==
  ASSUME FlowOK, automateJob \in AutomateJob, NEW c \in Command, NEW ok \in BOOLEAN,
         BeginCommand(c, ok)
  PROVE  FlowOK'
<1>1. /\ FlowTypes /\ flow.stage = c /\ flow.step = "begin"
      /\ UNCHANGED <<job, outcome, files, canceled>>
  BY DEF FlowOK, BeginCommand, At
<1>2. Now(c) /\ runs[c] = NoRun /\ runs \in [Command -> Run]
  BY <1>1 DEF FlowOK, Now, NowAt, FlowTypes
<1> DEFINE refused == Refused(c) \/ (job.database /\ (canceled \/ ~ok))
           errors == IF Refused(c) THEN {"fatal"} ELSE ContextError
<1>3. errors \in SUBSET Error /\ errors # {} /\ "partial" \notin errors
  BY ContextErrors DEF Error
<1>4. CASE refused
  <2>1. MayFail(ok, GiveUp(errors)) /\ UNCHANGED <<runs, policy>>
    BY <1>4 DEF BeginCommand
  <2> HIDE DEF errors, refused
  <2>2. Arrives(c, "finish", errors)
    BY <1>1, <1>3, <2>1, MayFailGiveUp
  <2>3. NowAt(c, "finish", errors, runs[c], files, job.database)
    BY <1>2, <1>3 DEF NowAt, HasStep, NoRun
  <2>4. QED
    BY <1>1, <2>1, <2>2, <2>3, WithinStage DEF FlowTypes
<1>5. CASE ~refused
  <2>1. /\ flow' = Advance({})
        /\ job.database => BeginRun(c)
        /\ ~job.database => runs' = runs
        /\ c = "automate" => policy' = LoadPrivateHeaders(policy, SourceOrigins)
        /\ c # "automate" => policy' = policy
    BY <1>5 DEF BeginCommand
  <2> HIDE DEF errors, refused
  <2>2. policy' \in PolicyState
    BY <1>1, <2>1, LoadTyped, SourceOriginsTyped DEF FlowTypes
  <2>3. {} \in SUBSET Error
    OBVIOUS
  <2>4. Arrives(c, NextStep(c, "begin"), {})
    BY <1>1, <2>1, <2>3, AdvanceArrives
  <2> DEFINE begun == [NoRun EXCEPT !.status = "running"]
  <2>5. begun \in Run /\ begun.status = "running"
    BY DEF Run, NoRun, RunStatus
  <2>6. job.database => runs' = [runs EXCEPT ![c] = begun]
    BY <2>1 DEF BeginRun
  <2> HIDE DEF begun
  <2>7. /\ runs' \in [Command -> Run] /\ \A d \in Command : d # c => runs'[d] = runs[d]
        /\ job.database => runs'[c] = begun
        /\ ~job.database => runs'[c] = NoRun
    BY <1>2, <2>1, <2>5, <2>6
  <2>8. NowAt(c, NextStep(c, "begin"), {}, runs'[c], files, job.database)
    BY <1>1, <1>2, <2>5, <2>7 DEF NowAt, Now, HasStep, NextStep, NoRun
  <2>9. QED
    BY <1>1, <2>2, <2>4, <2>7, <2>8, WithinStage DEF FlowTypes
<1>6. QED
  BY <1>4, <1>5

\* What a transaction leaves of the run.
LEMMA StoredRun ==
  ASSUME runs \in [Command -> Run], NEW c \in Command, NEW step,
         IF step = "observations" THEN AddObservations(c) ELSE AddFindings(c)
  PROVE  /\ runs' \in [Command -> Run] /\ \A d \in Command : d # c => runs'[d] = runs[d]
         /\ runs'[c].status = runs[c].status
         /\ step = "observations" => runs'[c].observations
         /\ step # "observations" => runs'[c].observations = runs[c].observations
<1> PICK run : run = runs[c]
  OBVIOUS
<1>1. run \in Run
  OBVIOUS
<1>2. CASE step = "observations"
  <2> DEFINE new == [run EXCEPT !.observations = TRUE]
  <2>1. runs' = [runs EXCEPT ![c] = new]
    BY <1>2 DEF AddObservations
  <2>2. new \in Run /\ new.status = run.status /\ new.observations
    BY <1>1 DEF Run
  <2> HIDE DEF new
  <2>3. QED
    BY <1>2, <2>1, <2>2
<1>3. CASE step # "observations"
  <2> DEFINE new == [run EXCEPT !.findings = TRUE]
  <2>1. runs' = [runs EXCEPT ![c] = new]
    BY <1>3 DEF AddFindings
  <2>2. new \in Run /\ new.status = run.status /\ new.observations = run.observations
    BY <1>1 DEF Run
  <2> HIDE DEF new
  <2>3. QED
    BY <1>3, <2>1, <2>2
<1>4. QED
  BY <1>2, <1>3

LEMMA StoreResultsFlow ==
  ASSUME FlowOK, NEW c \in Command, NEW step \in {"observations", "findings"}, NEW ok \in BOOLEAN,
         StoreResults(c, step, ok)
  PROVE  FlowOK'
<1>1. /\ FlowTypes /\ flow.stage = c /\ flow.step = step
      /\ UNCHANGED <<job, outcome, files, policy, canceled>>
  BY DEF FlowOK, StoreResults, At
<1>2. Now(c) /\ runs \in [Command -> Run] /\ flow.errors \in SUBSET Error
  BY <1>1 DEF FlowOK, FlowTypes, FlowState
<1> PICK errors : errors = flow.errors
  OBVIOUS
<1>3. NowAt(c, step, errors, runs[c], files, job.database) /\ errors \in SUBSET Error
  BY <1>1, <1>2 DEF Now
<1>4. \/ ~Stored(c) /\ flow' = Advance(errors) /\ runs' = runs
      \/ Stored(c) /\ MayFail(ok, AfterStoreError(c)) /\ runs' = runs
      \/ /\ Stored(c) /\ flow' = Advance(errors)
         /\ IF step = "observations" THEN AddObservations(c) ELSE AddFindings(c)
  BY DEF StoreResults
<1>5. CASE ~Stored(c) /\ flow' = Advance(errors) /\ runs' = runs
  <2>1. Arrives(c, NextStep(c, step), errors)
    BY <1>1, <1>3, <1>5, AdvanceArrives
  <2>2. NowAt(c, NextStep(c, step), errors, runs[c], files, job.database)
    BY <1>3, <1>5 DEF NowAt, HasStep, NextStep, Stored
  <2>3. QED
    BY <1>1, <1>2, <1>5, <2>1, <2>2, WithinStage DEF FlowTypes
<1>6. CASE /\ Stored(c) /\ flow' = Advance(errors)
           /\ IF step = "observations" THEN AddObservations(c) ELSE AddFindings(c)
  <2>1. Arrives(c, NextStep(c, step), errors)
    BY <1>1, <1>3, <1>6, AdvanceArrives
  <2>2. /\ runs' \in [Command -> Run] /\ \A d \in Command : d # c => runs'[d] = runs[d]
        /\ runs'[c].status = runs[c].status
        /\ step = "observations" => runs'[c].observations
        /\ step # "observations" => runs'[c].observations = runs[c].observations
    BY <1>2, <1>6, StoredRun
  <2>3. NowAt(c, NextStep(c, step), errors, runs'[c], files, job.database)
    BY <1>3, <1>6, <2>2 DEF NowAt, HasStep, NextStep, Stored
  <2>4. QED
    BY <1>1, <1>2, <2>1, <2>2, <2>3, WithinStage DEF FlowTypes
<1>7. CASE Stored(c) /\ MayFail(ok, AfterStoreError(c)) /\ runs' = runs
  <2>1. /\ c = "brute" => AfterStoreError(c) = Advance(BruteArtifact(errors))
        /\ c = "automate" => AfterStoreError(c) = Advance(ContextError)
        /\ c \notin {"brute", "automate"} => AfterStoreError(c) = GiveUp(ContextError)
    BY DEF AfterStoreError
  <2>2. BruteArtifact(errors) \in SUBSET Error /\ BruteArtifact(errors) # {}
    BY <1>3 DEF BruteArtifact, Error
  <2> PICK failed : failed = IF c = "brute" THEN BruteArtifact(errors) ELSE ContextError
    OBVIOUS
  <2>3. /\ failed \in SUBSET Error /\ failed # {}
        /\ c # "brute" => "partial" \notin failed
    BY <2>2, ContextErrors
  <2>4. CASE c \in {"brute", "automate"}
    <3>1. MayFail(ok, Advance(failed))
      BY <1>7, <2>1, <2>4
    <3>2. Arrives(c, NextStep(c, step), failed)
      BY <1>1, <2>3, <3>1, MayFailAdvance
    <3>3. NowAt(c, NextStep(c, step), failed, runs[c], files, job.database)
      BY <1>3, <1>7, <2>3, <2>4 DEF NowAt, HasStep, NextStep, Stored
    <3>4. QED
      BY <1>1, <1>2, <1>7, <3>2, <3>3, WithinStage DEF FlowTypes
  <2>5. CASE c \notin {"brute", "automate"}
    <3>1. MayFail(ok, GiveUp(failed))
      BY <1>7, <2>1, <2>5
    <3>2. Arrives(c, "finish", failed)
      BY <1>1, <2>3, <3>1, MayFailGiveUp
    <3>3. NowAt(c, "finish", failed, runs[c], files, job.database)
      BY <1>3, <1>7, <2>3, <2>5 DEF NowAt, HasStep, Stored
    <3>4. QED
      BY <1>1, <1>2, <1>7, <3>2, <3>3, WithinStage DEF FlowTypes
  <2>6. QED
    BY <2>4, <2>5
<1>8. QED
  BY <1>4, <1>5, <1>6, <1>7

LEMMA WriteArtifactsFlow ==
  ASSUME FlowOK, NEW c \in Command, NEW wrote \in {"all", "json", "none"}, WriteArtifacts(c, wrote)
  PROVE  FlowOK'
<1>1. /\ FlowTypes /\ flow.stage = c /\ flow.step = "write"
      /\ UNCHANGED <<job, outcome, policy, runs, canceled>>
  BY DEF FlowOK, WriteArtifacts, At
<1>2. Now(c) /\ runs \in [Command -> Run] /\ flow.errors \in SUBSET Error
  BY <1>1 DEF FlowOK, FlowTypes, FlowState
<1>3. /\ files \subseteq files' /\ files' \subseteq Artifact
      /\ wrote # "none" => c \in files'
  BY <1>1 DEF WriteArtifacts, FlowTypes, Artifact
<1> PICK errors : errors = AfterWrite(c, wrote)
  OBVIOUS
<1>4. /\ errors \in SUBSET Error
      /\ errors = {} => flow.errors = {} /\ wrote = "all"
      /\ c = "automate" /\ "partial" \in errors =>
           "partial" \in flow.errors \/ (flow.errors = {} /\ errors = {"partial"})
  <2> PICK old : old = flow.errors
    OBVIOUS
  <2>1. old \in SUBSET Error
    BY <1>2
  <2>2. CASE c = "brute"
    <3>1. errors = IF wrote = "all" THEN old ELSE old \cup {IF "partial" \in old THEN "artifact" ELSE "fatal"}
      BY <2>2 DEF AfterWrite, BruteArtifact
    <3>2. QED
      BY <2>1, <2>2, <3>1 DEF Error
  <2>3. CASE c # "brute" /\ wrote # "all"
    <3>1. errors = old \cup {"fatal"}
      BY <2>3 DEF AfterWrite
    <3>2. errors \in SUBSET Error /\ errors # {} /\ ("partial" \in errors => "partial" \in old)
      BY <2>1, <3>1 DEF Error
    <3>3. QED
      BY <3>2
  <2>4. CASE c # "brute" /\ wrote = "all"
    <3>1. \/ c = "automate" /\ old = {} /\ errors = {"partial"}
          \/ c = "fuzz" /\ errors = {"fatal"}
          \/ errors = old
      BY <2>4 DEF AfterWrite
    <3>2. /\ {"partial"} \in SUBSET Error /\ {"fatal"} \in SUBSET Error
          /\ {"partial"} # {} /\ {"fatal"} # {}
      BY DEF Error
    <3>3. CASE c = "automate" /\ old = {} /\ errors = {"partial"}
      BY <3>2, <3>3
    <3>4. CASE c = "fuzz" /\ errors = {"fatal"}
      BY <3>2, <3>4
    <3>5. CASE errors = old
      BY <2>1, <2>4, <3>5
    <3>6. QED
      BY <3>1, <3>3, <3>4, <3>5
  <2>5. QED
    BY <2>2, <2>3, <2>4
<1> DEFINE next == Advance(errors)
           late == [next EXCEPT !.incomplete = FALSE]
<1>5. MayFail(wrote = "all", late)
  BY Zenon DEF WriteArtifacts
<1>6. /\ next \in FlowState /\ next.stage = c /\ next.step = NextStep(c, "write")
      /\ next.errors = errors /\ next.failures = flow.failures
  BY <1>1, <1>4, Advances
<1> HIDE DEF next
<1>7. late \in FlowState
  BY <1>6, Zenon DEF FlowState
<1>8. /\ late.stage = c /\ late.step = "finish"
      /\ late.errors = errors /\ late.failures = flow.failures
  BY <1>6 DEF FlowState, NextStep
<1> HIDE DEF late
<1>9. Arrives(c, "finish", errors)
  BY <1>5, <1>7, <1>8, MayFailArrives
<1>10. NowAt(c, "finish", errors, runs[c], files', job.database)
  BY <1>1, <1>2, <1>3, <1>4 DEF Now, NowAt, HasStep
<1>11. QED
  BY <1>1, <1>2, <1>3, <1>9, <1>10, WithinStage DEF FlowTypes

-----------------------------------------------------------------------------
(* The end of a command                                                    *)

\* The error a command ends with, and what is left of it after suppression.
FinalError(c, errors, ok) == Continuation(c, IF ok THEN errors ELSE errors \cup {"persistence"})
\* Nothing went wrong, or what did was suppressed.
Excused(c, old, errors) ==
  \/ errors = {}
  \/ c = "brute" /\ "brute" \in files
  \/ c = "automate" /\ "automate" \in files /\ old = {"partial"} /\ errors = {"partial"}

LEMMA FinalFacts ==
  ASSUME NEW c \in Command, NEW old \in SUBSET Error, NEW ok \in BOOLEAN,
         c = "automate" /\ "partial" \in old => old = {"partial"}
  PROVE  LET errors == RedactPrivateError(c, old)
             final == FinalError(c, errors, ok)
         IN  /\ final \in SUBSET Error
             /\ (errors = {}) <=> (old = {})
             /\ ~ok => "persistence" \in final
             /\ errors = {} => final \subseteq {"persistence"}
             /\ final = {} => ok /\ Excused(c, old, errors)
<1> PICK errors : errors = RedactPrivateError(c, old)
  OBVIOUS
<1> PICK whole : whole = IF ok THEN errors ELSE errors \cup {"persistence"}
  OBVIOUS
<1> PICK final : final = Continuation(c, whole)
  OBVIOUS
<1>1. /\ errors \in SUBSET Error
      /\ (errors = {}) <=> (old = {})
      /\ errors = old \/ errors = {"redacted"}
  BY DEF RedactPrivateError, Error
<1>2. /\ whole \in SUBSET Error
      /\ ~ok => "persistence" \in whole
      /\ ok => whole = errors
      /\ errors = {} => whole \subseteq {"persistence"}
      /\ "partial" \in whole => "partial" \in errors
  BY <1>1 DEF Error
<1>3. /\ final = whole \/ final = {}
      /\ final # whole => /\ "partial" \in whole /\ "persistence" \notin whole
                          /\ c \in {"brute", "automate"} /\ c \in files
  BY DEF Continuation, SuppressBrutePartialFailure, SuppressAutomatePartialFailure
<1>4. final \in SUBSET Error
  BY <1>2, <1>3
<1>5. "partial" \in errors => errors = old
  BY <1>1
<1>6. final = FinalError(c, errors, ok)
  BY Zenon DEF FinalError
<1>7. final = {} => ok /\ Excused(c, old, errors)
  <2>1. CASE final = whole /\ final = {}
    BY <1>2, <2>1 DEF Excused
  <2>2. CASE final # whole
    <3>1. ok /\ "partial" \in old /\ errors = old /\ c \in {"brute", "automate"} /\ c \in files
      BY <1>2, <1>3, <1>5, <2>2
    <3>2. QED
      BY <3>1 DEF Excused
  <2>3. QED
    BY <2>1, <2>2
<1>8. /\ ~ok => "persistence" \in final
      /\ errors = {} => final \subseteq {"persistence"}
  BY <1>2, <1>3
<1>9. QED
  BY <1>1, <1>4, <1>6, <1>7, <1>8

\* FinishRun, or no change to the run.
LEMMA FinishedRun ==
  ASSUME runs \in [Command -> Run], NEW c \in Command, NEW finished \in BOOLEAN, NEW errors,
         IF Stored(c) /\ finished THEN FinishRun(c, errors) ELSE UNCHANGED runs
  PROVE  /\ runs' \in [Command -> Run] /\ \A d \in Command : d # c => runs'[d] = runs[d]
         /\ runs'[c].observations = runs[c].observations
         /\ finished /\ runs[c].status = "running" => runs'[c].status = FinishStatus(errors)
         /\ ~(finished /\ runs[c].status = "running") => runs'[c].status = runs[c].status
<1> PICK run : run = runs[c]
  OBVIOUS
<1>1. run \in Run
  OBVIOUS
<1>2. CASE Stored(c) /\ finished
  <2> DEFINE status == IF run.status = "running" THEN FinishStatus(errors) ELSE run.status
             new == [run EXCEPT !.status = status]
  <2>1. runs' = [runs EXCEPT ![c] = new]
    BY <1>2 DEF FinishRun
  <2>2. status \in RunStatus
    BY <1>1 DEF FinishStatus, RunStatus, Run
  <2> HIDE DEF status
  <2>3. new \in Run /\ new.status = status /\ new.observations = run.observations
    BY <1>1, <2>2 DEF Run
  <2> HIDE DEF new
  <2>4. QED
    BY <1>2, <2>1, <2>3 DEF status
<1>3. CASE ~(Stored(c) /\ finished)
  BY <1>3 DEF Stored
<1>4. QED
  BY <1>2, <1>3

\* The stage after a command is a later one, and the very next if nothing
\* went wrong.
LEMMA StageAfterFacts ==
  ASSUME FlowTypes, NEW c \in Command, NEW final
  PROVE  LET next == StageAfter(c, final)
         IN  /\ next \in Command \cup {"assessment", "ended"}
             /\ Rank(next) > Rank(c)
             /\ c # "report" => next # "assessment"
             /\ final = {} =>
                  \A d \in Command : Rank(d) < Rank(next) => d = c \/ Rank(d) < Rank(c)
             /\ final = {} /\ next = "ended" => c = "report" /\ ~(job.assessment /\ ~AssessmentSkipped)
<1>1. CASE c = "brute"
  BY <1>1 DEF StageAfter, Rank, Command
<1>2. CASE c = "automate"
  BY <1>2 DEF StageAfter, Rank, Command
<1>3. CASE c = "fuzz"
  BY <1>3 DEF StageAfter, Rank, Command
<1>4. CASE c = "collection"
  BY <1>4 DEF StageAfter, Rank, Command
<1>5. CASE c = "report"
  BY <1>5 DEF StageAfter, Rank, Command
<1>6. QED
  BY <1>1, <1>2, <1>3, <1>4, <1>5 DEF Command

\* A command ends with an error that is left of it, and the next stage begins.
Leaves(c, final, next) ==
  /\ final \in SUBSET Error /\ next = StageAfter(c, final)
  /\ Arrives(next, IF next = "assessment" THEN "plan" ELSE "begin", {})
  /\ UNCHANGED <<job, canceled, policy, files>>
  /\ runs' \in [Command -> Run] /\ \A d \in Command : d # c => runs'[d] = runs[d]
  /\ outcome' = [outcome EXCEPT
       ![c] = final,
       !["assessment"] = IF c = "report" /\ job.assessment /\ AssessmentSkipped
                         THEN {"fatal"} ELSE @]
  /\ Told(c)'
  /\ final = {} => Complete(c)'

LEMMA StageLeft ==
  ASSUME FlowOK, NEW c \in Command, flow.stage = c, NEW final, NEW next, Leaves(c, final, next)
  PROVE  FlowOK'
<1>0. /\ final \in SUBSET Error /\ next = StageAfter(c, final)
      /\ Arrives(next, IF next = "assessment" THEN "plan" ELSE "begin", {})
      /\ UNCHANGED <<job, canceled, policy, files>>
      /\ runs' \in [Command -> Run] /\ \A d \in Command : d # c => runs'[d] = runs[d]
      /\ outcome' = [outcome EXCEPT
           ![c] = final,
           !["assessment"] = IF c = "report" /\ job.assessment /\ AssessmentSkipped
                             THEN {"fatal"} ELSE @]
      /\ Told(c)'
      /\ final = {} => Complete(c)'
  BY Zenon DEF Leaves
<1> USE <1>0
<1>1. /\ FlowTypes /\ Past /\ outcome \in [Stage -> SUBSET Error]
      /\ flow'.stage = next /\ flow'.errors = {}
      /\ flow'.step = IF next = "assessment" THEN "plan" ELSE "begin"
  BY DEF FlowOK, FlowTypes, Arrives
<1>2. /\ next \in Command \cup {"assessment", "ended"}
      /\ Rank(next) > Rank(c)
      /\ c # "report" => next # "assessment"
      /\ final = {} => \A d \in Command : Rank(d) < Rank(next) => d = c \/ Rank(d) < Rank(c)
      /\ final = {} /\ next = "ended" => c = "report" /\ ~(job.assessment /\ ~AssessmentSkipped)
  BY <1>1, StageAfterFacts
<1>3. c \in Stage /\ "assessment" \in Stage /\ c # "assessment" /\ {"fatal"} \in SUBSET Error
  BY DEF Stage, Command, Error
<1> DEFINE skipped == c = "report" /\ job.assessment /\ AssessmentSkipped
<1>4. /\ outcome' \in [Stage -> SUBSET Error]
      /\ outcome'[c] = final
      /\ \A s \in Stage \ {c, "assessment"} : outcome'[s] = outcome[s]
      /\ outcome'["assessment"] = IF skipped THEN {"fatal"} ELSE outcome["assessment"]
  BY <1>1, <1>3
<1>5. FlowTypes'
  BY <1>1, <1>4 DEF FlowTypes, Arrives
<1>6. next = "assessment" => ~skipped
  BY DEF StageAfter, Command
<1> HIDE DEF skipped
<1>7. \A s \in Stage : Rank(s)' = Rank(s) /\ Rank(s) \in 0..7
  BY DEF Rank
<1>8. \A s \in Stage : Rank(s) >= Rank(next) => outcome'[s] = {}
  <2> SUFFICES ASSUME NEW s \in Stage, Rank(s) >= Rank(next) PROVE outcome'[s] = {}
    OBVIOUS
  <2>1. Rank(s) \in 0..7 /\ Rank(next) \in 0..7 /\ Rank(c) \in 0..7
    BY DEF Rank
  <2>2. Rank(s) > Rank(c)
    BY <1>2, <2>1
  <2>3. s # c /\ outcome[s] = {}
    BY <1>1, <2>1, <2>2 DEF Past
  <2>4. CASE s # "assessment"
    BY <1>4, <2>3, <2>4
  <2>5. CASE s = "assessment"
    <3>1. ~skipped
      BY <1>2, <1>6, <2>5 DEF Rank, StageAfter, skipped, Command
    <3>2. QED
      BY <1>4, <2>3, <2>5, <3>1
  <2>6. QED
    BY <2>4, <2>5
<1>9. \A d \in Command : Rank(d) > Rank(next) => runs'[d] = NoRun
  <2> SUFFICES ASSUME NEW d \in Command, Rank(d) > Rank(next) PROVE runs'[d] = NoRun
    OBVIOUS
  <2>1. Rank(d) \in 0..7 /\ Rank(next) \in 0..7 /\ Rank(c) \in 0..7
    BY DEF Rank
  <2>2. Rank(d) > Rank(c) /\ d # c
    BY <1>2, <2>1
  <2>3. QED
    BY <1>1, <2>2 DEF Past
<1>10. \A d \in Command : d # next => Told(d)'
  <2> SUFFICES ASSUME NEW d \in Command, d # c PROVE Told(d)'
    OBVIOUS
  <2>1. Told(d) /\ d \in Stage \ {c, "assessment"}
    BY <1>1 DEF Past, Stage, Command
  <2>2. QED
    BY <1>4, <2>1 DEF Told
<1>11. ASSUME \A s \in Stage : outcome'[s] = {}
       PROVE  /\ \A d \in Command : Rank(d) < Rank(next) /\ (d = "brute" => job.mode = "brute") =>
                   Complete(d)'
              /\ next = "ended" /\ job.assessment => {"plan", "run", "assessment"} \subseteq files
  <2>1. final = {} /\ ~skipped /\ {"fatal"} # {}
    BY <1>3, <1>4, <1>11
  <2>2. \A s \in Stage : outcome[s] = {}
    <3>1. outcome[c] = {}
      BY <1>1, <1>3, <1>7 DEF Past
    <3>2. QED
      BY <1>4, <1>11, <2>1, <3>1
  <2>3. \A d \in Command : Rank(d) < Rank(c) /\ (d = "brute" => job.mode = "brute") => Complete(d)
    BY <1>1, <2>2 DEF Past
  <2>4. ASSUME NEW d \in Command, Rank(d) < Rank(next), d = "brute" => job.mode = "brute"
        PROVE  Complete(d)'
    <3>1. CASE d = c
      BY <2>1, <3>1
    <3>2. CASE d # c
      <4>1. Complete(d)
        BY <1>2, <2>1, <2>3, <2>4, <3>2
      <4>2. QED
        BY <3>2, <4>1 DEF Complete
    <3>3. QED
      BY <3>1, <3>2
  <2>5. ~(next = "ended" /\ job.assessment)
    BY <1>2, <2>1 DEF skipped
  <2>6. QED
    BY <2>4, <2>5
<1>12. Past'
  <2>1. (\A s \in Stage : Rank(s) >= Rank(flow.stage) => outcome[s] = {})'
    BY <1>1, <1>8 DEF Rank
  <2>2. (\A d \in Command : Rank(d) > Rank(flow.stage) => runs[d] = NoRun)'
    BY <1>1, <1>9 DEF Rank
  <2>3. (\A d \in Command : d # flow.stage => Told(d))'
    BY <1>1, <1>10
  <2>4. ((\A s \in Stage : outcome[s] = {}) =>
           /\ \A d \in Command : Rank(d) < Rank(flow.stage) /\ (d = "brute" => job.mode = "brute") =>
                Complete(d)
           /\ flow.stage = "ended" /\ job.assessment =>
                {"plan", "run", "assessment"} \subseteq files)'
    BY <1>1, <1>11 DEF Rank
  <2>5. QED
    BY <2>1, <2>2, <2>3, <2>4 DEF Past
<1>13. ASSUME NEW d \in Command, flow'.stage = d PROVE Now(d)'
  <2>1. d = next /\ flow'.step = "begin" /\ d # c
    BY <1>1, <1>2, <1>13 DEF Command, Rank
  <2>2. runs'[d] = NoRun
    BY <1>1, <1>2, <2>1 DEF Past
  <2>3. NowAt(d, "begin", {}, NoRun, files, job.database)
    BY <2>1 DEF NowAt, HasStep, NoRun
  <2>4. QED
    BY <1>1, <2>1, <2>2, <2>3 DEF Now
<1>14. Assessed'
  BY <1>1 DEF Assessed
<1>15. QED
  BY <1>5, <1>12, <1>13, <1>14 DEF FlowOK

LEMMA FinishCommandFlow ==
  ASSUME FlowOK, NEW c \in Command, NEW finished \in BOOLEAN, NEW ok \in BOOLEAN,
         FinishCommand(c, finished, ok)
  PROVE  FlowOK'
<1>1. FlowTypes /\ flow.stage = c /\ flow.step = "finish"
  BY DEF FlowOK, FinishCommand, At
<1> PICK old : old = flow.errors
  OBVIOUS
<1> PICK errors : errors = RedactPrivateError(c, old)
  OBVIOUS
<1> PICK final : final = FinalError(c, errors, ok)
  OBVIOUS
<1> PICK next : next = StageAfter(c, final)
  OBVIOUS
<1>2. /\ ok => finished
      /\ ~Stored(c) => ok
      /\ MayFail(ok, Enter(next))
      /\ IF Stored(c) /\ finished THEN FinishRun(c, errors) ELSE UNCHANGED runs
      /\ outcome' = [outcome EXCEPT
           ![c] = final,
           !["assessment"] = IF c = "report" /\ job.assessment /\ AssessmentSkipped
                             THEN {"fatal"} ELSE @]
      /\ UNCHANGED <<job, files, policy, canceled>>
  BY Zenon DEF FinishCommand, FinalError
<1>3. /\ old \in SUBSET Error /\ runs \in [Command -> Run]
      /\ NowAt(c, "finish", old, runs[c], files, job.database)
  BY <1>1 DEF FlowOK, FlowTypes, FlowState, Now
<1>4. /\ final \in SUBSET Error
      /\ (errors = {}) <=> (old = {})
      /\ ~ok => "persistence" \in final
      /\ errors = {} => final \subseteq {"persistence"}
      /\ final = {} => ok /\ Excused(c, old, errors)
  <2>1. c = "automate" /\ "partial" \in old => old = {"partial"}
    BY <1>3 DEF NowAt
  <2>2. QED
    BY <1>3, <2>1, FinalFacts
<1>5. /\ runs' \in [Command -> Run] /\ \A d \in Command : d # c => runs'[d] = runs[d]
      /\ runs'[c].observations = runs[c].observations
      /\ finished /\ runs[c].status = "running" => runs'[c].status = FinishStatus(errors)
      /\ ~(finished /\ runs[c].status = "running") => runs'[c].status = runs[c].status
  BY <1>2, <1>3, FinishedRun
<1>6. c \in Stage /\ outcome \in [Stage -> SUBSET Error] /\ c # "assessment"
  BY <1>1 DEF Stage, Command, FlowTypes
<1>7. outcome'[c] = final
  BY <1>2, <1>6
<1>8. runs[c].status \in {"none", "running"}
  BY <1>3 DEF NowAt
<1>9. Told(c)'
  <2>1. runs'[c].status = "running" => "persistence" \in final
    BY <1>2, <1>4, <1>5, <1>8 DEF FinishStatus, Stored
  <2>2. runs'[c].status = "succeeded" => errors = {} /\ runs[c].status = "running"
    BY <1>5, <1>8 DEF FinishStatus
  <2>3. runs'[c].status = "succeeded" => runs'[c].observations /\ c \in files
    BY <1>3, <1>4, <1>5, <2>2 DEF NowAt
  <2>4. QED
    BY <1>2, <1>4, <1>7, <2>1, <2>2, <2>3 DEF Told
<1>10. final = {} => Complete(c)'
  <2> SUFFICES ASSUME final = {} PROVE Complete(c)'
    OBVIOUS
  <2>1. ok /\ finished /\ Excused(c, old, errors)
    BY <1>2, <1>4
  <2>2. c \in files /\ (c = "collection" => "operations" \in files)
    BY <1>3, <1>4, <2>1 DEF NowAt, Excused
  <2>3. ASSUME job.database, c # "brute"
        PROVE  runs'[c].observations /\ runs'[c].status \in {"succeeded", "failed"}
    <3>1. old = {} \/ (c = "automate" /\ old = {"partial"})
      BY <1>4, <2>1, <2>3 DEF Excused
    <3>2. runs[c].status = "running" /\ runs[c].observations
      BY <1>3, <1>8, <2>3, <3>1 DEF NowAt
    <3>3. errors = {} \/ errors = {"partial"}
      BY <1>4, <2>1, <2>3 DEF Excused
    <3>4. FinishStatus(errors) \in {"succeeded", "failed"}
      BY <3>3 DEF FinishStatus
    <3>5. QED
      BY <1>5, <2>1, <3>2, <3>4
  <2>4. QED
    BY <1>2, <2>2, <2>3 DEF Complete
<1>11. Arrives(next, IF next = "assessment" THEN "plan" ELSE "begin", {})
  <2>1. next \in Command \cup {"assessment", "ended"}
    BY <1>1, StageAfterFacts
  <2> DEFINE entered == Enter(next)
  <2>2. /\ entered \in FlowState /\ entered.stage = next
        /\ entered.step = IF next = "assessment" THEN "plan" ELSE "begin"
        /\ entered.errors = {} /\ entered.failures = flow.failures
    BY <1>1, <2>1, EnterFacts
  <2>3. MayFail(ok, entered)
    BY <1>2
  <2> HIDE DEF entered
  <2>4. QED
    BY <2>2, <2>3, MayFailArrives
<1>12. Leaves(c, final, next)
  BY <1>2, <1>4, <1>5, <1>9, <1>10, <1>11, Zenon DEF Leaves
<1>13. QED
  BY <1>1, <1>12, StageLeft

-----------------------------------------------------------------------------
(* The first stage and the last one                                        *)

LEMMA StartWorkflowFlow ==
  ASSUME FlowOK, automateJob \in AutomateJob, StartWorkflow
  PROVE  FlowOK'
<1> PICK next : next = IF WorkflowRefused THEN "ended"
                       ELSE IF job.mode = "brute" THEN "brute" ELSE "automate"
  OBVIOUS
<1>1. /\ FlowTypes /\ Past /\ flow.stage = "workflow" /\ flow' = Enter(next)
      /\ UNCHANGED <<job, files, runs, canceled>>
      /\ WorkflowRefused => /\ outcome' = [outcome EXCEPT !["workflow"] = {"fatal"}]
                            /\ policy' = policy
      /\ ~WorkflowRefused => /\ policy' = LoadPrivateHeaders(policy, job.explicit)
                             /\ outcome' = outcome
  BY DEF FlowOK, StartWorkflow
<1>2. next \in Command \cup {"assessment", "ended"} /\ next # "assessment"
  BY DEF Command
<1>3. Arrives(next, "begin", {})
  <2> DEFINE entered == Enter(next)
  <2>1. /\ entered \in FlowState /\ entered.stage = next
        /\ entered.step = IF next = "assessment" THEN "plan" ELSE "begin"
        /\ entered.errors = {} /\ entered.failures = flow.failures
    BY <1>1, <1>2, EnterFacts
  <2> HIDE DEF entered
  <2>2. flow' = entered
    BY <1>1 DEF entered
  <2>3. QED
    BY <1>1, <1>2, <2>1, <2>2 DEF Arrives, FlowTypes
<1>4. policy' \in PolicyState
  <2>1. job.explicit \in SUBSET Origin
    BY <1>1 DEF FlowTypes, Job
  <2>2. QED
    BY <1>1, <2>1, LoadTyped DEF FlowTypes
<1>5. /\ \A s \in Stage : outcome[s] = {}
      /\ \A c \in Command : runs[c] = NoRun
  <2>1. \A s \in Stage : Rank(s) >= Rank("workflow")
    BY DEF Rank
  <2>2. \A c \in Command : Rank(c) > Rank("workflow")
    BY DEF Rank, Command
  <2>3. QED
    BY <1>1, <2>1, <2>2 DEF Past
<1>6. "workflow" \in Stage /\ {"fatal"} \in SUBSET Error /\ {"fatal"} # {}
  BY DEF Stage, Error
<1>7. /\ outcome' \in [Stage -> SUBSET Error]
      /\ \A s \in Stage : s # "workflow" => outcome'[s] = {}
      /\ WorkflowRefused => outcome'["workflow"] # {}
  BY <1>1, <1>5, <1>6 DEF FlowTypes
<1>8. FlowTypes'
  BY <1>1, <1>3, <1>4, <1>7 DEF FlowTypes, Arrives
<1>9. \A d \in Command : Told(d)'
  BY <1>1, <1>5 DEF Told, NoRun
<1>10. flow'.stage = next /\ flow'.step = "begin" /\ flow'.errors = {}
  BY <1>3 DEF Arrives
<1>11. Past'
  <2>1. (\A s \in Stage : Rank(s) >= Rank(flow.stage) => outcome[s] = {})'
    BY <1>2, <1>7, <1>10 DEF Rank, Command
  <2>2. (\A d \in Command : Rank(d) > Rank(flow.stage) => runs[d] = NoRun)'
    BY <1>1, <1>5 DEF Rank
  <2>3. ((\A s \in Stage : outcome[s] = {}) =>
           /\ \A d \in Command : Rank(d) < Rank(flow.stage) /\ (d = "brute" => job.mode = "brute") =>
                Complete(d)
           /\ flow.stage = "ended" /\ job.assessment =>
                {"plan", "run", "assessment"} \subseteq files)'
    <3>1. ASSUME \A s \in Stage : outcome'[s] = {}
          PROVE  next = IF job.mode = "brute" THEN "brute" ELSE "automate"
      BY <1>6, <1>7, <3>1
    <3>2. ASSUME next = IF job.mode = "brute" THEN "brute" ELSE "automate", NEW d \in Command,
                 Rank(d) < Rank(next), d = "brute" => job.mode = "brute"
          PROVE  FALSE
      <4>1. CASE job.mode = "brute"
        BY <3>2, <4>1 DEF Rank, Command
      <4>2. CASE job.mode # "brute"
        BY <3>2, <4>2 DEF Rank, Command
      <4>3. QED
        BY <4>1, <4>2
    <3>3. QED
      BY <1>1, <1>10, <3>1, <3>2 DEF Rank
  <2>4. QED
    BY <1>9, <2>1, <2>2, <2>3 DEF Past
<1>12. ASSUME NEW d \in Command, flow'.stage = d PROVE Now(d)'
  <2>1. NowAt(d, "begin", {}, NoRun, files, job.database)
    BY DEF NowAt, HasStep, NoRun
  <2>2. QED
    BY <1>1, <1>5, <1>10, <2>1 DEF Now
<1>13. Assessed'
  BY <1>2, <1>10 DEF Assessed
<1>14. QED
  BY <1>8, <1>11, <1>12, <1>13 DEF FlowOK

LEMMA AssessmentEnds ==
  ASSUME FlowOK, flow.stage = "assessment", NEW errors \in SUBSET Error, EndAssessment(errors),
         UNCHANGED <<job, policy, runs, canceled>>, files \subseteq files', files' \subseteq Artifact,
         errors = {} => {"plan", "run", "assessment"} \subseteq files'
  PROVE  FlowOK'
<1>1. /\ FlowTypes /\ Past /\ flow' = Enter("ended")
      /\ outcome' = [outcome EXCEPT !["assessment"] = errors]
  BY DEF FlowOK, EndAssessment
<1>2. Arrives("ended", "begin", {})
  <2> DEFINE entered == Enter("ended")
  <2>1. "ended" \in Command \cup {"assessment", "ended"}
    OBVIOUS
  <2>2. /\ entered \in FlowState /\ entered.stage = "ended"
        /\ entered.step = "begin" /\ entered.errors = {} /\ entered.failures = flow.failures
    BY <1>1, <2>1, EnterFacts
  <2> HIDE DEF entered
  <2>3. flow' = entered
    BY <1>1 DEF entered
  <2>4. QED
    BY <1>1, <2>2, <2>3 DEF Arrives, FlowTypes
<1>3. "assessment" \in Stage /\ \A c \in Command : c \in Stage /\ c # "assessment" /\ c # "ended"
  BY DEF Stage, Command
<1>4. /\ outcome' \in [Stage -> SUBSET Error] /\ outcome'["assessment"] = errors
      /\ \A s \in Stage : s # "assessment" => outcome'[s] = outcome[s]
  BY <1>1, <1>3 DEF FlowTypes
<1>5. FlowTypes'
  BY <1>1, <1>2, <1>4 DEF FlowTypes, Arrives
<1>6. flow'.stage = "ended" /\ flow'.step = "begin"
  BY <1>2 DEF Arrives
<1>7. Past'
  <2>1. (\A s \in Stage : Rank(s) >= Rank(flow.stage) => outcome[s] = {})'
    <3> SUFFICES ASSUME NEW s \in Stage, s = "ended" PROVE outcome'[s] = {}
      BY <1>6 DEF Rank, Stage, Command
    <3>1. outcome[s] = {}
      BY <1>1 DEF Past, Rank
    <3>2. QED
      BY <1>4, <3>1
  <2>2. (\A d \in Command : Rank(d) > Rank(flow.stage) => runs[d] = NoRun)'
    BY <1>6 DEF Rank
  <2>3. (\A d \in Command : d # flow.stage => Told(d))'
    BY <1>1, <1>3, <1>4 DEF Past, Told
  <2>4. ASSUME \A s \in Stage : outcome'[s] = {}
        PROVE  /\ \A d \in Command : (d = "brute" => job.mode = "brute") => Complete(d)'
               /\ {"plan", "run", "assessment"} \subseteq files'
    <3>1. errors = {}
      BY <1>3, <1>4, <2>4
    <3>2. outcome["assessment"] = {}
      BY <1>1, <1>3 DEF Past, Rank
    <3>3. \A s \in Stage : outcome[s] = {}
      BY <1>4, <2>4, <3>2
    <3>4. \A d \in Command : Rank(d) < Rank("assessment")
      BY DEF Rank, Command
    <3>5. \A d \in Command : (d = "brute" => job.mode = "brute") => Complete(d)
      BY <1>1, <3>3, <3>4 DEF Past
    <3>6. QED
      BY <3>1, <3>5 DEF Complete
  <2>5. QED
    BY <2>1, <2>2, <2>3, <2>4 DEF Past
<1>8. QED
  BY <1>3, <1>5, <1>6, <1>7 DEF FlowOK, Assessed

LEMMA AssessmentGoesOn ==
  ASSUME FlowOK, flow.stage = "assessment", NEW errors \in SUBSET Error, flow' = Advance(errors),
         UNCHANGED <<job, policy, runs, canceled, outcome>>,
         files \subseteq files', files' \subseteq Artifact,
         flow.step # "reports",
         flow.step = "store-plan" => "plan" \in files',
         flow.step = "store-run" => "run" \in files'
  PROVE  FlowOK'
<1>1. FlowTypes /\ Past /\ flow.step \in {"plan", "store-plan", "run", "store-run"}
  BY DEF FlowOK, Assessed
<1>2. FollowingStep \in {"store-plan", "run", "store-run", "reports"}
  BY <1>1, AssessmentSteps
<1>3. FollowingStep \in StepName
  BY <1>2 DEF StepName
<1>4. Arrives("assessment", FollowingStep, errors)
  <2> DEFINE next == Advance(errors)
  <2>1. /\ next \in FlowState /\ next.stage = flow.stage /\ next.step = FollowingStep
        /\ next.errors = errors /\ next.failures = flow.failures
    BY <1>1, <1>3, AdvanceFacts
  <2>2. flow' = next
    OBVIOUS
  <2> HIDE DEF next
  <2>3. QED
    BY <1>1, <2>1, <2>2 DEF Arrives, FlowTypes
<1>5. flow'.stage = "assessment" /\ flow'.step = FollowingStep
  BY <1>4 DEF Arrives
<1>6. FlowTypes'
  BY <1>1, <1>4 DEF FlowTypes, Arrives
<1>7. Past'
  BY <1>1, <1>5, PastKept
<1>8. Assessed'
  BY <1>1, <1>2, <1>5, AssessmentSteps DEF FlowOK, Assessed
<1>9. QED
  BY <1>5, <1>6, <1>7, <1>8 DEF FlowOK, Command

LEMMA AssessmentFlow ==
  ASSUME FlowOK, NEW ok \in BOOLEAN,
         \/ AssessmentStep(ok)
         \/ AssessmentReports(ok)
         \/ \E errors \in {{}, {"partial"}, ContextError} : RunAssessment(errors, ok)
  PROVE  FlowOK'
<1>1. FlowTypes /\ files \subseteq Artifact /\ flow.errors \in SUBSET Error
  BY DEF FlowOK, FlowTypes, FlowState
<1>2. "plan" \in Artifact /\ "run" \in Artifact /\ "assessment" \in Artifact
  BY DEF Artifact
<1>3. flow.errors \cup ContextError \in SUBSET Error /\ flow.errors \cup ContextError # {}
  BY <1>1, ContextErrors
<1>4. CASE AssessmentStep(ok)
  <2>1. /\ flow.stage = "assessment" /\ flow.step \in {"plan", "store-plan", "store-run"}
        /\ UNCHANGED <<job, policy, runs, canceled>>
        /\ files \subseteq files' /\ files' \subseteq Artifact
    BY <1>1, <1>2, <1>4 DEF AssessmentStep
  <2>2. CASE ok /\ ~(flow.step = "plan" /\ canceled)
    <3>1. /\ flow' = Advance(flow.errors) /\ outcome' = outcome
          /\ flow.step = "store-plan" => "plan" \in files'
          /\ flow.step = "store-run" => "run" \in files'
      BY <1>4, <2>2 DEF AssessmentStep
    <3>2. QED
      BY <1>1, <2>1, <3>1, AssessmentGoesOn
  <2>3. CASE ~(ok /\ ~(flow.step = "plan" /\ canceled))
    <3>1. EndAssessment(flow.errors \cup ContextError)
      BY <1>4, <2>3 DEF AssessmentStep
    <3>2. QED
      BY <1>3, <2>1, <3>1, AssessmentEnds
  <2>4. QED
    BY <2>2, <2>3
<1>5. CASE AssessmentReports(ok)
  <2>1. /\ flow.stage = "assessment" /\ flow.step = "reports"
        /\ UNCHANGED <<job, policy, runs, canceled>>
        /\ files' = IF ok THEN files \cup {"assessment"} ELSE files
    BY <1>5 DEF AssessmentReports, At
  <2> PICK errors : errors = IF ~ok THEN flow.errors \cup ContextError
                             ELSE IF flow.errors = {"partial"} THEN {} ELSE flow.errors
    OBVIOUS
  <2>2. EndAssessment(errors)
    BY <1>5, Zenon DEF AssessmentReports
  <2>3. errors \in SUBSET Error /\ (errors = {} => ok)
    BY <1>1, <1>3
  <2>4. {"plan", "run"} \subseteq files
    BY <2>1 DEF FlowOK, Assessed
  <2>5. /\ files \subseteq files' /\ files' \subseteq Artifact
        /\ errors = {} => {"plan", "run", "assessment"} \subseteq files'
    BY <1>1, <1>2, <2>1, <2>3, <2>4
  <2>6. QED
    BY <2>1, <2>2, <2>3, <2>5, AssessmentEnds
<1>6. ASSUME NEW errors \in {{}, {"partial"}, ContextError}, RunAssessment(errors, ok)
      PROVE  FlowOK'
  <2>1. /\ flow.stage = "assessment" /\ flow.step = "run"
        /\ UNCHANGED <<job, policy, runs, canceled, files>>
        /\ ok => flow' = Advance(errors) /\ outcome' = outcome
        /\ ~ok => EndAssessment(errors) /\ errors = ContextError
    BY <1>6 DEF RunAssessment, At
  <2>2. errors \in SUBSET Error
    BY <1>6, ContextErrors DEF Error
  <2>3. CASE ok
    BY <1>1, <2>1, <2>2, <2>3, AssessmentGoesOn
  <2>4. CASE ~ok
    BY <1>1, <2>1, <2>2, <2>4, ContextErrors, AssessmentEnds
  <2>5. QED
    BY <2>3, <2>4
<1>7. QED
  BY <1>4, <1>5, <1>6

LEMMA UnchangedFlow ==
  ASSUME FlowOK, UNCHANGED <<job, flow, outcome, files, policy, runs>>, canceled' \in BOOLEAN
  PROVE  FlowOK'
<1>1. FlowTypes' /\ Past'
  BY PastKept DEF FlowOK, FlowTypes
<1>2. \A c \in Command : Now(c) => Now(c)'
  BY DEF Now
<1>3. Assessed'
  BY DEF FlowOK, Assessed
<1>4. QED
  BY <1>1, <1>2, <1>3 DEF FlowOK

-----------------------------------------------------------------------------
(* The scans within the workflow, and the private headers                  *)

LEMMA StartedFields ==
  /\ AutoIdle.pc = "idle" /\ AutoIdle.error = {} /\ StartedAuto \in AutoState
  /\ StartedAuto.pc = "source" /\ StartedAuto.source = 1
<1>1. AutoIdle \in AutoState
  BY IdleTyped
<1>2. StartedAuto = [AutoIdle EXCEPT !.pc = "source", !.source = 1]
  BY DEF StartedAuto
<1>3. AutoIdle.pc = "idle" /\ AutoIdle.error = {}
  BY DEF AutoIdle
<1>4. StartedAuto.pc = "source" /\ StartedAuto.source = 1
  BY <1>1, <1>2 DEF AutoState
<1>5. StartedAuto \in AutoState
  <2> PICK idle : idle = AutoIdle
    OBVIOUS
  <2>1. StartedAuto = [idle EXCEPT !.pc = "source", !.source = 1] /\ idle \in AutoState
    BY <1>1, <1>2
  <2>2. "source" \in {"idle", "source", "plan", "settle", "over"} /\ 1 \in Nat
    OBVIOUS
  <2>3. QED
    BY <2>1, <2>2, Zenon DEF AutoState
<1>6. QED
  BY <1>3, <1>4, <1>5

LEMMA FreshCircuit ==
  /\ NotTripped(NewTargetCircuit)
  /\ \A o \in Origin : Settled(QuietWire, NewTargetCircuit, o)
BY DEF NotTripped, Settled, NewTargetCircuit, QuietWire, Allow

\* Between two scans nothing is known of any origin.
LEMMA AutoRested ==
  ASSUME NEW j \in AutomateJob, NEW k, NEW a, NEW c, NEW w, AutoOK(k, a, c, w),
         j.config = k.config, j.client = k.client
  PROVE  AutoOK(j, AutoIdle, NewTargetCircuit, w)
<1>1. Placed(j, AutoIdle)
  BY IdleTyped, StartedFields DEF Placed
<1>2. w \in WireState /\ w.late = {} /\ w.unsafe \subseteq Consented(j)
  BY DEF AutoOK, Consented
<1>3. QED
  BY <1>1, <1>2, IdleTyped, StartedFields, FreshCircuit DEF AutoOK

LEMMA QuietFields ==
  QuietWire.late = {} /\ QuietWire.unsafe = {} /\ QuietWire.private = {}
BY DEF QuietWire

LEMMA AutoStarts ==
  ASSUME NEW j \in AutomateJob
  PROVE  /\ AutoOK(j, AutoIdle, NewTargetCircuit, QuietWire)
         /\ j.sources # <<>> => AutoOK(j, StartedAuto, NewTargetCircuit, QuietWire)
<1>1. /\ QuietWire \in WireState /\ QuietWire.late = {} /\ QuietWire.unsafe \subseteq Consented(j)
      /\ NewTargetCircuit \in CircuitState
  BY IdleTyped, QuietFields
<1>2. Placed(j, AutoIdle)
  BY IdleTyped, StartedFields DEF Placed
<1>3. j.sources # <<>> => 1 \in 1..Len(j.sources)
  BY DEF AutomateJob
<1>4. j.sources # <<>> => Placed(j, StartedAuto)
  BY <1>3, StartedFields DEF Placed
<1>5. QED
  BY <1>1, <1>2, <1>4, StartedFields, FreshCircuit DEF AutoOK

ScansOK ==
  /\ BruteOK
  /\ AutoOK(automateJob, auto, circuit, wire) /\ written \in WrittenState
  /\ ~At("automate", "work") => auto = AutoIdle /\ circuit = NewTargetCircuit
  /\ flow.stage # "automate" \/ flow.step = "begin" => wire = QuietWire
\* The origins the operator named.
Home == job.explicit \cup automateJob.config.target
HeadersOK ==
  /\ policy.origins \subseteq Home /\ wire.private \subseteq Home
  /\ job.headerFile /\ flow.stage \notin {"workflow", "ended"} => policy.loaded = TRUE
  /\ At("automate", "work") => automateJob.authorized \subseteq Home

\* A step outside the scans.
Outside ==
  /\ ~At("automate", "work") /\ ~At("automate", "work")'
  /\ flow'.stage \in {flow.stage, "ended"}
  /\ flow'.stage = "automate" /\ flow'.step = "begin" => flow.step = "begin"
  /\ UNCHANGED <<job, policy, bruteVars, automateVars>>
LEMMA OutsideKeeps ==
  ASSUME ScansOK, HeadersOK, Outside, flow.stage # "ended", flow.stage = "automate" => flow'.stage = "automate"
  PROVE  ScansOK' /\ HeadersOK'
<1>1. UNCHANGED <<job, policy, bruteJob, scan, pool, automateJob, auto, circuit, written, wire>>
  BY DEF Outside, bruteVars, automateVars
<1>2. BruteOK'
  BY <1>1 DEF ScansOK, BruteOK, PoolOK
<1>3. AutoOK(automateJob, auto, circuit, wire)'
  BY <1>1, Zenon DEF ScansOK
<1>4. (flow'.stage # "automate" \/ flow'.step = "begin") => wire' = QuietWire
  BY <1>1 DEF ScansOK, Outside
<1>5. ScansOK'
  BY <1>1, <1>2, <1>3, <1>4 DEF ScansOK, Outside
<1>6. HeadersOK'
  BY <1>1 DEF HeadersOK, Home, Outside
<1>7. QED
  BY <1>5, <1>6

\* Where the steps that return, advance or give up arrive.
LEMMA OnwardFacts ==
  ASSUME FlowTypes, NEW errors, NEW ok, NEW incomplete,
         \/ flow' = Advance(errors)
         \/ flow' = GiveUp(errors)
         \/ flow' = [Advance(errors) EXCEPT !.incomplete = incomplete]
         \/ MayFail(ok, Advance(errors))
         \/ MayFail(ok, GiveUp(errors))
         \/ MayFail(ok, [Advance(errors) EXCEPT !.incomplete = incomplete])
  PROVE  flow'.stage = flow.stage /\ flow'.step \in {FollowingStep, "finish"}
<1> PICK step : step = FollowingStep
  OBVIOUS
<1> DEFINE one == [flow EXCEPT !.step = step, !.errors = errors]
           two == [flow EXCEPT !.step = "finish", !.errors = errors]
           three == [one EXCEPT !.incomplete = incomplete]
<1>1. one = Advance(errors) /\ two = GiveUp(errors)
  BY DEF Advance, GiveUp
<1>2. /\ one.stage = flow.stage /\ one.step = step
      /\ two.stage = flow.stage /\ two.step = "finish"
      /\ three.stage = flow.stage /\ three.step = step
  BY DEF FlowTypes, FlowState
<1>3. DOMAIN one = DOMAIN flow /\ DOMAIN two = DOMAIN flow /\ DOMAIN three = DOMAIN flow
  OBVIOUS
<1>4. DOMAIN flow = {"stage", "step", "errors", "failures", "incomplete"}
  BY DEF FlowTypes, FlowState
<1>5. three = [Advance(errors) EXCEPT !.incomplete = incomplete]
  BY <1>1
<1> HIDE DEF one, two, three
<1>6. \A next \in {one, two, three} :
        MayFail(ok, next) => flow'.stage = next.stage /\ flow'.step = next.step
  <2> SUFFICES ASSUME NEW next \in {one, two, three}, MayFail(ok, next)
               PROVE  flow'.stage = next.stage /\ flow'.step = next.step
    OBVIOUS
  <2>1. PICK failures : flow' = [next EXCEPT !.failures = failures]
    BY DEF MayFail
  <2>2. DOMAIN next = {"stage", "step", "errors", "failures", "incomplete"}
    BY <1>3, <1>4
  <2>3. QED
    BY <2>1, <2>2
<1>7. flow' \in {one, two, three} \/ \E next \in {one, two, three} : MayFail(ok, next)
  BY <1>1, <1>5
<1>8. QED
  BY <1>2, <1>6, <1>7

LEMMA OutsideSteps ==
  ASSUME FlowOK, NEW ok \in BOOLEAN, NEW c \in Command,
         \/ \E error \in {{}, ContextError} : FuzzReturns(error, ok)
         \/ GenerateCollection(ok)
         \/ \E step \in {"observations", "findings"} : StoreResults(c, step, ok)
         \/ \E wrote \in {"all", "json", "none"} : WriteArtifacts(c, wrote)
  PROVE  Outside /\ flow.stage # "ended" /\ flow'.stage = flow.stage
<1>1. FlowTypes /\ UNCHANGED <<job, policy, bruteVars, automateVars>>
  BY DEF FlowOK, FuzzReturns, GenerateCollection, StoreResults, WriteArtifacts
<1>2. flow'.stage = flow.stage /\ flow'.step \in {FollowingStep, "finish"}
  <2>1. ASSUME NEW error, FuzzReturns(error, ok)
        PROVE  flow'.stage = flow.stage /\ flow'.step \in {FollowingStep, "finish"}
    <3>1. flow' = GiveUp(error) \/ flow' = [Advance({}) EXCEPT !.incomplete = ok]
      BY <2>1, Zenon DEF FuzzReturns
    <3>2. QED
      BY <1>1, <3>1, OnwardFacts
  <2>2. CASE GenerateCollection(ok)
    <3>1. \/ flow' = GiveUp({"fatal"})
          \/ MayFail(ok, Advance({}))
          \/ MayFail(ok, GiveUp({"fatal"}))
      BY <2>2 DEF GenerateCollection
    <3>2. QED
      BY <1>1, <3>1, OnwardFacts
  <2>3. ASSUME NEW step, StoreResults(c, step, ok)
        PROVE  flow'.stage = flow.stage /\ flow'.step \in {FollowingStep, "finish"}
    <3>1. \/ flow' = Advance(flow.errors)
          \/ MayFail(ok, Advance(BruteArtifact(flow.errors)))
          \/ MayFail(ok, Advance(ContextError))
          \/ MayFail(ok, GiveUp(ContextError))
      BY <2>3 DEF StoreResults, AfterStoreError
    <3>2. QED
      BY <1>1, <3>1, OnwardFacts
  <2>4. ASSUME NEW wrote, WriteArtifacts(c, wrote)
        PROVE  flow'.stage = flow.stage /\ flow'.step \in {FollowingStep, "finish"}
    <3>1. PICK errors, all : MayFail(all, [Advance(errors) EXCEPT !.incomplete = FALSE])
      BY <2>4, Zenon DEF WriteArtifacts
    <3>2. QED
      BY <1>1, <3>1, OnwardFacts
  <2>5. QED
    BY <2>1, <2>2, <2>3, <2>4
<1>3. /\ flow.stage \in Command
      /\ flow.stage = "automate" => flow.step \in {"observations", "findings", "write"}
  BY DEF FuzzReturns, GenerateCollection, StoreResults, WriteArtifacts, At, Command
<1>4. flow.stage = "automate" => flow.step # "findings"
  BY DEF FlowOK, Now, NowAt, HasStep, Command
<1>5. flow.stage = "automate" => FollowingStep \in {"write", "finish"}
  BY <1>3, <1>4, ScanSteps
<1>6. QED
  BY <1>1, <1>2, <1>3, <1>5 DEF Outside, At, Command

LEMMA AssessmentOutside ==
  ASSUME FlowOK, NEW ok \in BOOLEAN,
         \/ AssessmentStep(ok)
         \/ AssessmentReports(ok)
         \/ \E errors \in {{}, {"partial"}, ContextError} : RunAssessment(errors, ok)
  PROVE  Outside /\ flow.stage = "assessment"
<1>1. /\ FlowTypes /\ flow.stage = "assessment"
      /\ UNCHANGED <<job, policy, bruteVars, automateVars>>
  BY DEF FlowOK, AssessmentStep, AssessmentReports, RunAssessment, At
<1>2. flow' = Enter("ended") \/ \E errors : flow' = Advance(errors)
  BY DEF AssessmentStep, AssessmentReports, RunAssessment, EndAssessment
<1>3. CASE \E errors : flow' = Advance(errors)
  <2>1. flow'.stage = flow.stage
    BY <1>1, <1>3, OnwardFacts
  <2>2. QED
    BY <1>1, <2>1 DEF Outside, At
<1>4. CASE flow' = Enter("ended")
  <2>1. "ended" \in Command \cup {"assessment", "ended"}
    OBVIOUS
  <2>2. flow'.stage = "ended"
    BY <1>1, <1>4, <2>1, EnterFacts
  <2>3. QED
    BY <1>1, <2>2 DEF Outside, At
<1>5. QED
  BY <1>2, <1>3, <1>4

\* A command that ends is followed by the beginning of a stage.
LEMMA FinishLeaves ==
  ASSUME FlowOK, NEW c \in Command, NEW finished \in BOOLEAN, NEW ok \in BOOLEAN,
         FinishCommand(c, finished, ok)
  PROVE  (flow'.stage # "automate" \/ flow'.step = "begin") /\ flow'.step # "work"
<1>1. FlowTypes /\ flow.stage = c /\ flow.step = "finish"
  BY DEF FlowOK, FinishCommand, At
<1>2. PICK final : MayFail(ok, Enter(StageAfter(c, final)))
  BY Zenon DEF FinishCommand
<1>3. \E next \in Command \cup {"assessment", "ended"} :
        flow'.stage = next /\ flow'.step = IF next = "assessment" THEN "plan" ELSE "begin"
  <2> PICK next : next = StageAfter(c, final)
    OBVIOUS
  <2>1. next \in Command \cup {"assessment", "ended"}
    BY <1>1, StageAfterFacts
  <2> DEFINE entered == Enter(next)
  <2>2. /\ entered \in FlowState /\ entered.stage = next
        /\ entered.step = IF next = "assessment" THEN "plan" ELSE "begin"
        /\ entered.errors = {} /\ entered.failures = flow.failures
    BY <1>1, <2>1, EnterFacts
  <2>3. MayFail(ok, entered)
    BY <1>2
  <2> HIDE DEF entered
  <2>4. Arrives(entered.stage, entered.step, entered.errors)
    BY <2>2, <2>3, MayFailArrives
  <2>5. QED
    BY <2>1, <2>2, <2>4 DEF Arrives
<1>4. QED
  BY <1>3 DEF Command

LEMMA FinishScans ==
  ASSUME FlowOK, ScansOK, HeadersOK, NEW c \in Command, NEW finished \in BOOLEAN, NEW ok \in BOOLEAN,
         FinishCommand(c, finished, ok)
  PROVE  ScansOK' /\ HeadersOK'
<1>1. /\ FlowTypes /\ flow.stage = c /\ flow.step = "finish"
      /\ UNCHANGED <<job, files, policy, bruteVars, automateJob, auto, circuit>>
      /\ written' = IF c = "automate" THEN NothingWritten ELSE written
      /\ wire' = IF c = "automate" THEN QuietWire ELSE wire
  BY DEF FlowOK, FinishCommand, At
<1>2. (flow'.stage # "automate" \/ flow'.step = "begin") /\ flow'.step # "work"
  BY FinishLeaves
<1>3. /\ wire' = QuietWire /\ auto = AutoIdle /\ circuit = NewTargetCircuit
      /\ automateJob \in AutomateJob /\ written' \in WrittenState
  BY <1>1, IdleTyped DEF ScansOK, AutoOK, At
<1>4. AutoOK(automateJob, auto, circuit, wire')
  BY <1>3, AutoStarts
<1>5. AutoOK(automateJob, auto, circuit, wire)'
  BY <1>1, <1>4, Zenon
<1>6. BruteOK'
  BY <1>1 DEF ScansOK, BruteOK, PoolOK, bruteVars
<1>7. ScansOK'
  BY <1>1, <1>2, <1>3, <1>5, <1>6 DEF ScansOK, At
<1>8. HeadersOK'
  BY <1>1, <1>2, <1>3, QuietFields DEF HeadersOK, Home, At, Command
<1>9. QED
  BY <1>7, <1>8

\* A command that is refused, or scans nothing itself, leaves the scans alone.
LEMMA BeginOutside ==
  ASSUME FlowOK, NEW c \in Command, NEW ok \in BOOLEAN, BeginCommand(c, ok),
         Refused(c) \/ (job.database /\ (canceled \/ ~ok)) \/ c # "automate"
  PROVE  Outside /\ flow'.stage = c /\ flow.stage = c
<1>1. /\ FlowTypes /\ flow.stage = c /\ flow.step = "begin"
      /\ UNCHANGED <<job, bruteVars>>
  BY DEF FlowOK, BeginCommand, At
<1> DEFINE errors == IF Refused(c) THEN {"fatal"} ELSE ContextError
<1>2. /\ UNCHANGED <<policy, automateVars>>
      /\ MayFail(ok, GiveUp(errors)) \/ (c # "automate" /\ flow' = Advance({}))
  BY DEF BeginCommand
<1> HIDE DEF errors
<1>3. flow'.stage = c
  BY <1>1, <1>2, OnwardFacts
<1>4. c = "automate" => flow'.step = "finish"
  <2>1. errors \in SUBSET Error
    BY ContextErrors DEF errors, Error
  <2>2. QED
    BY <1>1, <1>2, <2>1, MayFailGiveUp DEF Arrives
<1>5. Outside
  BY <1>1, <1>2, <1>3, <1>4 DEF Outside, At
<1>6. QED
  BY <1>1, <1>3, <1>5

LEMMA BeginScans ==
  ASSUME FlowOK, ScansOK, HeadersOK, NEW c \in Command, NEW ok \in BOOLEAN, BeginCommand(c, ok)
  PROVE  ScansOK' /\ HeadersOK'
<1>1. /\ FlowTypes /\ flow.stage = c /\ flow.step = "begin"
      /\ UNCHANGED <<job, bruteVars>>
  BY DEF FlowOK, BeginCommand, At
<1> DEFINE refused == Refused(c) \/ (job.database /\ (canceled \/ ~ok))
<1>2. CASE refused \/ c # "automate"
  <2>1. Outside /\ flow'.stage = c /\ flow.stage = c
    BY <1>2, BeginOutside
  <2>2. QED
    BY <2>1, OutsideKeeps DEF Command
<1>3. CASE ~refused /\ c = "automate"
  <2> PICK loaded : loaded = LoadPrivateHeaders(policy, SourceOrigins)
    OBVIOUS
  <2>1. /\ flow' = Advance({}) /\ policy' = loaded
        /\ automateJob' = [automateJob EXCEPT !.authorized = loaded.origins]
        /\ auto' = StartedAuto /\ UNCHANGED <<circuit, written, wire>>
        /\ ~Refused("automate")
    BY <1>3 DEF BeginCommand
  <2> HIDE DEF refused
  <2>2. {} \in SUBSET Error
    OBVIOUS
  <2>3. flow'.stage = "automate" /\ flow'.step = "work"
    BY <1>1, <1>3, <2>1, <2>2, AdvanceArrives DEF Arrives, NextStep
  <2>4. automateJob \in AutomateJob /\ automateJob.sources # <<>>
    BY <2>1 DEF ScansOK, AutoOK, Refused
  <2>5. loaded \in PolicyState
    BY <1>1, <2>4, LoadTyped, SourceOriginsTyped
  <2>6. /\ automateJob' \in AutomateJob /\ automateJob'.sources = automateJob.sources
        /\ automateJob'.config = automateJob.config
        /\ automateJob'.authorized = loaded.origins
    <3>1. loaded.origins \in SUBSET Origin
      BY <2>5 DEF PolicyState
    <3>2. automateJob' \in AutomateJob
      BY <2>1, <2>4, <3>1, Zenon DEF AutomateJob
    <3>3. QED
      BY <2>1, <2>4, <3>2 DEF AutomateJob
  <2>7. loaded.origins \subseteq Home /\ (job.headerFile => loaded.loaded = TRUE)
    BY <1>1, <1>3, <2>1 DEF HeadersOK, LoadPrivateHeaders
  <2>8. circuit' = NewTargetCircuit /\ wire' = QuietWire /\ written' \in WrittenState
    BY <1>1, <1>3, <2>1 DEF ScansOK, At
  <2>9. AutoOK(automateJob, auto, circuit, wire)'
    <3> PICK j : j = automateJob'
      OBVIOUS
    <3>1. j \in AutomateJob /\ j.sources # <<>>
      BY <2>4, <2>6
    <3>2. AutoOK(j, StartedAuto, NewTargetCircuit, QuietWire)
      BY <3>1, AutoStarts
    <3>3. QED
      BY <2>1, <2>8, <3>2, Zenon
  <2>10. BruteOK'
    BY <1>1 DEF ScansOK, BruteOK, PoolOK, bruteVars
  <2>11. ScansOK'
    BY <2>3, <2>8, <2>9, <2>10 DEF ScansOK, At
  <2>12. Home' = Home
    BY <1>1, <2>6 DEF Home
  <2>13. HeadersOK'
    BY <1>1, <2>1, <2>3, <2>6, <2>7, <2>8, <2>12, QuietFields DEF HeadersOK
  <2>14. QED
    BY <2>11, <2>13
<1>4. QED
  BY <1>2, <1>3

LEMMA StartScans ==
  ASSUME FlowOK, ScansOK, HeadersOK, StartWorkflow
  PROVE  ScansOK' /\ HeadersOK'
<1> PICK next : next = IF WorkflowRefused THEN "ended"
                       ELSE IF job.mode = "brute" THEN "brute" ELSE "automate"
  OBVIOUS
<1>1. /\ FlowTypes /\ flow.stage = "workflow" /\ flow' = Enter(next)
      /\ UNCHANGED <<job, bruteVars, automateVars>>
      /\ WorkflowRefused => policy' = policy
      /\ ~WorkflowRefused => policy' = LoadPrivateHeaders(policy, job.explicit)
  BY DEF FlowOK, StartWorkflow
<1>2. next \in Command \cup {"assessment", "ended"} /\ next # "assessment"
  BY DEF Command
<1>3. flow'.stage = next /\ flow'.step = "begin"
  BY <1>1, <1>2, EnterFacts
<1>4. UNCHANGED <<bruteJob, scan, pool, automateJob, auto, circuit, written, wire>>
  BY <1>1 DEF bruteVars, automateVars
<1>5. BruteOK'
  BY <1>4 DEF ScansOK, BruteOK, PoolOK
<1>6. /\ AutoOK(automateJob, auto, circuit, wire) /\ written \in WrittenState
      /\ auto = AutoIdle /\ circuit = NewTargetCircuit /\ wire = QuietWire
  BY <1>1 DEF ScansOK, At
<1>7. AutoOK(automateJob, auto, circuit, wire)'
  BY <1>4, <1>6, Zenon
<1>8. ScansOK'
  BY <1>3, <1>4, <1>5, <1>6, <1>7 DEF ScansOK, At
<1>9. policy'.origins \subseteq Home /\ (job.headerFile /\ ~WorkflowRefused => policy'.loaded = TRUE)
  BY <1>1 DEF HeadersOK, Home, LoadPrivateHeaders, FlowTypes, PolicyState
<1>10. HeadersOK'
  BY <1>1, <1>3, <1>4, <1>6, <1>9, QuietFields DEF HeadersOK, Home, At
<1>11. QED
  BY <1>8, <1>10

LEMMA BruteStartsAnew ==
  GoodJob(bruteJob) /\ scan = [t \in Target |-> NoScan] /\ pool = IdlePool => BruteOK
BY BruteStarts

LEMMA BruteRestarts ==
  (GoodJob(bruteJob) /\ scan = [t \in Target |-> NoScan] /\ pool = IdlePool => BruteOK)'
BY BruteStartsAnew, PTL

\* What brute found are different sources automate can read.
LEMMA FoundSources ==
  ASSUME ScansOK, WorkflowAssumption
  PROVE  Collected(FoundSpecs) \in Seq(Source) /\ IsInjective(Collected(FoundSpecs))
<1>1. bruteJob \in BruteJob
  BY DEF ScansOK, BruteOK, GoodJob
<1>2. ASSUME NEW t \in Target
      PROVE  scan[t].found \subseteq Url /\ IsFiniteSet(scan[t].found)
  <2>1. /\ scan[t].found \subseteq scan[t].known /\ IsFiniteSet(scan[t].known)
        /\ scan[t].known \subseteq Url
    BY DEF ScansOK, BruteOK, ScanOK, Bounded, ScanState
  <2>2. QED
    BY <2>1, FS_Subset
<1>3. FoundSpecs \in Seq(Url)
  BY <1>1, <1>2, FoundSpecsTyped
<1>4. Collected(FoundSpecs) \in Seq(Url) /\ IsInjective(Collected(FoundSpecs))
  BY <1>3, CollectedTyped
<1>5. Url \subseteq Source
  BY DEF WorkflowAssumption
<1>6. QED
  BY <1>4, <1>5

LEMMA BruteReturnsScans ==
  ASSUME FlowOK, ScansOK, HeadersOK, WorkflowAssumption, BruteReturns
  PROVE  ScansOK' /\ HeadersOK'
<1>1. /\ FlowTypes /\ flow.stage = "brute" /\ flow' = Advance(BruteErrors)
      /\ UNCHANGED <<job, policy, bruteJob, auto, circuit, written, wire>>
      /\ automateJob' = [automateJob EXCEPT !.sources = Collected(FoundSpecs)]
      /\ scan' = [t \in Target |-> NoScan] /\ pool' = IdlePool
  BY DEF FlowOK, BruteReturns, At
<1>2. flow'.stage = "brute"
  BY <1>1, OnwardFacts
<1>3. Collected(FoundSpecs) \in Seq(Source)
  BY FoundSources
<1>4. automateJob \in AutomateJob
  BY DEF ScansOK, AutoOK
<1>5. /\ automateJob' \in AutomateJob
      /\ automateJob'.config = automateJob.config /\ automateJob'.client = automateJob.client
  <2>1. automateJob' \in AutomateJob
    BY <1>1, <1>3, <1>4, Zenon DEF AutomateJob
  <2>2. QED
    BY <1>1, <1>4, <2>1 DEF AutomateJob
<1>6. BruteOK'
  <2>1. GoodJob(bruteJob)'
    BY <1>1 DEF ScansOK, BruteOK
  <2>2. QED
    BY <1>1, <2>1, BruteRestarts
<1>7. /\ auto = AutoIdle /\ circuit = NewTargetCircuit /\ wire = QuietWire
      /\ written \in WrittenState
  BY <1>1 DEF ScansOK, At
<1>8. AutoOK(automateJob, auto, circuit, wire)'
  <2> PICK j : j = automateJob'
    OBVIOUS
  <2>1. j \in AutomateJob
    BY <1>5
  <2>2. AutoOK(j, AutoIdle, NewTargetCircuit, QuietWire)
    BY <2>1, AutoStarts
  <2>3. QED
    BY <1>1, <1>7, <2>2, Zenon
<1>9. ScansOK'
  BY <1>1, <1>2, <1>6, <1>7, <1>8 DEF ScansOK, At
<1>10. HeadersOK'
  BY <1>1, <1>2, <1>5, <1>7, QuietFields DEF HeadersOK, Home, At
<1>11. QED
  BY <1>9, <1>10

LEMMA AutomateReturnsScans ==
  ASSUME FlowOK, ScansOK, HeadersOK, AutomateReturns
  PROVE  ScansOK' /\ HeadersOK'
<1>1. /\ FlowTypes /\ flow.stage = "automate" /\ flow.step = "work"
      /\ flow' = Advance({}) \/ flow' = GiveUp(auto.error)
      /\ auto' = AutoIdle /\ circuit' = NewTargetCircuit
      /\ UNCHANGED <<job, policy, bruteVars, automateJob, written, wire>>
  BY DEF FlowOK, AutomateReturns, At
<1>2. FollowingStep = "observations"
  BY <1>1, ScanSteps
<1>3. flow'.stage = "automate" /\ flow'.step \in {"observations", "finish"}
  BY <1>1, <1>2, OnwardFacts
<1>4. AutoOK(automateJob, auto', circuit', wire)
  <2>1. AutoOK(automateJob, auto, circuit, wire) /\ automateJob \in AutomateJob
    BY DEF ScansOK, AutoOK
  <2>2. QED
    BY <1>1, <2>1, AutoRested
<1>5. AutoOK(automateJob, auto, circuit, wire)'
  BY <1>1, <1>4, Zenon
<1>6. BruteOK'
  BY <1>1 DEF ScansOK, BruteOK, PoolOK, bruteVars
<1>7. ScansOK'
  BY <1>1, <1>3, <1>5, <1>6 DEF ScansOK, At
<1>8. HeadersOK'
  BY <1>1, <1>3 DEF HeadersOK, Home, At
<1>9. QED
  BY <1>7, <1>8

LEMMA ScanStepsKeep ==
  ASSUME FlowOK, ScansOK, HeadersOK, WorkflowAssumption, BruteStep \/ AutomateStep
  PROVE  FlowOK' /\ ScansOK' /\ HeadersOK'
<1>1. UNCHANGED <<job, flow, outcome, files, policy, runs, canceled>> /\ canceled \in BOOLEAN
  BY DEF BruteStep, AutomateStep, flowVars, FlowOK, FlowTypes
<1>2. FlowOK'
  BY <1>1, UnchangedFlow
<1>3. CASE BruteStep
  <2>1. /\ UNCHANGED <<automateJob, auto, circuit, written, wire>> /\ BruteNext
        /\ flow.stage = "brute"
    BY <1>3 DEF BruteStep, automateVars, At
  <2>2. BruteOK'
    BY <2>1, BruteStepKeeps DEF ScansOK
  <2>3. AutoOK(automateJob, auto, circuit, wire)'
    BY <2>1, Zenon DEF ScansOK
  <2>4. ScansOK'
    BY <1>1, <2>1, <2>2, <2>3 DEF ScansOK, At
  <2>5. HeadersOK'
    BY <1>1, <2>1 DEF HeadersOK, Home, At
  <2>6. QED
    BY <1>2, <2>4, <2>5
<1>4. CASE AutomateStep
  <2>1. /\ UNCHANGED <<bruteJob, scan, pool>> /\ AutomateNext
        /\ flow.stage = "automate" /\ flow.step = "work"
    BY <1>4 DEF AutomateStep, bruteVars, At
  <2>2. AutoStepOK
    BY <2>1, AutomateStepKeeps DEF ScansOK
  <2>3. /\ AutoOK(automateJob, auto', circuit', wire') /\ written' \in WrittenState
        /\ automateJob' = automateJob
        /\ wire'.private \subseteq wire.private \cup automateJob.authorized
    BY <2>2, Zenon DEF AutoStepOK
  <2>4. AutoOK(automateJob, auto, circuit, wire)'
    BY <2>3, Zenon
  <2>5. BruteOK'
    BY <2>1 DEF ScansOK, BruteOK, PoolOK
  <2>6. ScansOK'
    BY <1>1, <2>1, <2>3, <2>4, <2>5 DEF ScansOK, At
  <2>7. HeadersOK'
    BY <1>1, <2>1, <2>3 DEF HeadersOK, Home, At
  <2>8. QED
    BY <1>2, <2>6, <2>7
<1>5. QED
  BY <1>3, <1>4

LEMMA UnchangedKeeps ==
  ASSUME FlowOK, ScansOK, HeadersOK, canceled' \in BOOLEAN,
         UNCHANGED <<job, flow, outcome, files, policy, runs, bruteVars, automateVars>>
  PROVE  FlowOK' /\ ScansOK' /\ HeadersOK'
<1>1. UNCHANGED <<bruteJob, scan, pool, automateJob, auto, circuit, written, wire>>
  BY DEF bruteVars, automateVars
<1>2. FlowOK'
  BY UnchangedFlow
<1>3. BruteOK'
  BY <1>1 DEF ScansOK, BruteOK, PoolOK
<1>4. AutoOK(automateJob, auto, circuit, wire)'
  BY <1>1, Zenon DEF ScansOK
<1>5. ScansOK'
  BY <1>1, <1>3, <1>4 DEF ScansOK, At
<1>6. HeadersOK'
  BY <1>1 DEF HeadersOK, Home, At
<1>7. QED
  BY <1>2, <1>5, <1>6

-----------------------------------------------------------------------------
(* The inductive invariant                                                 *)

WorkflowInv == FlowOK /\ ScansOK /\ HeadersOK

LEMMA WorkflowStarts ==
  ASSUME WorkflowAssumption, Init
  PROVE  WorkflowInv
<1>1. PICK j \in WorkflowJobs :
        /\ job = j.workflow
        /\ BruteInit(j.brute)
        /\ automateJob = j.automate
        /\ auto = AutoIdle /\ circuit = NewTargetCircuit
        /\ written = NothingWritten /\ wire = QuietWire
        /\ flow = [stage |-> "workflow", step |-> "begin", errors |-> {}, failures |-> 0,
                   incomplete |-> FALSE]
        /\ outcome = [s \in Stage |-> {}]
        /\ files = {} /\ policy = NoPolicy /\ canceled = FALSE
        /\ runs = [c \in Command |-> NoRun]
  BY DEF Init
<1>2. job \in Job /\ automateJob \in AutomateJob /\ GoodJob(j.brute)
  BY <1>1 DEF WorkflowAssumption, GoodJob
<1>3. BruteOK
  <2>1. bruteJob = j.brute /\ scan = [t \in Target |-> NoScan] /\ pool = IdlePool
    BY <1>1 DEF BruteInit
  <2>2. QED
    BY <1>2, <2>1, BruteStarts
<1>4. flow.stage = "workflow" /\ flow.step = "begin" /\ flow.errors = {} /\ flow.failures = 0
  BY <1>1
<1>5. FlowTypes
  <2>1. flow \in FlowState
    <3>1. "workflow" \in Stage /\ "begin" \in StepName /\ {} \in SUBSET Error /\ FALSE \in BOOLEAN
      BY DEF Stage, StepName
    <3>2. QED
      BY <1>1, <3>1, Zeros, Zenon DEF FlowState
  <2>2. runs \in [Command -> Run]
    BY <1>1 DEF NoRun, Run, RunStatus
  <2>3. policy \in PolicyState
    BY <1>1 DEF NoPolicy, PolicyState
  <2>4. 0 <= job.maxFailures
    BY <1>2 DEF Job
  <2>5. QED
    BY <1>1, <1>2, <1>4, <2>1, <2>2, <2>3, <2>4 DEF FlowTypes
<1>6. Past
  <2>1. /\ \A s \in Stage : outcome[s] = {}
        /\ \A c \in Command : runs[c] = NoRun
    BY <1>1
  <2>2. \A c \in Command : Told(c)
    BY <2>1 DEF Told, NoRun
  <2>3. \A c \in Command : ~(Rank(c) < Rank("workflow"))
    BY DEF Rank, Command
  <2>4. QED
    BY <1>4, <2>1, <2>2, <2>3 DEF Past
<1>7. FlowOK
  BY <1>4, <1>5, <1>6 DEF FlowOK, Assessed, Command
<1>8. ScansOK
  BY <1>1, <1>2, <1>3, AutoStarts, IdleTyped DEF ScansOK
<1>9. HeadersOK
  BY <1>1, <1>4, QuietFields DEF HeadersOK, NoPolicy, At
<1>10. QED
  BY <1>7, <1>8, <1>9 DEF WorkflowInv

LEMMA WorkflowKeeps ==
  ASSUME WorkflowAssumption, WorkflowInv, [Next]_vars
  PROVE  WorkflowInv'
<1>1. FlowOK /\ ScansOK /\ HeadersOK /\ canceled \in BOOLEAN /\ automateJob \in AutomateJob
  BY DEF WorkflowInv, FlowOK, FlowTypes, ScansOK, AutoOK
<1>2. CASE StartWorkflow
  BY <1>1, <1>2, StartWorkflowFlow, StartScans DEF WorkflowInv
<1>3. CASE BruteStep \/ AutomateStep
  BY <1>1, <1>3, ScanStepsKeep DEF WorkflowInv
<1>4. CASE BruteReturns \/ AutomateReturns
  <2>1. auto.error \subseteq {"fatal", "canceled"}
    BY <1>1 DEF ScansOK, AutoOK, Placed, AutoState
  <2>2. QED
    BY <1>1, <1>4, <2>1, ScanReturnsFlow, BruteReturnsScans, AutomateReturnsScans DEF WorkflowInv
<1>5. ASSUME NEW ok \in BOOLEAN, NEW c \in Command, BeginCommand(c, ok)
      PROVE  WorkflowInv'
  BY <1>1, <1>5, BeginCommandFlow, BeginScans DEF WorkflowInv
<1>6. ASSUME NEW ok \in BOOLEAN, NEW c \in Command, NEW finished \in BOOLEAN,
             FinishCommand(c, finished, ok)
      PROVE  WorkflowInv'
  BY <1>1, <1>6, FinishCommandFlow, FinishScans DEF WorkflowInv
<1>7. ASSUME NEW ok \in BOOLEAN, NEW c \in Command, NEW step \in {"observations", "findings"},
             StoreResults(c, step, ok)
      PROVE  WorkflowInv'
  BY <1>1, <1>7, StoreResultsFlow, OutsideSteps, OutsideKeeps DEF WorkflowInv
<1>8. ASSUME NEW c \in Command, NEW wrote \in {"all", "json", "none"}, WriteArtifacts(c, wrote)
      PROVE  WorkflowInv'
  BY <1>1, <1>8, WriteArtifactsFlow, OutsideSteps, OutsideKeeps DEF WorkflowInv
<1>9. ASSUME NEW ok \in BOOLEAN, NEW error \in {{}, ContextError}, FuzzReturns(error, ok)
      PROVE  WorkflowInv'
  <2>1. "fuzz" \in Command
    BY DEF Command
  <2>2. QED
    BY <1>1, <1>9, <2>1, FuzzReturnsFlow, OutsideSteps, OutsideKeeps DEF WorkflowInv
<1>10. ASSUME NEW ok \in BOOLEAN, GenerateCollection(ok)
       PROVE  WorkflowInv'
  <2>1. "collection" \in Command
    BY DEF Command
  <2>2. QED
    BY <1>1, <1>10, <2>1, GenerateCollectionFlow, OutsideSteps, OutsideKeeps DEF WorkflowInv
<1>11. ASSUME NEW ok \in BOOLEAN,
              \/ AssessmentStep(ok)
              \/ AssessmentReports(ok)
              \/ \E errors \in {{}, {"partial"}, ContextError} : RunAssessment(errors, ok)
       PROVE  WorkflowInv'
  BY <1>1, <1>11, AssessmentFlow, AssessmentOutside, OutsideKeeps DEF WorkflowInv
<1>12. CASE Cancel
  BY <1>1, <1>12, UnchangedKeeps DEF WorkflowInv, Cancel
<1>13. CASE UNCHANGED vars
  BY <1>1, <1>13, UnchangedKeeps DEF WorkflowInv, vars, flowVars
<1>14. CASE Terminated
  BY <1>13, <1>14 DEF Terminated
<1>15. QED
  BY <1>2, <1>3, <1>4, <1>5, <1>6, <1>7, <1>8, <1>9, <1>10, <1>11, <1>12, <1>13, <1>14
     DEF Next, Step

LEMMA WorkflowAlways == Spec => []WorkflowInv
<1>1. Init => WorkflowInv
  BY WorkflowStarts, WorkflowAssumption
<1>2. WorkflowInv /\ [Next]_vars => WorkflowInv'
  BY WorkflowKeeps, WorkflowAssumption
<1>3. QED
  BY <1>1, <1>2, PTL DEF Spec

-----------------------------------------------------------------------------
(* What the workflow guarantees                                            *)

LEMMA InvTypes ==
  ASSUME WorkflowInv
  PROVE  TypeOK
<1>1. FlowTypes /\ BruteOK /\ AutoOK(automateJob, auto, circuit, wire) /\ written \in WrittenState
  BY DEF WorkflowInv, FlowOK, ScansOK
<1>2. BruteTypeOK
  <2>1. bruteJob \in BruteJob /\ scan \in [Target -> ScanState] /\ pool \in PoolState
    BY <1>1 DEF BruteOK, GoodJob, PoolOK
  <2>2. QED
    BY <2>1 DEF BruteTypeOK, BruteJob, PoolState, ScanState, ScanPc
<1>3. AutomateTypeOK
  <2>1. auto \in AutoState /\ circuit \in CircuitState /\ wire \in WireState
    BY <1>1 DEF AutoOK, Placed
  <2>2. QED
    BY <1>1, <2>1 DEF AutomateTypeOK, AutoState, CircuitState, WireState, WrittenState,
                      MaxHintRetries, MaximumConsecutiveOriginTransportErrors
<1>4. flow.failures \in 0..job.maxFailures
  BY <1>1 DEF FlowTypes, FlowState, Job
<1>5. QED
  BY <1>1, <1>2, <1>3, <1>4 DEF TypeOK, StoreTypeOK, FlowTypes, FlowState

\* TypeOK: the loops of the scans stay within the lists and counters of their
\* jobs, and at most maxFailures writes fail, in every workflow
\* (executeFullWorkflow and the commands it runs).
THEOREM WorkflowTypeCorrect == Spec => []TypeOK
<1>1. WorkflowInv => TypeOK
  BY InvTypes
<1>2. QED
  BY <1>1, WorkflowAlways, PTL

LEMMA InvRuns ==
  ASSUME WorkflowInv
  PROVE  RunsTellTheOutcome
<1> SUFFICES ASSUME NEW c \in Command
             PROVE  /\ runs[c].status = "running" /\ flow.stage # c => "persistence" \in outcome[c]
                    /\ runs[c].status = "succeeded" =>
                         runs[c].observations /\ c \in files /\ outcome[c] \subseteq {"persistence"}
  BY DEF RunsTellTheOutcome
<1>1. CASE flow.stage = c
  BY <1>1 DEF WorkflowInv, FlowOK, Now, NowAt
<1>2. CASE flow.stage # c
  BY <1>2 DEF WorkflowInv, FlowOK, Past, Told
<1>3. QED
  BY <1>1, <1>2

\* RunsTellTheOutcome: the run of a command is left running only if the
\* workflow says that closing it failed, and has succeeded only if the results
\* are stored and the files written (resultRun.finish), whichever writes fail.
THEOREM WorkflowRuns == Spec => []RunsTellTheOutcome
<1>1. WorkflowInv => RunsTellTheOutcome
  BY InvRuns
<1>2. QED
  BY <1>1, WorkflowAlways, PTL

LEMMA InvComplete ==
  ASSUME WorkflowInv
  PROVE  SuccessIsComplete
<1> SUFFICES ASSUME flow.stage = "ended", Result = {}
             PROVE  /\ {"automate", "operations", "fuzz", "collection", "report"} \subseteq files
                    /\ job.mode = "brute" => "brute" \in files
                    /\ job.assessment => {"plan", "run", "assessment"} \subseteq files
                    /\ job.database => \A c \in Command \ {"brute"} :
                         runs[c].observations /\ runs[c].status \in {"succeeded", "failed"}
  BY DEF SuccessIsComplete
<1>1. \A s \in Stage : outcome[s] = {}
  BY DEF Result
<1>2. Past
  BY DEF WorkflowInv, FlowOK
<1>3. \A c \in Command : Rank(c) < Rank("ended")
  BY DEF Rank, Command
<1>4. \A c \in Command : (c = "brute" => job.mode = "brute") => Complete(c)
  BY <1>1, <1>2, <1>3 DEF Past
<1>5. job.assessment => {"plan", "run", "assessment"} \subseteq files
  BY <1>1, <1>2 DEF Past
<1>6. /\ Complete("automate") /\ Complete("fuzz") /\ Complete("collection") /\ Complete("report")
      /\ job.mode = "brute" => Complete("brute")
  BY <1>4 DEF Command
<1>7. QED
  BY <1>4, <1>5, <1>6 DEF Complete

\* SuccessIsComplete: a workflow without an error in its result has written
\* every artifact and stored every result it promises, suppressed partial
\* failures and failed transactions included (executeFullWorkflow).
THEOREM WorkflowComplete == Spec => []SuccessIsComplete
<1>1. WorkflowInv => SuccessIsComplete
  BY InvComplete
<1>2. QED
  BY <1>1, WorkflowAlways, PTL

LEMMA InvWire ==
  ASSUME WorkflowInv
  PROVE  NothingAfterOriginStops /\ UnsafeNeedsConsent /\ PrivateHeadersStayHome
<1>1. /\ automateJob \in AutomateJob /\ wire.late = {} /\ wire.unsafe \subseteq Consented(automateJob)
      /\ wire.private \subseteq Home
  BY DEF WorkflowInv, ScansOK, AutoOK, HeadersOK
<1>2. UnsafeNeedsConsent
  BY <1>1 DEF UnsafeNeedsConsent, Consented, PlannedRequest
<1>3. QED
  BY <1>1, <1>2 DEF NothingAfterOriginStops, PrivateHeadersStayHome, Home

\* NothingAfterOriginStops: once an origin answered 429, ran out of rate or
\* failed three times in a row, no fetch, request, guided retry or replay of
\* the batch goes to it (TargetCircuit), whatever the specifications name.
THEOREM WorkflowStopsOrigins == Spec => []NothingAfterOriginStops
<1>1. WorkflowInv => NothingAfterOriginStops
  BY InvWire
<1>2. QED
  BY <1>1, WorkflowAlways, PTL

\* UnsafeNeedsConsent: a risky request on the wire was planned with the
\* operator's consent (BuildRequestPlans and MakeRequest), for any documents
\* and any configuration.
THEOREM WorkflowConsent == Spec => []UnsafeNeedsConsent
<1>1. WorkflowInv => UnsafeNeedsConsent
  BY InvWire
<1>2. QED
  BY <1>1, WorkflowAlways, PTL

\* PrivateHeadersStayHome: private headers go only to origins the operator
\* named, wherever brute's findings and the servers of a specification lead
\* (loadPrivateHeaders, privateheaders Apply).
THEOREM WorkflowHeaders == Spec => []PrivateHeadersStayHome
<1>1. WorkflowInv => PrivateHeadersStayHome
  BY InvWire
<1>2. QED
  BY <1>1, WorkflowAlways, PTL

LEMMA InvDiscovery ==
  ASSUME WorkflowInv
  PROVE  DiscoveryIsAccounted
<1> SUFFICES ASSUME NEW t \in Target, NEW s, s = scan[t]
             PROVE  /\ Cardinality(s.known) <= Max({bruteJob.maxCandidates, Len(bruteJob.candidates[t])})
                    /\ s.pc = "done" /\ s.limits = {} =>
                         /\ \A u \in s.interesting \cup s.filtered :
                              bruteJob.references[u] \subseteq s.tested \cup s.skipped
                         /\ \A u \in s.found :
                              bruteJob.variations[u] \subseteq
                                s.tested \cup s.skipped \cup Range(bruteJob.candidates[t])
                         /\ s.found = {} => Range(bruteJob.candidates[t]) \subseteq s.tested
  BY DEF DiscoveryIsAccounted
<1> PICK list : list = bruteJob.candidates[t]
  OBVIOUS
<1>1. ScanOK(bruteJob, list, s) /\ list \in Seq(Url)
  BY DEF WorkflowInv, ScansOK, BruteOK, GoodJob, BruteJob
<1>2. Cardinality(s.known) <= Max({bruteJob.maxCandidates, Len(list)})
  BY <1>1, Zenon DEF ScanOK, Bounded
<1>3. ASSUME s.pc = "done", s.limits = {}
      PROVE  /\ \A u \in s.interesting \cup s.filtered :
                  bruteJob.references[u] \subseteq s.tested \cup s.skipped
             /\ \A u \in s.found :
                  bruteJob.variations[u] \subseteq s.tested \cup s.skipped \cup Range(list)
             /\ s.found = {} => Range(list) \subseteq s.tested
  <2>1. /\ Books(bruteJob, list, s) /\ s.queue = <<>>
        /\ s.found = {} => Tested(list, s, Len(list))
    BY <1>1, <1>3 DEF ScanOK
  <2>2. Queued(s) = {}
    BY <2>1 DEF Queued, Range
  <2>3. Covered(s) = s.tested \cup s.skipped
    BY <2>2 DEF Covered
  <2>4. /\ \A u \in Pages(s) : bruteJob.references[u] \subseteq Covered(s)
        /\ \A u \in s.found : bruteJob.variations[u] \subseteq Covered(s) \cup Range(list)
    BY <2>1 DEF Books, BooksBut
  <2>5. s.interesting \cup s.filtered \subseteq Pages(s)
    BY DEF Pages
  <2>6. s.found = {} => Range(list) \subseteq s.tested
    BY <1>1, <2>1 DEF Tested, Range
  <2>7. QED
    BY <2>3, <2>4, <2>5, <2>6
<1>4. QED
  BY <1>2, <1>3

\* DiscoveryIsAccounted: a scan that no limit stopped fetched, or counted as
\* skipped, every URL its pages and definitions named (findAllDefinitionFiles,
\* queueCandidate), for any candidates, references and variations.
THEOREM WorkflowDiscovery == Spec => []DiscoveryIsAccounted
<1>1. WorkflowInv => DiscoveryIsAccounted
  BY InvDiscovery
<1>2. QED
  BY <1>1, WorkflowAlways, PTL

-----------------------------------------------------------------
(* Coverage gaps                                                           *)

PlansFor(j, s) == BuildRequestPlans(j.documents[s], j.config, j.originOf[s])
PlannedFrom(j, sources) == UNION {{s} \X DOMAIN PlansFor(j, s) : s \in sources}
\* The sources the loop is done with, the one it sends requests for, and the
\* plans behind it.
Behind(j, a) == {j.sources[i] : i \in {k \in DOMAIN j.sources : a.pc = "over" \/ k < a.source}}
Underway(j, a) == IF a.pc \in {"plan", "settle"} THEN {j.sources[a.source]} ELSE {}
PlansBehind(j, a, parsed) ==
  PlannedFrom(j, parsed \cap Behind(j, a)) \cup (Underway(j, a) \X (1..(a.plan - 1)))
\* What was neither scanned nor sent, by origin.
Missed(j, a, w, o) ==
  {s \in Behind(j, a) \ (w.parsed \cup w.failures) : j.originOf[s] = o}
Unsent(j, a, w, o) ==
  {p \in PlansBehind(j, a, w.parsed) \ w.results : PlansFor(j, p[1])[p[2]].origin = o}
Counted(n, S, T) == IsFiniteSet(S) /\ IsFiniteSet(T) /\ n = Cardinality(S) + Cardinality(T)
GapsOK(j, a, w, c) ==
  /\ a.pc # "over" => a.error = {}
  /\ a.error = {} =>
       /\ w.failures \subseteq Behind(j, a)
       /\ w.parsed \subseteq Behind(j, a) \cup Underway(j, a)
       /\ Underway(j, a) \subseteq w.parsed
       /\ w.results \subseteq PlansBehind(j, a, w.parsed)
       /\ \A o \in Origin : Counted(c.skipped[o], Missed(j, a, w, o), Unsent(j, a, w, o))

LEMMA CountedMore ==
  ASSUME NEW n, NEW S, NEW T, NEW x, Counted(n, S, T)
  PROVE  /\ n \in Nat
         /\ x \notin S => Counted(n + 1, S \cup {x}, T)
         /\ x \notin T => Counted(n + 1, S, T \cup {x})
<1>1. /\ IsFiniteSet(S) /\ IsFiniteSet(T) /\ n = Cardinality(S) + Cardinality(T)
      /\ Cardinality(S) \in Nat /\ Cardinality(T) \in Nat
  BY FS_CardinalityType DEF Counted
<1>2. x \notin S => IsFiniteSet(S \cup {x}) /\ Cardinality(S \cup {x}) = Cardinality(S) + 1
  BY <1>1, FS_AddElement
<1>3. x \notin T => IsFiniteSet(T \cup {x}) /\ Cardinality(T \cup {x}) = Cardinality(T) + 1
  BY <1>1, FS_AddElement
<1>4. QED
  BY <1>1, <1>2, <1>3 DEF Counted

\* Observing a response counts nothing; skipping counts one for its origin.
LEMMA SkippedCounts ==
  ASSUME NEW c \in CircuitState, NEW o \in Origin, NEW response
  PROVE  /\ Observe(c, o, response).skipped = c.skipped
         /\ Skip(c, o).skipped[o] = c.skipped[o] + 1
         /\ \A p \in Origin \ {o} : Skip(c, o).skipped[p] = c.skipped[p]
<1>1. Observe(c, o, response).skipped = c.skipped
  BY DEF Observe, CircuitState
<1>2. Skip(c, o) = [c EXCEPT !.skipped = [c.skipped EXCEPT ![o] = c.skipped[o] + 1]]
  BY DEF Skip, CircuitState
<1>3. Skip(c, o).skipped = [c.skipped EXCEPT ![o] = c.skipped[o] + 1]
  BY <1>2 DEF CircuitState
<1>4. QED
  BY <1>1, <1>3 DEF CircuitState


\* The loop moves to the next source.
LEMMA ToNextSource ==
  ASSUME automateJob \in AutomateJob, auto.source \in 1..Len(automateJob.sources),
         auto.pc # "over", IsInjective(automateJob.sources)
  PROVE  /\ NextSource.error = {} /\ NextSource.pc \in {"source", "over"}
         /\ Underway(automateJob, NextSource) = {}
         /\ Behind(automateJob, NextSource) = Behind(automateJob, auto) \cup {CurrentSource}
         /\ CurrentSource \notin Behind(automateJob, auto)
<1> PICK sources : sources = automateJob.sources
  OBVIOUS
<1> PICK m : m = auto.source
  OBVIOUS
<1>1. sources \in Seq(Source) /\ Len(sources) \in Nat /\ m \in 1..Len(sources)
      /\ DOMAIN sources = 1..Len(sources) /\ CurrentSource = sources[m]
  BY DEF AutomateJob, CurrentSource
<1>2. Behind(automateJob, auto) = {sources[i] : i \in 1..(m - 1)}
  <2>1. {k \in DOMAIN sources : auto.pc = "over" \/ k < m} = 1..(m - 1)
    BY <1>1
  <2>2. QED
    BY <2>1, Zenon DEF Behind
<1>3. Behind(automateJob, NextSource) = {sources[i] : i \in 1..m}
      /\ NextSource.error = {} /\ NextSource.pc \in {"source", "over"}
  <2> PICK next : next = NextSource
    OBVIOUS
  <2>1. CASE m = Len(sources)
    <3>1. next = [AutoIdle EXCEPT !.pc = "over"]
      BY <2>1 DEF NextSource
    <3>2. next.pc = "over" /\ next.error = {}
      BY <3>1, IdleTyped, StartedFields DEF AutoState
    <3>3. {k \in DOMAIN sources : next.pc = "over" \/ k < next.source} = 1..m
      BY <1>1, <2>1, <3>2
    <3>4. QED
      BY <3>2, <3>3, Zenon DEF Behind
  <2>2. CASE m # Len(sources)
    <3>1. next = [AutoIdle EXCEPT !.pc = "source", !.source = m + 1]
      BY <2>2 DEF NextSource
    <3>2. next.pc = "source" /\ next.error = {} /\ next.source = m + 1
      BY <3>1, IdleTyped, StartedFields DEF AutoState
    <3>3. {k \in DOMAIN sources : next.pc = "over" \/ k < next.source} = 1..m
      BY <1>1, <2>2, <3>2
    <3>4. QED
      BY <3>2, <3>3, Zenon DEF Behind
  <2>3. QED
    BY <2>1, <2>2
<1>4. {sources[i] : i \in 1..m} = {sources[i] : i \in 1..(m - 1)} \cup {sources[m]}
  <2>1. 1..m = 1..(m - 1) \cup {m}
    BY <1>1
  <2>2. QED
    BY <2>1
<1>5. sources[m] \notin {sources[i] : i \in 1..(m - 1)}
  <2>1. \A i \in 1..(m - 1) : i \in DOMAIN sources /\ m \in DOMAIN sources /\ i # m
    BY <1>1
  <2>2. QED
    BY <2>1 DEF IsInjective
<1>6. Underway(automateJob, NextSource) = {}
  BY <1>3 DEF Underway
<1>7. QED
  BY <1>1, <1>2, <1>3, <1>4, <1>5, <1>6

\* A plan of the source under way is behind the loop.
LEMMA ToNextPlan ==
  ASSUME automateJob \in AutomateJob, Placed(automateJob, auto), auto.pc \in {"plan", "settle"},
         IsInjective(automateJob.sources), NEW parsed, CurrentSource \in parsed
  PROVE  /\ NextPlan.error = {} /\ NextPlan.pc \in {"source", "plan", "over"}
         /\ Underway(automateJob, auto) = {CurrentSource}
         /\ Underway(automateJob, NextPlan) \subseteq {CurrentSource}
         /\ Behind(automateJob, NextPlan) \cup Underway(automateJob, NextPlan) =
              Behind(automateJob, auto) \cup {CurrentSource}
         /\ Behind(automateJob, auto) \subseteq Behind(automateJob, NextPlan)
         /\ PlansBehind(automateJob, NextPlan, parsed) =
              PlansBehind(automateJob, auto, parsed) \cup {<<CurrentSource, auto.plan>>}
         /\ <<CurrentSource, auto.plan>> \notin PlansBehind(automateJob, auto, parsed)
<1> PICK j : j = automateJob
  OBVIOUS
<1> PICK s : s = CurrentSource
  OBVIOUS
<1> PICK k : k = auto.plan
  OBVIOUS
<1> PICK next : next = NextPlan
  OBVIOUS
<1> PICK B : B = Behind(j, auto)
  OBVIOUS
<1>1. /\ auto.source \in 1..Len(j.sources) /\ k \in 1..Len(PlansOf(s))
      /\ DOMAIN PlansOf(s) = 1..Len(PlansOf(s)) /\ Len(PlansOf(s)) \in Nat /\ k \in Nat
      /\ auto \in AutoState
  <2>1. auto.source \in 1..Len(j.sources) /\ k \in 1..Len(PlansOf(s)) /\ auto \in AutoState
    BY PlanFacts DEF Placed
  <2>2. PlansOf(s) \in Seq(PlannedRequest(j.config))
    BY <2>1, SourceFacts
  <2>3. QED
    BY <2>1, <2>2
<1>2. s = j.sources[auto.source] /\ Underway(j, auto) = {s} /\ PlansFor(j, s) = PlansOf(s)
  BY DEF CurrentSource, Underway, PlansFor, PlansOf
<1>3. s \notin B
  BY <1>1, ToNextSource
<1>4. PlansBehind(j, auto, parsed) = PlannedFrom(j, parsed \cap B) \cup ({s} \X (1..(k - 1)))
  BY <1>2 DEF PlansBehind
<1>5. <<s, k>> \notin PlansBehind(j, auto, parsed)
  <2>1. <<s, k>> \notin PlannedFrom(j, parsed \cap B)
    BY <1>3 DEF PlannedFrom
  <2>2. <<s, k>> \notin {s} \X (1..(k - 1))
    BY <1>1
  <2>3. QED
    BY <1>4, <2>1, <2>2
<1>6. CASE k = Len(PlansOf(s))
  <2>1. next = NextSource
    BY <1>6 DEF NextPlan
  <2>2. /\ next.error = {} /\ next.pc \in {"source", "over"} /\ Underway(j, next) = {}
        /\ Behind(j, next) = B \cup {s}
    BY <1>1, <2>1, ToNextSource
  <2>3. PlansBehind(j, next, parsed) = PlannedFrom(j, parsed \cap (B \cup {s}))
    BY <2>2 DEF PlansBehind
  <2>4. parsed \cap (B \cup {s}) = (parsed \cap B) \cup {s}
    OBVIOUS
  <2>5. PlannedFrom(j, (parsed \cap B) \cup {s}) =
          PlannedFrom(j, parsed \cap B) \cup ({s} \X DOMAIN PlansFor(j, s))
    BY DEF PlannedFrom
  <2>6. {s} \X DOMAIN PlansFor(j, s) = ({s} \X (1..(k - 1))) \cup {<<s, k>>}
    <3>1. DOMAIN PlansFor(j, s) = 1..k
      BY <1>1, <1>2, <1>6, Zenon
    <3>2. 1..k = 1..(k - 1) \cup {k}
      <4>1. k \in Nat /\ 1 <= k
        BY <1>1
      <4>2. QED
        BY <4>1
    <3>3. QED
      BY <3>1, <3>2
  <2>7. PlansBehind(j, next, parsed) = PlansBehind(j, auto, parsed) \cup {<<s, k>>}
    BY <1>4, <2>3, <2>4, <2>5, <2>6
  <2>8. Behind(j, next) \cup Underway(j, next) = B \cup {s} /\ B \subseteq Behind(j, next)
        /\ Underway(j, next) \subseteq {s}
    BY <2>2
  <2>9. QED
    BY <1>2, <1>5, <2>2, <2>7, <2>8, Zenon
<1>7. CASE k # Len(PlansOf(s))
  <2>1. next = [AutoIdle EXCEPT !.pc = "plan", !.source = auto.source, !.plan = k + 1]
    BY <1>7 DEF NextPlan
  <2>2. next.pc = "plan" /\ next.error = {} /\ next.source = auto.source /\ next.plan = k + 1
    BY <2>1, IdleTyped, StartedFields DEF AutoState
  <2>3. Underway(j, next) = {s} /\ Behind(j, next) = B
    BY <1>2, <2>2 DEF Underway, Behind
  <2>4. PlansBehind(j, next, parsed) = PlannedFrom(j, parsed \cap B) \cup ({s} \X (1..((k + 1) - 1)))
    BY <2>2, <2>3 DEF PlansBehind
  <2>5. {s} \X (1..((k + 1) - 1)) = ({s} \X (1..(k - 1))) \cup {<<s, k>>}
    <3>1. 1..((k + 1) - 1) = 1..(k - 1) \cup {k}
      BY <1>1
    <3>2. QED
      BY <3>1
  <2>6. PlansBehind(j, next, parsed) = PlansBehind(j, auto, parsed) \cup {<<s, k>>}
    BY <1>4, <2>4, <2>5
  <2>7. QED
    BY <1>2, <1>5, <2>2, <2>3, <2>6
<1>8. QED
  BY <1>6, <1>7

\* What a step of the scan keeps.
GapsKept == GapsOK(automateJob, auto', written', circuit')
GapsHold ==
  /\ AutoOK(automateJob, auto, circuit, wire) /\ written \in WrittenState
  /\ IsInjective(automateJob.sources) /\ GapsOK(automateJob, auto, written, circuit)

\* The loop leaves a source that planned nothing: it was skipped, has failed or
\* has no plans.
LEMMA SourceLeft ==
  ASSUME GapsHold, auto.pc = "source", auto' = NextSource, NEW s, s = CurrentSource,
         written' \in WrittenState, written'.results = written.results,
         circuit' \in CircuitState,
         \/ /\ written' = written
            /\ circuit'.skipped[SourceOrigin] = circuit.skipped[SourceOrigin] + 1
            /\ \A o \in Origin \ {SourceOrigin} : circuit'.skipped[o] = circuit.skipped[o]
         \/ /\ circuit'.skipped = circuit.skipped
            /\ \/ written'.failures = written.failures \cup {s} /\ written'.parsed = written.parsed
               \/ /\ written'.failures = written.failures
                  /\ written'.parsed = written.parsed \cup {s} /\ PlansOf(s) = <<>>
  PROVE  GapsKept
<1> PICK j : j = automateJob
  OBVIOUS
<1> PICK next : next = auto'
  OBVIOUS
<1> PICK w : w = written'
  OBVIOUS
<1> PICK B : B = Behind(j, auto)
  OBVIOUS
<1>1. /\ j \in AutomateJob /\ auto.source \in 1..Len(j.sources) /\ circuit \in CircuitState
      /\ SourceOrigin \in Origin /\ SourceOrigin = j.originOf[s]
  <2>1. j \in AutomateJob /\ auto.source \in 1..Len(j.sources) /\ circuit \in CircuitState
    BY DEF GapsHold, AutoOK, Placed
  <2>2. QED
    BY <2>1, SourceFacts DEF SourceOrigin
<1>2. /\ next.error = {} /\ Underway(j, next) = {} /\ Behind(j, next) = B \cup {s} /\ s \notin B
  BY <1>1, ToNextSource DEF GapsHold
<1>3. Underway(j, auto) = {} /\ auto.error = {}
  BY DEF Underway, GapsHold, GapsOK
<1>4. /\ written.failures \subseteq B /\ written.parsed \subseteq B
      /\ written.results \subseteq PlansBehind(j, auto, written.parsed)
      /\ \A o \in Origin : Counted(circuit.skipped[o], Missed(j, auto, written, o),
                                   Unsent(j, auto, written, o))
  BY <1>3 DEF GapsHold, GapsOK
<1>5. PlansBehind(j, auto, written.parsed) = PlannedFrom(j, written.parsed)
  <2>1. written.parsed \cap B = written.parsed
    BY <1>4
  <2>2. QED
    BY <1>3, <2>1 DEF PlansBehind
<1>6. PlansBehind(j, next, w.parsed) = PlannedFrom(j, w.parsed)
  <2>1. w.parsed \cap (B \cup {s}) = w.parsed
    BY <1>4
  <2>2. QED
    BY <1>2, <2>1 DEF PlansBehind
<1>7. PlannedFrom(j, w.parsed) = PlannedFrom(j, written.parsed)
  <2>1. CASE w.parsed = written.parsed
    BY <2>1
  <2>2. CASE w.parsed = written.parsed \cup {s} /\ PlansOf(s) = <<>>
    <3>1. PlansFor(j, s) = <<>>
      BY <2>2 DEF PlansFor, PlansOf
    <3>2. {s} \X DOMAIN PlansFor(j, s) = {}
      BY <3>1
    <3>3. PlannedFrom(j, written.parsed \cup {s}) =
            PlannedFrom(j, written.parsed) \cup ({s} \X DOMAIN PlansFor(j, s))
      BY DEF PlannedFrom
    <3>4. QED
      BY <2>2, <3>2, <3>3
  <2>3. QED
    BY <2>1, <2>2
<1>8. ASSUME NEW o \in Origin PROVE Unsent(j, next, w, o) = Unsent(j, auto, written, o)
  BY <1>5, <1>6, <1>7 DEF Unsent
<1>9. ASSUME NEW o \in Origin
      PROVE  Counted(circuit'.skipped[o], Missed(j, next, w, o), Unsent(j, next, w, o))
  <2>1. CASE /\ w = written
             /\ circuit'.skipped[SourceOrigin] = circuit.skipped[SourceOrigin] + 1
             /\ \A p \in Origin \ {SourceOrigin} : circuit'.skipped[p] = circuit.skipped[p]
    <3>1. Missed(j, next, w, o) =
            Missed(j, auto, written, o) \cup (IF o = SourceOrigin THEN {s} ELSE {})
      BY <1>1, <1>2, <1>4, <2>1 DEF Missed
    <3>2. s \notin Missed(j, auto, written, o)
      BY <1>2 DEF Missed
    <3>3. Counted(circuit.skipped[o], Missed(j, auto, written, o), Unsent(j, next, w, o))
      BY <1>4, <1>8, Zenon
    <3>4. CASE o = SourceOrigin
      <4>1. circuit'.skipped[o] = circuit.skipped[o] + 1
            /\ Missed(j, next, w, o) = Missed(j, auto, written, o) \cup {s}
        BY <2>1, <3>1, <3>4, <1>2
      <4>2. Counted(circuit.skipped[o] + 1, Missed(j, auto, written, o) \cup {s}, Unsent(j, next, w, o))
        BY <3>2, <3>3, CountedMore, Zenon
      <4>3. QED
        BY <4>1, <4>2, Zenon
    <3>5. CASE o # SourceOrigin
      <4>1. circuit'.skipped[o] = circuit.skipped[o] /\ Missed(j, next, w, o) = Missed(j, auto, written, o)
        BY <2>1, <3>1, <3>5, <1>2
      <4>2. QED
        BY <3>3, <4>1
    <3>6. QED
      BY <3>4, <3>5
  <2>2. CASE circuit'.skipped = circuit.skipped /\ w.parsed \cup w.failures =
                                                     written.parsed \cup written.failures \cup {s}
    <3>1. Missed(j, next, w, o) = Missed(j, auto, written, o)
      BY <1>2, <2>2 DEF Missed
    <3>2. QED
      BY <1>4, <1>8, <2>2, <3>1
  <2>3. QED
    BY <2>1, <2>2
<1>10. /\ w.failures \subseteq Behind(j, next) /\ w.parsed \subseteq Behind(j, next)
       /\ w.results \subseteq PlansBehind(j, next, w.parsed)
  BY <1>2, <1>4, <1>5, <1>6, <1>7
<1>11. GapsOK(j, next, w, circuit')
  BY <1>2, <1>9, <1>10 DEF GapsOK
<1>12. QED
  BY <1>11 DEF GapsKept

LEMMA SkipSourceGaps ==
  ASSUME GapsHold, SkipSource
  PROVE  GapsKept
<1>1. /\ auto.pc = "source" /\ circuit' = Skip(circuit, SourceOrigin) /\ auto' = NextSource
      /\ written' = written
  BY DEF SkipSource
<1>2. /\ automateJob \in AutomateJob /\ auto.source \in 1..Len(automateJob.sources)
      /\ circuit \in CircuitState /\ written \in WrittenState
      /\ NotTripped(circuit) /\ \A o \in Origin : Settled(wire, circuit, o)
  BY <1>1 DEF GapsHold, AutoOK, Placed
<1>3. SourceOrigin \in Origin
  BY <1>2, SourceFacts
<1>4. circuit' \in CircuitState
  BY <1>1, <1>2, <1>3, SkipKeeps
<1>5. /\ circuit'.skipped[SourceOrigin] = circuit.skipped[SourceOrigin] + 1
      /\ \A o \in Origin \ {SourceOrigin} : circuit'.skipped[o] = circuit.skipped[o]
  BY <1>1, <1>2, <1>3, SkippedCounts
<1>6. QED
  BY <1>1, <1>2, <1>4, <1>5, SourceLeft

\* A source is parsed, and its first plan is next.
LEMMA SourceOpened ==
  ASSUME GapsHold, auto.pc = "source", NEW s, s = CurrentSource,
         auto' = [auto EXCEPT !.pc = "plan", !.plan = 1],
         written' \in WrittenState, written'.results = written.results,
         written'.failures = written.failures, written'.parsed = written.parsed \cup {s},
         circuit'.skipped = circuit.skipped
  PROVE  GapsKept
<1> PICK j : j = automateJob
  OBVIOUS
<1> PICK next : next = auto'
  OBVIOUS
<1> PICK w : w = written'
  OBVIOUS
<1> PICK B : B = Behind(j, auto)
  OBVIOUS
<1>1. /\ j \in AutomateJob /\ auto.source \in 1..Len(j.sources) /\ auto \in AutoState
  BY DEF GapsHold, AutoOK, Placed
<1>2. /\ next.pc = "plan" /\ next.plan = 1 /\ next.source = auto.source /\ next.error = auto.error
  BY <1>1 DEF AutoState
<1>3. Underway(j, auto) = {} /\ auto.error = {}
  BY DEF Underway, GapsHold, GapsOK
<1>4. /\ Behind(j, next) = B /\ Underway(j, next) = {s} /\ s \notin B
  <2>1. Behind(j, next) = B /\ Underway(j, next) = {s}
    BY <1>2 DEF Behind, Underway, CurrentSource
  <2>2. s \notin B
    BY <1>1, ToNextSource DEF GapsHold
  <2>3. QED
    BY <2>1, <2>2
<1>5. /\ written.failures \subseteq B /\ written.parsed \subseteq B
      /\ written.results \subseteq PlansBehind(j, auto, written.parsed)
      /\ \A o \in Origin : Counted(circuit.skipped[o], Missed(j, auto, written, o),
                                   Unsent(j, auto, written, o))
  BY <1>3 DEF GapsHold, GapsOK
<1>6. PlansBehind(j, next, w.parsed) = PlansBehind(j, auto, written.parsed)
  <2>1. w.parsed \cap B = written.parsed \cap B
    BY <1>4
  <2>2. {s} \X (1..(1 - 1)) = {} /\ {} \X (1..(auto.plan - 1)) = {}
    OBVIOUS
  <2>3. QED
    BY <1>2, <1>3, <1>4, <2>1, <2>2 DEF PlansBehind
<1>7. ASSUME NEW o \in Origin
      PROVE  Counted(circuit'.skipped[o], Missed(j, next, w, o), Unsent(j, next, w, o))
  <2>1. Missed(j, next, w, o) = Missed(j, auto, written, o)
    BY <1>4 DEF Missed
  <2>2. Unsent(j, next, w, o) = Unsent(j, auto, written, o)
    BY <1>6 DEF Unsent
  <2>3. QED
    BY <1>5, <2>1, <2>2
<1>8. /\ w.failures \subseteq Behind(j, next)
      /\ w.parsed \subseteq Behind(j, next) \cup Underway(j, next)
      /\ Underway(j, next) \subseteq w.parsed
      /\ w.results \subseteq PlansBehind(j, next, w.parsed)
  BY <1>4, <1>5, <1>6
<1>9. GapsOK(j, next, w, circuit')
  BY <1>2, <1>3, <1>7, <1>8 DEF GapsOK
<1>10. QED
  BY <1>9 DEF GapsKept

\* An error ends the books.
LEMMA EndedGaps ==
  ASSUME NEW j, NEW error, NEW w, NEW c
  PROVE  GapsOK(j, Ended(error), w, c)
<1>1. Ended(error) = [AutoIdle EXCEPT !.pc = "over", !.error = {error}]
  BY DEF Ended
<1>2. Ended(error).pc = "over" /\ Ended(error).error # {}
  BY <1>1, IdleTyped DEF AutoState
<1>3. QED
  BY <1>2 DEF GapsOK

LEMMA ScanSourceGaps ==
  ASSUME GapsHold, NEW event \in Event, ScanSource(event)
  PROVE  GapsKept
<1> PICK response : response = MakeRequest(automateJob.client, FetchRequest(SourceOrigin), FALSE, event)
  OBVIOUS
<1> PICK s : s = CurrentSource
  OBVIOUS
<1>1. /\ auto.pc = "source" /\ circuit' = Observe(circuit, SourceOrigin, response)
      /\ IF SourceFails(response)
           THEN /\ written' = [written EXCEPT !.failures = IF automateJob.batch
                                                           THEN @ \cup {s} ELSE @]
                /\ auto' = IF automateJob.batch THEN NextSource ELSE Ended("fatal")
           ELSE /\ written' = [written EXCEPT !.parsed = @ \cup {s}]
                /\ auto' = IF PlansOf(s) = <<>> THEN NextSource
                           ELSE [auto EXCEPT !.pc = "plan", !.plan = 1]
  BY DEF ScanSource
<1>2. /\ automateJob \in AutomateJob /\ auto.source \in 1..Len(automateJob.sources)
      /\ circuit \in CircuitState /\ written \in WrittenState
      /\ AutoOK(automateJob, auto, circuit, wire)
  BY <1>1 DEF GapsHold, AutoOK, Placed
<1>3. SourceOrigin \in Origin
  BY <1>2, SourceFacts
<1>4. circuit'.skipped = circuit.skipped
  BY <1>1, <1>2, <1>3, SkippedCounts
<1>5. AutoOK(automateJob, auto', circuit', wire') /\ written' \in WrittenState
  BY <1>2, ScanSourceStep DEF AutoStepOK
<1>6. circuit' \in CircuitState
  BY <1>5 DEF AutoOK
<1>7. CASE auto' = Ended("fatal")
  BY <1>7, EndedGaps DEF GapsKept
<1>8. CASE SourceFails(response) /\ auto' = NextSource /\ written' = [written EXCEPT !.failures = @ \cup {s}]
  <2>1. /\ written'.failures = written.failures \cup {s} /\ written'.parsed = written.parsed
        /\ written'.results = written.results
    BY <1>2, <1>8 DEF WrittenState
  <2>2. QED
    BY <1>1, <1>4, <1>5, <1>6, <1>8, <2>1, SourceLeft
<1>9. CASE ~SourceFails(response)
  <2>1. /\ written'.failures = written.failures /\ written'.parsed = written.parsed \cup {s}
        /\ written'.results = written.results
    BY <1>1, <1>2, <1>9 DEF WrittenState
  <2>2. CASE PlansOf(s) = <<>>
    <3>1. auto' = NextSource
      BY <1>1, <1>9, <2>2
    <3>2. QED
      BY <1>1, <1>4, <1>5, <1>6, <2>1, <2>2, <3>1, SourceLeft
  <2>3. CASE PlansOf(s) # <<>>
    <3>1. auto' = [auto EXCEPT !.pc = "plan", !.plan = 1]
      BY <1>1, <1>9, <2>3
    <3>2. QED
      BY <1>1, <1>4, <1>5, <2>1, <3>1, SourceOpened
  <2>4. QED
    BY <2>2, <2>3
<1>10. QED
  <2>1. CASE SourceFails(response) /\ automateJob.batch
    BY <1>1, <1>8, <2>1
  <2>2. CASE SourceFails(response) /\ ~automateJob.batch
    BY <1>1, <1>7, <2>2
  <2>3. QED
    BY <1>9, <2>1, <2>2

\* A request is sent for the plan at hand.
LEMMA PlaceKept ==
  ASSUME GapsHold, auto.pc \in {"plan", "settle"}, auto'.pc = "settle",
         auto'.source = auto.source, auto'.plan = auto.plan, auto'.error = auto.error,
         UNCHANGED <<circuit, written>>
  PROVE  GapsKept
<1> PICK j : j = automateJob
  OBVIOUS
<1> PICK next : next = auto'
  OBVIOUS
<1>1. Behind(j, next) = Behind(j, auto) /\ Underway(j, next) = Underway(j, auto)
  BY DEF Behind, Underway
<1>2. PlansBehind(j, next, written.parsed) = PlansBehind(j, auto, written.parsed)
  BY <1>1 DEF PlansBehind
<1>3. ASSUME NEW o
      PROVE  /\ Missed(j, next, written, o) = Missed(j, auto, written, o)
             /\ Unsent(j, next, written, o) = Unsent(j, auto, written, o)
  BY <1>1, <1>2 DEF Missed, Unsent
<1>4. GapsOK(j, auto, written, circuit)
  BY DEF GapsHold
<1>5. GapsOK(j, next, written, circuit)
  BY <1>1, <1>2, <1>3, <1>4 DEF GapsOK
<1>6. QED
  BY <1>5, Zenon DEF GapsKept

LEMMA SendGaps ==
  ASSUME GapsHold, NEW event \in Event,
         \/ SendPlan(event)
         \/ \E identical \in BOOLEAN : SendRetry(event, identical)
         \/ SendReplay
  PROVE  GapsKept
<1>1. auto.pc \in {"plan", "settle"} /\ UNCHANGED <<circuit, written>> /\ auto \in AutoState
  BY DEF SendPlan, SendRetry, SendReplay, GapsHold, AutoOK, Placed
<1>2. \/ \E response : auto' = [auto EXCEPT !.pc = "settle", !.response = response]
      \/ auto.pc = "settle" /\ \E response, attempt :
                                 auto' = [auto EXCEPT !.response = response, !.attempt = attempt]
      \/ auto.pc = "settle" /\ auto' = [auto EXCEPT !.replayed = TRUE]
  BY DEF SendPlan, SendRetry, SendReplay
<1>3. /\ auto'.pc = "settle" /\ auto'.source = auto.source /\ auto'.plan = auto.plan
      /\ auto'.error = auto.error
  BY <1>1, <1>2 DEF AutoState
<1>4. QED
  BY <1>1, <1>3, PlaceKept

\* The loop leaves a plan: its result is written, or its origin counts one more.
LEMMA PlanLeft ==
  ASSUME GapsHold, auto.pc \in {"plan", "settle"}, auto' = NextPlan,
         NEW plan, plan = <<CurrentSource, auto.plan>>,
         written'.parsed = written.parsed, written'.failures = written.failures,
         \/ /\ written'.results = written.results
            /\ circuit'.skipped[CurrentPlan.origin] = circuit.skipped[CurrentPlan.origin] + 1
            /\ \A o \in Origin \ {CurrentPlan.origin} : circuit'.skipped[o] = circuit.skipped[o]
         \/ written'.results = written.results \cup {plan} /\ circuit'.skipped = circuit.skipped
  PROVE  GapsKept
<1> PICK j : j = automateJob
  OBVIOUS
<1> PICK next : next = auto'
  OBVIOUS
<1> PICK w : w = written'
  OBVIOUS
<1> PICK s : s = CurrentSource
  OBVIOUS
<1> PICK P : P = PlansBehind(j, auto, written.parsed)
  OBVIOUS
<1>1. /\ j \in AutomateJob /\ Placed(j, auto) /\ auto.error = {} /\ circuit \in CircuitState
      /\ IsInjective(j.sources)
  BY DEF GapsHold, AutoOK, GapsOK
<1>2. /\ written.failures \subseteq Behind(j, auto)
      /\ written.parsed \subseteq Behind(j, auto) \cup Underway(j, auto)
      /\ Underway(j, auto) \subseteq written.parsed
      /\ written.results \subseteq P
      /\ \A o \in Origin : Counted(circuit.skipped[o], Missed(j, auto, written, o),
                                   Unsent(j, auto, written, o))
  BY <1>1 DEF GapsHold, GapsOK
<1>3. Underway(j, auto) = {s} /\ s \in written.parsed
  BY <1>2 DEF Underway, CurrentSource
<1>4. /\ next.error = {} /\ Underway(j, next) \subseteq {s}
      /\ Behind(j, next) \cup Underway(j, next) = Behind(j, auto) \cup {s}
      /\ Behind(j, auto) \subseteq Behind(j, next)
      /\ PlansBehind(j, next, written.parsed) = P \cup {plan} /\ plan \notin P
  BY <1>1, <1>3, ToNextPlan
<1>5. CurrentPlan = PlansFor(j, plan[1])[plan[2]] /\ CurrentPlan.origin \in Origin
  <2>1. plan[1] = s /\ plan[2] = auto.plan
    OBVIOUS
  <2>2. CurrentPlan = PlansFor(j, plan[1])[plan[2]]
    BY <2>1 DEF CurrentPlan, PlansFor, PlansOf
  <2>3. QED
    BY <1>1, <2>2, PlanFacts
<1>6. ASSUME NEW o \in Origin PROVE Missed(j, next, w, o) = Missed(j, auto, written, o)
  <2>1. Behind(j, next) \ (w.parsed \cup w.failures) =
          Behind(j, auto) \ (written.parsed \cup written.failures)
    BY <1>3, <1>4
  <2>2. QED
    BY <2>1 DEF Missed
<1>7. ASSUME NEW o \in Origin
      PROVE  Counted(circuit'.skipped[o], Missed(j, next, w, o), Unsent(j, next, w, o))
  <2> PICK S : S = Missed(j, auto, written, o)
    OBVIOUS
  <2> PICK T : T = Unsent(j, auto, written, o)
    OBVIOUS
  <2> PICK n : n = circuit.skipped[o]
    OBVIOUS
  <2>1. Counted(n, S, T) /\ Missed(j, next, w, o) = S
    BY <1>2, <1>6
  <2>2. plan \notin T
    BY <1>4 DEF Unsent
  <2>3. Counted(n + 1, S, T \cup {plan})
    BY <2>1, <2>2, CountedMore
  <2>4. CASE w.results = written.results \cup {plan} /\ circuit'.skipped = circuit.skipped
    <3>1. (P \cup {plan}) \ (written.results \cup {plan}) = P \ written.results
      BY <1>4
    <3>2. Unsent(j, next, w, o) = T
      BY <1>4, <2>4, <3>1 DEF Unsent
    <3>3. QED
      BY <2>1, <2>4, <3>2, Zenon
  <2>5. CASE /\ w.results = written.results
             /\ circuit'.skipped[CurrentPlan.origin] = circuit.skipped[CurrentPlan.origin] + 1
             /\ \A q \in Origin \ {CurrentPlan.origin} : circuit'.skipped[q] = circuit.skipped[q]
    <3>1. (P \cup {plan}) \ written.results = (P \ written.results) \cup {plan}
      BY <1>2, <1>4
    <3>2. Unsent(j, next, w, o) =
            {p \in (P \ written.results) \cup {plan} : PlansFor(j, p[1])[p[2]].origin = o}
      BY <1>4, <2>5, <3>1 DEF Unsent
    <3>3. CASE o = CurrentPlan.origin
      <4>1. Unsent(j, next, w, o) = T \cup {plan}
        BY <1>5, <3>2, <3>3 DEF Unsent
      <4>2. circuit'.skipped[o] = n + 1
        BY <2>5, <3>3
      <4>3. QED
        BY <2>1, <2>3, <4>1, <4>2, Zenon
    <3>4. CASE o # CurrentPlan.origin
      <4>1. Unsent(j, next, w, o) = T
        BY <1>5, <3>2, <3>4 DEF Unsent
      <4>2. circuit'.skipped[o] = n
        BY <2>5, <3>4
      <4>3. QED
        BY <2>1, <4>1, <4>2, Zenon
    <3>5. QED
      BY <3>3, <3>4
  <2>6. QED
    BY <2>4, <2>5
<1>8. /\ w.failures \subseteq Behind(j, next)
      /\ w.parsed \subseteq Behind(j, next) \cup Underway(j, next)
      /\ Underway(j, next) \subseteq w.parsed
      /\ w.results \subseteq PlansBehind(j, next, w.parsed)
  BY <1>2, <1>3, <1>4
<1>9. GapsOK(j, next, w, circuit')
  BY <1>4, <1>7, <1>8 DEF GapsOK
<1>10. QED
  BY <1>9 DEF GapsKept

LEMMA SkipPlanGaps ==
  ASSUME GapsHold, SkipPlan
  PROVE  GapsKept
<1>1. /\ auto.pc = "plan" /\ circuit' = Skip(circuit, CurrentPlan.origin) /\ auto' = NextPlan
      /\ written' = written
  BY DEF SkipPlan
<1>2. CurrentPlan.origin \in Origin /\ circuit \in CircuitState
  BY <1>1, PlanFacts DEF GapsHold, AutoOK
<1>3. /\ circuit'.skipped[CurrentPlan.origin] = circuit.skipped[CurrentPlan.origin] + 1
      /\ \A o \in Origin \ {CurrentPlan.origin} : circuit'.skipped[o] = circuit.skipped[o]
  BY <1>1, <1>2, SkippedCounts
<1>4. QED
  BY <1>1, <1>3, PlanLeft

LEMMA RecordResultGaps ==
  ASSUME GapsHold, RecordResult
  PROVE  GapsKept
<1> PICK plan : plan = <<CurrentSource, auto.plan>>
  OBVIOUS
<1>1. /\ auto.pc = "settle" /\ circuit' = Observe(circuit, CurrentPlan.origin, auto.response)
      /\ auto' = NextPlan
      /\ written' = [written EXCEPT !.results = @ \cup {plan}]
  BY DEF RecordResult
<1>2. /\ CurrentPlan.origin \in Origin /\ circuit \in CircuitState /\ written \in WrittenState
  BY <1>1, PlanFacts DEF GapsHold, AutoOK
<1>3. circuit'.skipped = circuit.skipped
  BY <1>1, <1>2, SkippedCounts
<1>4. /\ written'.parsed = written.parsed /\ written'.failures = written.failures
      /\ written'.results = written.results \cup {plan}
  BY <1>1, <1>2 DEF WrittenState
<1>5. QED
  BY <1>1, <1>3, <1>4, PlanLeft

LEMMA AutomateStepGaps ==
  ASSUME GapsHold, AutomateNext
  PROVE  GapsKept
<1>1. CASE AutomateCanceled
  <2>1. auto' = Ended("canceled")
    BY <1>1 DEF AutomateCanceled
  <2>2. QED
    BY <2>1, EndedGaps DEF GapsKept
<1>2. CASE SendReplay
  <2>1. PICK event : event \in Event
    BY DEF Event
  <2>2. QED
    BY <1>2, <2>1, SendGaps
<1>3. CASE \E event \in Event : \/ ScanSource(event) \/ SendPlan(event)
                                \/ \E identical \in BOOLEAN : SendRetry(event, identical)
  BY <1>3, ScanSourceGaps, SendGaps
<1>4. QED
  BY <1>1, <1>2, <1>3, SkipSourceGaps, SkipPlanGaps, RecordResultGaps DEF AutomateNext

\* A scan starts with nothing behind it.
LEMMA GapsStart ==
  ASSUME NEW j \in AutomateJob
  PROVE  GapsOK(j, StartedAuto, NothingWritten, NewTargetCircuit)
<1> PICK a : a = StartedAuto
  OBVIOUS
<1> PICK w : w = NothingWritten
  OBVIOUS
<1>1. a.pc = "source" /\ a.source = 1 /\ a.error = {}
  BY StartedFields DEF StartedAuto, AutoIdle
<1>2. w.parsed = {} /\ w.failures = {} /\ w.results = {}
  BY DEF NothingWritten
<1>3. Behind(j, a) = {} /\ Underway(j, a) = {}
  <2>1. {k \in DOMAIN j.sources : a.pc = "over" \/ k < a.source} = {}
    BY <1>1 DEF AutomateJob
  <2>2. QED
    BY <1>1, <2>1 DEF Behind, Underway
<1>4. PlansBehind(j, a, w.parsed) = {}
  BY <1>2, <1>3 DEF PlansBehind, PlannedFrom
<1>5. ASSUME NEW o \in Origin
      PROVE  Counted(NewTargetCircuit.skipped[o], Missed(j, a, w, o), Unsent(j, a, w, o))
  <2>1. Missed(j, a, w, o) = {} /\ Unsent(j, a, w, o) = {}
    BY <1>3, <1>4 DEF Missed, Unsent
  <2>2. NewTargetCircuit.skipped[o] = 0
    BY DEF NewTargetCircuit
  <2>3. Counted(0, {}, {})
    BY FS_EmptySet DEF Counted
  <2>4. QED
    BY <2>1, <2>2, <2>3, Zenon
<1>6. GapsOK(j, a, w, NewTargetCircuit)
  BY <1>1, <1>2, <1>3, <1>4, <1>5 DEF GapsOK
<1>7. QED
  BY <1>6

\* The books are kept while the batch runs; it runs over different sources and
\* starts with nothing written.
CoverageInv ==
  /\ IsInjective(automateJob.sources)
  /\ At("automate", "work") => GapsOK(automateJob, auto, written, circuit)
  /\ flow.stage # "automate" \/ flow.step = "begin" => written = NothingWritten

LEMMA CoverageStarts ==
  ASSUME WorkflowAssumption, Init
  PROVE  CoverageInv
<1>1. /\ written = NothingWritten /\ flow.stage = "workflow"
      /\ \E j \in WorkflowJobs : automateJob = j.automate
  BY DEF Init
<1>2. QED
  BY <1>1 DEF CoverageInv, At, WorkflowAssumption

LEMMA OutsideCoverage ==
  ASSUME CoverageInv, Outside, flow.stage # "ended", flow.stage = "automate" => flow'.stage = "automate"
  PROVE  CoverageInv'
<1>1. UNCHANGED <<automateJob, written>>
  BY DEF Outside, automateVars
<1>2. QED
  BY <1>1 DEF CoverageInv, Outside

LEMMA UnchangedCoverage ==
  ASSUME CoverageInv, UNCHANGED <<flow, automateJob, auto, circuit, written>>
  PROVE  CoverageInv'
<1>1. GapsOK(automateJob, auto, written, circuit) => GapsOK(automateJob, auto, written, circuit)'
  BY Zenon
<1>2. QED
  BY <1>1 DEF CoverageInv, At

LEMMA BeginCoverage ==
  ASSUME WorkflowInv, CoverageInv, NEW c \in Command, NEW ok \in BOOLEAN, BeginCommand(c, ok)
  PROVE  CoverageInv'
<1>1. /\ flow.stage = c /\ flow.step = "begin" /\ FlowOK /\ ScansOK
      /\ automateJob \in AutomateJob
  BY DEF BeginCommand, At, WorkflowInv, FlowOK, ScansOK, AutoOK
<1> DEFINE refused == Refused(c) \/ (job.database /\ (canceled \/ ~ok))
<1>2. CASE refused \/ c # "automate"
  <2>1. Outside /\ flow'.stage = c /\ flow.stage = c
    BY <1>1, <1>2, BeginOutside
  <2>2. QED
    BY <2>1, OutsideCoverage DEF Command
<1>3. CASE ~refused /\ c = "automate"
  <2>1. /\ auto' = StartedAuto /\ UNCHANGED <<circuit, written>>
        /\ \E authorized : automateJob' = [automateJob EXCEPT !.authorized = authorized]
    BY <1>3 DEF BeginCommand
  <2> HIDE DEF refused
  <2>2. written' = NothingWritten /\ circuit' = NewTargetCircuit
    BY <1>1, <2>1 DEF CoverageInv, ScansOK, At
  <2>3. automateJob' \in AutomateJob /\ automateJob'.sources = automateJob.sources
    <3>1. ScansOK'
      BY <1>1, BeginScans DEF WorkflowInv
    <3>2. automateJob' \in AutomateJob
      BY <3>1 DEF ScansOK, AutoOK
    <3>3. QED
      BY <1>1, <2>1, <3>2 DEF AutomateJob
  <2>4. GapsOK(automateJob, auto, written, circuit)'
    <3> PICK j : j = automateJob'
      OBVIOUS
    <3>1. GapsOK(j, StartedAuto, NothingWritten, NewTargetCircuit)
      BY <2>3, GapsStart
    <3>2. QED
      BY <2>1, <2>2, <3>1, Zenon
  <2>5. IsInjective(automateJob.sources)'
    BY <2>3 DEF CoverageInv
  <2>6. QED
    BY <2>2, <2>4, <2>5 DEF CoverageInv
<1>4. QED
  BY <1>2, <1>3

LEMMA StartCoverage ==
  ASSUME FlowOK, CoverageInv, StartWorkflow
  PROVE  CoverageInv'
<1> PICK next : next = IF WorkflowRefused THEN "ended"
                       ELSE IF job.mode = "brute" THEN "brute" ELSE "automate"
  OBVIOUS
<1>1. FlowTypes /\ flow.stage = "workflow" /\ flow' = Enter(next) /\ UNCHANGED <<automateJob, written>>
  BY DEF FlowOK, StartWorkflow, automateVars
<1>2. next \in Command \cup {"assessment", "ended"} /\ next # "assessment"
  BY DEF Command
<1>3. flow'.step = "begin"
  BY <1>1, <1>2, EnterFacts
<1>4. QED
  BY <1>1, <1>3 DEF CoverageInv, At

LEMMA FinishCoverage ==
  ASSUME FlowOK, CoverageInv, NEW c \in Command, NEW finished \in BOOLEAN, NEW ok \in BOOLEAN,
         FinishCommand(c, finished, ok)
  PROVE  CoverageInv'
<1>1. /\ flow.stage = c /\ automateJob' = automateJob
      /\ written' = IF c = "automate" THEN NothingWritten ELSE written
  BY DEF FinishCommand, At
<1>2. flow'.step # "work"
  BY FinishLeaves
<1>3. written' = NothingWritten
  BY <1>1 DEF CoverageInv
<1>4. QED
  BY <1>1, <1>2, <1>3 DEF CoverageInv, At

LEMMA ScanReturnsCoverage ==
  ASSUME WorkflowInv, CoverageInv, WorkflowAssumption, BruteReturns \/ AutomateReturns
  PROVE  CoverageInv'
<1>1. FlowTypes /\ ScansOK /\ automateJob \in AutomateJob
  BY DEF WorkflowInv, FlowOK, ScansOK, AutoOK
<1>2. CASE BruteReturns
  <2>1. /\ flow.stage = "brute" /\ flow' = Advance(BruteErrors) /\ written' = written
        /\ automateJob' = [automateJob EXCEPT !.sources = Collected(FoundSpecs)]
    BY <1>2 DEF BruteReturns, At
  <2>2. flow'.stage = "brute"
    BY <1>1, <2>1, OnwardFacts
  <2>3. automateJob'.sources = Collected(FoundSpecs)
    BY <1>1, <2>1 DEF AutomateJob
  <2>4. IsInjective(automateJob.sources)'
    BY <1>1, <2>3, FoundSources
  <2>5. QED
    BY <2>1, <2>2, <2>4 DEF CoverageInv, At
<1>3. CASE AutomateReturns
  <2>1. /\ flow.stage = "automate" /\ flow.step = "work"
        /\ flow' = Advance({}) \/ flow' = GiveUp(auto.error)
        /\ automateJob' = automateJob
    BY <1>3 DEF AutomateReturns, At
  <2>2. FollowingStep = "observations"
    BY <2>1, ScanSteps
  <2>3. flow'.stage = "automate" /\ flow'.step \in {"observations", "finish"}
    BY <1>1, <2>1, <2>2, OnwardFacts
  <2>4. QED
    BY <2>1, <2>3 DEF CoverageInv, At
<1>4. QED
  BY <1>2, <1>3

LEMMA ScanStepsCoverage ==
  ASSUME WorkflowInv, CoverageInv, BruteStep \/ AutomateStep
  PROVE  CoverageInv'
<1>1. CASE BruteStep
  BY <1>1, UnchangedCoverage DEF BruteStep, flowVars, automateVars
<1>2. CASE AutomateStep
  <2>1. At("automate", "work") /\ AutomateNext /\ flow' = flow
    BY <1>2 DEF AutomateStep, flowVars
  <2>2. GapsHold
    BY <2>1 DEF GapsHold, CoverageInv, WorkflowInv, ScansOK
  <2>3. GapsKept
    BY <2>1, <2>2, AutomateStepGaps
  <2>4. automateJob' = automateJob
    BY <2>1, <2>2, AutomateStepKeeps DEF GapsHold, AutoStepOK
  <2>5. GapsOK(automateJob, auto, written, circuit)'
    BY <2>3, <2>4, Zenon DEF GapsKept
  <2>6. QED
    BY <2>1, <2>4, <2>5 DEF CoverageInv, At
<1>3. QED
  BY <1>1, <1>2

LEMMA CoverageKeeps ==
  ASSUME WorkflowAssumption, WorkflowInv, CoverageInv, [Next]_vars
  PROVE  CoverageInv'
<1>1. FlowOK /\ ScansOK /\ HeadersOK
  BY DEF WorkflowInv
<1>2. CASE StartWorkflow
  BY <1>1, <1>2, StartCoverage
<1>3. CASE BruteStep \/ AutomateStep
  BY <1>3, ScanStepsCoverage
<1>4. CASE BruteReturns \/ AutomateReturns
  BY <1>4, ScanReturnsCoverage
<1>5. ASSUME NEW ok \in BOOLEAN, NEW c \in Command, BeginCommand(c, ok)
      PROVE  CoverageInv'
  BY <1>5, BeginCoverage
<1>6. ASSUME NEW ok \in BOOLEAN, NEW c \in Command, NEW finished \in BOOLEAN,
             FinishCommand(c, finished, ok)
      PROVE  CoverageInv'
  BY <1>1, <1>6, FinishCoverage
<1>7. ASSUME NEW ok \in BOOLEAN, NEW c \in Command,
             \/ \E error \in {{}, ContextError} : FuzzReturns(error, ok)
             \/ GenerateCollection(ok)
             \/ \E step \in {"observations", "findings"} : StoreResults(c, step, ok)
             \/ \E wrote \in {"all", "json", "none"} : WriteArtifacts(c, wrote)
      PROVE  CoverageInv'
  BY <1>1, <1>7, OutsideSteps, OutsideCoverage
<1>8. ASSUME NEW ok \in BOOLEAN,
             \/ AssessmentStep(ok)
             \/ AssessmentReports(ok)
             \/ \E errors \in {{}, {"partial"}, ContextError} : RunAssessment(errors, ok)
      PROVE  CoverageInv'
  BY <1>1, <1>8, AssessmentOutside, OutsideCoverage
<1>9. CASE UNCHANGED <<flow, automateJob, auto, circuit, written>>
  BY <1>9, UnchangedCoverage
<1>10. CASE Cancel \/ Terminated \/ UNCHANGED vars
  BY <1>9, <1>10 DEF Cancel, Terminated, vars, flowVars, automateVars
<1>11. "fuzz" \in Command /\ TRUE \in BOOLEAN
  BY DEF Command
<1>12. QED
  BY <1>2, <1>3, <1>4, <1>5, <1>6, <1>7, <1>8, <1>10, <1>11 DEF Next, Step

LEMMA CoverageAlways == Spec => []CoverageInv
<1>1. Init => CoverageInv
  BY CoverageStarts, WorkflowAssumption
<1>2. WorkflowInv /\ CoverageInv /\ [Next]_vars => CoverageInv'
  BY CoverageKeeps, WorkflowAssumption
<1>3. QED
  BY <1>1, <1>2, WorkflowAlways, PTL DEF Spec

LEMMA InvCoverage ==
  ASSUME WorkflowInv, CoverageInv
  PROVE  CoverageGapsAreExact
<1> PICK j : j = automateJob
  OBVIOUS
<1> SUFFICES ASSUME At("automate", "work"), AutomateOver, auto.error = {}, NEW o \in Origin
             PROVE  circuit.skipped[o] =
                      Cardinality({s \in Range(j.sources) \ (written.parsed \cup written.failures) :
                                     j.originOf[s] = o})
                      + Cardinality({plan \in PlannedOf(written.parsed) \ written.results :
                                       PlansOf(plan[1])[plan[2]].origin = o})
  BY Zenon DEF CoverageGapsAreExact
<1>1. /\ GapsOK(j, auto, written, circuit) /\ auto.pc = "over"
  BY DEF CoverageInv, AutomateOver
<1>2. Behind(j, auto) = Range(j.sources) /\ Underway(j, auto) = {}
  BY <1>1 DEF Behind, Underway, Range
<1>3. written.parsed \cap Behind(j, auto) = written.parsed
  BY <1>1, <1>2 DEF GapsOK
<1>4. \A s : PlansFor(j, s) = PlansOf(s)
  BY DEF PlansFor, PlansOf
<1>5. PlansBehind(j, auto, written.parsed) = PlannedOf(written.parsed)
  <2>1. PlannedFrom(j, written.parsed) = PlannedOf(written.parsed)
    BY <1>4 DEF PlannedFrom, PlannedOf
  <2>2. QED
    BY <1>2, <1>3, <2>1 DEF PlansBehind
<1>6. Missed(j, auto, written, o) =
        {s \in Range(j.sources) \ (written.parsed \cup written.failures) : j.originOf[s] = o}
  BY <1>2 DEF Missed
<1>7. Unsent(j, auto, written, o) =
        {plan \in PlannedOf(written.parsed) \ written.results :
           PlansOf(plan[1])[plan[2]].origin = o}
  BY <1>4, <1>5 DEF Unsent
<1>8. circuit.skipped[o] = Cardinality(Missed(j, auto, written, o))
                           + Cardinality(Unsent(j, auto, written, o))
  BY <1>1 DEF GapsOK, Counted
<1>9. QED
  BY <1>6, <1>7, <1>8

\* CoverageGapsAreExact: when a batch ends without an error, each origin's gap
\* counts every source that was neither parsed nor has failed and every request
\* that was planned and not sent, once (TargetCircuit.Skip), for any sources
\* and documents and whatever the responses are.
THEOREM WorkflowCoverage == Spec => []CoverageGapsAreExact
<1>1. WorkflowInv /\ CoverageInv => CoverageGapsAreExact
  BY InvCoverage
<1>2. QED
  BY <1>1, WorkflowAlways, CoverageAlways, PTL
=============================================================================
