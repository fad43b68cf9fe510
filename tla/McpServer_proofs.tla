-------------------------- MODULE McpServer_proofs --------------------------
(***************************************************************************)
(* Proofs about McpServer: type correctness and every invariant of its     *)
(* run, for all servers, clients, files and assessments that JobsAssumption *)
(* admits.                                                                 *)
(*                                                                         *)
(* The properties follow from ServerInv, which is inductive. It speaks of  *)
(* one call at a time (Local), of a call and the store (Link), and of what *)
(* the calls share: slots, assessments, requests and verdicts. Effect is   *)
(* what a step may do to these; EffectKeeps shows that it keeps ServerInv, *)
(* so every action of a call has one lemma, which shows that it is an      *)
(* Effect. WriteFile is not a call's and has a lemma of its own.           *)
(*                                                                         *)
(* The lemmas before them are about the operators of the model: plans of   *)
(* requests, imported operations, the proofs of a plan and their budgets,  *)
(* the verdict about a matrix, the truncation of reports. Folds and sums   *)
(* are recursive functions that CHOOSE picks; the first lemmas show that   *)
(* these exist and how they recur.                                         *)
(***************************************************************************)
EXTENDS McpServer, FiniteSetTheorems, WellFoundedInduction, TLAPS

-----------------------------------------------------------------------------
(* Induction                                                               *)

\* Induction over the naturals for a set instead of a predicate.
LEMMA NatSetInduction ==
  ASSUME NEW T, 0 \in T, \A i \in Nat : i \in T => i + 1 \in T
  PROVE  Nat \subseteq T
<1> DEFINE R == OpToRel(<, Nat)
           M == Nat \ T
<1>1. IsWellFoundedOn(R, Nat)
  BY NatLessThanWellFounded
<1> SUFFICES ASSUME M # {} PROVE FALSE
  OBVIOUS
<1>2. \E x \in M : \A y \in M : ~(<<y, x>> \in R)
  <2> HIDE DEF R
  <2> QED BY <1>1, WFMin
<1>3. PICK x \in M : \A y \in M : ~(<<y, x>> \in R)
  BY <1>2
<1>4. \A y \in M : ~(y < x)
  BY <1>3 DEF OpToRel
<1>5. x \in Nat /\ x # 0 /\ x - 1 \in Nat
  OBVIOUS
<1>6. x - 1 \in T
  BY <1>4, <1>5
<1>7. QED
  BY <1>5, <1>6

\* Body takes members of S to members of S; f holds the values of n rounds.
Body(g, S, n) == g \in [S \X (1..n) -> S]
Rounds(f, g, base, S, n) ==
  f \in [0..n -> S] /\ f[0] = base /\ \A i \in 1..n : f[i] = g[<<f[i - 1], i>>]

\* A loop of n rounds has the sequence of values it goes through.
LEMMA LoopRuns ==
  \A S, base, n, g : base \in S /\ n \in Nat /\ Body(g, S, n) => \E f : Rounds(f, g, base, S, n)
<1> SUFFICES ASSUME NEW S, NEW base \in S, NEW n \in Nat, NEW g, Body(g, S, n)
             PROVE  \E f : Rounds(f, g, base, S, n)
  OBVIOUS
<1>1. g \in [S \X (1..n) -> S]
  BY DEF Body
<1> DEFINE Good(f, k) == f[0] = base /\ \A i \in 1..k : f[i] = g[<<f[i - 1], i>>]
           T == {k \in Nat : k <= n => \E f \in [0..k -> S] : Good(f, k)}
<1>2. 0 \in T
  <2>1. [i \in 0..0 |-> base] \in [0..0 -> S] /\ Good([i \in 0..0 |-> base], 0)
    OBVIOUS
  <2>2. QED
    BY <2>1
<1>3. ASSUME NEW k \in Nat, k \in T PROVE k + 1 \in T
  <2> SUFFICES ASSUME k + 1 <= n PROVE \E f \in [0..(k + 1) -> S] : Good(f, k + 1)
    OBVIOUS
  <2>1. PICK f \in [0..k -> S] : Good(f, k)
    BY <1>3
  <2> DEFINE last == g[<<f[k], k + 1>>]
             h == [i \in 0..(k + 1) |-> IF i <= k THEN f[i] ELSE last]
  <2>2. f[k] \in S /\ k + 1 \in 1..n
    BY <2>1
  <2>3. last \in S
    BY <1>1, <2>2
  <2>4. h \in [0..(k + 1) -> S]
    BY <2>3
  <2>5. Good(h, k + 1)
    <3>1. h[0] = base
      BY <2>1
    <3>2. ASSUME NEW i \in 1..(k + 1) PROVE h[i] = g[<<h[i - 1], i>>]
      <4>1. h[i - 1] = f[i - 1]
        OBVIOUS
      <4>2. CASE i <= k
        BY <2>1, <4>1, <4>2
      <4>3. CASE i = k + 1
        BY <4>1, <4>3
      <4>4. QED
        BY <4>2, <4>3
    <3>3. QED
      BY <3>1, <3>2
  <2>6. QED
    BY <2>4, <2>5
<1>4. Nat \subseteq T
  <2> HIDE DEF T
  <2> QED BY <1>2, <1>3, NatSetInduction
<1>5. n \in T
  BY <1>4
<1>6. \E f \in [0..n -> S] : Good(f, n)
  BY <1>5
<1>7. QED
  BY <1>6 DEF Rounds

\* What holds before a loop and is kept by its body holds after it.
LEMMA LoopTyped ==
  ASSUME NEW S, NEW n \in Nat, NEW f, f[0] \in S,
         \A i \in 1..n : f[i - 1] \in S => f[i] \in S
  PROVE  \A i \in 0..n : f[i] \in S
<1> DEFINE T == {i \in Nat : i <= n => f[i] \in S}
<1>1. 0 \in T
  OBVIOUS
<1>2. ASSUME NEW i \in Nat, i \in T PROVE i + 1 \in T
  BY <1>2
<1>3. Nat \subseteq T
  <2> HIDE DEF T
  <2> QED BY <1>1, <1>2, NatSetInduction
<1>4. QED
  BY <1>3

-----------------------------------------------------------------------------
(* Request plans                                                           *)

\* The operations of a path that are planned are planned ones (request_plan.go).
LEMMA PlannedOperationsTyped ==
  ASSUME NEW item \in Scan!PathItem, NEW config \in Scan!PlanConfig
  PROVE  Scan!PlannedOperations(item, config)
           \in Seq({operation \in Scan!Operation : Scan!Planned(operation, config)})
<1> DEFINE n == Len(item.operations)
           S == Seq({operation \in Scan!Operation : Scan!Planned(operation, config)})
           step(x, k) == IF Scan!Planned(item.operations[k], config)
                         THEN Append(x, item.operations[k]) ELSE x
           g == [x \in S \X (1..n) |-> step(x[1], x[2])]
           kept == CHOOSE f : f = [k \in 0..n |-> IF k = 0 THEN <<>> ELSE step(f[k - 1], k)]
<1>1. n \in Nat /\ item.operations \in Seq(Scan!Operation)
  BY DEF Scan!PathItem
<1>2. \A x \in S, k \in 1..n : step(x, k) \in S
  BY <1>1
<1>3. Body(g, S, n) /\ \A x \in S, k \in 1..n : g[<<x, k>>] = step(x, k)
  BY <1>2 DEF Body
<1>4. PICK empty : empty = <<>>
  OBVIOUS
<1>5. empty \in S
  BY <1>4
<1> HIDE DEF g, n, S, step
<1>6. PICK f : Rounds(f, g, empty, S, n)
  BY <1>1, <1>3, <1>5, LoopRuns
<1>7. f = [k \in 0..n |-> IF k = 0 THEN empty ELSE step(f[k - 1], k)]
  <2>1. \A i \in 1..n : f[i - 1] \in S
    BY <1>1, <1>6 DEF Rounds
  <2>2. \A i \in 1..n : f[i] = step(f[i - 1], i)
    BY <1>3, <1>6, <2>1 DEF Rounds
  <2>3. QED
    BY <1>1, <1>6, <2>2 DEF Rounds
<1>8. kept = [k \in 0..n |-> IF k = 0 THEN <<>> ELSE step(kept[k - 1], k)]
  BY <1>4, <1>7, Zenon
<1>9. kept[0] \in S /\ \A i \in 1..n : kept[i] = step(kept[i - 1], i)
  <2> HIDE DEF kept
  <2>1. DOMAIN kept = 0..n
    BY <1>8, Zenon
  <2>2. kept[0] = empty
    BY <1>1, <1>4, <1>8
  <2>3. QED
    BY <1>1, <1>5, <1>8, <2>2
<1>10. kept[n] \in S
  <2>1. \A i \in 1..n : kept[i - 1] \in S => kept[i] \in S
    BY <1>2, <1>9
  <2> HIDE DEF kept
  <2>2. \A i \in 0..n : kept[i] \in S
    BY <1>1, <1>9, <2>1, LoopTyped
  <2>3. QED
    BY <1>1, <2>2
<1>11. Scan!PlannedOperations(item, config) = kept[n]
  BY Zenon DEF Scan!PlannedOperations, n, step
<1>12. QED
  BY <1>10, <1>11 DEF S

PlannedRequest(config) ==
  {request \in Scan!Request : /\ request.method # "DELETE"
                         /\ request.method = "PATCH" => config.allowPatch
                         /\ request.method \notin config.excluded}

\* A request goes to a configured target, a server of the document or its source.
LEMMA OriginsOfPlans ==
  ASSUME NEW document \in Scan!Document, NEW config \in Scan!PlanConfig, NEW source \in Origin,
         NEW item \in Scan!PathItem, NEW operation \in Scan!Operation
  PROVE  Scan!OperationOrigin(item, operation, config, Scan!ConfigureTarget(document, config, source), source)
           \in Origin
<1>1. /\ config.target \subseteq Origin /\ document.server \in Scan!Server
      /\ item.server \in Scan!Server /\ operation.server \in Scan!Server
  BY DEF Scan!Document, Scan!PlanConfig, Scan!PathItem, Scan!Operation
<1>2. \A entry \in Scan!Server : Scan!ResolveServer(entry, source) \in Origin
  BY DEF Scan!ResolveServer, Scan!Server
<1>3. Scan!ConfigureTarget(document, config, source) \in Origin
  <2>1. CASE config.target # {}
    <3>1. (CHOOSE o \in config.target : TRUE) \in config.target
      BY <2>1
    <3>2. QED
      BY <1>1, <2>1, <3>1 DEF Scan!ConfigureTarget
  <2>2. CASE config.target = {}
    BY <1>1, <1>2, <2>2 DEF Scan!ConfigureTarget
  <2>3. QED
    BY <2>1, <2>2
<1>4. Scan!OperationServer(item, operation) \in Scan!Server
  BY <1>1 DEF Scan!OperationServer
<1>5. QED
  BY <1>2, <1>3, <1>4 DEF Scan!OperationOrigin

\* Every planned request goes to an origin, and none has a method that may not
\* be planned.
LEMMA RequestPlansTyped ==
  ASSUME NEW document \in Scan!Document, NEW config \in Scan!PlanConfig, NEW source \in Origin
  PROVE  Scan!BuildRequestPlans(document, config, source) \in Seq(PlannedRequest(config))
<1> DEFINE n == Len(document.paths)
           S == Seq(PlannedRequest(config))
           target == Scan!ConfigureTarget(document, config, source)
           plan(item, operation) ==
             [origin |-> Scan!OperationOrigin(item, operation, config, target, source),
              method |-> operation.method, dangerous |-> operation.dangerous]
           planned(item) == Scan!PlannedOperations(item, config)
           plansOf(item) == [i \in DOMAIN planned(item) |-> plan(item, planned(item)[i])]
           step(x, k) == x \o plansOf(document.paths[k])
           g == [x \in S \X (1..n) |-> step(x[1], x[2])]
           plans == CHOOSE f : f = [k \in 0..n |-> IF k = 0 THEN <<>> ELSE step(f[k - 1], k)]
<1>1. n \in Nat /\ \A k \in 1..n : document.paths[k] \in Scan!PathItem
  BY DEF Scan!Document
<1>2. ASSUME NEW item \in Scan!PathItem PROVE plansOf(item) \in S
  <2>1. planned(item) \in Seq({operation \in Scan!Operation : Scan!Planned(operation, config)})
    BY PlannedOperationsTyped
  <2>2. ASSUME NEW operation \in Scan!Operation, Scan!Planned(operation, config)
        PROVE  plan(item, operation) \in PlannedRequest(config)
    <3>1. operation.method \in Scan!Method /\ operation.dangerous \in BOOLEAN
      BY DEF Scan!Operation
    <3>2. plan(item, operation) \in Scan!Request
      BY <3>1, OriginsOfPlans DEF Scan!Request
    <3>3. plan(item, operation).method = operation.method
      OBVIOUS
    <3>4. QED
      BY <2>2, <3>2, <3>3 DEF PlannedRequest, Scan!Planned
  <2>3. PICK m \in Nat : /\ DOMAIN planned(item) = 1..m
                         /\ \A i \in 1..m : /\ planned(item)[i] \in Scan!Operation
                                            /\ Scan!Planned(planned(item)[i], config)
    <3> HIDE DEF planned
    <3>1. QED
      BY <2>1
  <2> HIDE DEF plan, planned
  <2>4. plansOf(item) \in [1..m -> PlannedRequest(config)]
    BY <2>2, <2>3
  <2>5. QED
    BY <2>4
<1>3. \A x \in S, k \in 1..n : step(x, k) \in S
  <2> HIDE DEF plansOf
  <2>1. QED
    BY <1>1, <1>2
<1>4. Body(g, S, n) /\ \A x \in S, k \in 1..n : g[<<x, k>>] = step(x, k)
  <2> HIDE DEF step, S
  <2>1. QED
    BY <1>3 DEF Body
<1>5. PICK empty : empty = <<>>
  OBVIOUS
<1>6. empty \in S
  BY <1>5
<1> HIDE DEF g, n, S, step
<1>7. PICK f : Rounds(f, g, empty, S, n)
  BY <1>1, <1>4, <1>6, LoopRuns
<1>8. f = [k \in 0..n |-> IF k = 0 THEN empty ELSE step(f[k - 1], k)]
  <2>1. \A i \in 1..n : f[i - 1] \in S
    BY <1>1, <1>7 DEF Rounds
  <2>2. \A i \in 1..n : f[i] = step(f[i - 1], i)
    BY <1>4, <1>7, <2>1 DEF Rounds
  <2>3. QED
    BY <1>1, <1>7, <2>2 DEF Rounds
<1>9. plans = [k \in 0..n |-> IF k = 0 THEN <<>> ELSE step(plans[k - 1], k)]
  BY <1>5, <1>8, Zenon
<1>10. plans[0] \in S /\ \A i \in 1..n : plans[i] = step(plans[i - 1], i)
  <2> HIDE DEF plans
  <2>1. plans[0] = empty
    BY <1>1, <1>5, <1>9
  <2>2. QED
    BY <1>1, <1>6, <1>9, <2>1
<1>11. plans[n] \in S
  <2>1. \A i \in 1..n : plans[i - 1] \in S => plans[i] \in S
    BY <1>3, <1>10
  <2> HIDE DEF plans
  <2>2. \A i \in 0..n : plans[i] \in S
    BY <1>1, <1>10, <2>1, LoopTyped
  <2>3. QED
    BY <1>1, <2>2
<1>12. Scan!BuildRequestPlans(document, config, source) = plans[n]
  BY Zenon DEF Scan!BuildRequestPlans, n, step
<1>13. QED
  BY <1>11, <1>12 DEF S

-----------------------------------------------------------------------------
(* Recursion over the subsets of a finite set, as the folds do it          *)

\* Induction over the subsets of a finite set, one element at a time.
LEMMA SubsetInduction ==
  ASSUME NEW S, IsFiniteSet(S), NEW W, {} \in W,
         \A s \in SUBSET S : s # {} => \E x \in s : s \ {x} \in W => s \in W
  PROVE  SUBSET S \subseteq W
<1> DEFINE T == {k \in Nat : \A s \in SUBSET S : Cardinality(s) = k => s \in W}
<1>1. 0 \in T
  <2>1. \A s \in SUBSET S : Cardinality(s) = 0 => s = {}
    BY FS_Subset, FS_EmptySet
  <2>2. \A s \in SUBSET S : Cardinality(s) = 0 => s \in W
    BY <2>1, Zenon
  <2>3. QED
    BY <2>2
<1>2. ASSUME NEW k \in Nat, k \in T PROVE k + 1 \in T
  <2> SUFFICES ASSUME NEW s \in SUBSET S, Cardinality(s) = k + 1 PROVE s \in W
    OBVIOUS
  <2>1. IsFiniteSet(s) /\ s # {}
    <3>1. Cardinality({}) = 0
      BY FS_EmptySet
    <3>2. s # {}
      <4>1. Cardinality(s) # 0
        OBVIOUS
      <4>2. QED
        BY <3>1, <4>1, Zenon
    <3>3. QED
      BY <3>2, FS_Subset
  <2>2. PICK x \in s : s \ {x} \in W => s \in W
    BY <2>1
  <2>3. Cardinality(s \ {x}) = k
    <3>1. Cardinality(s \ {x}) = IF x \in s THEN Cardinality(s) - 1 ELSE Cardinality(s)
      BY <2>1, FS_RemoveElement, Zenon
    <3>2. QED
      BY <3>1
  <2>4. s \ {x} \in W
    BY <1>2, <2>3
  <2>5. QED
    BY <2>2, <2>4
<1>3. Nat \subseteq T
  <2> HIDE DEF T
  <2> QED BY <1>1, <1>2, NatSetInduction
<1>4. ASSUME NEW s \in SUBSET S PROVE s \in W
  <2>1. Cardinality(s) \in Nat
    BY FS_Subset, FS_CardinalityType
  <2>2. QED
    BY <1>3, <2>1
<1>5. QED
  BY <1>4

Picks(pick, S) == \A s \in SUBSET S : s # {} => pick[s] \in s
\* f recurs over the subsets of S with the step g.
Recurs(f, g, base, pick, S) ==
  f = [s \in SUBSET S |-> IF s = {} THEN base ELSE g[<<s, f[s \ {pick[s]}]>>]]

\* Such a recursion has a function that computes it: the folds choose it.
LEMMA SubsetRuns ==
  \A S, V, base, pick, g :
    IsFiniteSet(S) /\ Picks(pick, S) /\ base \in V /\ g \in [(SUBSET S) \X V -> V]
      => \E f \in [SUBSET S -> V] : Recurs(f, g, base, pick, S)
<1> SUFFICES ASSUME NEW S, NEW V, NEW base \in V, NEW pick, NEW g \in [(SUBSET S) \X V -> V],
                    IsFiniteSet(S), Picks(pick, S)
             PROVE  \E f \in [SUBSET S -> V] : Recurs(f, g, base, pick, S)
  OBVIOUS
<1> DEFINE D(k) == {s \in SUBSET S : Cardinality(s) <= k}
           Next1(s) == s \ {pick[s]}
           Good(f, k) == \A s \in D(k) : f[s] = IF s = {} THEN base ELSE g[<<s, f[Next1(s)]>>]
           T == {k \in Nat : \E f \in [D(k) -> V] : Good(f, k)}
<1>0. \A s \in SUBSET S : IsFiniteSet(s) /\ Cardinality(s) \in Nat /\ (Cardinality(s) = 0 <=> s = {})
  BY FS_Subset, FS_CardinalityType, FS_EmptySet
<1>1. 0 \in T
  <2> DEFINE f == [s \in D(0) |-> base]
  <2>1. \A s \in D(0) : s = {}
    BY <1>0
  <2>2. f \in [D(0) -> V] /\ Good(f, 0)
    BY <2>1
  <2>3. QED
    BY <2>2
<1>2. ASSUME NEW k \in Nat, k \in T PROVE k + 1 \in T
  <2>1. PICK f \in [D(k) -> V] : Good(f, k)
    BY <1>2
  <2>2. ASSUME NEW s \in D(k + 1), s # {} PROVE Next1(s) \in D(k) /\ Next1(s) \in SUBSET S
    <3>1. pick[s] \in s
      BY <2>2 DEF Picks
    <3>2. Cardinality(Next1(s)) = Cardinality(s) - 1
      BY <1>0, <3>1, FS_RemoveElement
    <3>3. QED
      BY <1>0, <3>2
  <2> DEFINE new(s) == IF s = {} THEN base ELSE g[<<s, f[Next1(s)]>>]
             h == [s \in D(k + 1) |-> new(s)]
  <2>3. \A s \in D(k + 1) : new(s) \in V
    <3> SUFFICES ASSUME NEW s \in D(k + 1), s # {} PROVE new(s) \in V
      OBVIOUS
    <3>1. f[Next1(s)] \in V
      BY <2>2
    <3> HIDE DEF Next1
    <3>2. QED
      BY <3>1
  <2>4. h \in [D(k + 1) -> V]
    BY <2>3
  <2>5. \A s \in D(k) : s \in D(k + 1) /\ h[s] = f[s]
    <3> HIDE DEF Next1
    <3> QED BY <1>0, <2>1
  <2>6. Good(h, k + 1)
    <3> HIDE DEF Next1, D
    <3> QED BY <2>2, <2>5
  <2>7. QED
    <3> HIDE DEF D, h, Good
    <3> QED BY <2>4, <2>6
<1>3. Nat \subseteq T
  <2> HIDE DEF T
  <2> QED BY <1>1, <1>2, NatSetInduction
<1>4. Cardinality(S) \in T
  <2> HIDE DEF T
  <2> QED BY <1>0, <1>3
<1>5. PICK f \in [D(Cardinality(S)) -> V] : Good(f, Cardinality(S))
  BY <1>4
<1>6. D(Cardinality(S)) = SUBSET S
  BY FS_Subset
<1>7. f \in [SUBSET S -> V] /\ Recurs(f, g, base, pick, S)
  <2>1. \A s \in SUBSET S : f[s] = IF s = {} THEN base ELSE g[<<s, f[s \ {pick[s]}]>>]
    BY <1>5, <1>6
  <2>2. f \in [SUBSET S -> V]
    BY <1>6
  <2>3. QED
    BY <2>1, <2>2 DEF Recurs
<1>8. QED
  BY <1>7

\* The last index a fold takes is one of those it has left.
LEMMA MaxIsMember ==
  ASSUME NEW n \in Nat, NEW s \in SUBSET (1..n), s # {}
  PROVE  Max(s) \in s /\ \A x \in s : x <= Max(s)
<1> DEFINE U == {k \in Nat : k <= n => \/ \A z \in s : z <= n - k
                                        \/ \E x \in s : \A y \in s : x >= y}
<1>1. 0 \in U
  OBVIOUS
<1>2. ASSUME NEW k \in Nat, k \in U PROVE k + 1 \in U
  <2> SUFFICES ASSUME k + 1 <= n, ~ \E x \in s : \A y \in s : x >= y
               PROVE  \A x \in s : x <= n - (k + 1)
    OBVIOUS
  <2>1. \A x \in s : x <= n - k
    BY <1>2
  <2>2. n - k \notin s
    BY <2>1
  <2>3. QED
    BY <2>1, <2>2
<1>3. n \in U
  <2> HIDE DEF U
  <2> QED BY <1>1, <1>2, NatSetInduction
<1>4. \E x \in s : \A y \in s : x >= y
  <2>0. PICK x : x \in s
    OBVIOUS
  <2>1. x \in 1..n
    BY <2>0
  <2>2. \/ \A y \in s : y <= 0
        \/ \E y \in s : \A z \in s : y >= z
    BY <1>3
  <2>3. QED
    BY <2>0, <2>1, <2>2
<1>5. PICK x \in s : \A y \in s : x >= y
  BY <1>4
<1>6. Max(s) \in s /\ \A y \in s : Max(s) >= y
  BY <1>5, Zenon DEF Max
<1>7. QED
  BY <1>6

\* What holds of the empty set and is kept by every step holds of every subset.
LEMMA SubsetTyped ==
  ASSUME NEW S, IsFiniteSet(S), NEW it, NEW V, it[{}] \in V,
         \A s \in SUBSET S : s # {} => \E x \in s : it[s \ {x}] \in V => it[s] \in V
  PROVE  \A s \in SUBSET S : it[s] \in V
<1> DEFINE W == {s \in SUBSET S : it[s] \in V}
<1>1. {} \in W
  OBVIOUS
<1>2. \A s \in SUBSET S : s # {} => \E x \in s : s \ {x} \in W => s \in W
  OBVIOUS
<1>3. SUBSET S \subseteq W
  <2> HIDE DEF W
  <2> QED BY <1>1, <1>2, SubsetInduction
<1>4. QED
  BY <1>3

-----------------------------------------------------------------------------
(* Sums                                                                    *)

Some(s) == CHOOSE x \in s : TRUE
NatValued(f, S) == \A x \in S : f[x] \in Nat
SumsUp(it, f, S) ==
  /\ it \in [SUBSET S -> Nat] /\ it[{}] = 0
  /\ \A s \in SUBSET S : s # {} => it[s] = f[Some(s)] + it[s \ {Some(s)}]

\* A sum is what its recursion computes.
LEMMA SumRecurs ==
  \A S, f : IsFiniteSet(S) /\ NatValued(f, S)
              => \E it : SumsUp(it, f, S) /\ SumFunctionOnSet(f, S) = it[S]
<1> SUFFICES ASSUME NEW S, NEW f, IsFiniteSet(S), NatValued(f, S)
             PROVE  \E it : SumsUp(it, f, S) /\ SumFunctionOnSet(f, S) = it[S]
  OBVIOUS
<1> DEFINE pick == [s \in SUBSET S |-> Some(s)]
           next(s, v) == IF s = {} THEN 0 ELSE f[Some(s)] + v
           g == [x \in (SUBSET S) \X Nat |-> next(x[1], x[2])]
           Eq(h) == h = [s \in SUBSET S |-> IF s = {} THEN 0
                           ELSE f[CHOOSE x \in s : TRUE] + h[s \ {CHOOSE x \in s : TRUE}]]
           it == CHOOSE h : Eq(h)
<1>1. \A s \in SUBSET S : s # {} => Some(s) \in s
  BY Zenon DEF Some
<1>2. Picks(pick, S)
  BY <1>1 DEF Picks
<1>3. \A s \in SUBSET S, v \in Nat : next(s, v) \in Nat
  BY <1>1 DEF NatValued
<1>4. g \in [(SUBSET S) \X Nat -> Nat] /\ \A s \in SUBSET S, v \in Nat : g[<<s, v>>] = next(s, v)
  <2> HIDE DEF next
  <2> QED BY <1>3
<1>5. PICK h \in [SUBSET S -> Nat] : Recurs(h, g, 0, pick, S)
  <2> HIDE DEF g, pick
  <2> QED BY <1>2, <1>4, SubsetRuns
<1>6. \A s \in SUBSET S : h[s] = IF s = {} THEN 0 ELSE g[<<s, h[s \ {pick[s]}]>>]
  <2> HIDE DEF g, pick
  <2> QED BY <1>5 DEF Recurs
<1>7. \A s \in SUBSET S : h[s] = IF s = {} THEN 0 ELSE f[Some(s)] + h[s \ {Some(s)}]
  <2> SUFFICES ASSUME NEW s \in SUBSET S, s # {} PROVE h[s] = f[Some(s)] + h[s \ {Some(s)}]
    BY <1>6
  <2>1. h[s] = g[<<s, h[s \ {pick[s]}]>>] /\ pick[s] = Some(s)
    <3> HIDE DEF g
    <3> QED BY <1>6
  <2>2. h[s \ {Some(s)}] \in Nat
    OBVIOUS
  <2>3. QED
    <3> HIDE DEF g, pick
    <3> QED BY <1>4, <2>1, <2>2
<1>8. Eq(h)
  BY <1>7, Zenon DEF Some
<1>9. Eq(it)
  <2> HIDE DEF Eq
  <2> QED BY <1>8, Zenon
<1> HIDE DEF it
<1>10. \A s \in SUBSET S : it[s] = IF s = {} THEN 0 ELSE f[Some(s)] + it[s \ {Some(s)}]
  BY <1>9, Zenon DEF Some
<1>11. DOMAIN it = SUBSET S /\ it = [s \in SUBSET S |-> it[s]]
  BY <1>9, Zenon
<1>12. \A s \in SUBSET S : it[s] \in Nat
  <2>1. it[{}] \in Nat
    <3>1. it[{}] = 0
      BY <1>10, Zenon
    <3>2. QED
      BY <3>1
  <2>2. ASSUME NEW s \in SUBSET S, s # {}, it[s \ {Some(s)}] \in Nat PROVE it[s] \in Nat
    <3>1. f[Some(s)] \in Nat
      BY <1>1, <2>2 DEF NatValued
    <3>2. it[s] = f[Some(s)] + it[s \ {Some(s)}]
      BY <1>10, <2>2
    <3>3. QED
      BY <2>2, <3>1, <3>2
  <2>3. \A s \in SUBSET S : s # {} => \E x \in s : it[s \ {x}] \in Nat => it[s] \in Nat
    BY <1>1, <2>2
  <2>4. QED
    BY <2>1, <2>3, SubsetTyped
<1>13. SumsUp(it, f, S)
  <2>1. it \in [SUBSET S -> Nat]
    BY <1>11, <1>12
  <2>2. QED
    BY <1>10, <2>1 DEF SumsUp
<1>14. SumFunctionOnSet(f, S) = it[S]
  BY Zenon DEF SumFunctionOnSet, FoldFunctionOnSet, MapThenFoldSet, it, Eq
<1>15. QED
  BY <1>13, <1>14

\* The recursion of a sum over a set also sums over the subsets.
LEMMA SumsAgree ==
  ASSUME NEW S, IsFiniteSet(S), NEW f, NatValued(f, S), NEW T \in SUBSET S,
         NEW it, SumsUp(it, f, S)
  PROVE  SumFunctionOnSet(f, T) = it[T]
<1>1. IsFiniteSet(T) /\ NatValued(f, T)
  BY FS_Subset DEF NatValued
<1>2. PICK jt : SumsUp(jt, f, T) /\ SumFunctionOnSet(f, T) = jt[T]
  BY <1>1, SumRecurs
<1> DEFINE W == {s \in SUBSET T : it[s] = jt[s]}
<1>3. {} \in W
  BY <1>2 DEF SumsUp
<1>4. \A s \in SUBSET T : s # {} => \E x \in s : s \ {x} \in W => s \in W
  <2> SUFFICES ASSUME NEW s \in SUBSET T, s # {}, s \ {Some(s)} \in W PROVE s \in W
    <3>1. \A s \in SUBSET T : s # {} => Some(s) \in s
      BY Zenon DEF Some
    <3>2. QED
      BY <3>1
  <2>1. it[s] = f[Some(s)] + it[s \ {Some(s)}] /\ jt[s] = f[Some(s)] + jt[s \ {Some(s)}]
    BY <1>2 DEF SumsUp
  <2>2. QED
    BY <2>1
<1>5. T \in W
  <2> HIDE DEF W
  <2> QED BY <1>1, <1>3, <1>4, SubsetInduction
<1>6. QED
  BY <1>2, <1>5

\* Sums of naturals are naturals.
LEMMA SumTyped ==
  ASSUME NEW S, IsFiniteSet(S), NEW f, NatValued(f, S)
  PROVE  SumFunctionOnSet(f, S) \in Nat
<1>1. PICK it : SumsUp(it, f, S) /\ SumFunctionOnSet(f, S) = it[S]
  BY SumRecurs
<1>2. QED
  BY <1>1 DEF SumsUp

\* Nothing sums up to 0.
LEMMA SumEmpty ==
  ASSUME NEW f
  PROVE  SumFunctionOnSet(f, {}) = 0
<1>1. IsFiniteSet({}) /\ NatValued(f, {})
  BY FS_EmptySet DEF NatValued
<1>2. PICK it : SumsUp(it, f, {}) /\ SumFunctionOnSet(f, {}) = it[{}]
  BY <1>1, SumRecurs
<1>3. QED
  BY <1>2 DEF SumsUp

\* The order of the summands does not matter.
LEMMA SumAdd ==
  ASSUME NEW S, IsFiniteSet(S), NEW f, NatValued(f, S), NEW x \in S
  PROVE  SumFunctionOnSet(f, S) = f[x] + SumFunctionOnSet(f, S \ {x})
<1>1. PICK it : SumsUp(it, f, S) /\ SumFunctionOnSet(f, S) = it[S]
  BY SumRecurs
<1>2. SumFunctionOnSet(f, S \ {x}) = it[S \ {x}]
  BY <1>1, SumsAgree
<1> DEFINE P(s) == \A y \in s : it[s] = f[y] + it[s \ {y}]
           W == {s \in SUBSET S : P(s)}
<1>3. {} \in W
  OBVIOUS
<1>4. \A s \in SUBSET S : s # {} => \E y \in s : s \ {y} \in W => s \in W
  <2> SUFFICES ASSUME NEW s \in SUBSET S, s # {}, \A y \in s : P(s \ {y}) PROVE P(s)
    OBVIOUS
  <2> DEFINE z == Some(s)
  <2>1. z \in s
    BY Zenon DEF Some
  <2>2. it[s] = f[z] + it[s \ {z}]
    BY <1>1 DEF SumsUp
  <2> SUFFICES ASSUME NEW y \in s, y # z PROVE it[s] = f[y] + it[s \ {y}]
    BY <2>2
  <2> HIDE DEF z
  <2>3. (s \ {y}) \ {z} = (s \ {z}) \ {y}
    OBVIOUS
  <2>4. it[s \ {z}] = f[y] + it[(s \ {z}) \ {y}]
    BY <2>1
  <2>5. it[s \ {y}] = f[z] + it[(s \ {y}) \ {z}]
    BY <2>1
  <2>6. f[y] \in Nat /\ f[z] \in Nat /\ it[(s \ {y}) \ {z}] \in Nat
    BY <1>1, <2>1 DEF SumsUp, NatValued
  <2>7. \A a, b, k \in Nat : a + (b + k) = b + (a + k)
    OBVIOUS
  <2>8. f[z] + (f[y] + it[(s \ {y}) \ {z}]) = f[y] + (f[z] + it[(s \ {y}) \ {z}])
    BY <2>6, <2>7, Zenon
  <2>9. QED
    BY <2>2, <2>3, <2>4, <2>5, <2>8, Zenon
<1>5. P(S)
  <2> HIDE DEF P
  <2>1. SUBSET S \subseteq W
    <3> HIDE DEF W
    <3> QED BY <1>3, <1>4, SubsetInduction
  <2>2. QED
    BY <2>1
<1>6. QED
  BY <1>1, <1>2, <1>5

\* Equal summands have equal sums.
LEMMA SumSame ==
  ASSUME NEW S, IsFiniteSet(S), NEW f, NEW g, NatValued(f, S), \A x \in S : f[x] = g[x]
  PROVE  SumFunctionOnSet(f, S) = SumFunctionOnSet(g, S)
<1>1. NatValued(g, S)
  BY DEF NatValued
<1>2. PICK it : SumsUp(it, f, S) /\ SumFunctionOnSet(f, S) = it[S]
  BY SumRecurs
<1>3. SumsUp(it, g, S)
  <2>1. \A s \in SUBSET S : s # {} => Some(s) \in S
    <3>1. \A s \in SUBSET S : s # {} => Some(s) \in s
      BY Zenon DEF Some
    <3>2. QED
      BY <3>1
  <2>2. \A s \in SUBSET S : s # {} => f[Some(s)] = g[Some(s)]
    BY <2>1
  <2>3. QED
    BY <1>2, <2>2 DEF SumsUp
<1>4. SumFunctionOnSet(g, S) = it[S]
  BY <1>1, <1>3, SumsAgree
<1>5. QED
  BY <1>2, <1>4

-----------------------------------------------------------------------------
(* Folds of sequences                                                      *)

\* h folds n elements with the step g, the last one last.
FoldsUp(h, g, base, n) ==
  h = [s \in SUBSET (1..n) |-> IF s = {} THEN base ELSE g[<<h[s \ {Max(s)}], Max(s)>>]]

\* A fold of a list of n elements has a function that computes it.
LEMMA FoldRuns ==
  \A n, V, base, g :
    n \in Nat /\ base \in V /\ g \in [V \X (1..n) -> V]
      => \E h \in [SUBSET (1..n) -> V] : FoldsUp(h, g, base, n)
<1> SUFFICES ASSUME NEW n \in Nat, NEW V, NEW base \in V, NEW g \in [V \X (1..n) -> V]
             PROVE  \E h \in [SUBSET (1..n) -> V] : FoldsUp(h, g, base, n)
  OBVIOUS
<1> DEFINE S == 1..n
           pick == [s \in SUBSET S |-> Max(s)]
           k == [x \in (SUBSET S) \X V |-> IF x[1] = {} THEN base ELSE g[<<x[2], Max(x[1])>>]]
<1>1. \A s \in SUBSET S : s # {} => Max(s) \in s
  BY MaxIsMember
<1>2. Picks(pick, S) /\ IsFiniteSet(S)
  BY <1>1, FS_Interval DEF Picks
<1>3. k \in [(SUBSET S) \X V -> V]
  <2>1. \A s \in SUBSET S, v \in V : s # {} => g[<<v, Max(s)>>] \in V
    BY <1>1
  <2>2. QED
    BY <2>1
<1>4. PICK h \in [SUBSET S -> V] : Recurs(h, k, base, pick, S)
  <2> HIDE DEF pick, k, S
  <2> QED BY <1>2, <1>3, SubsetRuns
<1>5. \A s \in SUBSET S : h[s] = IF s = {} THEN base ELSE g[<<h[s \ {Max(s)}], Max(s)>>]
  <2> SUFFICES ASSUME NEW s \in SUBSET S
               PROVE  h[s] = IF s = {} THEN base ELSE g[<<h[s \ {Max(s)}], Max(s)>>]
    OBVIOUS
  <2>1. h[s] = IF s = {} THEN base ELSE k[<<s, h[s \ {pick[s]}]>>]
    <3> HIDE DEF pick, k
    <3> QED BY <1>4 DEF Recurs
  <2>2. pick[s] = Max(s)
    OBVIOUS
  <2>3. h[s \ {pick[s]}] \in V
    <3> HIDE DEF pick
    <3> QED OBVIOUS
  <2>4. s # {} => k[<<s, h[s \ {pick[s]}]>>] = g[<<h[s \ {pick[s]}], Max(s)>>]
    <3> HIDE DEF pick
    <3> QED BY <2>3
  <2>5. QED
    <3> HIDE DEF pick, k
    <3> QED BY <2>1, <2>2, <2>4
<1>6. FoldsUp(h, g, base, n)
  BY <1>5 DEF FoldsUp
<1>7. QED
  BY <1>6

\* What holds of the start of a fold and is kept by its step holds of its end.
LEMMA FoldTyped ==
  ASSUME NEW n \in Nat, NEW h, NEW V, h[{}] \in V,
         \A s \in SUBSET (1..n) : s # {} => (h[s \ {Max(s)}] \in V => h[s] \in V)
  PROVE  h[1..n] \in V
<1>1. \A s \in SUBSET (1..n) : s # {} => \E x \in s : h[s \ {x}] \in V => h[s] \in V
  BY MaxIsMember
<1>2. IsFiniteSet(1..n)
  BY FS_Interval
<1>3. \A s \in SUBSET (1..n) : h[s] \in V
  <2> DEFINE S == 1..n
  <2> HIDE DEF S
  <2> QED BY <1>1, <1>2, SubsetTyped DEF S
<1>4. QED
  BY <1>3

\* The plans of one source that were not planned before, each once.
Unique(R, seen) == {u \in Seq(R) : IsInjective(u) /\ \A i \in 1..Len(u) : u[i] \notin seen}

\* The automation scan plans a request once (automate.go).
LEMMA UniquePlansTyped ==
  ASSUME NEW R, NEW p \in Seq(R), NEW seen
  PROVE  UniquePlans(p, seen) \in Unique(R, seen)
<1> DEFINE n == Len(p)
           V == Unique(R, seen)
           step(u, x) == IF x \in seen \cup Range(u) THEN u ELSE Append(u, x)
           g == [x \in V \X (1..n) |-> step(x[1], p[x[2]])]
           Eq(h) == h = [s \in SUBSET DOMAIN p |-> IF s = {} THEN <<>>
                           ELSE step(h[s \ {Max(s)}], p[Max(s)])]
           it == CHOOSE h : Eq(h)
<1>1. n \in Nat /\ DOMAIN p = 1..n /\ \A i \in 1..n : p[i] \in R
  OBVIOUS
<1>2. PICK empty : empty = <<>>
  OBVIOUS
<1>3. empty \in V
  BY <1>2 DEF Unique, IsInjective
<1>4. ASSUME NEW u \in V, NEW x \in R PROVE step(u, x) \in V
  <2> SUFFICES ASSUME x \notin seen, x \notin Range(u) PROVE Append(u, x) \in V
    BY <1>4
  <2>1. u \in Seq(R) /\ IsInjective(u) /\ \A i \in 1..Len(u) : u[i] \notin seen
    BY DEF Unique
  <2>2. \A i \in 1..Len(u) : u[i] # x
    BY <2>1 DEF Range
  <2>3. Append(u, x) \in Seq(R) /\ Len(Append(u, x)) = Len(u) + 1 /\ Len(u) \in Nat
        /\ DOMAIN Append(u, x) = 1..(Len(u) + 1) /\ DOMAIN u = 1..Len(u)
    BY <2>1
  <2>4. \A i \in 1..(Len(u) + 1) : Append(u, x)[i] = IF i <= Len(u) THEN u[i] ELSE x
    BY <2>1
  <2>5. IsInjective(Append(u, x))
    BY <2>1, <2>2, <2>3, <2>4 DEF IsInjective
  <2>6. \A i \in 1..Len(Append(u, x)) : Append(u, x)[i] \notin seen
    BY <2>1, <2>3, <2>4
  <2>7. QED
    BY <2>3, <2>5, <2>6 DEF Unique
<1>5. g \in [V \X (1..n) -> V] /\ \A u \in V, i \in 1..n : g[<<u, i>>] = step(u, p[i])
  <2> HIDE DEF step, V
  <2> QED BY <1>1, <1>4
<1>6. PICK h \in [SUBSET (1..n) -> V] : FoldsUp(h, g, empty, n)
  <2> HIDE DEF g, V, n
  <2> QED BY <1>1, <1>3, <1>5, FoldRuns
<1>7. \A s \in SUBSET (1..n) : s # {} => Max(s) \in 1..n
  BY <1>1, MaxIsMember
<1>8. \A s \in SUBSET (1..n) : h[s] = IF s = {} THEN empty ELSE step(h[s \ {Max(s)}], p[Max(s)])
  <2> SUFFICES ASSUME NEW s \in SUBSET (1..n), s # {} PROVE h[s] = step(h[s \ {Max(s)}], p[Max(s)])
    <3> HIDE DEF step, g, n
    <3> QED BY <1>6 DEF FoldsUp
  <2> HIDE DEF step, g, V, n
  <2>1. h[s] = g[<<h[s \ {Max(s)}], Max(s)>>]
    BY <1>6 DEF FoldsUp
  <2>2. h[s \ {Max(s)}] \in V
    BY <1>6
  <2>3. QED
    BY <1>5, <1>7, <2>1, <2>2
<1>9. Eq(h)
  <2> HIDE DEF step, n
  <2>1. h = [s \in SUBSET (1..n) |-> h[s]]
    BY <1>6, Zenon
  <2>2. QED
    BY <1>1, <1>2, <1>8, <2>1, Zenon
<1>10. Eq(it)
  <2> HIDE DEF Eq
  <2> QED BY <1>9, Zenon
<1> HIDE DEF it
<1>11. \A s \in SUBSET (1..n) : it[s] = IF s = {} THEN empty ELSE step(it[s \ {Max(s)}], p[Max(s)])
  <2> HIDE DEF step, n
  <2> QED BY <1>1, <1>2, <1>10, Zenon
<1>12. it[1..n] \in V
  <2> HIDE DEF step, V, n
  <2>1. it[{}] \in V
    <3>1. it[{}] = empty
      BY <1>11, Zenon
    <3>2. QED
      BY <1>3, <3>1
  <2>2. \A s \in SUBSET (1..n) : s # {} => (it[s \ {Max(s)}] \in V => it[s] \in V)
    <3> SUFFICES ASSUME NEW s \in SUBSET (1..n), s # {}, it[s \ {Max(s)}] \in V PROVE it[s] \in V
      OBVIOUS
    <3>1. it[s] = step(it[s \ {Max(s)}], p[Max(s)])
      BY <1>11
    <3>2. p[Max(s)] \in R
      BY <1>1, <1>7
    <3>3. QED
      BY <1>4, <3>1, <3>2
  <2>3. QED
    BY <1>1, <2>1, <2>2, FoldTyped
<1>13. UniquePlans(p, seen) = it[DOMAIN p]
  BY Zenon DEF UniquePlans, FoldLeft, MapThenFoldSet, it
<1>14. QED
  BY <1>1, <1>12, <1>13

\* An import selects among the operations of its source.
LEMMA SelectOperationsTyped ==
  ASSUME NEW R, NEW p \in Seq(R), NEW input
  PROVE  SelectOperations(p, input) \in Seq(R)
<1> DEFINE n == Len(p)
           V == Seq(R)
           step(u, x) == IF \/ input.operations = {}
                            \/ {x.id, x.operationId} \cap input.operations # {}
                         THEN Append(u, x) ELSE u
           g == [x \in V \X (1..n) |-> step(x[1], p[x[2]])]
           Eq(h) == h = [s \in SUBSET DOMAIN p |-> IF s = {} THEN <<>>
                           ELSE step(h[s \ {Max(s)}], p[Max(s)])]
           it == CHOOSE h : Eq(h)
<1>1. n \in Nat /\ DOMAIN p = 1..n /\ \A i \in 1..n : p[i] \in R
  OBVIOUS
<1>2. PICK empty : empty = <<>>
  OBVIOUS
<1>3. empty \in V
  BY <1>2
<1>4. ASSUME NEW u \in V, NEW x \in R PROVE step(u, x) \in V
  BY <1>4
<1>5. g \in [V \X (1..n) -> V] /\ \A u \in V, i \in 1..n : g[<<u, i>>] = step(u, p[i])
  <2> HIDE DEF step, V
  <2> QED BY <1>1, <1>4
<1>6. PICK h \in [SUBSET (1..n) -> V] : FoldsUp(h, g, empty, n)
  <2> HIDE DEF g, V, n
  <2> QED BY <1>1, <1>3, <1>5, FoldRuns
<1>7. \A s \in SUBSET (1..n) : s # {} => Max(s) \in 1..n
  BY <1>1, MaxIsMember
<1>8. \A s \in SUBSET (1..n) : h[s] = IF s = {} THEN empty ELSE step(h[s \ {Max(s)}], p[Max(s)])
  <2> SUFFICES ASSUME NEW s \in SUBSET (1..n), s # {} PROVE h[s] = step(h[s \ {Max(s)}], p[Max(s)])
    <3> HIDE DEF step, g, n
    <3> QED BY <1>6 DEF FoldsUp
  <2> HIDE DEF step, g, V, n
  <2>1. h[s] = g[<<h[s \ {Max(s)}], Max(s)>>]
    BY <1>6 DEF FoldsUp
  <2>2. h[s \ {Max(s)}] \in V
    BY <1>6
  <2>3. QED
    BY <1>5, <1>7, <2>1, <2>2
<1>9. Eq(h)
  <2> HIDE DEF step, n
  <2>1. h = [s \in SUBSET (1..n) |-> h[s]]
    BY <1>6, Zenon
  <2>2. QED
    BY <1>1, <1>2, <1>8, <2>1, Zenon
<1>10. Eq(it)
  <2> HIDE DEF Eq
  <2> QED BY <1>9, Zenon
<1> HIDE DEF it
<1>11. \A s \in SUBSET (1..n) : it[s] = IF s = {} THEN empty ELSE step(it[s \ {Max(s)}], p[Max(s)])
  <2> HIDE DEF step, n
  <2> QED BY <1>1, <1>2, <1>10, Zenon
<1>12. it[1..n] \in V
  <2> HIDE DEF step, V, n
  <2>1. it[{}] \in V
    <3>1. it[{}] = empty
      BY <1>11, Zenon
    <3>2. QED
      BY <1>3, <3>1
  <2>2. \A s \in SUBSET (1..n) : s # {} => (it[s \ {Max(s)}] \in V => it[s] \in V)
    <3> SUFFICES ASSUME NEW s \in SUBSET (1..n), s # {}, it[s \ {Max(s)}] \in V PROVE it[s] \in V
      OBVIOUS
    <3>1. it[s] = step(it[s \ {Max(s)}], p[Max(s)])
      BY <1>11
    <3>2. p[Max(s)] \in R
      BY <1>1, <1>7
    <3>3. QED
      BY <1>4, <3>1, <3>2
  <2>3. QED
    BY <1>1, <2>1, <2>2, FoldTyped
<1>13. SelectOperations(p, input) = it[DOMAIN p]
  BY Zenon DEF SelectOperations, FoldLeft, MapThenFoldSet, it
<1>14. QED
  BY <1>1, <1>12, <1>13

\* appendUniqueOperations lists operations of its arguments.
LEMMA AppendUniqueTyped ==
  ASSUME NEW R, NEW base \in Seq(R), NEW p \in Seq(R)
  PROVE  AppendUnique(base, p) \in Seq(R)
<1> DEFINE n == Len(p)
           V == Seq(R)
           step(u, x) == IF \E kept \in Range(u) : SemanticKey(kept) = SemanticKey(x)
                         THEN u ELSE Append(u, x)
           g == [x \in V \X (1..n) |-> step(x[1], p[x[2]])]
           Eq(h) == h = [s \in SUBSET DOMAIN p |-> IF s = {} THEN base
                           ELSE step(h[s \ {Max(s)}], p[Max(s)])]
           it == CHOOSE h : Eq(h)
<1>1. n \in Nat /\ DOMAIN p = 1..n /\ \A i \in 1..n : p[i] \in R
  OBVIOUS
<1>3. base \in V
  OBVIOUS
<1>4. ASSUME NEW u \in V, NEW x \in R PROVE step(u, x) \in V
  <2>1. Append(u, x) \in Seq(R)
    BY <1>4
  <2>2. step(u, x) = u \/ step(u, x) = Append(u, x)
    BY Zenon
  <2>3. QED
    BY <2>1, <2>2, Zenon
<1>5. g \in [V \X (1..n) -> V] /\ \A u \in V, i \in 1..n : g[<<u, i>>] = step(u, p[i])
  <2> HIDE DEF step, V
  <2> QED BY <1>1, <1>4
<1>6. PICK h \in [SUBSET (1..n) -> V] : FoldsUp(h, g, base, n)
  <2> HIDE DEF g, V, n
  <2> QED BY <1>1, <1>3, <1>5, FoldRuns
<1>7. \A s \in SUBSET (1..n) : s # {} => Max(s) \in 1..n
  BY <1>1, MaxIsMember
<1>8. \A s \in SUBSET (1..n) : h[s] = IF s = {} THEN base ELSE step(h[s \ {Max(s)}], p[Max(s)])
  <2> SUFFICES ASSUME NEW s \in SUBSET (1..n), s # {} PROVE h[s] = step(h[s \ {Max(s)}], p[Max(s)])
    <3> HIDE DEF step, g, n
    <3> QED BY <1>6 DEF FoldsUp
  <2> HIDE DEF step, g, V, n
  <2>1. h[s] = g[<<h[s \ {Max(s)}], Max(s)>>]
    BY <1>6 DEF FoldsUp
  <2>2. h[s \ {Max(s)}] \in V
    BY <1>6
  <2>3. QED
    BY <1>5, <1>7, <2>1, <2>2
<1>9. Eq(h)
  <2> HIDE DEF step, n
  <2>1. h = [s \in SUBSET (1..n) |-> h[s]]
    BY <1>6, Zenon
  <2>2. QED
    BY <1>1, <1>8, <2>1, Zenon
<1>10. Eq(it)
  <2> HIDE DEF Eq
  <2> QED BY <1>9, Zenon
<1> HIDE DEF it
<1>11. \A s \in SUBSET (1..n) : it[s] = IF s = {} THEN base ELSE step(it[s \ {Max(s)}], p[Max(s)])
  <2> HIDE DEF step, n
  <2> QED BY <1>1, <1>10, Zenon
<1>12. it[1..n] \in V
  <2> HIDE DEF step, V, n
  <2>1. it[{}] \in V
    <3>1. it[{}] = base
      BY <1>11, Zenon
    <3>2. QED
      BY <1>3, <3>1
  <2>2. \A s \in SUBSET (1..n) : s # {} => (it[s \ {Max(s)}] \in V => it[s] \in V)
    <3> SUFFICES ASSUME NEW s \in SUBSET (1..n), s # {}, it[s \ {Max(s)}] \in V PROVE it[s] \in V
      OBVIOUS
    <3>1. it[s] = step(it[s \ {Max(s)}], p[Max(s)])
      BY <1>11
    <3>2. p[Max(s)] \in R
      BY <1>1, <1>7
    <3>3. QED
      BY <1>4, <3>1, <3>2
  <2>3. QED
    BY <1>1, <2>1, <2>2, FoldTyped
<1>13. AppendUnique(base, p) = it[DOMAIN p]
  BY Zenon DEF AppendUnique, FoldLeft, MapThenFoldSet, it
<1>14. QED
  BY <1>1, <1>12, <1>13

\* What all inputs of a manifest import is of the kind each of them imports.
LEMMA ImportOperationsTyped ==
  ASSUME NEW R, NEW p \in Seq(R), NEW m, m.inputs = p, NEW contents, NEW stored, NEW U,
         \A input \in R : ImportedFrom(input, contents, stored) \in Seq(U)
  PROVE  ImportOperations(m, contents, stored) \in Seq(U)
<1> DEFINE n == Len(p)
           V == Seq(U)
           step(u, x) == AppendUnique(u, ImportedFrom(x, contents, stored))
           g == [x \in V \X (1..n) |-> step(x[1], p[x[2]])]
           Eq(h) == h = [s \in SUBSET DOMAIN p |-> IF s = {} THEN <<>>
                           ELSE step(h[s \ {Max(s)}], p[Max(s)])]
           it == CHOOSE h : Eq(h)
<1>1. n \in Nat /\ DOMAIN p = 1..n /\ \A i \in 1..n : p[i] \in R
  OBVIOUS
<1>2. PICK empty : empty = <<>>
  OBVIOUS
<1>3. empty \in V
  BY <1>2
<1>4. ASSUME NEW u \in V, NEW x \in R PROVE step(u, x) \in V
  BY <1>4, AppendUniqueTyped
<1>5. g \in [V \X (1..n) -> V] /\ \A u \in V, i \in 1..n : g[<<u, i>>] = step(u, p[i])
  <2> HIDE DEF step, V
  <2> QED BY <1>1, <1>4
<1>6. PICK h \in [SUBSET (1..n) -> V] : FoldsUp(h, g, empty, n)
  <2> HIDE DEF g, V, n
  <2> QED BY <1>1, <1>3, <1>5, FoldRuns
<1>7. \A s \in SUBSET (1..n) : s # {} => Max(s) \in 1..n
  BY <1>1, MaxIsMember
<1>8. \A s \in SUBSET (1..n) : h[s] = IF s = {} THEN empty ELSE step(h[s \ {Max(s)}], p[Max(s)])
  <2> SUFFICES ASSUME NEW s \in SUBSET (1..n), s # {} PROVE h[s] = step(h[s \ {Max(s)}], p[Max(s)])
    <3> HIDE DEF step, g, n
    <3> QED BY <1>6 DEF FoldsUp
  <2> HIDE DEF step, g, V, n
  <2>1. h[s] = g[<<h[s \ {Max(s)}], Max(s)>>]
    BY <1>6 DEF FoldsUp
  <2>2. h[s \ {Max(s)}] \in V
    BY <1>6
  <2>3. QED
    BY <1>5, <1>7, <2>1, <2>2
<1>9. Eq(h)
  <2> HIDE DEF step, n
  <2>1. h = [s \in SUBSET (1..n) |-> h[s]]
    BY <1>6, Zenon
  <2>2. QED
    BY <1>1, <1>2, <1>8, <2>1, Zenon
<1>10. Eq(it)
  <2> HIDE DEF Eq
  <2> QED BY <1>9, Zenon
<1> HIDE DEF it
<1>11. \A s \in SUBSET (1..n) : it[s] = IF s = {} THEN empty ELSE step(it[s \ {Max(s)}], p[Max(s)])
  <2> HIDE DEF step, n
  <2> QED BY <1>1, <1>2, <1>10, Zenon
<1>12. it[1..n] \in V
  <2> HIDE DEF step, V, n
  <2>1. it[{}] \in V
    <3>1. it[{}] = empty
      BY <1>11, Zenon
    <3>2. QED
      BY <1>3, <3>1
  <2>2. \A s \in SUBSET (1..n) : s # {} => (it[s \ {Max(s)}] \in V => it[s] \in V)
    <3> SUFFICES ASSUME NEW s \in SUBSET (1..n), s # {}, it[s \ {Max(s)}] \in V PROVE it[s] \in V
      OBVIOUS
    <3>1. it[s] = step(it[s \ {Max(s)}], p[Max(s)])
      BY <1>11
    <3>2. p[Max(s)] \in R
      BY <1>1, <1>7
    <3>3. QED
      BY <1>4, <3>1, <3>2
  <2>3. QED
    BY <1>1, <2>1, <2>2, FoldTyped
<1>13. ImportOperations(m, contents, stored) = it[DOMAIN p]
  BY Zenon DEF ImportOperations, FoldLeft, MapThenFoldSet, it
<1>14. QED
  BY <1>1, <1>12, <1>13

-----------------------------------------------------------------------------
(* Imported operations are finite lists                                    *)

\* A list has finitely many elements, in order.
LEMMA ListFacts ==
  ASSUME NEW s, IsList(s)
  PROVE  /\ Len(s) \in Nat /\ DOMAIN s = 1..Len(s)
         /\ \A i \in 1..Len(s) : s[i] \in Range(s)
         /\ IsFiniteSet(Range(s))
<1>1. s \in Seq(Range(s))
  BY DEF IsList
<1>2. PICK R : R = Range(s)
  OBVIOUS
<1>3. Len(s) \in Nat /\ DOMAIN s = 1..Len(s) /\ s \in [1..Len(s) -> R]
  BY <1>1, <1>2
<1>4. \A y \in R : \E i \in 1..Len(s) : s[i] = y
  BY <1>2, <1>3 DEF Range
<1>5. s \in Surjection(1..Len(s), R)
  BY <1>3, <1>4 DEF Surjection
<1>6. IsFiniteSet(1..Len(s))
  BY <1>3, FS_Interval
<1>7. IsFiniteSet(R)
  BY <1>5, <1>6, FS_Surjection
<1>8. QED
  BY <1>2, <1>3, <1>7

\* A function over 1..n is a list.
LEMMA ListByDomain ==
  ASSUME NEW n \in Nat, NEW f, f = [i \in 1..n |-> f[i]]
  PROVE  IsList(f)
<1>1. \A i \in 1..n : f[i] \in Range(f)
  BY Zenon DEF Range
<1>2. PICK R : R = Range(f)
  OBVIOUS
<1>3. f \in [1..n -> R]
  BY <1>1, <1>2
<1>4. f \in Seq(R)
  BY <1>3
<1>5. QED
  BY <1>2, <1>4 DEF IsList

\* A sequence is a list.
LEMMA ListFromSeq ==
  ASSUME NEW U, NEW s \in Seq(U)
  PROVE  IsList(s)
<1>1. Len(s) \in Nat /\ s = [i \in 1..Len(s) |-> s[i]]
  OBVIOUS
<1>2. QED
  BY <1>1, ListByDomain

\* Lists put together have the elements of those lists.
LEMMA FlattenSeqTyped ==
  ASSUME NEW R, NEW q \in Seq(Seq(R))
  PROVE  FlattenSeq(q) \in Seq(R)
<1> DEFINE n == Len(q)
           S == Seq(R)
           join(x, i) == x \o q[i]
           g == [x \in S \X (1..n) |-> join(x[1], x[2])]
           Eq(h) == h = [i \in 1..n |-> IF i = 1 THEN q[i] ELSE h[i - 1] \o q[i]]
           it == CHOOSE h : Eq(h)
<1>1. n \in Nat /\ \A i \in 1..n : q[i] \in Seq(R)
  OBVIOUS
<1>2. CASE n = 0
  <2>1. FlattenSeq(q) = q
    BY <1>2, Zenon DEF FlattenSeq
  <2>2. q \in Seq(R)
    BY <1>2
  <2>3. QED
    BY <2>1, <2>2
<1>3. CASE n # 0
  <2>1. Body(g, S, n) /\ \A x \in S, i \in 1..n : g[<<x, i>>] = x \o q[i]
    <3>1. \A x \in S, i \in 1..n : join(x, i) \in S
      BY <1>1
    <3>2. g \in [S \X (1..n) -> S] /\ \A x \in S, i \in 1..n : g[<<x, i>>] = join(x, i)
      <4> HIDE DEF join, S, n
      <4> QED BY <3>1
    <3>3. QED
      <4> HIDE DEF g
      <4> QED BY <3>2 DEF Body
  <2>2. PICK empty : empty = <<>>
    OBVIOUS
  <2>3. empty \in S /\ \A x \in S : empty \o x = x
    BY <2>2
  <2>4. PICK k : Rounds(k, g, empty, S, n)
    <3> HIDE DEF g, S, n
    <3> QED BY <1>1, <2>1, <2>3, LoopRuns
  <2> DEFINE h == [i \in 1..n |-> k[i]]
  <2>5. \A i \in 1..n : k[i - 1] \in S /\ k[i] = k[i - 1] \o q[i]
    <3> HIDE DEF g, S, n
    <3>1. \A i \in 1..n : i - 1 \in 0..n
      BY <1>1
    <3>2. QED
      BY <2>1, <2>4, <3>1 DEF Rounds
  <2>6. \A i \in 1..n : h[i] = IF i = 1 THEN q[i] ELSE h[i - 1] \o q[i]
    <3> SUFFICES ASSUME NEW i \in 1..n PROVE k[i] = IF i = 1 THEN q[i] ELSE h[i - 1] \o q[i]
      OBVIOUS
    <3>1. CASE i = 1
      <4>1. k[i] = empty \o q[i]
        <5>1. k[0] = empty
          BY <2>4, Zenon DEF Rounds
        <5>2. k[i] = k[i - 1] \o q[i]
          BY <2>5, Zenon
        <5>3. i - 1 = 0
          BY <3>1
        <5>4. QED
          BY <5>1, <5>2, <5>3, Zenon
      <4>2. QED
        BY <1>1, <2>3, <3>1, <4>1
    <3>2. CASE i # 1
      <4>1. i - 1 \in 1..n
        BY <1>1, <3>2
      <4>2. QED
        BY <2>5, <3>2, <4>1
    <3>3. QED
      BY <3>1, <3>2
  <2>7. Eq(h)
    <3> HIDE DEF n
    <3> QED BY <2>6, Zenon
  <2>8. Eq(it)
    <3> HIDE DEF Eq
    <3> QED BY <2>7, Zenon
  <2> HIDE DEF it
  <2>9. \A i \in 1..n : it[i] = IF i = 1 THEN q[i] ELSE it[i - 1] \o q[i]
    <3> HIDE DEF n
    <3> QED BY <2>8, Zenon
  <2> DEFINE f == [i \in 0..n |-> IF i = 0 THEN empty ELSE it[i]]
  <2>10. f[0] \in S
    BY <1>1, <2>3
  <2>11. \A i \in 1..n : f[i - 1] \in S => f[i] \in S
    <3> SUFFICES ASSUME NEW i \in 1..n, f[i - 1] \in S PROVE it[i] \in S
      OBVIOUS
    <3>1. CASE i = 1
      BY <1>1, <2>9, <3>1
    <3>2. CASE i # 1
      <4>1. f[i - 1] = it[i - 1]
        BY <1>1, <3>2
      <4>2. it[i] = it[i - 1] \o q[i]
        BY <2>9, <3>2
      <4>3. QED
        BY <1>1, <4>1, <4>2
    <3>3. QED
      BY <3>1, <3>2
  <2>12. \A i \in 0..n : f[i] \in S
    <3> HIDE DEF f, S, n
    <3> QED BY <1>1, <2>10, <2>11, LoopTyped
  <2>13. it[n] \in S
    BY <1>1, <1>3, <2>12
  <2>14. FlattenSeq(q) = it[n]
    BY <1>3, Zenon DEF FlattenSeq, it
  <2>15. QED
    BY <2>13, <2>14
<1>4. QED
  BY <1>2, <1>3

\* Lists put together are a list.
LEMMA FlattenedList ==
  ASSUME NEW q, IsList(q), \A i \in DOMAIN q : IsList(q[i])
  PROVE  IsList(FlattenSeq(q))
<1> DEFINE n == Len(q)
           R == UNION {Range(q[i]) : i \in 1..n}
<1>1. n \in Nat /\ DOMAIN q = 1..n /\ q = [i \in 1..n |-> q[i]]
  BY ListFacts DEF IsList
<1>2. ASSUME NEW i \in 1..n PROVE q[i] \in Seq(R)
  <2>1. IsList(q[i])
    BY <1>1
  <2>2. \A j \in 1..Len(q[i]) : q[i][j] \in Range(q[i])
    BY <2>1, ListFacts
  <2>3. \A j \in 1..Len(q[i]) : q[i][j] \in R
    BY <2>2
  <2>4. q[i] \in Seq(Range(q[i]))
    BY <2>1 DEF IsList
  <2>5. Len(q[i]) \in Nat /\ q[i] = [j \in 1..Len(q[i]) |-> q[i][j]]
    BY <2>4
  <2> HIDE DEF R
  <2>6. QED
    BY <2>3, <2>5
<1> HIDE DEF R
<1>3. q \in Seq(Seq(R))
  BY <1>1, <1>2
<1>4. FlattenSeq(q) \in Seq(R)
  BY <1>3, FlattenSeqTyped
<1>5. QED
  BY <1>4, ListFromSeq

\* The servers of an operation are a list, whichever level declares them.
LEMMA OperationServersList ==
  ASSUME NEW document, NEW item, NEW operation, IsList(document.servers),
         \A servers \in item.servers \cup operation.servers : IsList(servers)
  PROVE  IsList(OperationServers(document, item, operation))
<1>1. IsList(<<{}>>)
  <2>1. <<{}>> \in Seq({{}})
    OBVIOUS
  <2>2. QED
    BY <2>1, ListFromSeq
<1> DEFINE own == IF operation.servers # {} THEN operation.servers ELSE item.servers
<1>2. ASSUME operation.servers \cup item.servers # {} PROVE IsList(The(own))
  <2>1. own # {} /\ own \subseteq item.servers \cup operation.servers
    BY <1>2
  <2>2. The(own) \in own
    <3> HIDE DEF own
    <3> QED BY <2>1, Zenon DEF The
  <2>3. QED
    <3> HIDE DEF own
    <3> QED BY <2>1, <2>2
<1> HIDE DEF own
<1>3. IsList(IF document.version = "2" \/ operation.servers \cup item.servers = {}
             THEN document.servers ELSE The(own))
  BY <1>2
<1>4. QED
  BY <1>1, <1>3, Zenon DEF OperationServers, own

\* The operations of the paths, or of the webhooks, are a list.
LEMMA ImportSurfaceList ==
  ASSUME NEW document, NEW surface, NEW items, IsList(items), IsList(document.servers),
         \A item \in Range(items) :
           /\ IsList(item.operations)
           /\ \A servers \in item.servers \cup UNION {operation.servers :
                                                     operation \in Range(item.operations)} :
                IsList(servers)
  PROVE  IsList(ImportSurface(document, surface, items))
<1>1. ASSUME NEW item \in Range(items) PROVE IsList(ImportPath(document, surface, item))
  <2> DEFINE q == [i \in DOMAIN item.operations |->
                     ImportOperation(document, surface, item, item.operations[i])]
  <2>1. /\ Len(item.operations) \in Nat /\ DOMAIN item.operations = 1..Len(item.operations)
        /\ \A i \in 1..Len(item.operations) : item.operations[i] \in Range(item.operations)
    BY <1>1, ListFacts
  <2>2. IsList(q)
    <3>1. q = [i \in 1..Len(item.operations) |-> q[i]]
      BY <2>1
    <3> HIDE DEF q
    <3>2. QED
      BY <2>1, <3>1, ListByDomain
  <2>3. ASSUME NEW i \in DOMAIN q PROVE IsList(q[i])
    <3> DEFINE operation == item.operations[i]
               servers == OperationServers(document, item, operation)
               o == [j \in DOMAIN servers |-> Imported(document, surface, item, operation, servers[j])]
    <3>1. operation \in Range(item.operations)
      BY <2>1
    <3>2. \A s \in item.servers \cup operation.servers : IsList(s)
      BY <1>1, <3>1
    <3>3. IsList(servers)
      <4> HIDE DEF operation
      <4> QED BY <3>2, OperationServersList
    <3> HIDE DEF servers
    <3>4. Len(servers) \in Nat /\ DOMAIN servers = 1..Len(servers)
      BY <3>3, ListFacts
    <3>5. o = [j \in 1..Len(servers) |-> o[j]]
      BY <3>4
    <3>6. IsList(o)
      <4> HIDE DEF o
      <4> QED BY <3>4, <3>5, ListByDomain
    <3>7. ImportOperation(document, surface, item, operation) = o
      BY Zenon DEF ImportOperation, servers
    <3>8. QED
      BY <3>6, <3>7
  <2>4. IsList(FlattenSeq(q))
    <3> HIDE DEF q
    <3> QED BY <2>2, <2>3, FlattenedList
  <2>5. QED
    BY <2>4 DEF ImportPath
<1> DEFINE q == [i \in DOMAIN items |-> ImportPath(document, surface, items[i])]
<1>2. /\ Len(items) \in Nat /\ DOMAIN items = 1..Len(items)
      /\ \A i \in 1..Len(items) : items[i] \in Range(items)
  BY ListFacts
<1>3. IsList(q)
  <2>1. q = [i \in 1..Len(items) |-> q[i]]
    BY <1>2
  <2> HIDE DEF q
  <2>2. QED
    BY <1>2, <2>1, ListByDomain
<1>4. \A i \in DOMAIN q : IsList(q[i])
  BY <1>1, <1>2
<1>5. IsList(FlattenSeq(q))
  <2> HIDE DEF q
  <2> QED BY <1>3, <1>4, FlattenedList
<1>6. QED
  BY <1>5 DEF ImportSurface

\* The operations of a definition are a list.
LEMMA ImportOpenAPIList ==
  ASSUME NEW document, DecodedDocument(document)
  PROVE  IsList(ImportOpenAPI(document))
<1> DEFINE a == ImportSurface(document, "path", document.paths)
           b == ImportSurface(document, "webhook", document.webhooks)
<1>1. IsList(a)
  BY ImportSurfaceList DEF DecodedDocument
<1>2. IsList(b)
  BY ImportSurfaceList DEF DecodedDocument
<1> HIDE DEF a, b
<1>3. a \in Seq(Range(a) \cup Range(b)) /\ b \in Seq(Range(a) \cup Range(b))
  <2>1. a \in Seq(Range(a)) /\ b \in Seq(Range(b))
    BY <1>1, <1>2 DEF IsList
  <2>2. PICK A, B : A = Range(a) /\ B = Range(b)
    OBVIOUS
  <2>3. QED
    BY <2>1, <2>2
<1>4. a \o b \in Seq(Range(a) \cup Range(b))
  <2>1. PICK R : R = Range(a) \cup Range(b)
    OBVIOUS
  <2>2. QED
    BY <1>3, <2>1
<1>5. IsList(a \o b)
  BY <1>4, ListFromSeq
<1>6. QED
  BY <1>5 DEF ImportOpenAPI, a, b

Locals(contents) == \A f \in DOMAIN contents : IsContent(contents[f])
Runs(stored) == \A run \in DOMAIN stored : IsList(stored[run])

\* An input that imports gives a list of operations.
LEMMA ImportedFromList ==
  ASSUME NEW input, NEW contents, NEW stored, NEW database,
         input.kind \in {"openapi", "sj-results"},
         "path" \in input.sources => input.path \in DOMAIN contents,
         ~ImportFails(input, contents, database), Locals(contents), Runs(stored)
  PROVE  IsList(ImportedFrom(input, contents, stored))
<1> DEFINE imported == IF input.kind = "openapi"
                       THEN ImportOpenAPI(contents[input.path].document)
                       ELSE ImportDataset(DatasetOf(input, contents, stored))
           selected == SelectOperations(imported, input)
           result == [i \in DOMAIN selected |-> ApplyBaseURL(selected[i], input.baseURL)]
<1>1. IsList(imported)
  <2>1. CASE input.kind = "openapi"
    <3>1. /\ "path" \in input.sources /\ contents[input.path].kind = "openapi"
          /\ input.path \in DOMAIN contents
      BY <2>1 DEF ImportFails
    <3>2. DecodedDocument(contents[input.path].document)
      BY <3>1 DEF Locals, IsContent
    <3>3. QED
      BY <2>1, <3>2, ImportOpenAPIList
  <2>2. CASE input.kind = "sj-results"
    <3>1. IsList(DatasetOf(input, contents, stored))
      <4>1. CASE "path" \in input.sources
        <5>1. contents[input.path].kind = "results" /\ input.path \in DOMAIN contents
          BY <2>2, <4>1 DEF ImportFails
        <5>2. IsList(contents[input.path].dataset)
          BY <5>1 DEF Locals, IsContent
        <5>3. QED
          BY <4>1, <5>2 DEF DatasetOf
      <4>2. CASE "path" \notin input.sources
        <5>1. PICK empty : empty = <<>>
          OBVIOUS
        <5>2. empty \in Seq({})
          BY <5>1
        <5>3. IsList(empty)
          BY <5>2, ListFromSeq
        <5>4. DatasetOf(input, contents, stored)
                = IF input.run \in DOMAIN stored THEN stored[input.run] ELSE empty
          BY <4>2, <5>1, Zenon DEF DatasetOf
        <5>5. QED
          BY <5>3, <5>4 DEF Runs
      <4>3. QED
        BY <4>1, <4>2
    <3> DEFINE dataset == DatasetOf(input, contents, stored)
               d == ImportDataset(dataset)
    <3>2. Len(dataset) \in Nat /\ DOMAIN dataset = 1..Len(dataset)
      BY <3>1, ListFacts
    <3> HIDE DEF dataset
    <3>3. d = [i \in DOMAIN dataset |-> d[i]]
      BY Zenon DEF ImportDataset
    <3>4. IsList(d)
      <4> HIDE DEF d
      <4> QED BY <3>2, <3>3, ListByDomain
    <3>5. imported = d
      BY <2>2 DEF dataset
    <3>6. QED
      BY <3>4, <3>5
  <2>3. QED
    BY <2>1, <2>2
<1> HIDE DEF imported
<1>2. IsList(selected)
  <2>1. imported \in Seq(Range(imported))
    BY <1>1 DEF IsList
  <2>2. selected \in Seq(Range(imported))
    BY <2>1, SelectOperationsTyped
  <2>3. QED
    <3> HIDE DEF selected
    <3> QED BY <2>2, ListFromSeq
<1> HIDE DEF selected
<1>3. Len(selected) \in Nat /\ DOMAIN selected = 1..Len(selected)
  BY <1>2, ListFacts
<1>4. result = [i \in 1..Len(selected) |-> result[i]]
  BY <1>3
<1>5. IsList(result)
  <2> HIDE DEF result
  <2> QED BY <1>3, <1>4, ListByDomain
<1>6. ImportedFrom(input, contents, stored) = result
  BY Zenon DEF ImportedFrom, selected, imported
<1>7. QED
  BY <1>5, <1>6

\* A manifest that imports gives finitely many operations.
LEMMA ImportedOperationsFinite ==
  ASSUME NEW m, NEW contents, NEW stored, NEW database,
         Decoded(m), Parse(m, DOMAIN contents), Locals(contents), Runs(stored),
         \A input \in Range(m.inputs) : ~ImportFails(input, contents, database)
  PROVE  IsFiniteSet(Range(ImportOperations(m, contents, stored)))
<1> DEFINE p == m.inputs
           from(input) == ImportedFrom(input, contents, stored)
           R == Range(p)
           U == UNION {Range(from(input)) : input \in R}
<1>1. IsList(p) /\ p \in Seq(R)
  BY DEF Decoded, IsList
<1>2. ASSUME NEW input \in R PROVE from(input) \in Seq(U)
  <2>1. PICK i \in DOMAIN p : input = p[i]
    BY <1>2 DEF Range
  <2>2. ValidateInput(input, OriginSet(m), DOMAIN contents)
    BY <2>1 DEF Parse, ValidateInputs
  <2>3. IsList(from(input))
    BY <2>2, ImportedFromList DEF ValidateInput
  <2> HIDE DEF from
  <2>4. from(input) \in Seq(Range(from(input))) /\ Range(from(input)) \subseteq U
    BY <2>3 DEF IsList
  <2> HIDE DEF U
  <2>5. QED
    <3>1. PICK A : A = Range(from(input))
      OBVIOUS
    <3>2. QED
      BY <2>4, <3>1
<1>3. ImportOperations(m, contents, stored) \in Seq(U)
  <2> HIDE DEF U, R
  <2> QED BY <1>1, <1>2, ImportOperationsTyped
<1>4. IsList(ImportOperations(m, contents, stored))
  <2> HIDE DEF U
  <2> QED BY <1>3, ListFromSeq
<1>5. QED
  BY <1>4, ListFacts

-----------------------------------------------------------------------------
(* The proofs of a plan                                                    *)

\* A function over a finite set has finitely many values.
LEMMA ImageFinite ==
  ASSUME NEW S, IsFiniteSet(S), NEW f, DOMAIN f = S
  PROVE  IsFiniteSet(Range(f))
<1> DEFINE h == [x \in S |-> f[x]]
<1>1. h \in Surjection(S, Range(f))
  BY DEF Surjection, Range
<1>2. QED
  BY <1>1, FS_Surjection

\* An operation refers to finitely many objects.
LEMMA ExtractFinite ==
  ASSUME NEW operation, NEW objects
  PROVE  IsFiniteSet(Extract(operation, objects))
<1> DEFINE L == {"path", "query", "body"}
           f == [x \in L \X ReferenceName |-> [in |-> x[1], name |-> x[2]]]
<1>1. IsFiniteSet(L)
  <2>1. L = {"path"} \cup {"query"} \cup {"body"}
    OBVIOUS
  <2> HIDE DEF L
  <2>2. QED
    BY <2>1, FS_Singleton, FS_Union
<1>2. IsFiniteSet(ReferenceName)
  BY NamesAssumption, FS_Subset
<1>3. IsFiniteSet(L \X ReferenceName)
  <2> HIDE DEF L
  <2> QED BY <1>1, <1>2, FS_Product
<1>4. IsFiniteSet(Range(f))
  <2>1. DOMAIN f = L \X ReferenceName
    OBVIOUS
  <2> HIDE DEF f, L
  <2>2. QED
    BY <1>3, <2>1, ImageFinite
<1>5. \A l \in L, n \in ReferenceName : [in |-> l, name |-> n] \in Range(f)
  <2> SUFFICES ASSUME NEW l \in L, NEW n \in ReferenceName PROVE [in |-> l, name |-> n] \in Range(f)
    OBVIOUS
  <2>1. <<l, n>> \in L \X ReferenceName
    OBVIOUS
  <2>2. f[<<l, n>>] = [in |-> l, name |-> n]
    BY <2>1
  <2>3. QED
    <3> HIDE DEF L
    <3> QED BY <2>1, <2>2, Zenon DEF Range
<1>6. Extract(operation, objects) \subseteq Range(f)
  <2> SUFFICES ASSUME NEW x \in Extract(operation, objects) PROVE x \in Range(f)
    OBVIOUS
  <2>1. \E l \in L : \E n : x = [in |-> l, name |-> n] /\ n \in ReferenceName
    BY DEF Extract, Classify
  <2>2. QED
    <3> HIDE DEF f, L
    <3> QED BY <1>5, <2>1
<1>7. QED
  <2> HIDE DEF f
  <2> QED BY <1>4, <1>6, FS_Subset

\* A matrix has finitely many cases, at least one, all at its URL.
LEMMA CasesFinite ==
  ASSUME NEW url, NEW victim, NEW attacker
  PROVE  /\ IsFiniteSet(Cases(url, victim, attacker))
         /\ \E case \in Cases(url, victim, attacker) : TRUE
         /\ \A case \in Cases(url, victim, attacker) : case.url = url /\ case.origin = CanonicalOrigin(url)
<1> DEFINE made(kind, repeat) ==
             [kind |-> kind, repeat |-> repeat, identity |-> CaseIdentity(kind, victim, attacker),
              identifier |-> CaseIdentifier(kind, victim, attacker),
              url |-> url, origin |-> CanonicalOrigin(url)]
           f == [x \in CaseKind \X MatrixRepeats |-> made(x[1], x[2])]
<1>0. Cases(url, victim, attacker) = {made(kind, repeat) : kind \in CaseKind, repeat \in MatrixRepeats}
  BY SMT DEF Cases
<1>1. IsFiniteSet(CaseKind)
  <2>1. CaseKind = {"victim-own"} \cup {"attacker-own"} \cup {"cross"} \cup {"anonymous"} \cup {"nonexistent"}
    BY DEF CaseKind
  <2>2. QED
    BY <2>1, FS_Singleton, FS_Union
<1>2. IsFiniteSet(MatrixRepeats)
  <2>1. 1 \in Int /\ 2 \in Int
    OBVIOUS
  <2>2. QED
    BY <2>1, FS_Interval, Zenon DEF MatrixRepeats
<1>3. IsFiniteSet(Range(f))
  <2>1. DOMAIN f = CaseKind \X MatrixRepeats /\ IsFiniteSet(CaseKind \X MatrixRepeats)
    BY <1>1, <1>2, FS_Product
  <2> HIDE DEF f
  <2>2. QED
    BY <2>1, ImageFinite
<1>4. Cases(url, victim, attacker) \subseteq Range(f)
  <2> SUFFICES ASSUME NEW kind \in CaseKind, NEW repeat \in MatrixRepeats
               PROVE  made(kind, repeat) \in Range(f)
    <3> HIDE DEF made, f
    <3> QED BY <1>0
  <2>1. <<kind, repeat>> \in DOMAIN f /\ f[<<kind, repeat>>] = made(kind, repeat)
    <3> HIDE DEF made
    <3> QED OBVIOUS
  <2> HIDE DEF f, made
  <2>2. QED
    BY <2>1, Zenon DEF Range
<1>5. IsFiniteSet(Cases(url, victim, attacker))
  <2> HIDE DEF f
  <2> QED BY <1>3, <1>4, FS_Subset
<1>6. made("cross", 1) \in Cases(url, victim, attacker)
  <2>1. "cross" \in CaseKind /\ 1 \in MatrixRepeats
    BY DEF CaseKind, MatrixRepeats
  <2> HIDE DEF made
  <2>2. QED
    BY <1>0, <2>1
<1>7. \A kind, repeat : made(kind, repeat).url = url /\ made(kind, repeat).origin = CanonicalOrigin(url)
  OBVIOUS
<1>8. QED
  <2> HIDE DEF made
  <2> QED BY <1>0, <1>5, <1>6, <1>7

\* Every proof of a plan is an ownership matrix with the limits of the manifest.
OfManifest(m, proof) ==
  /\ IsMatrix(proof) /\ IsFiniteSet(proof.cases)
  /\ proof.redirects = m.transport.redirects
  /\ proof.requestBytes = m.budgets.global.requestBytes
  /\ proof.responseBytes = m.budgets.global.responseBytes

\* DiscoverProofs finds finitely many matrices, each with the manifest's limits.
LEMMA DiscoveredProofs ==
  ASSUME NEW m, NEW operations, IsFiniteSet(operations), IsList(m.objects)
  PROVE  /\ IsFiniteSet(DiscoverProofs(m, operations))
         /\ \A proof \in DiscoverProofs(m, operations) : OfManifest(m, proof)
<1> DEFINE objects == Range(m.objects)
           pairs(candidate) == Pairs(MatchingObjects(candidate.name, objects))
           matrix(operation, candidate) ==
             {BuildProof(m, operation, candidate, pair[1], pair[2]) : pair \in pairs(candidate)}
           T == {o \in operations : Testable(o)}
           E == {{operation} \X Extract(operation, objects) : operation \in T}
           M == {matrix(oc[1], oc[2]) : oc \in UNION E}
<1>1. IsFiniteSet(objects)
  BY ListFacts
<1>2. ASSUME NEW candidate PROVE IsFiniteSet(pairs(candidate))
  <2>1. MatchingObjects(candidate.name, objects) \subseteq objects
    BY DEF MatchingObjects, StableObjects
  <2> DEFINE O == MatchingObjects(candidate.name, objects)
  <2>2. IsFiniteSet(O)
    BY <1>1, <2>1, FS_Subset
  <2> HIDE DEF O
  <2>3. IsFiniteSet(O \X O) /\ Pairs(O) \subseteq O \X O
    BY <2>2, FS_Product DEF Pairs
  <2>4. QED
    BY <2>3, FS_Subset DEF O
<1>3. ASSUME NEW operation, NEW candidate
      PROVE  /\ IsFiniteSet(matrix(operation, candidate))
             /\ \A proof \in matrix(operation, candidate) : OfManifest(m, proof)
  <2> DEFINE P == pairs(candidate)
             f == [pair \in P |-> BuildProof(m, operation, candidate, pair[1], pair[2])]
  <2>1. \A pair \in P : pair[1].owner # pair[2].owner
    BY DEF Pairs
  <2>2. IsFiniteSet(P)
    BY <1>2
  <2> HIDE DEF P
  <2>3. IsFiniteSet(Range(f))
    <3>1. DOMAIN f = P
      OBVIOUS
    <3> HIDE DEF f
    <3>2. QED
      BY <2>2, <3>1, ImageFinite
  <2>4. Range(f) = matrix(operation, candidate)
    BY DEF Range, P
  <2>5. ASSUME NEW pair \in P
        PROVE  OfManifest(m, BuildProof(m, operation, candidate, pair[1], pair[2]))
    <3> DEFINE proof == BuildProof(m, operation, candidate, pair[1], pair[2])
    <3>1. /\ proof.cases = Cases(The(operation.origin), pair[1], pair[2])
          /\ proof.victim = pair[1] /\ proof.attacker = pair[2]
          /\ proof.redirects = m.transport.redirects
          /\ proof.requestBytes = m.budgets.global.requestBytes
          /\ proof.responseBytes = m.budgets.global.responseBytes
      BY DEF BuildProof
    <3> HIDE DEF proof
    <3>2. IsMatrix(proof)
      BY <2>1, <3>1, CasesFinite DEF IsMatrix
    <3>3. IsFiniteSet(proof.cases)
      BY <3>1, CasesFinite
    <3>4. QED
      BY <3>1, <3>2, <3>3 DEF OfManifest, proof
  <2>6. QED
    BY <2>3, <2>4, <2>5 DEF P
<1>4. IsFiniteSet(UNION E)
  <2> DEFINE f == [operation \in T |-> {operation} \X Extract(operation, objects)]
  <2>1. IsFiniteSet(T)
    BY FS_Subset
  <2>2. IsFiniteSet(Range(f))
    <3>1. DOMAIN f = T
      OBVIOUS
    <3> HIDE DEF f, T
    <3>2. QED
      BY <2>1, <3>1, ImageFinite
  <2>3. Range(f) = E
    BY DEF Range
  <2>4. ASSUME NEW operation PROVE IsFiniteSet({operation} \X Extract(operation, objects))
    <3>1. IsFiniteSet({operation})
      BY FS_Singleton
    <3>2. IsFiniteSet(Extract(operation, objects))
      BY ExtractFinite
    <3>3. QED
      BY <3>1, <3>2, FS_Product
  <2>5. \A s \in E : IsFiniteSet(s)
    BY <2>4
  <2> HIDE DEF E
  <2>6. QED
    BY <2>2, <2>3, <2>5, FS_UNION
<1>5. IsFiniteSet(UNION M)
  <2> DEFINE D == UNION E
             f == [oc \in D |-> matrix(oc[1], oc[2])]
  <2>1. IsFiniteSet(Range(f))
    <3>1. DOMAIN f = D
      OBVIOUS
    <3> HIDE DEF f, E
    <3>2. QED
      BY <1>4, <3>1, ImageFinite
  <2>2. Range(f) = M
    <3> HIDE DEF matrix, E
    <3> QED BY DEF Range
  <2>3. \A s \in M : IsFiniteSet(s)
    <3> HIDE DEF matrix, E
    <3> QED BY <1>3
  <2> HIDE DEF M
  <2>4. QED
    BY <2>1, <2>2, <2>3, FS_UNION
<1>6. \A proof \in UNION M : OfManifest(m, proof)
  <2> HIDE DEF matrix, E
  <2> QED BY <1>3
<1>7. DiscoverProofs(m, operations) = UNION M
  BY Zenon DEF DiscoverProofs
<1>8. QED
  BY <1>5, <1>6, <1>7

-----------------------------------------------------------------------------
(* Costs and budgets                                                       *)

\* A sum of sizes of disjoint sets is the size of their union.
LEMMA CountFibers ==
  ASSUME NEW P, IsFiniteSet(P), NEW F, NEW w, NEW k \in Nat,
         \A p \in P : IsFiniteSet(F[p]) /\ w[p] = Cardinality(F[p]) * k,
         \A p, q \in P : p # q => F[p] \cap F[q] = {}
  PROVE  /\ IsFiniteSet(UNION {F[p] : p \in P})
         /\ SumFunctionOnSet(w, P) = Cardinality(UNION {F[p] : p \in P}) * k
<1> DEFINE U(s) == UNION {F[p] : p \in s}
           W == {s \in SUBSET P : IsFiniteSet(U(s)) /\ SumFunctionOnSet(w, s) = Cardinality(U(s)) * k}
<1>0. \A a, b \in Nat : (a + b) * k = a * k + b * k /\ a * k \in Nat
  OBVIOUS
<1>1. {} \in W
  <2>1. U({}) = {}
    OBVIOUS
  <2>2. IsFiniteSet({}) /\ Cardinality({}) = 0 /\ 0 * k = 0
    BY FS_EmptySet
  <2>3. SumFunctionOnSet(w, {}) = 0
    BY SumEmpty
  <2>4. IsFiniteSet(U({})) /\ SumFunctionOnSet(w, {}) = Cardinality(U({})) * k
    <3> HIDE DEF U
    <3> QED BY <2>1, <2>2, <2>3, Zenon
  <2>5. QED
    <3> HIDE DEF U
    <3> QED BY <2>4
<1>2. ASSUME NEW s \in SUBSET P, NEW x \in s, s \ {x} \in W PROVE s \in W
  <2> DEFINE t == s \ {x}
  <2>1. U(s) = U(t) \cup F[x] /\ U(t) \cap F[x] = {}
    OBVIOUS
  <2>2. IsFiniteSet(U(t)) /\ SumFunctionOnSet(w, t) = Cardinality(U(t)) * k
    BY <1>2
  <2>3. IsFiniteSet(F[x]) /\ w[x] = Cardinality(F[x]) * k
    OBVIOUS
  <2>4. IsFiniteSet(s) /\ NatValued(w, s)
    <3>1. IsFiniteSet(s)
      BY FS_Subset
    <3>2. \A y \in s : Cardinality(F[y]) \in Nat
      BY FS_CardinalityType
    <3>3. \A y \in s : w[y] = Cardinality(F[y]) * k
      OBVIOUS
    <3>4. QED
      BY <1>0, <3>1, <3>2, <3>3 DEF NatValued
  <2> HIDE DEF U
  <2>5. SumFunctionOnSet(w, s) = w[x] + SumFunctionOnSet(w, t)
    BY <2>4, SumAdd
  <2> HIDE DEF t
  <2>6. Cardinality(U(t)) \in Nat /\ Cardinality(F[x]) \in Nat
    BY <2>2, <2>3, FS_CardinalityType
  <2>7. /\ IsFiniteSet(U(t) \cup F[x])
        /\ Cardinality(U(t) \cup F[x])
             = Cardinality(U(t)) + Cardinality(F[x]) - Cardinality(U(t) \cap F[x])
    BY <2>2, <2>3, FS_Union
  <2>8. Cardinality(U(t) \cap F[x]) = 0
    BY <2>1, FS_EmptySet, Zenon
  <2>9. IsFiniteSet(U(s)) /\ Cardinality(U(s)) = Cardinality(U(t)) + Cardinality(F[x])
    <3>1. Cardinality(U(t) \cup F[x]) = Cardinality(U(t)) + Cardinality(F[x])
      BY <2>6, <2>7, <2>8
    <3>2. QED
      BY <2>1, <2>7, <3>1, Zenon
  <2>10. Cardinality(U(s)) * k = Cardinality(U(t)) * k + Cardinality(F[x]) * k
    BY <1>0, <2>6, <2>9, Zenon
  <2>11. SumFunctionOnSet(w, s) = Cardinality(U(s)) * k
    <3>1. Cardinality(U(t)) * k \in Nat /\ Cardinality(F[x]) * k \in Nat
      BY <1>0, <2>6
    <3>2. \A a, b \in Nat : a + b = b + a
      OBVIOUS
    <3>3. QED
      BY <2>2, <2>3, <2>5, <2>10, <3>1, <3>2, Zenon
  <2>12. QED
    BY <2>9, <2>11
<1>3. P \in W
  <2>1. \A s \in SUBSET P : s # {} => \E x \in s : s \ {x} \in W => s \in W
    <3> HIDE DEF W
    <3> QED BY <1>2
  <2> HIDE DEF W
  <2>2. SUBSET P \subseteq W
    BY <1>1, <2>1, SubsetInduction
  <2>3. QED
    BY <2>2
<1>4. QED
  BY <1>3

\* The same, to be cited with its hypotheses in one formula.
LEMMA CountedFibers ==
  \A P, F, w, k :
    /\ IsFiniteSet(P) /\ k \in Nat
    /\ \A p \in P : IsFiniteSet(F[p]) /\ w[p] = Cardinality(F[p]) * k
    /\ \A p, q \in P : p # q => F[p] \cap F[q] = {}
    => SumFunctionOnSet(w, P) = Cardinality(UNION {F[p] : p \in P}) * k
  BY CountFibers

\* A sum of equal summands is a product.
LEMMA SumConstant ==
  ASSUME NEW S, IsFiniteSet(S), NEW f, NEW k \in Nat, \A x \in S : f[x] = k
  PROVE  SumFunctionOnSet(f, S) = Cardinality(S) * k
<1>0. PICK F : F = [x \in S |-> {x}]
  OBVIOUS
<1>1. \A p \in S : IsFiniteSet(F[p]) /\ f[p] = Cardinality(F[p]) * k
  <2> SUFFICES ASSUME NEW x \in S PROVE IsFiniteSet({x}) /\ f[x] = Cardinality({x}) * k
    BY <1>0
  <2>1. IsFiniteSet({x}) /\ Cardinality({x}) = 1
    BY FS_Singleton
  <2>2. f[x] = k /\ k = 1 * k
    OBVIOUS
  <2>3. QED
    BY <2>1, <2>2, Zenon
<1>2. \A p, q \in S : p # q => F[p] \cap F[q] = {}
  BY <1>0
<1>3. UNION {F[p] : p \in S} = S
  BY <1>0
<1>4. QED
  <2>1. SumFunctionOnSet(f, S) = Cardinality(UNION {F[p] : p \in S}) * k
    <3>1. IsFiniteSet(S) /\ k \in Nat
      OBVIOUS
    <3>2. \A p \in S : IsFiniteSet(F[p]) /\ f[p] = Cardinality(F[p]) * k
      BY <1>1
    <3>3. QED
      BY <3>1, <3>2, <1>2, CountedFibers
  <2>2. QED
    BY <1>3, <2>1, Zenon

\* The overflow checks divide: what passes them multiplies within the limit.
LEMMA DivBound ==
  ASSUME NEW n \in Nat, NEW b \in Nat \ {0}, NEW x \in Nat, x <= n \div b
  PROVE  x * b <= n /\ x * b \in Nat
<1>1. n \div b \in Nat /\ (n \div b) * b <= n
  OBVIOUS
<1>2. \A q \in Nat : x <= q => x * b <= q * b
  OBVIOUS
<1>3. QED
  BY <1>1, <1>2

\* A number below 2^64 is what uint64 holds.
LEMMA NoWrap ==
  ASSUME NEW n \in Nat, n <= MaxUint64
  PROVE  Uint64(n) = n
BY WidthAssumption DEF Uint64

\* proofCaseCost, unless it refuses, is the cost of a case without overflow.
LEMMA CaseCost ==
  ASSUME NEW proof, proof.redirects \in Nat, proof.requestBytes \in Nat \ {0},
         proof.responseBytes \in Nat \ {0}, ProofCaseCost(proof) # Refused
  PROVE  LET bytes == proof.requestBytes + proof.responseBytes
         IN  ProofCaseCost(proof) = [requests |-> proof.redirects + 1,
                                     bytes |-> (proof.redirects + 1) * bytes]
<1> DEFINE r == proof.redirects + 1
           b == proof.requestBytes + proof.responseBytes
<1>1. r \in Nat /\ b \in Nat \ {0} /\ MaxUint64 \in Nat
  BY WidthAssumption
<1>2. r <= MaxUint64 \div b /\ ProofCaseCost(proof) = [requests |-> r, bytes |-> Uint64(r * b)]
  <2>1. ~(b > MaxUint64 \/ b = 0 \/ r > MaxUint64 \div b)
        /\ ProofCaseCost(proof) = [requests |-> r, bytes |-> Uint64(r * b)]
    BY Zenon DEF ProofCaseCost
  <2>2. MaxUint64 \div b \in Int
    <3> HIDE DEF b
    <3> QED BY <1>1
  <2> HIDE DEF r, b
  <2>3. QED
    BY <1>1, <2>1, <2>2
<1> HIDE DEF r, b
<1>3. Uint64(r * b) = r * b
  BY <1>1, <1>2, DivBound, NoWrap
<1>4. QED
  BY <1>2, <1>3, Zenon DEF r, b

ValidLimit(limit) == limit \in BudgetLimit /\ ValidateBudget(limit)

\* budgetLimits, unless it refuses, is a limit without overflow.
LEMMA LimitCost ==
  ASSUME NEW limit, ValidLimit(limit), BudgetLimits(limit) # Refused
  PROVE  LET bytes == limit.requestBytes + limit.responseBytes
         IN  BudgetLimits(limit) = [requests |-> limit.maxRequests, bytes |-> limit.maxRequests * bytes]
<1> DEFINE r == limit.maxRequests
           b == limit.requestBytes + limit.responseBytes
<1>0. /\ limit.maxRequests \in Int /\ limit.requestBytes \in Int /\ limit.responseBytes \in Int
      /\ limit.maxRequests > 0 /\ limit.requestBytes > 0 /\ limit.responseBytes > 0
  BY DEF ValidLimit, BudgetLimit, ValidateBudget
<1>1. r \in Nat /\ b \in Nat \ {0} /\ MaxUint64 \in Nat
  BY <1>0, WidthAssumption
<1>2. r <= MaxUint64 \div b /\ BudgetLimits(limit) = [requests |-> r, bytes |-> Uint64(r * b)]
  <2>1. ~(b > MaxUint64 \/ r > MaxUint64 \div b)
        /\ BudgetLimits(limit) = [requests |-> r, bytes |-> Uint64(r * b)]
    BY Zenon DEF BudgetLimits
  <2>2. MaxUint64 \div b \in Int
    <3> HIDE DEF b
    <3> QED BY <1>1
  <2> HIDE DEF r, b
  <2>3. QED
    BY <1>1, <2>1, <2>2
<1> HIDE DEF r, b
<1>3. Uint64(r * b) = r * b
  BY <1>1, <1>2, DivBound, NoWrap
<1>4. QED
  BY <1>2, <1>3, Zenon DEF r, b

Charge(proof, case) ==
  [id |-> <<proof, case>>, origin |-> case.origin, identity |-> case.identity,
   cost |-> ProofCaseCost(proof)]

\* The charges of some cases of every proof are as many as those cases.
LEMMA SelectedCharges ==
  ASSUME NEW proofs, IsFiniteSet(proofs), NEW Q, \A proof \in proofs : IsFiniteSet(Q[proof]),
         NEW X, X = UNION {{Charge(proof, case) : case \in Q[proof]} : proof \in proofs}
  PROVE  /\ IsFiniteSet(X)
         /\ \A k \in Nat : \A w :
              (\A proof \in proofs : w[proof] = Cardinality(Q[proof]) * k)
                => SumFunctionOnSet(w, proofs) = Cardinality(X) * k
<1>1. PICK F : F = [proof \in proofs |-> {Charge(proof, case) : case \in Q[proof]}]
  OBVIOUS
<1>2. ASSUME NEW proof \in proofs
      PROVE  IsFiniteSet(F[proof]) /\ Cardinality(F[proof]) = Cardinality(Q[proof])
  <2> DEFINE g == [case \in Q[proof] |-> Charge(proof, case)]
  <2>1. \A c, d : Charge(proof, c) = Charge(proof, d) => c = d
    <3> SUFFICES ASSUME NEW c, NEW d, Charge(proof, c) = Charge(proof, d) PROVE c = d
      OBVIOUS
    <3>1. Charge(proof, c).id = <<proof, c>> /\ Charge(proof, d).id = <<proof, d>>
      BY DEF Charge
    <3>2. QED
      BY <3>1
  <2>2. g \in Bijection(Q[proof], F[proof])
    <3>1. F[proof] = {Charge(proof, case) : case \in Q[proof]}
      BY <1>1
    <3>2. g \in [Q[proof] -> F[proof]] /\ \A y \in F[proof] : \E x \in Q[proof] : g[x] = y
      BY <3>1
    <3>3. \A x, y \in Q[proof] : g[x] = g[y] => x = y
      BY <2>1
    <3> HIDE DEF g
    <3>4. QED
      BY <3>2, <3>3 DEF Bijection, Injection, Surjection, IsInjective
  <2>3. ExistsBijection(Q[proof], F[proof])
    <3> HIDE DEF g
    <3> QED BY <2>2, Zenon DEF ExistsBijection
  <2>4. QED
    BY <2>3, FS_Bijection
<1>3. \A p, q \in proofs : p # q => F[p] \cap F[q] = {}
  <2> SUFFICES ASSUME NEW p \in proofs, NEW q \in proofs, NEW x, x \in F[p], x \in F[q] PROVE p = q
    OBVIOUS
  <2>1. PICK c, d : x = Charge(p, c) /\ x = Charge(q, d)
    BY <1>1
  <2>2. x.id = <<p, c>> /\ x.id = <<q, d>>
    BY <2>1 DEF Charge
  <2>3. QED
    BY <2>2
<1>4. X = UNION {F[p] : p \in proofs}
  <2>1. \A proof \in proofs : F[proof] = {Charge(proof, case) : case \in Q[proof]}
    BY <1>1
  <2> DEFINE K(proof) == {Charge(proof, case) : case \in Q[proof]}
  <2>2. {F[p] : p \in proofs} = {K(proof) : proof \in proofs}
    <3>1. \A proof \in proofs : F[proof] = K(proof)
      BY <2>1
    <3> HIDE DEF K
    <3>2. QED
      BY <3>1
  <2>3. QED
    BY <2>2, Zenon
<1>5. IsFiniteSet(X)
  <2>1. IsFiniteSet(Range(F)) /\ Range(F) = {F[p] : p \in proofs}
    <3>1. DOMAIN F = proofs
      BY <1>1
    <3>2. IsFiniteSet(Range(F))
      BY <3>1, ImageFinite
    <3>3. QED
      BY <3>1, <3>2 DEF Range
  <2>2. \A s \in {F[p] : p \in proofs} : IsFiniteSet(s)
    BY <1>2
  <2>3. QED
    BY <1>4, <2>1, <2>2, FS_UNION
<1>6. ASSUME NEW k \in Nat, NEW w, \A proof \in proofs : w[proof] = Cardinality(Q[proof]) * k
      PROVE  SumFunctionOnSet(w, proofs) = Cardinality(X) * k
  <2>1. \A p \in proofs : IsFiniteSet(F[p]) /\ w[p] = Cardinality(F[p]) * k
    BY <1>2, <1>6, Zenon
  <2>2. SumFunctionOnSet(w, proofs) = Cardinality(UNION {F[p] : p \in proofs}) * k
    BY <1>3, <2>1, CountedFibers
  <2>3. QED
    BY <1>4, <2>2, Zenon
<1>7. QED
  BY <1>5, <1>6

\* sumCost, unless it refuses, is the exact sum of its charges.
LEMMA SumOfCharges ==
  ASSUME NEW X, IsFiniteSet(X), NEW requests \in Nat, NEW bytes \in Nat,
         \A charge \in X : charge.cost = [requests |-> requests, bytes |-> bytes],
         SumCost(X) # Refused
  PROVE  SumCost(X) = [requests |-> Cardinality(X) * requests, bytes |-> Cardinality(X) * bytes]
<1> DEFINE f == [charge \in X |-> charge.cost.requests]
           g == [charge \in X |-> charge.cost.bytes]
<1>1. \A charge \in X : f[charge] = requests /\ g[charge] = bytes
  OBVIOUS
<1>2. DOMAIN f = X /\ DOMAIN g = X
  OBVIOUS
<1> HIDE DEF f, g
<1>3. SumFunction(f) = Cardinality(X) * requests
  BY <1>1, <1>2, SumConstant DEF SumFunction
<1>4. SumFunction(g) = Cardinality(X) * bytes
  BY <1>1, <1>2, SumConstant DEF SumFunction
<1>5. SumCost(X) = [requests |-> SumFunction(f), bytes |-> SumFunction(g)]
  BY Zenon DEF SumCost, f, g
<1>6. QED
  BY <1>3, <1>4, <1>5, Zenon

FitsBudgets(m, proofs) ==
  LET global == m.budgets.global
  IN  /\ Requests(proofs) <= global.maxRequests
      /\ Bytes(proofs) <= global.maxRequests * (global.requestBytes + global.responseBytes)
      /\ \A identity \in IdentitySet(m) :
           RequestsAs(proofs, identity) <= Granted(m.budgets.perIdentity, identity, global)
      /\ \A authority \in OriginSet(m) :
           RequestsTo(proofs, authority.origin) <= Granted(m.budgets.perOrigin, authority, global)

\* What a named budget limits, or the global one in its place.
LEMMA NamedLimit ==
  ASSUME NEW limits, NEW name, NEW global, ValidLimit(global), NEW allowed,
         ValidateNamedBudgets(limits, allowed), Range(limits) \subseteq BudgetLimit
  PROVE  ValidLimit(LimitOr(limits, name, global))
<1>1. CASE name \in DOMAIN limits
  <2>1. limits[name] \in Range(limits)
    BY <1>1, Zenon DEF Range
  <2>2. QED
    BY <1>1, <2>1 DEF LimitOr, ValidLimit, ValidateNamedBudgets
<1>2. CASE name \notin DOMAIN limits
  BY <1>2 DEF LimitOr
<1>3. QED
  BY <1>1, <1>2

\* A plan whose charges the ledger reserves fits the budgets of its manifest:
\* globally, for the module, and for every identity and origin.
LEMMA FitsWhenReserved ==
  ASSUME NEW m, NEW proofs, IsFiniteSet(proofs), Decoded(m), ValidateTransport(m.transport),
         ValidateIdentities(m), ValidateBudgets(m), \A proof \in proofs : OfManifest(m, proof),
         ~NewLedgerFails(PlannerBudget(m)),
         ReserveBatch(PlannerBudget(m), ExactProofCharges(proofs))
  PROVE  FitsBudgets(m, proofs)
<1> DEFINE global == m.budgets.global
           budget == PlannerBudget(m)
           charges == ExactProofCharges(proofs)
           r == m.transport.redirects + 1
           b == global.requestBytes + global.responseBytes
           cost == [requests |-> r, bytes |-> r * b]
           rb == r * b
<1>1. /\ m.transport.redirects \in Nat /\ ValidLimit(global)
      /\ global.requestBytes \in Nat \ {0} /\ global.responseBytes \in Nat \ {0}
      /\ global.maxRequests \in Nat
  BY DEF Decoded, ValidateTransport, ValidateBudgets, ValidLimit, ValidateBudget, BudgetLimit, MaxRedirects
<1>2. r \in Nat /\ b \in Nat /\ rb \in Nat
  BY <1>1
<1>3. charges = UNION {{Charge(proof, case) : case \in proof.cases} : proof \in proofs}
  BY Zenon DEF ExactProofCharges, Charge
<1>4. ASSUME NEW charge \in charges PROVE charge.cost = cost
  <2>1. PICK proof \in proofs : \E case \in proof.cases : charge = Charge(proof, case)
    BY <1>3, <1>4
  <2>1a. PICK case \in proof.cases : charge = Charge(proof, case)
    BY <2>1
  <2>2. charge.cost = ProofCaseCost(proof)
    BY <2>1a DEF Charge
  <2>3. charge.cost # Refused
    BY <1>4 DEF ReserveBatch
  <2>4. /\ proof.redirects = m.transport.redirects
        /\ proof.requestBytes = global.requestBytes /\ proof.responseBytes = global.responseBytes
    BY <2>1 DEF OfManifest
  <2>5. ProofCaseCost(proof) = [requests |-> proof.redirects + 1,
          bytes |-> (proof.redirects + 1) * (proof.requestBytes + proof.responseBytes)]
    BY <1>1, <2>2, <2>3, <2>4, CaseCost
  <2>6. QED
    BY <2>2, <2>4, <2>5, Zenon
\* The charges of the cases Q, within a limit, bound what is counted of them.
<1>5. ASSUME NEW Q, \A proof \in proofs : Q[proof] \subseteq proof.cases,
             NEW X, X = UNION {{Charge(proof, case) : case \in Q[proof]} : proof \in proofs},
             NEW limit, ValidLimit(limit), BudgetLimits(limit) # Refused,
             X = {} \/ Within(SumCost(X), BudgetLimits(limit)),
             NEW w, \A proof \in proofs : w[proof] = Cardinality(Q[proof]) * (proof.redirects + 1),
             NEW v, \A proof \in proofs : v[proof] = Cardinality(Q[proof]) * (proof.redirects + 1)
                                            * (proof.requestBytes + proof.responseBytes)
      PROVE  /\ SumFunctionOnSet(w, proofs) <= limit.maxRequests
             /\ SumFunctionOnSet(v, proofs)
                  <= limit.maxRequests * (limit.requestBytes + limit.responseBytes)
  <2>1. \A proof \in proofs : IsFiniteSet(Q[proof])
    BY <1>5, FS_Subset DEF OfManifest
  <2>2. /\ IsFiniteSet(X)
        /\ \A k \in Nat : \A u : (\A proof \in proofs : u[proof] = Cardinality(Q[proof]) * k)
                               => SumFunctionOnSet(u, proofs) = Cardinality(X) * k
    BY <1>5, <2>1, SelectedCharges
  <2>3. Cardinality(X) \in Nat
    BY <2>2, FS_CardinalityType
  <2>4. \A proof \in proofs : proof.redirects + 1 = r /\ proof.requestBytes + proof.responseBytes = b
    BY DEF OfManifest
  <2>5. \A proof \in proofs : w[proof] = Cardinality(Q[proof]) * r
    BY <1>5, <2>4, Zenon
  <2>6. \A proof \in proofs : v[proof] = Cardinality(Q[proof]) * rb
    <3> SUFFICES ASSUME NEW proof \in proofs PROVE v[proof] = Cardinality(Q[proof]) * rb
      OBVIOUS
    <3>1. v[proof] = Cardinality(Q[proof]) * r * b
      BY <1>5, <2>4, Zenon
    <3>2. Cardinality(Q[proof]) \in Nat
      BY <2>1, FS_CardinalityType
    <3>3. \A n, x, y \in Nat : n * x * y = n * (x * y)
      OBVIOUS
    <3>4. Cardinality(Q[proof]) * r * b = Cardinality(Q[proof]) * (r * b)
      BY <1>2, <3>2, <3>3, Zenon
    <3>5. QED
      BY <3>1, <3>4, Zenon
  <2>7. SumFunctionOnSet(w, proofs) = Cardinality(X) * r
    <3> HIDE DEF r
    <3> QED BY <1>2, <2>2, <2>5
  <2>8. SumFunctionOnSet(v, proofs) = Cardinality(X) * rb
    <3> HIDE DEF rb
    <3> QED BY <1>2, <2>2, <2>6
  <2>9. BudgetLimits(limit) = [requests |-> limit.maxRequests,
                               bytes |-> limit.maxRequests * (limit.requestBytes + limit.responseBytes)]
    BY <1>5, LimitCost
  <2>10. CASE X = {}
    <3>1. Cardinality(X) = 0
      BY <2>10, FS_EmptySet, Zenon
    <3>2. Cardinality(X) * r = 0 /\ Cardinality(X) * rb = 0
      <4>1. 0 * r = 0 /\ 0 * rb = 0
        <5> HIDE DEF r, rb
        <5> QED BY <1>2
      <4>2. QED
        BY <3>1, <4>1, Zenon
    <3>3. limit.maxRequests \in Nat /\ limit.requestBytes \in Nat /\ limit.responseBytes \in Nat
      BY <1>5 DEF ValidLimit, BudgetLimit, ValidateBudget
    <3>4. \A x, y, z \in Nat : 0 <= x /\ 0 <= x * (y + z)
      OBVIOUS
    <3>5. 0 <= limit.maxRequests /\ 0 <= limit.maxRequests * (limit.requestBytes + limit.responseBytes)
      BY <3>3, <3>4, Zenon
    <3>6. QED
      BY <2>7, <2>8, <3>2, <3>5, Zenon
  <2>11. CASE X # {}
    <3>1. SumCost(X) # Refused /\ SumCost(X).requests <= limit.maxRequests
          /\ SumCost(X).bytes <= limit.maxRequests * (limit.requestBytes + limit.responseBytes)
      <4>1. Within(SumCost(X), BudgetLimits(limit))
        BY <1>5, <2>11
      <4>2. /\ BudgetLimits(limit).requests = limit.maxRequests
            /\ BudgetLimits(limit).bytes = limit.maxRequests * (limit.requestBytes + limit.responseBytes)
        BY <2>9
      <4>3. QED
        BY <4>1, <4>2, Zenon DEF Within
    <3>2. \A charge \in X : charge \in charges
      <4>1. \A charge \in X : \E proof \in proofs : \E case \in Q[proof] : charge = Charge(proof, case)
        BY <1>5
      <4>2. QED
        BY <1>3, <1>5, <4>1
    <3>3. SumCost(X) = [requests |-> Cardinality(X) * r, bytes |-> Cardinality(X) * rb]
      <4>1. \A charge \in X : charge.cost = [requests |-> r, bytes |-> rb]
        <5>1. \A charge \in X : charge.cost = cost
          <6> HIDE DEF cost, charges
          <6> QED BY <1>4, <3>2
        <5>2. QED
          BY <5>1, Zenon
      <4> HIDE DEF r, rb
      <4>2. QED
        BY <1>2, <2>2, <3>1, <4>1, SumOfCharges
    <3>4. SumCost(X).requests = Cardinality(X) * r /\ SumCost(X).bytes = Cardinality(X) * rb
      <4> HIDE DEF r, rb
      <4> QED BY <3>3
    <3>5. QED
      BY <2>7, <2>8, <3>1, <3>4, Zenon
  <2>12. QED
    BY <2>10, <2>11
<1> HIDE DEF cost, charges, budget, rb
<1>6. \A x \in LimitsOf(budget) : x # Refused
  BY DEF NewLedgerFails, budget
<1>7. /\ budget.global = BudgetLimits(global)
      /\ budget.origins = [a \in OriginSet(m) |-> BudgetLimits(LimitOr(m.budgets.perOrigin, a, global))]
      /\ budget.identities = [i \in IdentitySet(m) \cup {Anonymous} |->
            IF i = Anonymous THEN BudgetLimits(global)
            ELSE BudgetLimits(LimitOr(m.budgets.perIdentity, i, global))]
  BY Zenon DEF PlannerBudget, budget
<1>8. BudgetLimits(global) # Refused
  BY <1>6, <1>7 DEF LimitsOf
<1>9. Requests(proofs) <= global.maxRequests
      /\ Bytes(proofs) <= global.maxRequests * (global.requestBytes + global.responseBytes)
  <2>1. PICK Q : Q = [proof \in proofs |-> proof.cases]
    OBVIOUS
  <2>2. PICK w : w = [proof \in proofs |-> Cardinality(proof.cases) * (proof.redirects + 1)]
    OBVIOUS
  <2>3. PICK v : v = [proof \in proofs |-> Cardinality(proof.cases) * (proof.redirects + 1)
                                            * (proof.requestBytes + proof.responseBytes)]
    OBVIOUS
  <2>4. charges = UNION {{Charge(proof, case) : case \in Q[proof]} : proof \in proofs}
    <3>1. {{Charge(proof, case) : case \in Q[proof]} : proof \in proofs}
            = {{Charge(proof, case) : case \in proof.cases} : proof \in proofs}
      BY <2>1
    <3>2. QED
      BY <1>3, <3>1, Zenon
  <2>5. Within(SumCost(charges), BudgetLimits(global))
    BY <1>7 DEF ReserveBatch, charges, budget
  <2>6. \A proof \in proofs : Q[proof] \subseteq proof.cases
    BY <2>1
  <2>7. \A proof \in proofs : w[proof] = Cardinality(Q[proof]) * (proof.redirects + 1)
    BY <2>1, <2>2, Zenon
  <2>8. \A proof \in proofs : v[proof] = Cardinality(Q[proof]) * (proof.redirects + 1)
                                           * (proof.requestBytes + proof.responseBytes)
    BY <2>1, <2>3, Zenon
  <2>9. SumFunctionOnSet(w, proofs) <= global.maxRequests
        /\ SumFunctionOnSet(v, proofs)
             <= global.maxRequests * (global.requestBytes + global.responseBytes)
    BY <1>1, <1>5, <1>8, <2>4, <2>5, <2>6, <2>7, <2>8
  <2>10. Requests(proofs) = SumFunctionOnSet(w, proofs) /\ Bytes(proofs) = SumFunctionOnSet(v, proofs)
    <3>1. DOMAIN w = proofs /\ DOMAIN v = proofs
      BY <2>2, <2>3
    <3>2. QED
      BY <2>2, <2>3, <3>1, Zenon DEF Requests, Bytes, SumFunction
  <2>11. QED
    BY <2>9, <2>10, Zenon
\* The rest of the charges fall under one name, chosen by the cases K.
<1>10. ASSUME NEW K, NEW X, X = {c \in charges : c.id[2] \in K},
              NEW limit, ValidLimit(limit), BudgetLimits(limit) # Refused,
              X = {} \/ Within(SumCost(X), BudgetLimits(limit)),
              NEW w, w = [proof \in proofs |-> Cardinality(proof.cases \cap K) * (proof.redirects + 1)]
       PROVE  SumFunction(w) <= limit.maxRequests
  <2>1. PICK Q : Q = [proof \in proofs |-> proof.cases \cap K]
    OBVIOUS
  <2>2. PICK v : v = [proof \in proofs |-> Cardinality(Q[proof]) * (proof.redirects + 1)
                                            * (proof.requestBytes + proof.responseBytes)]
    OBVIOUS
  <2>3. \A proof \in proofs : Q[proof] \subseteq proof.cases
    BY <2>1
  <2>4. \A proof \in proofs : w[proof] = Cardinality(Q[proof]) * (proof.redirects + 1)
    BY <1>10, <2>1, Zenon
  <2>5. \A proof \in proofs : v[proof] = Cardinality(Q[proof]) * (proof.redirects + 1)
                                           * (proof.requestBytes + proof.responseBytes)
    BY <2>2, Zenon
  <2>6. X = UNION {{Charge(proof, case) : case \in Q[proof]} : proof \in proofs}
    <3>1. \A proof, case : Charge(proof, case).id[2] = case
      BY DEF Charge
    <3>2. \A x : x \in X <=> \E proof \in proofs : \E case \in proof.cases :
                                x = Charge(proof, case) /\ case \in K
      BY <1>3, <1>10, <3>1
    <3>3. \A x : x \in UNION {{Charge(proof, case) : case \in Q[proof]} : proof \in proofs}
                 <=> \E proof \in proofs : \E case \in Q[proof] : x = Charge(proof, case)
      OBVIOUS
    <3>4. \A proof \in proofs : \A case : case \in Q[proof] <=> case \in proof.cases /\ case \in K
      BY <2>1
    <3>5. \A x : x \in X <=> x \in UNION {{Charge(proof, case) : case \in Q[proof]} : proof \in proofs}
      BY <3>2, <3>3, <3>4
    <3>6. QED
      BY <3>5
  <2>7. SumFunctionOnSet(w, proofs) <= limit.maxRequests
    <3>1. /\ ValidLimit(limit) /\ BudgetLimits(limit) # Refused
          /\ (X = {} \/ Within(SumCost(X), BudgetLimits(limit)))
      BY <1>10
    <3> HIDE DEF charges
    <3>2. QED
      BY <1>5, <2>3, <2>4, <2>5, <2>6, <3>1, ZenonT(30)
  <2>8. DOMAIN w = proofs
    BY <1>10
  <2>9. QED
    BY <2>7, <2>8, Zenon DEF SumFunction
<1>11. ASSUME NEW identity \in IdentitySet(m)
       PROVE  RequestsAs(proofs, identity) <= Granted(m.budgets.perIdentity, identity, global)
  <2> DEFINE limit == LimitOr(m.budgets.perIdentity, identity, global)
  <2>1. ValidLimit(limit)
    BY <1>1, NamedLimit DEF ValidateBudgets, Decoded
  <2>2. identity # Anonymous
    <3>1. PICK u \in Range(m.identities) : identity = u.name
      BY <1>11 DEF IdentitySet
    <3>2. QED
      BY <3>1 DEF ValidateIdentities, Range
  <2>3. budget.identities[identity] = BudgetLimits(limit) /\ identity \in DOMAIN budget.identities
    BY <1>7, <2>2
  <2>4. BudgetLimits(limit) # Refused
    BY <1>6, <2>3 DEF LimitsOf, Range
  <2> HIDE DEF limit
  <2>5. PICK X : X = {c \in charges : c.identity = identity}
    OBVIOUS
  <2>6. X = {} \/ Within(SumCost(X), BudgetLimits(limit))
    <3> SUFFICES ASSUME X # {} PROVE Within(SumCost(X), BudgetLimits(limit))
      OBVIOUS
    <3>1. identity \in {charge.identity : charge \in charges}
      BY <2>5
    <3>2. Within(SumCost({c \in charges : c.identity = identity}), budget.identities[identity])
      BY <3>1 DEF ReserveBatch, charges, budget
    <3>3. QED
      BY <2>3, <2>5, <3>2, Zenon
  <2>7. PICK K : K = {c \in UNION {proof.cases : proof \in proofs} : c.identity = identity}
    OBVIOUS
  <2>8. X = {c \in charges : c.id[2] \in K}
    <3>1. \A c \in charges : c.identity = identity <=> c.id[2] \in K
      <4> SUFFICES ASSUME NEW c \in charges PROVE c.identity = identity <=> c.id[2] \in K
        OBVIOUS
      <4>1. PICK proof \in proofs : \E case \in proof.cases : c = Charge(proof, case)
        BY <1>3
      <4>1a. PICK case \in proof.cases : c = Charge(proof, case)
        BY <4>1
      <4>2. c.id[2] = case /\ c.identity = case.identity
        BY <4>1a DEF Charge
      <4>3. QED
        BY <2>7, <4>1a, <4>2
    <3>2. QED
      BY <2>5, <3>1
  <2>9. PICK w : w = [proof \in proofs |-> Cardinality(proof.cases \cap K) * (proof.redirects + 1)]
    OBVIOUS
  <2>10. SumFunction(w) <= limit.maxRequests
    BY <1>10, <2>1, <2>4, <2>6, <2>8, <2>9
  <2>11. RequestsAs(proofs, identity) = SumFunction(w)
    <3>1. \A proof \in proofs : proof.cases \cap K = {c \in proof.cases : c.identity = identity}
      BY <2>7
    <3>2. w = [proof \in proofs |-> Cardinality({c \in proof.cases : c.identity = identity})
                                     * (proof.redirects + 1)]
      BY <2>9, <3>1, Zenon
    <3>3. QED
      BY <3>2, Zenon DEF RequestsAs
  <2>12. QED
    BY <2>10, <2>11, Zenon DEF Granted, limit
<1>12. ASSUME NEW authority \in OriginSet(m)
       PROVE  RequestsTo(proofs, authority.origin) <= Granted(m.budgets.perOrigin, authority, global)
  <2> DEFINE limit == LimitOr(m.budgets.perOrigin, authority, global)
             origin == authority.origin
  <2>1. ValidLimit(limit)
    BY <1>1, NamedLimit DEF ValidateBudgets, Decoded
  <2>2. budget.origins[authority] = BudgetLimits(limit) /\ DOMAIN budget.origins = OriginSet(m)
    BY <1>7
  <2>3. BudgetLimits(limit) # Refused
    BY <1>6, <2>2 DEF LimitsOf, Range
  <2>4. OriginLimit(budget, origin) = BudgetLimits(limit)
    <3>1. \A a \in DOMAIN budget.origins : CanonicalOrigin(a) = origin => a = authority
      <4>1. CanonicalOrigin(authority) = origin
        BY DEF CanonicalOrigin
      <4>2. QED
        BY <2>2, <4>1 DEF NewLedgerFails, budget
    <3>2. (CHOOSE a \in DOMAIN budget.origins : CanonicalOrigin(a) = origin) = authority
      <4> HIDE DEF origin
      <4>1. CanonicalOrigin(authority) = origin
        BY DEF CanonicalOrigin, origin
      <4>2. QED
        BY <2>2, <3>1, <4>1
    <3>3. QED
      BY <2>2, <3>2, Zenon DEF OriginLimit
  <2> HIDE DEF limit
  <2>5. PICK X : X = {c \in charges : c.origin = origin}
    OBVIOUS
  <2>6. X = {} \/ Within(SumCost(X), BudgetLimits(limit))
    <3> SUFFICES ASSUME X # {} PROVE Within(SumCost(X), BudgetLimits(limit))
      OBVIOUS
    <3>1. origin \in {charge.origin : charge \in charges}
      BY <2>5
    <3>2. Within(SumCost({c \in charges : c.origin = origin}), OriginLimit(budget, origin))
      BY <3>1 DEF ReserveBatch, charges, budget
    <3>3. QED
      BY <2>4, <2>5, <3>2, Zenon
  <2>7. PICK K : K = {c \in UNION {proof.cases : proof \in proofs} : c.origin = origin}
    OBVIOUS
  <2>8. X = {c \in charges : c.id[2] \in K}
    <3>1. \A c \in charges : c.origin = origin <=> c.id[2] \in K
      <4> SUFFICES ASSUME NEW c \in charges PROVE c.origin = origin <=> c.id[2] \in K
        OBVIOUS
      <4>1. PICK proof \in proofs : \E case \in proof.cases : c = Charge(proof, case)
        BY <1>3
      <4>1a. PICK case \in proof.cases : c = Charge(proof, case)
        BY <4>1
      <4>2. c.id[2] = case /\ c.origin = case.origin
        BY <4>1a DEF Charge
      <4>3. QED
        BY <2>7, <4>1a, <4>2
    <3>2. QED
      BY <2>5, <3>1
  <2>9. PICK w : w = [proof \in proofs |-> Cardinality(proof.cases \cap K) * (proof.redirects + 1)]
    OBVIOUS
  <2>10. SumFunction(w) <= limit.maxRequests
    BY <1>10, <2>1, <2>3, <2>6, <2>8, <2>9
  <2>11. RequestsTo(proofs, origin) = SumFunction(w)
    <3>1. \A proof \in proofs : proof.cases \cap K = {c \in proof.cases : c.origin = origin}
      BY <2>7
    <3>2. w = [proof \in proofs |-> Cardinality({c \in proof.cases : c.origin = origin})
                                     * (proof.redirects + 1)]
      BY <2>9, <3>1, Zenon
    <3>3. QED
      BY <3>2, Zenon DEF RequestsTo
  <2>12. QED
    BY <2>10, <2>11, Zenon DEF Granted, limit
<1>13. QED
  BY <1>9, <1>11, <1>12 DEF FitsBudgets

\* The URLs of an ownership matrix are one, and its cases carry its origin.
LEMMA MatrixOrigins ==
  ASSUME NEW proof, IsMatrix(proof)
  PROVE  \A case \in proof.cases : case.origin = case.url.origin
<1>1. PICK first \in proof.cases : proof.cases = Cases(first.url, proof.victim, proof.attacker)
  BY DEF IsMatrix
<1>2. \A case \in Cases(first.url, proof.victim, proof.attacker) :
        case.url = first.url /\ case.origin = CanonicalOrigin(first.url)
  BY CasesFinite
<1>3. QED
  BY <1>1, <1>2 DEF CanonicalOrigin

\* What prepare (plan.go:41-156) returns when it plans: proofs that are whole
\* ownership matrices on origins of the manifest, within its budgets.
AuthorizedProofs(m, proofs) ==
  \A proof \in proofs : \A case \in proof.cases : case.url.origin \in CanonicalOrigins(m)

\* Prepare plans only within the manifest it validated.
LEMMA PreparedPlans ==
  ASSUME NEW m, NEW contents, NEW stored, NEW database, NEW plan,
         Decoded(m), Locals(contents), Runs(stored),
         plan = Prepare(m, contents, stored, database, FALSE), plan.result = "planned"
  PROVE  /\ FitsBudgets(m, plan.proofs)
         /\ \A proof \in plan.proofs : IsMatrix(proof)
         /\ AuthorizedProofs(m, plan.proofs)
<1>0. plan.result # "refused"
  <2>1. "planned" # "refused"
    OBVIOUS
  <2>2. plan.result = "planned"
    OBVIOUS
  <2>3. QED
    BY <2>1, <2>2, Zenon
<1> DEFINE imported == ImportOperations(m, contents, stored)
           operations == WithinAuthorizedOrigins(imported, m)
           proofs == DiscoverProofs(m, operations)
<1>1. /\ Parse(m, DOMAIN contents)
      /\ plan = PrepareLoaded(m, contents, stored, database, FALSE)
  BY DEF Prepare, Outcome
<1>2. /\ \A input \in Range(m.inputs) : ~ImportFails(input, contents, database)
      /\ ~ReservationFails(m, proofs)
      /\ plan.proofs = proofs
  <2> HIDE DEF proofs
  <2>1. \A result, found : Outcome(result, found).result = result /\ Outcome(result, found).proofs = found
    BY DEF Outcome
  <2>2. plan = IF \/ StateChanging(m)
                  \/ \E input \in Range(m.inputs) : ImportFails(input, contents, database)
               THEN Outcome("refused", {})
               ELSE IF operations = {} \/ ~BolaEnabled(m) THEN Outcome("refused", {})
               ELSE IF proofs = {} THEN Outcome("refused", {})
               ELSE IF ReservationFails(m, proofs) THEN Outcome("refused", {})
               ELSE Outcome("planned", proofs)
    BY <1>1, Zenon DEF PrepareLoaded, proofs
  <2> HIDE DEF operations
  <2>3. plan # Outcome("refused", {})
    <3>1. plan.result # "refused"
      BY <1>0
    <3>2. Outcome("refused", {}).result = "refused"
      BY <2>1
    <3>3. QED
      BY <3>1, <3>2, Zenon
  <2>4. plan = Outcome("planned", proofs) /\ ~ReservationFails(m, proofs)
        /\ \A input \in Range(m.inputs) : ~ImportFails(input, contents, database)
    BY <2>2, <2>3, Zenon
  <2>5. QED
    BY <2>1, <2>4
<1>3. IsFiniteSet(operations)
  <2>1. IsFiniteSet(Range(imported))
    BY <1>1, <1>2, ImportedOperationsFinite
  <2>2. operations \subseteq Range(imported)
    BY DEF WithinAuthorizedOrigins
  <2>3. QED
    BY <2>1, <2>2, FS_Subset
<1> HIDE DEF operations
<1>4. IsFiniteSet(proofs) /\ \A proof \in proofs : OfManifest(m, proof)
  BY <1>3, DiscoveredProofs DEF Decoded
<1> HIDE DEF proofs
<1>5. FitsBudgets(m, proofs)
  <2>1. ValidateTransport(m.transport) /\ ValidateIdentities(m) /\ ValidateBudgets(m)
    BY <1>1 DEF Parse
  <2>2. /\ ~NewLedgerFails(PlannerBudget(m))
        /\ ReserveBatch(PlannerBudget(m), ExactProofCharges(proofs))
    BY <1>2 DEF ReservationFails
  <2>3. QED
    BY <1>4, <2>1, <2>2, FitsWhenReserved
<1>6. \A proof \in proofs : IsMatrix(proof)
  BY <1>4 DEF OfManifest
<1>7. AuthorizedProofs(m, proofs)
  <2>1. \A proof \in proofs : Authorize(m, proof)
    BY <1>2 DEF ReservationFails, BuildFails
  <2>2. QED
    BY <1>6, <2>1, MatrixOrigins DEF Authorize, AuthorizedProofs
<1>8. QED
  BY <1>2, <1>5, <1>6, <1>7

\* The case that a response answers.
LEMMA AnsweredCase ==
  ASSUME NEW proof, IsMatrix(proof), NEW kind \in CaseKind, NEW repeat \in MatrixRepeats
  PROVE  \E case : /\ Responses(proof, kind)[repeat] = Respondent(server.behaviour, proof, case)
                   /\ case.kind = kind /\ case.repeat = repeat
                   /\ case.identity = CaseIdentity(kind, proof.victim, proof.attacker)
                   /\ case.identifier = CaseIdentifier(kind, proof.victim, proof.attacker)
<1>1. PICK first \in proof.cases : proof.cases = Cases(first.url, proof.victim, proof.attacker)
  BY DEF IsMatrix
<1> DEFINE made(k, n) ==
      [kind |-> k, repeat |-> n, identity |-> CaseIdentity(k, proof.victim, proof.attacker),
       identifier |-> CaseIdentifier(k, proof.victim, proof.attacker),
       url |-> first.url, origin |-> CanonicalOrigin(first.url)]
<1>2. proof.cases = {made(k, n) : k \in CaseKind, n \in MatrixRepeats}
  BY <1>1, SMT DEF Cases
<1>3. made(kind, repeat).kind = kind /\ made(kind, repeat).repeat = repeat
  OBVIOUS
<1>4. \A k, n : /\ made(k, n).kind = k /\ made(k, n).repeat = n
                /\ made(k, n).identity = CaseIdentity(k, proof.victim, proof.attacker)
                /\ made(k, n).identifier = CaseIdentifier(k, proof.victim, proof.attacker)
  OBVIOUS
<1> HIDE DEF made
<1>5. PICK chosen : chosen = CHOOSE case \in proof.cases : case.kind = kind /\ case.repeat = repeat
  OBVIOUS
<1>6. chosen \in proof.cases /\ chosen.kind = kind /\ chosen.repeat = repeat
  <2>1. made(kind, repeat) \in proof.cases
    BY <1>2
  <2>2. \E case \in proof.cases : case.kind = kind /\ case.repeat = repeat
    BY <1>3, <2>1
  <2>3. QED
    BY <1>5, <2>2, Zenon
<1>7. PICK k \in CaseKind, n \in MatrixRepeats : chosen = made(k, n)
  BY <1>2, <1>6
<1>8. chosen = made(kind, repeat)
  BY <1>4, <1>6, <1>7
<1>9. Responses(proof, kind)[repeat] = Respondent(server.behaviour, proof, chosen)
  BY <1>5, Zenon DEF Responses
<1>10. QED
  BY <1>4, <1>8, <1>9

\* What the attacker is answered who asks for the object of the victim.
AsksAcross(proof, case) ==
  /\ proof.victim.owner # proof.attacker.owner /\ case.kind = "cross"
  /\ case.identity = proof.attacker.owner /\ case.identifier = proof.victim.identifier

\* Such an identity is not the owner of the object it asks for.
LEMMA CrossOwner ==
  ASSUME NEW proof, NEW case, AsksAcross(proof, case)
  PROVE  /\ case.kind = "cross" /\ case.identity # proof.victim.owner
         /\ case.identifier = proof.victim.identifier
         /\ OwnerOf(proof, case.identifier) # {}
         /\ case.identity \notin OwnerOf(proof, case.identifier)
<1>1. OwnerOf(proof, case.identifier) = {proof.victim.owner}
  BY DEF OwnerOf, AsksAcross
<1>2. QED
  BY <1>1 DEF AsksAcross

\* How each kind of API answers such a case.
LEMMA CrossEnforcing ==
  ASSUME NEW proof, NEW case, AsksAcross(proof, case)
  PROVE  Respondent("enforcing", proof, case) = Denial(403)
  BY CrossOwner DEF Respondent
LEMMA CrossBroken ==
  ASSUME NEW proof, NEW case, AsksAcross(proof, case)
  PROVE  Respondent("broken", proof, case) = Object(proof.victim.identifier)
  BY CrossOwner DEF Respondent
LEMMA CrossFlaky ==
  ASSUME NEW proof, NEW case, AsksAcross(proof, case), case.repeat # 1
  PROVE  Respondent("flaky", proof, case) = Denial(503)
  BY CrossOwner DEF Respondent
LEMMA CrossTraced ==
  ASSUME NEW proof, NEW case, AsksAcross(proof, case)
  PROVE  Respondent("traced", proof, case) = Reply(200, "json", [id |-> proof.victim.identifier,
                                 data |-> <<proof.victim.identifier>>, trace |-> case.repeat])
  BY CrossOwner DEF Respondent
LEMMA CrossList ==
  ASSUME NEW proof, NEW case, AsksAcross(proof, case)
  PROVE  Respondent("list", proof, case) = Reply(200, "json", [id |-> proof.victim.identifier,
                                 peer |-> proof.attacker.identifier, data |-> <<>>])
  BY CrossOwner DEF Respondent
LEMMA CrossHiding ==
  ASSUME NEW proof, NEW case, AsksAcross(proof, case)
  PROVE  LET reply == Respondent("hiding", proof, case)
         IN  reply.body = "json" /\ reply.envelope = TRUE
<1>1. Respondent("hiding", proof, case)
        = [Reply(200, "json", [id |-> case.identifier, data |-> <<>>]) EXCEPT !.envelope = TRUE]
  BY CrossOwner DEF Respondent
<1>2. QED
  BY <1>1 DEF Reply
LEMMA CrossOwn ==
  ASSUME NEW proof, NEW case, AsksAcross(proof, case)
  PROVE  \/ Respondent("own", proof, case) = Denial(401)
         \/ Respondent("own", proof, case) = Object(proof.attacker.identifier)
  BY CrossOwner DEF Respondent

\* A substantive response has a success status, is no error envelope, and is
\* analysed by its fields but the volatile ones.
LEMMA Substantive ==
  ASSUME NEW response, Analyze(response).class = "substantive", response.body = "json"
  PROVE  /\ Success(response) /\ ~response.envelope
         /\ Analyze(response).fields = Normalize(response.fields)
<1>1. Class(response) = "substantive" /\ Analyze(response).fields = Normalize(response.fields)
  BY DEF Analyze
<1>2. Success(response)
  BY <1>1 DEF Class
<1>3. ~response.envelope
  BY <1>1, <1>2 DEF Class
<1>4. QED
  BY <1>1, <1>2, <1>3

\* Fields that are not volatile stay in the analysis.
LEMMA Identified ==
  ASSUME NEW response, Analyze(response).class = "substantive", response.body = "json",
         NEW pointer \in {"id", "peer"}, pointer \in DOMAIN response.fields
  PROVE  ContainsObjectID(Analyze(response), response.fields[pointer])
<1>1. Analyze(response).fields = Normalize(response.fields)
  BY Substantive
<1>2. pointer \notin VolatilePointer /\ pointer \in IdentifierPointer
  BY FieldsAssumption
<1>3. /\ pointer \in DOMAIN Normalize(response.fields)
      /\ Normalize(response.fields)[pointer] = response.fields[pointer]
  BY <1>2, Zenon DEF Normalize, Restrict
<1>4. QED
  BY <1>1, <1>2, <1>3, Zenon DEF ContainsObjectID

\* A denial is not substantive.
LEMMA NoDenial ==
  ASSUME NEW status \in {401, 403, 503}
  PROVE  Analyze(Denial(status)).class # "substantive"
<1>1. Denial(status).status \notin 200..299
  BY DEF Denial, Reply
<1>2. Class(Denial(status)) = "error"
  BY <1>1 DEF Class, Success
<1>3. QED
  BY <1>2 DEF Analyze

\* Evaluate (pkg/modules/bola) is right about a whole matrix, whichever way
\* the API behaves that does not merely echo.
RightVerdict(proof, status) ==
  LET cross == Range(Responses(proof, "cross"))
  IN  server.behaviour # "echo" =>
        /\ status = "confirmed" =>
             proof.expectedDeny /\ \A response \in cross : Leaks(response, proof.victim)
        /\ status = "disproved" /\ proof.expectedDeny =>
             \A response \in cross : ~Leaks(response, proof.victim)

\* A matrix proves a violation only where the API leaks the object, and finds none
\* only where it does not.
LEMMA MatrixVerdicts ==
  ASSUME NEW proof, IsMatrix(proof), server.behaviour \in Behaviour
  PROVE  RightVerdict(proof, Evaluated(proof))
<1> DEFINE cross == Responses(proof, "cross")
           matrix == [victim |-> proof.victim.identifier, attacker |-> proof.attacker.identifier,
                      expectedDeny |-> proof.expectedDeny,
                      victimOwn |-> Responses(proof, "victim-own"),
                      attackerOwn |-> Responses(proof, "attacker-own"),
                      cross |-> cross, negative |-> Responses(proof, "nonexistent")]
<1> SUFFICES ASSUME server.behaviour # "echo"
             PROVE  /\ Evaluated(proof) = "confirmed" =>
                         proof.expectedDeny /\ \A response \in Range(cross) : Leaks(response, proof.victim)
                    /\ Evaluated(proof) = "disproved" /\ proof.expectedDeny =>
                         \A response \in Range(cross) : ~Leaks(response, proof.victim)
  BY DEF RightVerdict
<1>1. Evaluated(proof) = Evaluate(matrix)
  BY Zenon DEF Evaluated
<1>2. /\ matrix.cross = cross /\ matrix.expectedDeny = proof.expectedDeny
      /\ matrix.victim = proof.victim.identifier /\ matrix.attacker = proof.attacker.identifier
  OBVIOUS
<1>3. DOMAIN cross = MatrixRepeats /\ MatrixRepeats = {1, 2}
  BY DEF Responses, MatrixRepeats
<1> HIDE DEF matrix, cross
<1>4. ASSUME Evaluated(proof) = "confirmed"
      PROVE  proof.expectedDeny /\ \A response \in Range(cross) : Leaks(response, proof.victim)
  <2>1. proof.expectedDeny /\ Confirmed(matrix)
    BY <1>1, <1>2, <1>4 DEF Evaluate
  <2>2. /\ Stable(cross)
        /\ ~ContainsObjectID(Analyze(cross[1]), proof.attacker.identifier)
    BY <1>2, <2>1 DEF Confirmed
  <2>3. \A n \in {1, 2} : Analyze(cross[n]).class = "substantive"
    BY <1>3, <2>2 DEF Stable
  <2>4. ASSUME NEW n \in {1, 2} PROVE Leaks(cross[n], proof.victim)
    <3> DEFINE object == proof.victim.identifier
               peer == proof.attacker.identifier
    <3>1. \A m \in {1, 2} : \E case : /\ cross[m] = Respondent(server.behaviour, proof, case)
                                      /\ AsksAcross(proof, case) /\ case.repeat = m
      <4> SUFFICES ASSUME NEW m \in {1, 2}
                   PROVE  \E case : /\ cross[m] = Respondent(server.behaviour, proof, case)
                                    /\ AsksAcross(proof, case) /\ case.repeat = m
        OBVIOUS
      <4>1. PICK case : /\ cross[m] = Respondent(server.behaviour, proof, case)
                        /\ case.kind = "cross" /\ case.repeat = m
                        /\ case.identity = CaseIdentity("cross", proof.victim, proof.attacker)
                        /\ case.identifier = CaseIdentifier("cross", proof.victim, proof.attacker)
        BY <1>3, AnsweredCase DEF CaseKind, cross
      <4>2. AsksAcross(proof, case)
        BY <4>1 DEF CaseIdentity, CaseIdentifier, AsksAcross, IsMatrix
      <4>3. QED
        BY <4>1, <4>2
    <3>2. PICK case : cross[n] = Respondent(server.behaviour, proof, case) /\ AsksAcross(proof, case)
      BY <3>1
    <3>3. PICK first : cross[1] = Respondent(server.behaviour, proof, first) /\ AsksAcross(proof, first)
      BY <3>1
    <3>4. CASE server.behaviour = "enforcing"
      <4>1. cross[n] = Denial(403)
        BY <3>2, <3>4, CrossEnforcing
      <4>2. QED
        BY <2>3, <4>1, NoDenial
    <3>5. CASE server.behaviour = "hiding"
      <4>1. cross[n].body = "json" /\ cross[n].envelope = TRUE
        BY <3>2, <3>5, CrossHiding
      <4>2. QED
        BY <2>3, <4>1, Substantive
    <3>6. CASE server.behaviour = "broken"
      <4>1. cross[n] = Object(object)
        BY <3>2, <3>6, CrossBroken
      <4>2. QED
        BY <4>1 DEF Object, Reply, Leaks, Success
    <3>7. CASE server.behaviour = "traced"
      <4>1. cross[n] = Reply(200, "json", [id |-> object, data |-> <<object>>, trace |-> case.repeat])
        BY <3>2, <3>7, CrossTraced
      <4>2. QED
        BY <4>1 DEF Reply, Leaks, Success
    <3>8. CASE server.behaviour = "flaky"
      <4>1. PICK second : /\ cross[2] = Respondent(server.behaviour, proof, second)
                          /\ AsksAcross(proof, second) /\ second.repeat # 1
        BY <3>1
      <4>2. cross[2] = Denial(503)
        BY <3>8, <4>1, CrossFlaky
      <4>3. QED
        BY <2>3, <4>2, NoDenial
    <3>9. CASE server.behaviour = "own"
      <4>1. cross[1] = Denial(401) \/ cross[1] = Object(peer)
        BY <3>3, <3>9, CrossOwn
      <4>2. cross[1] # Denial(401)
        BY <2>3, NoDenial
      <4>3. /\ cross[1].body = "json" /\ "id" \in DOMAIN cross[1].fields
            /\ cross[1].fields["id"] = peer
        BY <4>1, <4>2 DEF Object, Reply
      <4>4. ContainsObjectID(Analyze(cross[1]), cross[1].fields["id"])
        BY <2>3, <4>3, Identified
      <4>5. QED
        BY <2>2, <4>3, <4>4
    <3>10. CASE server.behaviour = "list"
      <4>1. cross[1] = Reply(200, "json", [id |-> object, peer |-> peer, data |-> <<>>])
        BY <3>3, <3>10, CrossList
      <4>2. /\ cross[1].body = "json" /\ "peer" \in DOMAIN cross[1].fields
            /\ cross[1].fields["peer"] = peer
        BY <4>1 DEF Reply
      <4>3. ContainsObjectID(Analyze(cross[1]), cross[1].fields["peer"])
        BY <2>3, <4>2, Identified
      <4>4. QED
        BY <2>2, <4>2, <4>3
    <3>11. QED
      BY <3>4, <3>5, <3>6, <3>7, <3>8, <3>9, <3>10 DEF Behaviour
  <2>5. QED
    BY <1>3, <2>1, <2>4 DEF Range
<1>5. ASSUME Evaluated(proof) = "disproved", proof.expectedDeny
      PROVE  \A response \in Range(cross) : ~Leaks(response, proof.victim)
  <2>1. Denied(cross)
    BY <1>1, <1>2, <1>5 DEF Evaluate
  <2>2. \A n \in {1, 2} : ~Success(cross[n])
    <3>1. \A n \in {1, 2} : cross[n].status \in {401, 403, 404}
      BY <1>3, <2>1 DEF Denied
    <3>2. \A n \in {1, 2} : cross[n].status \notin 200..299
      BY <3>1
    <3>3. QED
      BY <3>2, Zenon DEF Success
  <2>3. QED
    BY <1>3, <2>2 DEF Leaks, Range
<1>6. QED
  BY <1>4, <1>5

\* The smaller of two integers.
LEMMA MinOfTwo ==
  ASSUME NEW a \in Int, NEW b \in Int
  PROVE  Min({a, b}) = IF a <= b THEN a ELSE b
<1>1. Min({a, b}) = CHOOSE x \in {a, b} : \A y \in {a, b} : x <= y
  BY DEF Min
<1>2. \E x \in {a, b} : \A y \in {a, b} : x <= y
  OBVIOUS
<1>3. Min({a, b}) \in {a, b} /\ \A y \in {a, b} : Min({a, b}) <= y
  BY <1>1, <1>2, Zenon
<1>4. QED
  BY <1>3

\* truncateBruteReports (discovery.go) keeps what fits the limit and says
\* whether that is all.
LEMMA TruncatedReports ==
  ASSUME NEW reports \in Seq(Nat), NEW limit \in Nat
  PROVE  LET kept == TruncateBruteReports(reports, limit)
             total == SumFunction(reports)
         IN  /\ total \in Nat
             /\ kept.shown = IF total <= limit THEN total ELSE limit
             /\ kept.truncated <=> total > limit
<1> DEFINE n == Len(reports)
           V == [shown : 0..limit, truncated : BOOLEAN]
           step(u, x) == [shown |-> Min({u.shown + x, limit}),
                          truncated |-> u.truncated \/ x > limit - u.shown]
           g == [x \in V \X (1..n) |-> step(x[1], reports[x[2]])]
           Eq(h) == h = [s \in SUBSET DOMAIN reports |->
                           IF s = {} THEN [shown |-> 0, truncated |-> FALSE]
                           ELSE step(h[s \ {Max(s)}], reports[Max(s)])]
           it == CHOOSE h : Eq(h)
           sum(s) == SumFunctionOnSet(reports, s)
           Kept(u, total) == /\ u \in V
                             /\ u.shown = IF total <= limit THEN total ELSE limit
                             /\ u.truncated <=> total > limit
<1>1. n \in Nat /\ DOMAIN reports = 1..n /\ \A i \in 1..n : reports[i] \in Nat
  OBVIOUS
<1>2. PICK empty : empty = [shown |-> 0, truncated |-> FALSE]
  OBVIOUS
<1>3. empty \in V
  BY <1>2
<1>4. ASSUME NEW u \in V, NEW x \in Nat
      PROVE  /\ step(u, x) \in V
             /\ step(u, x).shown = IF u.shown + x <= limit THEN u.shown + x ELSE limit
             /\ step(u, x).truncated <=> u.truncated \/ x > limit - u.shown
  <2>1. u.shown + x \in Nat /\ u.truncated \in BOOLEAN
    OBVIOUS
  <2>2. Min({u.shown + x, limit}) = IF u.shown + x <= limit THEN u.shown + x ELSE limit
    BY <2>1, MinOfTwo
  <2>3. step(u, x).shown = Min({u.shown + x, limit})
        /\ (step(u, x).truncated <=> u.truncated \/ x > limit - u.shown)
    OBVIOUS
  <2>4. step(u, x) \in V
    <3>1. Min({u.shown + x, limit}) \in 0..limit
      BY <2>1, <2>2
    <3>2. (u.truncated \/ x > limit - u.shown) \in BOOLEAN
      OBVIOUS
    <3>3. QED
      BY <3>1, <3>2
  <2>5. QED
    BY <2>2, <2>3, <2>4
<1>5. g \in [V \X (1..n) -> V] /\ \A u \in V, i \in 1..n : g[<<u, i>>] = step(u, reports[i])
  <2> HIDE DEF step, V
  <2> QED BY <1>1, <1>4
<1>6. PICK h \in [SUBSET (1..n) -> V] : FoldsUp(h, g, empty, n)
  <2> HIDE DEF g, V, n
  <2> QED BY <1>1, <1>3, <1>5, FoldRuns
<1>7. \A s \in SUBSET (1..n) : s # {} => Max(s) \in s /\ Max(s) \in 1..n
  BY <1>1, MaxIsMember
<1>8. \A s \in SUBSET (1..n) : h[s] = IF s = {} THEN empty ELSE step(h[s \ {Max(s)}], reports[Max(s)])
  <2> SUFFICES ASSUME NEW s \in SUBSET (1..n), s # {} PROVE h[s] = step(h[s \ {Max(s)}], reports[Max(s)])
    <3> HIDE DEF step, g, n
    <3> QED BY <1>6 DEF FoldsUp
  <2> HIDE DEF step, g, V, n
  <2>1. h[s] = g[<<h[s \ {Max(s)}], Max(s)>>]
    BY <1>6 DEF FoldsUp
  <2>2. h[s \ {Max(s)}] \in V
    BY <1>6
  <2>3. QED
    BY <1>5, <1>7, <2>1, <2>2
<1>9. Eq(h)
  <2> HIDE DEF step, n
  <2>1. h = [s \in SUBSET (1..n) |-> h[s]]
    BY <1>6, Zenon
  <2>2. QED
    BY <1>1, <1>2, <1>8, <2>1, Zenon
<1>10. Eq(it)
  <2> HIDE DEF Eq
  <2> QED BY <1>9, Zenon
<1> HIDE DEF it
<1>11. \A s \in SUBSET (1..n) : it[s] = IF s = {} THEN empty ELSE step(it[s \ {Max(s)}], reports[Max(s)])
  <2> HIDE DEF step, n
  <2> QED BY <1>1, <1>2, <1>10, Zenon
<1>12. \A s \in SUBSET (1..n) : IsFiniteSet(s) /\ NatValued(reports, s) /\ sum(s) \in Nat
  <2> SUFFICES ASSUME NEW s \in SUBSET (1..n)
               PROVE  IsFiniteSet(s) /\ NatValued(reports, s) /\ sum(s) \in Nat
    OBVIOUS
  <2>0. IsFiniteSet(1..n)
    BY <1>1, FS_Interval
  <2>1. IsFiniteSet(s)
    <3> HIDE DEF n
    <3> QED BY <2>0, FS_Subset
  <2>2. NatValued(reports, s)
    BY <1>1 DEF NatValued
  <2>3. QED
    BY <2>1, <2>2, SumTyped
<1> DEFINE W == {s \in SUBSET (1..n) : Kept(it[s], sum(s))}
<1>13. {} \in W
  <2>1. it[{}] = empty
    <3> HIDE DEF step, n
    <3> QED BY <1>11, Zenon
  <2>2. sum({}) = 0
    BY SumEmpty
  <2>3. Kept(empty, 0)
    BY <1>2, <1>3
  <2> HIDE DEF Kept, sum
  <2>4. Kept(it[{}], sum({}))
    BY <2>1, <2>2, <2>3, Zenon
  <2>5. QED
    BY <2>4
<1>14. ASSUME NEW s \in SUBSET (1..n), s # {}, s \ {Max(s)} \in W PROVE s \in W
  <2> DEFINE x == reports[Max(s)]
             u == it[s \ {Max(s)}]
             t == sum(s \ {Max(s)})
  <2>1. Max(s) \in s /\ x \in Nat
    BY <1>1, <1>7, <1>14
  <2>2. it[s] = step(u, x)
    <3> HIDE DEF step, n
    <3> QED BY <1>11, <1>14
  <2>3. sum(s) = x + t /\ t \in Nat
    <3>1. sum(s) = x + t
      BY <1>12, <2>1, SumAdd
    <3>2. s \ {Max(s)} \in SUBSET (1..n)
      OBVIOUS
    <3>3. t \in Nat
      <4> HIDE DEF sum
      <4> QED BY <1>12, <3>2
    <3>4. QED
      BY <3>1, <3>3
  <2>4. Kept(u, t)
    BY <1>14
  <2> HIDE DEF x, u, t, sum, step
  <2>5. Kept(step(u, x), x + t)
    <3>1. /\ u \in V /\ u.shown = (IF t <= limit THEN t ELSE limit) /\ (u.truncated <=> t > limit)
      BY <2>4
    <3>2. /\ step(u, x) \in V
          /\ step(u, x).shown = IF u.shown + x <= limit THEN u.shown + x ELSE limit
          /\ step(u, x).truncated <=> u.truncated \/ x > limit - u.shown
      <4> HIDE DEF V
      <4> QED BY <1>4, <2>1, <3>1
    <3>3. step(u, x).shown = IF x + t <= limit THEN x + t ELSE limit
      BY <2>1, <2>3, <3>1, <3>2
    <3>4. step(u, x).truncated <=> x + t > limit
      BY <2>1, <2>3, <3>1, <3>2
    <3>5. QED
      BY <3>2, <3>3, <3>4
  <2> HIDE DEF Kept
  <2>6. Kept(it[s], sum(s))
    BY <2>2, <2>3, <2>5, Zenon
  <2>7. QED
    BY <2>6
<1>15. 1..n \in W
  <2>1. \A s \in SUBSET (1..n) : s # {} => \E x \in s : s \ {x} \in W => s \in W
    <3> HIDE DEF W, n
    <3> QED BY <1>7, <1>14
  <2>2. IsFiniteSet(1..n)
    BY <1>1, FS_Interval
  <2>3. QED
    <3> DEFINE S == 1..n
    <3>1. \A s \in SUBSET S : s # {} => \E x \in s : s \ {x} \in W => s \in W
      BY <2>1
    <3>2. IsFiniteSet(S) /\ {} \in W
      BY <1>13, <2>2
    <3> HIDE DEF W, S
    <3>3. S \in W
      BY <3>1, <3>2, SubsetInduction
    <3>4. QED
      BY <3>3 DEF S
<1>16. TruncateBruteReports(reports, limit) = it[DOMAIN reports]
  BY Zenon DEF TruncateBruteReports, FoldLeft, MapThenFoldSet, it
<1>17. SumFunction(reports) = sum(1..n)
  BY <1>1, Zenon DEF SumFunction
<1>18. Kept(it[1..n], sum(1..n)) /\ sum(1..n) \in Nat
  BY <1>12, <1>15
<1>19. QED
  <2> HIDE DEF sum, n, V
  <2>1. TruncateBruteReports(reports, limit) = it[1..n]
    BY <1>1, <1>16, Zenon
  <2>2. QED
    BY <1>17, <1>18, <2>1

-----------------------------------------------------------------------------
(* The inductive invariant                                                 *)

WorkFields == {"request", "answer", "pc", "index", "plans", "planned", "failed", "manifest",
               "copies", "proofs", "id", "error"}
Places == {"received", "waiting", "working", "preparing", "sending", "assessing", "concluding",
           "copying", "ready", "executing", "cleaning", "preflighted", "answered"}
Busy(w) == w.pc \notin {"received", "waiting", "answered"}
Hosts(s) == {rule.origin : rule \in s.hosts}

\* The options of a server that New accepted.
OptionsOK(s) ==
  /\ New(s) /\ s.slots \in Nat /\ s.maxResults \in Nat /\ s.roots \subseteq File
  /\ s.output \in {"ample", "small", "tiny"} /\ s.behaviour \in Behaviour
  /\ Runs(s.stored)
  /\ s.documents \subseteq {source \in Source : source.kind = "url"}
  /\ \A f \in File : \A content \in s.drafts[f] : IsContent(content)
FilesOK(contents) == DOMAIN contents = File /\ Locals(contents)

\* What the handler of a tool checked before it asked for a slot.
Permits(s, request) ==
  /\ request.tool \in {"scan", "automate", "assess_run", "assess_resume", "run_full_workflow"}
       => s.active /\ (request.acceptRisk => s.destructive)
  /\ request.tool \in {"discover", "brute"}
       => s.active /\ \A i \in DOMAIN request.targets : request.targets[i].origin \in Hosts(s)
  /\ request.tool = "run_full_workflow" /\ ~request.skipBrute
       => \A i \in DOMAIN request.targets : request.targets[i].origin \in Hosts(s)
  /\ request.tool = "run_full_workflow" /\ request.skipBrute
       => \A i \in DOMAIN request.sources : request.sources[i].url.origin \in Hosts(s)

AnswerOK(s, answer) ==
  /\ answer.error \in BOOLEAN /\ answer.shown <= s.maxResults
  /\ ~answer.error => (answer.truncated <=> answer.shown < answer.total)
Typed(w) ==
  /\ DOMAIN w = WorkFields /\ IsRequest(w.request) /\ w.pc \in Places
  /\ w.index \in Nat \ {0} /\ w.plans \in Seq(Scan!Request) /\ IsFiniteSet(w.planned)
  /\ w.failed \subseteq Nat /\ w.id \subseteq Id /\ w.error \in BOOLEAN
  /\ DOMAIN w.copies \subseteq File /\ Locals(w.copies)
\* A call that has only begun holds nothing.
Fresh(w) ==
  w.pc \in {"received", "waiting", "working"} =>
    /\ Len(w.plans) = 0 /\ w.planned = {} /\ w.manifest = {} /\ w.proofs = {} /\ w.id = {}
    /\ DOMAIN w.copies = {}
InPlace(w) ==
  LET tool == w.request.tool
  IN  /\ w.pc = "preparing" => tool = "automate"
      /\ w.pc = "sending" => tool \in {"scan", "automate"}
      /\ w.pc \in {"copying", "ready"} => tool \in {"assess_plan", "assess_run"}
      /\ w.pc = "executing" => tool \in {"assess_run", "assess_resume"}
      /\ w.pc = "cleaning" => tool \in {"assess_plan", "assess_run", "assess_resume"}
      /\ w.pc = "preflighted" => tool \in {"assess_resume", "assess_status", "assess_report"}
      /\ w.pc \in {"assessing", "concluding"} => tool = "run_full_workflow"
\* The plans of a scan go to the operator's hosts and fit the answer.
ScanOK(s, w) ==
  /\ w.pc \in {"preparing", "sending"}
       => \A i \in 1..Len(w.plans) : w.plans[i].origin \in Hosts(s)
  /\ w.pc = "preparing" => /\ Len(w.plans) <= Cardinality(w.planned)
                           /\ Cardinality(w.planned) <= s.maxResults
  /\ w.pc = "sending" => Len(w.plans) <= s.maxResults
\* The manifest of a snapshot names only the operator's hosts.
SnapshotOK(s, w) ==
  w.pc \in {"copying", "ready"} =>
    \E m : w.manifest = {m} /\ Decoded(m) /\ CanonicalOrigins(m) \subseteq Hosts(s)
BudgetsOK(w) == w.proofs # {} => FitsBudgets(The(w.manifest), w.proofs)
RunsItself(c, w) ==
  w.request.tool \in {"assess_run", "run_full_workflow"} /\ w.id # {} => w.id = {c}
Local(s, c, w) ==
  /\ Typed(w) /\ AnswerOK(s, w.answer) /\ Fresh(w) /\ InPlace(w)
  /\ w.pc \notin {"received", "answered"} => Permits(s, w.request)
  /\ ScanOK(s, w) /\ SnapshotOK(s, w) /\ BudgetsOK(w) /\ RunsItself(c, w)

\* An assessment that may be sent.
Safe(s, stored) ==
  /\ stored.status # "none"
  /\ \A proof \in stored.proofs : \A case \in proof.cases : case.url.origin \in Hosts(s)
Snapshotted(c, w, snaps) ==
  c \in snaps =>
    /\ w.request.tool \in {"assess_plan", "assess_run"}
    /\ w.pc \in {"copying", "ready", "executing", "cleaning", "answered"}
    /\ w.pc = "answered" => w.answer.error
\* An assessment the call began is named by it.
Begun(s, c, w, stored) ==
  stored[c].status # "none" =>
    /\ w.request.tool = "assess_run" /\ w.id = {c}
    /\ w.pc \in {"executing", "cleaning", "answered"}
    /\ w.pc = "answered" /\ s.output # "tiny" => w.answer.id = {c}
Completed(c, w, stored) ==
  /\ w.request.tool = "assess_run" /\ w.pc = "cleaning" /\ ~w.error
       => stored[c].status = "succeeded"
  /\ w.request.tool = "assess_run" /\ w.pc = "answered" /\ ~w.answer.error
       => stored[c].status = "succeeded"
\* A call executes an assessment under its lease.
Held(s, w, stored) ==
  w.pc \in {"executing", "preflighted"} =>
    \E i \in Id : /\ w.id = {i} /\ Safe(s, stored[i])
                  /\ w.pc = "executing" => stored[i].status = "running" /\ stored[i].leased
                  /\ w.pc = "preflighted" => i = w.request.id
\* What an answer says of the assessment a workflow began; an assess_run that
\* has begun none is answered with an error.
Reports(w, answer) ==
  /\ w.request.tool = "assess_run" => answer.error
  /\ w.request.tool = "run_full_workflow" =>
       /\ answer.id \subseteq w.id
       /\ ~answer.error /\ ~w.request.skipAssessment => w.id # {}
Concluded(w) ==
  w.request.tool = "run_full_workflow" =>
    /\ w.pc = "concluding" /\ ~w.error /\ ~w.request.skipAssessment => w.id # {}
    /\ w.pc = "answered" => Reports(w, w.answer)
Link(s, c, w, snaps, stored) ==
  /\ Snapshotted(c, w, snaps) /\ Begun(s, c, w, stored)
  /\ Completed(c, w, stored) /\ Held(s, w, stored) /\ Concluded(w)

StoreOK(stored) == DOMAIN stored = Id /\ \A i \in Id : IsAssessment(stored[i])
\* What a workflow sends past the hosts of the operator.
Outside(request, asked) ==
  /\ asked.tool = "run_full_workflow"
  /\ request.kind = "operation" \/ (request.kind = "fetch" /\ asked.runs # {})
SentOK(s, calls, out) ==
  \A request \in out :
    /\ request.call \in Call
    /\ request.url.origin \in Hosts(s) \/ Outside(request, calls[request.call].request)
    /\ request.kind # "fetch" => s.active
    /\ request.unsafe => s.destructive /\ calls[request.call].request.acceptRisk
VerdictsOK == \A verdict \in verdicts : RightVerdict(verdict.proof, verdict.status)
SlotsOK(s, calls, held) ==
  held = {c \in Call : Busy(calls[c])} /\ IsFiniteSet(held) /\ Cardinality(held) <= s.slots
Alone(calls) ==
  \A c, d \in Call :
    c # d /\ calls[c].pc = "executing" /\ calls[d].pc = "executing" => calls[c].id # calls[d].id

ServerInv ==
  /\ OptionsOK(server) /\ FilesOK(files) /\ writes \in 0..MaxWrites
  /\ DOMAIN call = Call /\ \A c \in Call : Local(server, c, call[c])
  /\ SlotsOK(server, call, slots) /\ snapshots \subseteq Call /\ StoreOK(assessments)
  /\ \A c \in Call : Link(server, c, call[c], snapshots, assessments)
  /\ Alone(call) /\ SentOK(server, call, sent) /\ VerdictsOK

-----------------------------------------------------------------------------
(* What one step of a call may do                                          *)

\* Call c becomes v, and no other call changes.
Moved(c, v) ==
  DOMAIN call' = Call /\ call'[c] = v /\ \A d \in Call \ {c} : call'[d] = call[d]
\* Call c takes a slot, keeps it or leaves it.
SlotMoved(c, v) ==
  \/ /\ slots' = slots /\ (Busy(v) <=> Busy(call[c]))
  \/ /\ slots' = slots \ {c} /\ ~Busy(v)
  \/ /\ slots' = slots \cup {c} /\ Busy(v) /\ Cardinality(slots) < server.slots
\* Other calls keep their assessments: one that changes was not being executed
\* by another, and it had begun unless it is the call's own.
StoreMoved(c) ==
  \A i \in Id :
    \/ assessments'[i] = assessments[i]
    \/ /\ Safe(server, assessments'[i])
       /\ \/ assessments[i].status \in {"running", "canceled"}
          \/ i = c /\ assessments[i].status = "none"
       /\ \A d \in Call \ {c} : call[d].pc = "executing" => call[d].id # {i}
Effect(c, v) ==
  /\ Moved(c, v) /\ v.request = call[c].request /\ Local(server, c, v) /\ SlotMoved(c, v)
  /\ Link(server, c, v, snapshots', assessments')
  /\ snapshots' \subseteq Call /\ snapshots' \ {c} = snapshots \ {c}
  /\ StoreOK(assessments') /\ StoreMoved(c)
  /\ v.pc = "executing" => \A d \in Call \ {c} : call[d].pc = "executing" => call[d].id # v.id
  /\ SentOK(server, call, sent') /\ VerdictsOK'
  /\ server' = server /\ files' = files /\ writes' = writes

\* A slot is held by the calls that work and by no other, whatever c does with it.
LEMMA SlotsKept ==
  ASSUME NEW c \in Call, NEW v, server.slots \in Nat, SlotsOK(server, call, slots),
         Moved(c, v), SlotMoved(c, v)
  PROVE  SlotsOK(server, call', slots')
<1> DEFINE held == {d \in Call : Busy(call'[d])}
<1>1. IsFiniteSet(slots) /\ Cardinality(slots) \in Nat /\ Cardinality(slots) <= server.slots
      /\ slots = {d \in Call : Busy(call[d])}
  BY FS_CardinalityType DEF SlotsOK
<1>2. \A d \in Call \ {c} : Busy(call'[d]) <=> Busy(call[d])
  BY DEF Moved, Busy
<1>3. Busy(call'[c]) <=> Busy(v)
  BY DEF Moved, Busy
<1>4. CASE slots' = slots /\ (Busy(v) <=> Busy(call[c]))
  <2>1. slots' = held
    BY <1>1, <1>2, <1>3, <1>4
  <2>2. QED
    BY <1>1, <1>4, <2>1 DEF SlotsOK
<1>5. CASE slots' = slots \ {c} /\ ~Busy(v)
  <2>1. slots' = held
    BY <1>1, <1>2, <1>3, <1>5
  <2>2. IsFiniteSet(slots') /\ Cardinality(slots') <= Cardinality(slots)
    BY <1>1, <1>5, FS_Subset
  <2>3. Cardinality(slots') \in Nat
    BY <2>2, FS_CardinalityType
  <2>4. Cardinality(slots') <= server.slots
    BY <1>1, <2>2, <2>3
  <2>5. QED
    BY <2>1, <2>2, <2>4 DEF SlotsOK
<1>6. CASE slots' = slots \cup {c} /\ Busy(v) /\ Cardinality(slots) < server.slots
  <2>1. slots' = held
    BY <1>1, <1>2, <1>3, <1>6
  <2>2. IsFiniteSet(slots \cup {c}) /\ Cardinality(slots \cup {c}) <= Cardinality(slots) + 1
    <3>1. /\ IsFiniteSet(slots \cup {c})
          /\ Cardinality(slots \cup {c}) = IF c \in slots THEN Cardinality(slots)
                                           ELSE Cardinality(slots) + 1
      BY <1>1, FS_AddElement, Zenon
    <3>2. QED
      BY <1>1, <3>1
  <2>3. IsFiniteSet(slots') /\ Cardinality(slots') <= Cardinality(slots) + 1
    BY <1>6, <2>2
  <2>4. Cardinality(slots') \in Nat
    BY <2>3, FS_CardinalityType
  <2>5. Cardinality(slots') <= server.slots
    BY <1>1, <1>6, <2>3, <2>4
  <2>6. QED
    BY <2>1, <2>3, <2>5 DEF SlotsOK
<1>7. QED
  BY <1>4, <1>5, <1>6 DEF SlotMoved

\* What a call does to the store leaves the other calls as they were.
LEMMA OthersLinked ==
  ASSUME NEW c \in Call, NEW d \in Call \ {c}, StoreMoved(c),
         snapshots' \ {c} = snapshots \ {c},
         Link(server, d, call[d], snapshots, assessments)
  PROVE  Link(server, d, call[d], snapshots', assessments')
<1> DEFINE w == call[d]
<1>1. d \in Id
  BY DEF Id
<1>2. Snapshotted(d, w, snapshots')
  <2>1. d \in snapshots' => d \in snapshots
    OBVIOUS
  <2>2. QED
    BY <2>1 DEF Link, Snapshotted
<1>3. assessments'[d] = assessments[d] \/ assessments[d].status \in {"running", "canceled"}
  BY <1>1 DEF StoreMoved
<1>4. Begun(server, d, w, assessments')
  BY <1>3 DEF Link, Begun
<1>5. Completed(d, w, assessments')
  BY <1>3 DEF Link, Completed
<1>6. Held(server, w, assessments')
  <2> SUFFICES ASSUME w.pc \in {"executing", "preflighted"}
               PROVE  \E i \in Id :
                        /\ w.id = {i} /\ Safe(server, assessments'[i])
                        /\ w.pc = "executing" => assessments'[i].status = "running" /\ assessments'[i].leased
                        /\ w.pc = "preflighted" => i = w.request.id
    BY DEF Held
  <2>1. PICK i \in Id : /\ w.id = {i} /\ Safe(server, assessments[i])
                        /\ w.pc = "executing" => assessments[i].status = "running" /\ assessments[i].leased
                        /\ w.pc = "preflighted" => i = w.request.id
    BY DEF Link, Held
  <2>2. Safe(server, assessments'[i])
    BY <2>1 DEF StoreMoved
  <2>3. w.pc = "executing" => assessments'[i] = assessments[i]
    BY <2>1 DEF StoreMoved
  <2>4. QED
    BY <2>1, <2>2, <2>3
<1>7. QED
  BY <1>2, <1>4, <1>5, <1>6 DEF Link, Concluded

\* What has an effect of this form keeps the invariant. Each action is shown to
\* have one, so that only the call that acts has to be looked at.
LEMMA EffectKeeps ==
  ASSUME ServerInv, NEW c \in Call, NEW v, Effect(c, v)
  PROVE  ServerInv'
<1>1. OptionsOK(server') /\ FilesOK(files') /\ writes' \in 0..MaxWrites
  BY DEF ServerInv, Effect
<1>2. DOMAIN call' = Call /\ \A d \in Call : Local(server', d, call'[d])
  BY DEF ServerInv, Effect, Moved
<1>3. SlotsOK(server', call', slots')
  BY SlotsKept DEF ServerInv, Effect, OptionsOK
<1>4. snapshots' \subseteq Call /\ StoreOK(assessments')
  BY DEF Effect
<1>5. \A d \in Call : Link(server', d, call'[d], snapshots', assessments')
  <2> SUFFICES ASSUME NEW d \in Call PROVE Link(server', d, call'[d], snapshots', assessments')
    OBVIOUS
  <2>1. CASE d = c
    BY <2>1 DEF Effect, Moved
  <2>2. CASE d # c
    <3>1. Link(server, d, call[d], snapshots', assessments')
      BY <2>2, OthersLinked DEF ServerInv, Effect
    <3>2. QED
      BY <2>2, <3>1 DEF Effect, Moved
  <2>3. QED
    BY <2>1, <2>2
<1>6. Alone(call')
  <2>1. \A d, e \in Call \ {c} : d # e /\ call[d].pc = "executing" /\ call[e].pc = "executing"
                                  => call[d].id # call[e].id
    BY DEF ServerInv, Alone
  <2>2. v.pc = "executing" => \A d \in Call \ {c} : call[d].pc = "executing" => call[d].id # v.id
    BY DEF Effect
  <2>3. call'[c] = v /\ \A d \in Call \ {c} : call'[d] = call[d]
    BY DEF Effect, Moved
  <2>4. QED
    BY <2>1, <2>2, <2>3 DEF Alone
<1>7. SentOK(server', call', sent')
  <2>1. \A d \in Call : call'[d].request = call[d].request
    BY DEF Effect, Moved
  <2>2. SentOK(server, call, sent') /\ server' = server
    BY DEF Effect
  <2>3. QED
    BY <2>1, <2>2 DEF SentOK
<1>8. VerdictsOK'
  BY DEF Effect
<1>9. QED
  BY <1>1, <1>2, <1>3, <1>4, <1>5, <1>6, <1>7, <1>8 DEF ServerInv

\* A verdict is about the API behind the server's hosts, which stays.
LEMMA SameVerdict ==
  ASSUME NEW proof, NEW status, server' = server
  PROVE  RightVerdict(proof, status)' <=> RightVerdict(proof, status)
  BY DEF RightVerdict, Responses, Leaks, Success

\* A step that gives no verdict keeps the earlier ones right.
LEMMA SameVerdicts ==
  ASSUME VerdictsOK, server' = server, verdicts' = verdicts
  PROVE  VerdictsOK'
  BY SameVerdict DEF VerdictsOK

\* A response ends the call, leaves its slot and keeps what it had.
LEMMA Responds ==
  ASSUME ServerInv, NEW c \in Call, NEW answer, Respond(c, answer), AnswerOK(server, answer)
  PROVE  \E v : /\ Moved(c, v) /\ SlotMoved(c, v) /\ Local(server, c, v)
               /\ v.pc = "answered" /\ v.answer = answer
               /\ v.request = call[c].request /\ v.id = call[c].id /\ v.error = call[c].error
<1>0. PICK v : v = [call[c] EXCEPT !.pc = "answered", !.answer = answer]
  OBVIOUS
<1>1. DOMAIN call = Call /\ Local(server, c, call[c]) /\ DOMAIN call[c] = WorkFields
  BY DEF ServerInv, Local, Typed
<1>2. Moved(c, v)
  BY <1>0, <1>1 DEF Respond, Moved, WorkFields
<1>3. /\ DOMAIN v = WorkFields /\ v.pc = "answered" /\ v.answer = answer
      /\ \A x \in WorkFields \ {"pc", "answer"} : v[x] = call[c][x]
  BY <1>0, <1>1 DEF WorkFields
<1>4. /\ v.request = call[c].request /\ v.index = call[c].index /\ v.plans = call[c].plans
      /\ v.planned = call[c].planned /\ v.failed = call[c].failed
      /\ v.manifest = call[c].manifest /\ v.copies = call[c].copies
      /\ v.proofs = call[c].proofs /\ v.id = call[c].id /\ v.error = call[c].error
  BY <1>3 DEF WorkFields
<1>5. Local(server, c, v)
  <2>1. Typed(v)
    BY <1>1, <1>3, <1>4 DEF Local, Typed, Places
  <2>2. Fresh(v) /\ InPlace(v) /\ ScanOK(server, v) /\ SnapshotOK(server, v)
    BY <1>3 DEF Fresh, InPlace, ScanOK, SnapshotOK
  <2>3. BudgetsOK(v) /\ RunsItself(c, v)
    BY <1>1, <1>4 DEF Local, BudgetsOK, RunsItself
  <2>4. QED
    BY <1>3, <2>1, <2>2, <2>3 DEF Local
<1>6. SlotMoved(c, v)
  BY <1>3 DEF Respond, Released, SlotMoved, Busy
<1>7. QED
  BY <1>2, <1>3, <1>4, <1>5, <1>6

\* Places where a call has begun no assessment and made no snapshot.
Unlinked == {"received", "waiting", "working", "preparing", "sending", "assessing", "concluding",
             "preflighted"}

\* Such a call has nothing in the assessment store.
LEMMA UnlinkedCalls ==
  ASSUME ServerInv, NEW c \in Call, call[c].pc \in Unlinked
  PROVE  c \notin snapshots /\ assessments[c].status = "none"
  BY DEF ServerInv, Link, Snapshotted, Begun, Unlinked

WorldKept == server' = server /\ UNCHANGED world /\ SentOK(server, call, sent')

\* Steps that leave the store and the files alone.
LEMMA QuietWorld ==
  ASSUME ServerInv, NEW c \in Call, WorldKept
  PROVE  /\ snapshots' \subseteq Call /\ snapshots' \ {c} = snapshots \ {c}
         /\ StoreOK(assessments') /\ StoreMoved(c)
         /\ SentOK(server, call, sent') /\ VerdictsOK'
         /\ server' = server /\ files' = files /\ writes' = writes
<1>1. VerdictsOK'
  BY SameVerdicts DEF ServerInv, WorldKept, world
<1>2. QED
  BY <1>1 DEF ServerInv, WorldKept, world, StoreMoved

\* A call that had begun no assessment is answered.
LEMMA QuietAnswer ==
  ASSUME ServerInv, NEW c \in Call, NEW answer, Respond(c, answer), AnswerOK(server, answer),
         call[c].pc \in Unlinked, Reports(call[c], answer), WorldKept
  PROVE  \E v : Effect(c, v)
<1>2. PICK v : /\ Moved(c, v) /\ SlotMoved(c, v) /\ Local(server, c, v)
               /\ v.pc = "answered" /\ v.answer = answer
               /\ v.request = call[c].request /\ v.id = call[c].id
  BY Responds
<1>3. c \notin snapshots /\ assessments[c].status = "none"
  BY UnlinkedCalls
<1>4. snapshots' = snapshots /\ assessments' = assessments
  BY DEF WorldKept, world
<1>5. Link(server, c, v, snapshots', assessments')
  BY <1>2, <1>3, <1>4 DEF Link, Snapshotted, Begun, Completed, Held, Concluded, Reports
<1>6. QED
  BY <1>2, <1>5, QuietWorld DEF Effect

\* Goto moves one call.
LEMMA Goes ==
  ASSUME ServerInv, NEW c \in Call, NEW v, Goto(c, v)
  PROVE  Moved(c, v)
  BY DEF ServerInv, Goto, Moved

\* A call moves on and leaves the store and the files alone.
LEMMA QuietMove ==
  ASSUME ServerInv, NEW c \in Call, NEW v, Goto(c, v), v.request = call[c].request,
         Local(server, c, v), Busy(v) <=> Busy(call[c]), WorldKept, v.pc # "executing",
         Link(server, c, v, snapshots, assessments)
  PROVE  Effect(c, v)
<1>1. Moved(c, v) /\ SlotMoved(c, v)
  BY Goes DEF Goto, SlotMoved
<1>2. snapshots' = snapshots /\ assessments' = assessments
  BY DEF WorldKept, world
<1>3. QED
  BY <1>1, <1>2, QuietWorld DEF Effect
\* A move between places without a snapshot or an assessment.
LEMMA EarlyLink ==
  ASSUME ServerInv, NEW c \in Call, call[c].pc \in Unlinked, NEW v, v.request = call[c].request,
         v.pc \in Unlinked \ {"preflighted"}, v.pc = "concluding" => Concluded(v)
  PROVE  Link(server, c, v, snapshots, assessments)
  BY UnlinkedCalls DEF Link, Snapshotted, Begun, Completed, Held, Concluded, Unlinked

-----------------------------------------------------------------------------
(* Steps every call has                                                    *)

LEMMA FailureOK ==
  ASSUME ServerInv
  PROVE  AnswerOK(server, Failure) /\ Failure.error /\ \A w : Reports(w, Failure)
  BY DEF ServerInv, OptionsOK, New, AnswerOK, Failure, Answer, Reports

\* An answer that is not truncated shows everything.
LEMMA CompleteOK ==
  ASSUME ServerInv, NEW n \in Nat, n <= server.maxResults
  PROVE  AnswerOK(server, Complete(n))
  BY DEF AnswerOK, Complete, Answer

\* A step that sends nothing sends nothing unauthorized.
LEMMA QuietSent ==
  ASSUME ServerInv, Quiet PROVE SentOK(server, call, sent')
  BY DEF ServerInv, Quiet, SentOK

\* The handlers' checks permit what they are for.
LEMMA AdmittedPermits ==
  ASSUME NEW request, IsRequest(request), Admitted(request)
  PROVE  Permits(server, request)
<1>1. CASE request.tool \in {"scan", "assess_run", "assess_resume"}
  BY <1>1 DEF Admitted, ActiveAllowed, Permits
<1>2. CASE request.tool = "automate"
  BY <1>2 DEF Admitted, ValidateAutomateRequest, ActiveAllowed, Permits
<1>3. CASE request.tool = "discover"
  <2>1. Len(request.targets) = 1 /\ CheckURL(request.targets[1]) /\ server.active
    BY <1>3 DEF Admitted
  <2>2. DOMAIN request.targets = {1}
    BY <2>1 DEF IsRequest
  <2>3. QED
    BY <1>3, <2>1, <2>2 DEF Permits, CheckURL, Hosts
<1>4. CASE request.tool = "brute"
  BY <1>4 DEF Admitted, Permits, CheckURL, Hosts
<1>5. CASE request.tool = "run_full_workflow"
  <2>1. ActiveAllowed(request) /\ ValidateFullWorkflowSources(request)
    BY <1>5, Zenon DEF Admitted, ValidateFullWorkflowInput
  <2>2. ~request.skipBrute =>
          \A i \in DOMAIN request.targets : request.targets[i].origin \in Hosts(server)
    BY <2>1 DEF ValidateFullWorkflowSources, CheckURL, Hosts
  <2>3. request.skipBrute =>
          \A i \in DOMAIN request.sources : request.sources[i].url.origin \in Hosts(server)
    BY <2>1 DEF ValidateFullWorkflowSources, CheckURL, Hosts
  <2>4. QED
    BY <1>5, <2>1, <2>2, <2>3 DEF ActiveAllowed, Permits
<1>6. QED
  BY <1>1, <1>2, <1>3, <1>4, <1>5 DEF Permits

\* A call that only moves to another place.
LEMMA OnlyPlace ==
  ASSUME NEW s, NEW c, NEW w, Local(s, c, w), NEW pc \in Places, NEW v, v = [w EXCEPT !.pc = pc]
  PROVE  /\ v.pc = pc /\ v.request = w.request /\ v.plans = w.plans /\ v.planned = w.planned
         /\ v.manifest = w.manifest /\ v.copies = w.copies /\ v.proofs = w.proofs /\ v.id = w.id
         /\ v.error = w.error /\ v.index = w.index /\ v.answer = w.answer
         /\ Typed(v) /\ AnswerOK(s, v.answer) /\ BudgetsOK(v) /\ RunsItself(c, v)
<1>1. DOMAIN w = WorkFields
  BY DEF Local, Typed
<1>2. /\ DOMAIN v = WorkFields /\ v.pc = pc
      /\ v.request = w.request /\ v.plans = w.plans /\ v.planned = w.planned
      /\ v.manifest = w.manifest /\ v.copies = w.copies /\ v.proofs = w.proofs /\ v.id = w.id
      /\ v.error = w.error /\ v.index = w.index /\ v.answer = w.answer /\ v.failed = w.failed
  BY <1>1 DEF WorkFields
<1>3. Typed(v) /\ AnswerOK(s, v.answer)
  BY <1>2 DEF Local, Typed
<1>4. BudgetsOK(v) /\ RunsItself(c, v)
  BY <1>2 DEF Local, BudgetsOK, RunsItself
<1>5. QED
  BY <1>2, <1>3, <1>4

\* The handlers check arguments before they ask for a slot (server.go).
LEMMA ReceiveEffect ==
  ASSUME ServerInv, NEW c \in Call, Receive(c), server' = server
  PROVE  \E v : Effect(c, v)
<1> DEFINE w == call[c]
<1>1. w.pc = "received" /\ Local(server, c, w) /\ WorldKept
  BY QuietSent DEF ServerInv, Receive, At, WorldKept
<1>2. CASE Admitted(w.request)
  <2>1. PICK v : v = [w EXCEPT !.pc = "waiting"]
    OBVIOUS
  <2>2. Goto(c, v)
    BY <1>2, <2>1 DEF Receive
  <2>3. /\ v.pc = "waiting" /\ v.request = w.request /\ v.plans = w.plans /\ v.planned = w.planned
        /\ v.manifest = w.manifest /\ v.copies = w.copies /\ v.proofs = w.proofs /\ v.id = w.id
        /\ Typed(v) /\ AnswerOK(server, v.answer) /\ BudgetsOK(v) /\ RunsItself(c, v)
    BY <1>1, <2>1, OnlyPlace DEF Places
  <2>4. Permits(server, v.request)
    BY <1>1, <1>2, <2>3, AdmittedPermits DEF Local, Typed
  <2>5. Fresh(v)
    BY <1>1, <2>3 DEF Local, Fresh
  <2>6. Local(server, c, v)
    BY <2>3, <2>4, <2>5 DEF Local, InPlace, ScanOK, SnapshotOK
  <2>7. Link(server, c, v, snapshots, assessments)
    BY <1>1, <2>3, EarlyLink DEF Unlinked
  <2>8. Effect(c, v)
    BY <1>1, <2>2, <2>3, <2>6, <2>7, QuietMove DEF Busy
  <2>9. QED
    BY <2>8
<1>3. CASE ~Admitted(w.request)
  <2>1. Respond(c, Failure)
    BY <1>3 DEF Receive
  <2>2. QED
    BY <1>1, <2>1, FailureOK, QuietAnswer DEF Unlinked
<1>4. QED
  BY <1>2, <1>3

\* acquire takes a slot only while one is free.
LEMMA AcquireEffect ==
  ASSUME ServerInv, NEW c \in Call, Acquire(c), server' = server
  PROVE  \E v : Effect(c, v)
<1> DEFINE w == call[c]
<1>1. w.pc = "waiting" /\ Local(server, c, w) /\ WorldKept
  BY QuietSent DEF ServerInv, Acquire, At, WorldKept
<1>2. PICK v : v = [w EXCEPT !.pc = "working"]
  OBVIOUS
<1>3. Moved(c, v)
  BY <1>1, <1>2 DEF ServerInv, Local, Typed, WorkFields, Acquire, Moved
<1>4. /\ v.pc = "working" /\ v.request = w.request /\ v.plans = w.plans /\ v.planned = w.planned
      /\ v.manifest = w.manifest /\ v.copies = w.copies /\ v.proofs = w.proofs /\ v.id = w.id
      /\ Typed(v) /\ AnswerOK(server, v.answer) /\ BudgetsOK(v) /\ RunsItself(c, v)
  BY <1>1, <1>2, OnlyPlace DEF Places
<1>5. Local(server, c, v)
  BY <1>1, <1>4 DEF Local, InPlace, ScanOK, SnapshotOK, Fresh
<1>6. SlotMoved(c, v)
  BY <1>4 DEF Acquire, SlotFree, SlotMoved, Busy
<1>7. Link(server, c, v, snapshots', assessments')
  <2>1. Link(server, c, v, snapshots, assessments)
    BY <1>1, <1>4, EarlyLink DEF Unlinked
  <2>2. QED
    BY <1>1, <2>1 DEF WorldKept, world
<1>8. Effect(c, v)
  BY <1>1, <1>3, <1>4, <1>5, <1>6, <1>7, QuietWorld DEF Effect
<1>9. QED
  BY <1>8

\* A canceled call gives its slot back if it had one.
LEMMA CancelEffect ==
  ASSUME ServerInv, NEW c \in Call, CancelCall(c), server' = server
  PROVE  \E v : Effect(c, v)
<1>1. call[c].pc \in Unlinked /\ Respond(c, Failure) /\ WorldKept
  BY QuietSent DEF CancelCall, WorldKept, Unlinked
<1>2. QED
  BY <1>1, FailureOK, QuietAnswer

\* fits is a truth value, whatever the operator allows.
LEMMA FitsTyped ==
  ASSUME ServerInv PROVE Fits \subseteq BOOLEAN
<1>1. PICK table : table = [ample |-> {TRUE}, small |-> BOOLEAN, tiny |-> {FALSE}]
  OBVIOUS
<1>2. table["ample"] = {TRUE} /\ table["small"] = BOOLEAN /\ table["tiny"] = {FALSE}
  BY <1>1
<1>3. server.output \in {"ample", "small", "tiny"} /\ Fits = table[server.output]
  BY <1>1, Zenon DEF ServerInv, OptionsOK, Fits
<1>4. QED
  BY <1>2, <1>3

\* A fetch leaves for a host that validateSource allowed.
LEMMA FetchSent ==
  ASSUME ServerInv, NEW c \in Call, NEW source, Sends(c, "fetch", Fetched(source), FALSE)
  PROVE  SentOK(server, call, sent')
<1>1. \A url \in Fetched(source) : url.origin \in Hosts(server)
  BY DEF Fetched, ValidateSource, CheckURL, Hosts
<1>2. \A request \in sent' : request \in sent
        \/ \E url \in Fetched(source) : request = [call |-> c, kind |-> "fetch", url |-> url, unsafe |-> FALSE]
  BY DEF Sends, Outgoing
<1>3. QED
  BY <1>1, <1>2 DEF ServerInv, SentOK

\* The plans of a source are requests to origins.
LEMMA PlansTyped ==
  ASSUME NEW request, IsRequest(request), NEW source \in Source
  PROVE  PlansFrom(request, source) \in Seq(Scan!Request)
<1> DEFINE config == PlanConfig(request)
           origin == IF source.kind = "url" THEN source.url.origin ELSE source.document.server.origin
<1>1. source.document \in Scan!Document /\ source.url \in Authority
  BY DEF Source
<1>2. origin \in Origin
  BY <1>1 DEF Authority, Scan!Document, Scan!Server
<1>3. config \in Scan!PlanConfig
  <2>1. Excluded(request) \in SUBSET Scan!Method
    BY DEF Excluded, Scan!Method
  <2>2. request.target \in SUBSET Origin /\ request.allowPatch \in BOOLEAN
    BY DEF IsRequest
  <2>3. QED
    BY <2>1, <2>2 DEF PlanConfig, Scan!PlanConfig
<1>4. PlansFrom(request, source) = Scan!BuildRequestPlans(source.document, config, origin)
  BY Zenon DEF PlansFrom
<1> HIDE DEF config, origin
<1>5. Scan!BuildRequestPlans(source.document, config, origin) \in Seq(PlannedRequest(config))
  BY <1>1, <1>2, <1>3, RequestPlansTyped
<1>6. PlannedRequest(config) \subseteq Scan!Request
  BY DEF PlannedRequest
<1>7. QED
  BY <1>4, <1>5, <1>6

\* The plans of one source that pass validateAutomatePlanTargets.
LEMMA AllowedPlans ==
  ASSUME NEW plans \in Seq(Scan!Request), TargetsAllowed(plans)
  PROVE  \A i \in 1..Len(plans) : plans[i].origin \in Hosts(server)
  BY DEF TargetsAllowed, CheckURL, Spelled, Hosts

\* The tools that only read a document answer within the limits.
LEMMA DocumentAnswer ==
  ASSUME ServerInv, NEW c \in Call, NEW loaded, NEW fits,
         Tool(c) = "plan" => PlansFrom(call[c].request, call[c].request.source) \in Seq(Scan!Request)
  PROVE  AnswerOK(server, DocumentResult(c, loaded, fits))
<1> DEFINE plans == PlansFrom(call[c].request, call[c].request.source)
           n == IF Tool(c) = "plan" THEN Len(plans) ELSE 1
<1>1. server.maxResults \in Nat /\ 1 <= server.maxResults
  BY DEF ServerInv, OptionsOK, New
<1>2. \/ DocumentResult(c, loaded, fits) = Failure
      \/ /\ DocumentResult(c, loaded, fits) = Complete(n)
         /\ Tool(c) = "plan" => ~(Len(plans) > server.maxResults)
  BY Zenon DEF DocumentResult
<1> HIDE DEF plans
<1>3. Tool(c) = "plan" => Len(plans) \in Nat
  BY DEF plans
<1>4. CASE DocumentResult(c, loaded, fits) = Failure
  BY <1>4, FailureOK
<1>5. CASE DocumentResult(c, loaded, fits) = Complete(n) /\ (Tool(c) = "plan" => ~(Len(plans) > server.maxResults))
  <2>1. n \in Nat /\ n <= server.maxResults
    BY <1>1, <1>3, <1>5
  <2> HIDE DEF n
  <2>2. QED
    BY <1>5, <2>1, CompleteOK
<1>6. QED
  BY <1>2, <1>4, <1>5

\* audit, plan and convert fetch their document and answer within the limits.
LEMMA ReadDocumentEffect ==
  ASSUME ServerInv, NEW c \in Call, ReadDocument(c), server' = server
  PROVE  \E v : Effect(c, v)
<1>1. call[c].pc \in Unlinked /\ Tool(c) \in {"audit", "plan", "convert"}
  BY DEF ReadDocument, At, Unlinked
<1>2. WorldKept
  <2>1. Sends(c, "fetch", Fetched(call[c].request.source), FALSE)
    BY DEF ReadDocument
  <2>2. QED
    BY <2>1, FetchSent DEF ReadDocument, WorldKept
<1>3. PICK loaded \in BOOLEAN, fits \in Fits : Respond(c, DocumentResult(c, loaded, fits))
  BY DEF ReadDocument
<1>4. AnswerOK(server, DocumentResult(c, loaded, fits))
  <2>1. IsRequest(call[c].request) /\ call[c].request.source \in Source
    BY DEF ServerInv, Local, Typed, IsRequest
  <2>2. PlansFrom(call[c].request, call[c].request.source) \in Seq(Scan!Request)
    BY <2>1, PlansTyped
  <2>3. QED
    BY <2>2, DocumentAnswer
<1>5. Reports(call[c], DocumentResult(c, loaded, fits))
  BY <1>1 DEF Tool, Reports
<1>6. QED
  BY <1>1, <1>2, <1>3, <1>4, <1>5, QuietAnswer

-----------------------------------------------------------------------------
(* The active scans                                                        *)

\* Plans that are each new count as many as they are.
LEMMA NewPlansCounted ==
  ASSUME NEW R, NEW planned, IsFiniteSet(planned), NEW u \in Unique(R, planned)
  PROVE  /\ u \in Seq(R) /\ Len(u) \in Nat
         /\ IsFiniteSet(planned \cup Range(u))
         /\ Cardinality(planned) \in Nat /\ Cardinality(planned \cup Range(u)) \in Nat
         /\ Cardinality(planned \cup Range(u)) = Cardinality(planned) + Len(u)
<1> DEFINE n == Len(u)
<1>1. u \in Seq(R) /\ IsInjective(u) /\ n \in Nat /\ DOMAIN u = 1..n
      /\ \A i \in 1..n : u[i] \notin planned
  BY DEF Unique
<1> HIDE DEF n
<1>2. Range(u) = {u[i] : i \in 1..n}
  BY <1>1 DEF Range
<1>3. u \in Bijection(1..n, Range(u))
  BY <1>1, <1>2 DEF Bijection, Injection, Surjection, IsInjective
<1>4. IsFiniteSet(Range(u)) /\ Cardinality(Range(u)) = n
  <2>1. IsFiniteSet(1..n) /\ Cardinality(1..n) = n
    BY <1>1, FS_Interval
  <2>2. u \in Surjection(1..n, Range(u)) /\ u \in Injection(1..n, Range(u))
    BY <1>3 DEF Bijection
  <2>3. QED
    BY <2>1, <2>2, FS_Surjection
<1>5. planned \cap Range(u) = {}
  BY <1>1, <1>2
<1>6. Cardinality(planned) \in Nat
  BY FS_CardinalityType
<1>7. IsFiniteSet(planned \cup Range(u))
      /\ Cardinality(planned \cup Range(u))
           = Cardinality(planned) + Cardinality(Range(u)) - Cardinality(planned \cap Range(u))
  BY <1>4, FS_Union
<1>8. Cardinality(planned \cap Range(u)) = 0
  BY <1>5, FS_EmptySet
<1>9. Cardinality(planned \cup Range(u)) = Cardinality(planned) + n
  BY <1>1, <1>4, <1>6, <1>7, <1>8
<1>10. QED
  BY <1>1, <1>6, <1>7, <1>9 DEF n

\* A scan checks every planned URL before it sends the first request.
LEMMA StartScanEffect ==
  ASSUME ServerInv, NEW c \in Call, StartScan(c), server' = server
  PROVE  \E v : Effect(c, v)
<1> DEFINE w == call[c]
           plans == PlansFrom(w.request, w.request.source)
<1>1. /\ w.pc = "working" /\ Tool(c) = "scan" /\ w.request.tool = "scan"
      /\ Local(server, c, w) /\ DOMAIN w = WorkFields
  BY DEF ServerInv, StartScan, At, Tool, Local, Typed
<1>2. WorldKept
  <2>1. Sends(c, "fetch", Fetched(w.request.source), FALSE)
    BY DEF StartScan
  <2>2. QED
    BY <2>1, FetchSent DEF StartScan, WorldKept
<1>3. plans \in Seq(Scan!Request)
  <2>1. IsRequest(w.request) /\ w.request.source \in Source
    BY <1>1 DEF Local, Typed, IsRequest
  <2>2. QED
    BY <2>1, PlansTyped
<1>4. PICK loaded \in BOOLEAN, fits \in Fits :
        IF ScanRefused(w.request, loaded, fits) THEN Respond(c, Failure)
        ELSE Goto(c, [w EXCEPT !.pc = "sending", !.plans = plans])
  BY Zenon DEF StartScan
<1>5. CASE ScanRefused(w.request, loaded, fits)
  <2>1. Respond(c, Failure)
    BY <1>4, <1>5
  <2>2. QED
    BY <1>1, <1>2, <2>1, FailureOK, QuietAnswer DEF Unlinked
<1>6. CASE ~ScanRefused(w.request, loaded, fits)
  <2>1. Len(plans) <= server.maxResults /\ TargetsAllowed(plans)
    <3>1. ~(Len(plans) > server.maxResults) /\ TargetsAllowed(plans)
      BY <1>6, Zenon DEF ScanRefused
    <3>2. Len(plans) \in Nat /\ server.maxResults \in Nat
      BY <1>3 DEF ServerInv, OptionsOK
    <3> HIDE DEF plans
    <3>3. QED
      BY <3>1, <3>2
  <2> HIDE DEF plans
  <2>2. \A i \in 1..Len(plans) : plans[i].origin \in Hosts(server)
    BY <1>3, <2>1, AllowedPlans
  <2>3. PICK v : v = [w EXCEPT !.pc = "sending", !.plans = plans]
    OBVIOUS
  <2>4. Goto(c, v)
    BY <1>4, <1>6, <2>3
  <2>5. /\ DOMAIN v = WorkFields /\ v.pc = "sending" /\ v.plans = plans
        /\ v.request = w.request /\ v.answer = w.answer /\ v.index = w.index
        /\ v.planned = w.planned /\ v.failed = w.failed /\ v.manifest = w.manifest
        /\ v.copies = w.copies /\ v.proofs = w.proofs /\ v.id = w.id /\ v.error = w.error
    BY <1>1, <2>3 DEF WorkFields
  <2> HIDE DEF w
  <2>6. Typed(v)
    BY <1>1, <1>3, <2>5 DEF Local, Typed, Places
  <2>7. Local(server, c, v)
    <3>1. Fresh(v) /\ InPlace(v) /\ ScanOK(server, v) /\ SnapshotOK(server, v)
      BY <1>1, <2>1, <2>2, <2>5 DEF Fresh, InPlace, ScanOK, SnapshotOK
    <3>2. BudgetsOK(v) /\ RunsItself(c, v)
      BY <1>1, <2>5 DEF Local, BudgetsOK, RunsItself
    <3>3. QED
      BY <1>1, <2>5, <2>6, <3>1, <3>2 DEF Local
  <2>8. Link(server, c, v, snapshots, assessments)
    BY <1>1, <2>5, EarlyLink DEF Unlinked, w
  <2>9. Effect(c, v)
    BY <1>1, <1>2, <2>4, <2>5, <2>7, <2>8, QuietMove DEF Busy, w
  <2>10. QED
    BY <2>9
<1>7. QED
  BY <1>5, <1>6

\* What automate has planned so far, in either place it prepares from.
LEMMA PlannedSoFar ==
  ASSUME ServerInv, NEW c \in Call, call[c].pc \in {"working", "preparing"}
  PROVE  /\ \A i \in 1..Len(call[c].plans) : call[c].plans[i].origin \in Hosts(server)
         /\ Len(call[c].plans) <= Cardinality(call[c].planned)
         /\ Cardinality(call[c].planned) <= server.maxResults
<1> DEFINE w == call[c]
<1>1. Local(server, c, w)
  BY DEF ServerInv
<1>2. CASE w.pc = "preparing"
  BY <1>1, <1>2 DEF Local, ScanOK
<1>3. CASE w.pc = "working"
  <2>1. Len(w.plans) = 0 /\ w.planned = {}
    BY <1>1, <1>3 DEF Local, Fresh
  <2>2. Cardinality(w.planned) = 0
    BY <2>1, FS_EmptySet
  <2>3. QED
    BY <2>1, <2>2 DEF ServerInv, OptionsOK
<1>4. QED
  BY <1>2, <1>3

\* A step of automate that has planned this and that much.
Prepared(c, v, plans, planned) ==
  /\ DOMAIN v = WorkFields /\ v.pc = "preparing" /\ v.index \in Nat \ {0} /\ v.failed \subseteq Nat
  /\ v.plans = plans /\ v.planned = planned
  /\ v.request = call[c].request /\ v.answer = call[c].answer /\ v.manifest = call[c].manifest
  /\ v.copies = call[c].copies /\ v.proofs = call[c].proofs /\ v.id = call[c].id
  /\ v.error = call[c].error

\* The sources prepared so far, and their plans, fit the limit of the answer.
LEMMA PreparedEffect ==
  ASSUME ServerInv, NEW c \in Call, NEW v, NEW plans \in Seq(Scan!Request), NEW planned,
         IsFiniteSet(planned), Tool(c) = "automate", call[c].pc \in {"working", "preparing"},
         Prepared(c, v, plans, planned), Goto(c, v), WorldKept,
         \A i \in 1..Len(plans) : plans[i].origin \in Hosts(server),
         Len(plans) <= Cardinality(planned), Cardinality(planned) <= server.maxResults
  PROVE  Effect(c, v)
<1> DEFINE w == call[c]
<1>1. Local(server, c, w)
  BY DEF ServerInv
<1>2. Typed(v)
  BY <1>1 DEF Local, Typed, Places, Prepared
<1>3. Fresh(v) /\ InPlace(v) /\ ScanOK(server, v) /\ SnapshotOK(server, v)
  BY DEF Fresh, InPlace, ScanOK, SnapshotOK, Prepared, Tool
<1>4. BudgetsOK(v) /\ RunsItself(c, v)
  BY <1>1 DEF Local, BudgetsOK, RunsItself, Prepared
<1>5. Local(server, c, v)
  BY <1>1, <1>2, <1>3, <1>4 DEF Local, Prepared
<1>6. Link(server, c, v, snapshots, assessments)
  BY EarlyLink DEF Unlinked, Prepared
<1>7. QED
  BY <1>5, <1>6, QuietMove DEF Busy, Prepared

\* The automation prepares one source, records a failure or refuses them all.
LEMMA PrepareSourceEffect ==
  ASSUME ServerInv, NEW c \in Call, PrepareSource(c), server' = server
  PROVE  \E v : Effect(c, v)
<1> DEFINE w == call[c]
           source == w.request.sources[w.index]
           plans == UniquePlans(PlansFrom(w.request, source), w.planned)
           next == [w EXCEPT !.pc = "preparing", !.index = @ + 1]
           counted == [next EXCEPT !.planned = @ \cup Range(plans)]
           n == w.index
<1>1. /\ w.pc \in {"working", "preparing"} /\ Tool(c) = "automate" /\ w.request.tool = "automate"
      /\ Local(server, c, w) /\ DOMAIN w = WorkFields
      /\ w.index <= Len(w.request.sources)
  BY DEF ServerInv, PrepareSource, At, Tool, Local, Typed
<1>2. WorldKept
  <2>1. Sends(c, "fetch", Fetched(source), FALSE)
    BY Zenon DEF PrepareSource
  <2>2. QED
    BY <2>1, FetchSent DEF PrepareSource, WorldKept
<1>3. plans \in Unique(Scan!Request, w.planned) /\ PlansFrom(w.request, source) \in Seq(Scan!Request)
  <2>1. IsRequest(w.request) /\ w.request.sources \in Seq(Source) /\ w.index \in Nat \ {0}
    BY <1>1 DEF Local, Typed, IsRequest
  <2>2. source \in Source
    BY <1>1, <2>1
  <2>3. PlansFrom(w.request, source) \in Seq(Scan!Request)
    BY <2>1, <2>2, PlansTyped
  <2>4. QED
    BY <2>3, UniquePlansTyped
<1>4. PICK loaded \in BOOLEAN :
        IF SourceFails(w.request, source, loaded)
        THEN Goto(c, [next EXCEPT !.failed = @ \cup {w.index}])
        ELSE IF Cardinality(counted.planned) > server.maxResults THEN Respond(c, Failure)
        ELSE IF plans # <<>> /\ NewClientFails
        THEN Goto(c, [counted EXCEPT !.failed = @ \cup {w.index}])
        ELSE Goto(c, [counted EXCEPT !.plans = @ \o plans])
  BY Zenon DEF PrepareSource
<1>5. /\ DOMAIN next = WorkFields /\ next.pc = "preparing" /\ next.index = w.index + 1
      /\ next.plans = w.plans /\ next.planned = w.planned /\ next.failed = w.failed
      /\ next.request = w.request /\ next.answer = w.answer /\ next.manifest = w.manifest
      /\ next.copies = w.copies /\ next.proofs = w.proofs /\ next.id = w.id /\ next.error = w.error
  BY <1>1 DEF WorkFields
<1>6. /\ w.index \in Nat \ {0} /\ w.index + 1 \in Nat \ {0} /\ w.failed \subseteq Nat
      /\ w.failed \cup {w.index} \subseteq Nat
      /\ w.plans \in Seq(Scan!Request) /\ IsFiniteSet(w.planned) /\ server.maxResults \in Nat
  BY <1>1 DEF Local, Typed, ServerInv, OptionsOK
<1>7. /\ \A i \in 1..Len(w.plans) : w.plans[i].origin \in Hosts(server)
      /\ Len(w.plans) <= Cardinality(w.planned) /\ Cardinality(w.planned) <= server.maxResults
  BY <1>1, PlannedSoFar
<1> HIDE DEF plans, next
<1>8. /\ plans \in Seq(Scan!Request) /\ Len(plans) \in Nat
      /\ IsFiniteSet(w.planned \cup Range(plans))
      /\ Cardinality(w.planned) \in Nat /\ Cardinality(w.planned \cup Range(plans)) \in Nat
      /\ Cardinality(w.planned \cup Range(plans)) = Cardinality(w.planned) + Len(plans)
  BY <1>3, <1>6, NewPlansCounted
<1>9. CASE SourceFails(w.request, source, loaded)
  <2>1. PICK v : v = [next EXCEPT !.failed = @ \cup {w.index}]
    OBVIOUS
  <2>2. Goto(c, v)
    BY <1>4, <1>9, <2>1
  <2>3. Prepared(c, v, w.plans, w.planned)
    BY <1>5, <1>6, <2>1 DEF Prepared, WorkFields
  <2>4. Effect(c, v)
    BY <1>1, <1>2, <1>6, <1>7, <2>2, <2>3, PreparedEffect
  <2>5. QED
    BY <2>4
<1>10. CASE ~SourceFails(w.request, source, loaded)
  <2>1. counted.planned = w.planned \cup Range(plans)
    BY <1>5 DEF WorkFields
  <2>2. CASE Cardinality(counted.planned) > server.maxResults
    <3>1. Respond(c, Failure)
      BY <1>4, <1>10, <2>2
    <3>2. QED
      BY <1>1, <1>2, <3>1, FailureOK, QuietAnswer DEF Unlinked
  <2>3. CASE ~(Cardinality(counted.planned) > server.maxResults)
    <3>1. Cardinality(w.planned \cup Range(plans)) <= server.maxResults
      <4>1. ~(Cardinality(w.planned \cup Range(plans)) > server.maxResults)
        BY <2>1, <2>3, Zenon
      <4>2. QED
        BY <1>6, <1>8, <4>1
    <3>2. /\ DOMAIN counted = WorkFields /\ counted.pc = "preparing" /\ counted.index = w.index + 1
          /\ counted.plans = w.plans /\ counted.failed = w.failed
          /\ counted.request = w.request /\ counted.answer = w.answer /\ counted.manifest = w.manifest
          /\ counted.copies = w.copies /\ counted.proofs = w.proofs /\ counted.id = w.id
          /\ counted.error = w.error
      BY <1>5 DEF WorkFields
    <3> HIDE DEF counted
    <3>3. CASE plans # <<>> /\ NewClientFails
      <4>1. PICK v : v = [counted EXCEPT !.failed = @ \cup {w.index}]
        OBVIOUS
      <4>2. Goto(c, v)
        BY <1>4, <1>10, <2>3, <3>3, <4>1
      <4>3. Prepared(c, v, w.plans, w.planned \cup Range(plans))
        BY <1>6, <2>1, <3>2, <4>1 DEF Prepared, WorkFields
      <4>4. Len(w.plans) <= Cardinality(w.planned \cup Range(plans))
        <5>1. Len(w.plans) \in Nat
          BY <1>6
        <5>2. QED
          BY <1>7, <1>8, <5>1
      <4>5. Effect(c, v)
        BY <1>1, <1>2, <1>6, <1>7, <1>8, <3>1, <4>2, <4>3, <4>4, PreparedEffect
      <4>6. QED
        BY <4>5
    <3>4. CASE ~(plans # <<>> /\ NewClientFails)
      <4>1. PICK v : v = [counted EXCEPT !.plans = @ \o plans]
        OBVIOUS
      <4>2. Goto(c, v)
        BY <1>4, <1>10, <2>3, <3>4, <4>1
      <4>3. PICK all : all = w.plans \o plans
        OBVIOUS
      <4>4. Prepared(c, v, all, w.planned \cup Range(plans))
        BY <1>6, <2>1, <3>2, <4>1, <4>3 DEF Prepared, WorkFields
      <4>5. all \in Seq(Scan!Request) /\ Len(all) = Len(w.plans) + Len(plans) /\ Len(w.plans) \in Nat
            /\ \A i \in 1..Len(all) : all[i] = IF i <= Len(w.plans) THEN w.plans[i] ELSE plans[i - Len(w.plans)]
        BY <1>6, <1>8, <4>3
      <4>6. Len(all) <= Cardinality(w.planned \cup Range(plans))
        BY <1>7, <1>8, <4>5
      <4>7. \A i \in 1..Len(all) : all[i].origin \in Hosts(server)
        <5>1. \A i \in 1..Len(plans) : plans[i].origin \in Hosts(server)
          <6>1. TargetsAllowed(PlansFrom(w.request, source))
            BY <1>10 DEF SourceFails
          <6>2. \A i \in 1..Len(PlansFrom(w.request, source)) :
                  PlansFrom(w.request, source)[i].origin \in Hosts(server)
            BY <1>3, <6>1, AllowedPlans
          <6>3. \A i \in 1..Len(plans) : \E j \in 1..Len(PlansFrom(w.request, source)) :
                  plans[i] = PlansFrom(w.request, source)[j]
            <7> DEFINE all0 == PlansFrom(w.request, source)
            <7>1. all0 \in Seq(Range(all0))
              BY <1>3 DEF Range
            <7>2. plans \in Unique(Range(all0), w.planned)
              BY <7>1, UniquePlansTyped DEF plans
            <7>3. plans \in Seq(Range(all0))
              BY <7>2 DEF Unique
            <7>4. \A i \in 1..Len(plans) : plans[i] \in Range(all0)
              BY <7>3
            <7>5. DOMAIN all0 = 1..Len(all0)
              BY <1>3
            <7>6. QED
              BY <7>4, <7>5 DEF Range
          <6>4. QED
            BY <6>2, <6>3
        <5>2. TAKE i \in 1..Len(all)
        <5>3. CASE i <= Len(w.plans)
          BY <1>7, <4>5, <5>3
        <5>4. CASE ~(i <= Len(w.plans))
          <6>0. \A k, a, b \in Nat : k \in 1..(a + b) /\ ~(k <= a) => k - a \in 1..b
            OBVIOUS
          <6>1. i - Len(w.plans) \in 1..Len(plans) /\ all[i] = plans[i - Len(w.plans)]
            <7>1. i \in Nat /\ i \in 1..(Len(w.plans) + Len(plans))
              BY <1>8, <4>5
            <7>2. i - Len(w.plans) \in 1..Len(plans)
              BY <1>8, <4>5, <5>4, <6>0, <7>1, Zenon
            <7>3. all[i] = plans[i - Len(w.plans)]
              BY <4>5, <5>4, Zenon
            <7>4. QED
              BY <7>2, <7>3
          <6>2. QED
            BY <5>1, <6>1
        <5>5. QED
          BY <5>3, <5>4
      <4>8. Effect(c, v)
        BY <1>1, <1>2, <1>8, <3>1, <4>2, <4>4, <4>5, <4>6, <4>7, PreparedEffect
      <4>9. QED
        BY <4>8
    <3>5. QED
      BY <3>3, <3>4
  <2>4. QED
    BY <2>2, <2>3
<1>11. QED
  BY <1>9, <1>10

\* After the last source the automation sends, unless its answer would not fit.
LEMMA StartAutomateEffect ==
  ASSUME ServerInv, NEW c \in Call, StartAutomate(c), server' = server
  PROVE  \E v : Effect(c, v)
<1> DEFINE w == call[c]
<1>1. /\ w.pc = "preparing" /\ Local(server, c, w) /\ DOMAIN w = WorkFields
      /\ w.request.tool = "automate"
  BY DEF ServerInv, StartAutomate, At, Local, Typed, InPlace
<1>2. WorldKept
  BY QuietSent DEF StartAutomate, WorldKept
<1>3. PICK fits \in Fits : IF fits THEN Goto(c, [w EXCEPT !.pc = "sending", !.index = 1])
                           ELSE Respond(c, Failure)
  BY Zenon DEF StartAutomate
<1>4. CASE ~fits
  <2>1. Respond(c, Failure)
    BY <1>3, <1>4
  <2>2. QED
    BY <1>1, <1>2, <2>1, FailureOK, QuietAnswer DEF Unlinked
<1>5. CASE fits
  <2>1. PICK v : v = [w EXCEPT !.pc = "sending", !.index = 1]
    OBVIOUS
  <2>2. Goto(c, v)
    BY <1>3, <1>5, <2>1
  <2>3. /\ DOMAIN v = WorkFields /\ v.pc = "sending" /\ v.plans = w.plans
        /\ v.request = w.request /\ v.answer = w.answer /\ v.index = 1
        /\ v.planned = w.planned /\ v.failed = w.failed /\ v.manifest = w.manifest
        /\ v.copies = w.copies /\ v.proofs = w.proofs /\ v.id = w.id /\ v.error = w.error
    BY <1>1, <2>1 DEF WorkFields
  <2>4. Typed(v)
    BY <1>1, <2>3 DEF Local, Typed, Places
  <2>5. ScanOK(server, v)
    <3>1. /\ Len(w.plans) <= Cardinality(w.planned) /\ Cardinality(w.planned) <= server.maxResults
          /\ \A i \in 1..Len(w.plans) : w.plans[i].origin \in Hosts(server)
      BY <1>1 DEF Local, ScanOK
    <3>2. Len(w.plans) \in Nat /\ Cardinality(w.planned) \in Nat /\ server.maxResults \in Nat
      BY <1>1, FS_CardinalityType DEF Local, Typed, ServerInv, OptionsOK
    <3>3. Len(w.plans) <= server.maxResults
      BY <3>1, <3>2
    <3>4. QED
      BY <2>3, <3>1, <3>3 DEF ScanOK
  <2>6. Fresh(v) /\ InPlace(v) /\ SnapshotOK(server, v)
    BY <1>1, <2>3 DEF Fresh, InPlace, SnapshotOK
  <2>7. BudgetsOK(v) /\ RunsItself(c, v)
    BY <1>1, <2>3 DEF Local, BudgetsOK, RunsItself
  <2>8. Local(server, c, v)
    BY <1>1, <2>3, <2>4, <2>5, <2>6, <2>7 DEF Local
  <2>9. Link(server, c, v, snapshots, assessments)
    BY <1>1, <2>3, EarlyLink DEF Unlinked
  <2>10. Effect(c, v)
    BY <1>1, <1>2, <2>2, <2>3, <2>8, <2>9, QuietMove DEF Busy
  <2>11. QED
    BY <2>10
<1>6. QED
  BY <1>4, <1>5

\* A scan is answered after its last plan.
LEMMA FinishScanEffect ==
  ASSUME ServerInv, NEW c \in Call, FinishScan(c), server' = server
  PROVE  \E v : Effect(c, v)
<1> DEFINE w == call[c]
<1>1. w.pc = "sending" /\ Local(server, c, w) /\ w.request.tool \in {"scan", "automate"}
  BY DEF ServerInv, FinishScan, At, Local, InPlace
<1>2. WorldKept
  BY QuietSent DEF FinishScan, WorldKept
<1>3. PICK fits \in Fits : Respond(c, IF fits THEN Complete(Len(w.plans)) ELSE Failure)
  BY Zenon DEF FinishScan
<1>4. Len(w.plans) \in Nat /\ Len(w.plans) <= server.maxResults
  BY <1>1 DEF Local, Typed, ScanOK
<1>5. AnswerOK(server, Complete(Len(w.plans))) /\ AnswerOK(server, Failure)
  BY <1>4, CompleteOK, FailureOK
<1>6. AnswerOK(server, IF fits THEN Complete(Len(w.plans)) ELSE Failure)
  BY <1>5
<1>7. \A answer : Reports(w, answer)
  BY <1>1 DEF Reports
<1>8. QED
  BY <1>1, <1>2, <1>3, <1>6, <1>7, QuietAnswer DEF Unlinked

\* executePlans sends a state-changing or dangerous plan only at accepted risk.
LEMMA PlanSent ==
  ASSUME ServerInv, NEW c \in Call, NEW plan, call[c].pc = "sending", plan.origin \in Hosts(server),
         Scan!Sendable(Scan!NewClient(server.settings, call[c].request.acceptRisk), plan, TRUE),
         Sends(c, "operation", {Spelled(plan.origin)}, plan.dangerous \/ Scan!IsUnsafeMethod(plan.method))
  PROVE  SentOK(server, call, sent')
<1> DEFINE unsafe == plan.dangerous \/ Scan!IsUnsafeMethod(plan.method)
<1>1. Local(server, c, call[c]) /\ Permits(server, call[c].request)
      /\ call[c].request.tool \in {"scan", "automate"} /\ SentOK(server, call, sent)
  BY DEF ServerInv, Local, InPlace
<1>2. server.active /\ (call[c].request.acceptRisk => server.destructive)
  BY <1>1 DEF Permits
<1>3. unsafe => call[c].request.acceptRisk
  BY DEF Scan!Sendable, Scan!RefusesUnsafe, Scan!NewClient
<1> HIDE DEF unsafe
<1>4. \A request \in sent' : request \in sent \/
        request = [call |-> c, kind |-> "operation", url |-> Spelled(plan.origin), unsafe |-> unsafe]
  BY DEF Sends, Outgoing, unsafe
<1>5. Spelled(plan.origin).origin = plan.origin
  BY DEF Spelled
<1>6. QED
  BY <1>1, <1>2, <1>3, <1>4, <1>5 DEF SentOK

\* A planned request goes to a host that was checked when it was planned.
LEMMA SendPlanEffect ==
  ASSUME ServerInv, NEW c \in Call, SendPlan(c), server' = server
  PROVE  \E v : Effect(c, v)
<1> DEFINE w == call[c]
           plan == w.plans[w.index]
<1>1. /\ w.pc = "sending" /\ Local(server, c, w) /\ DOMAIN w = WorkFields
      /\ w.request.tool \in {"scan", "automate"} /\ w.index <= Len(w.plans)
  BY DEF ServerInv, SendPlan, At, Local, Typed, InPlace
<1>2. SentOK(server, call, sent')
  <2>1. plan.origin \in Hosts(server)
    <3>1. w.index \in 1..Len(w.plans)
      BY <1>1 DEF Local, Typed
    <3>2. QED
      BY <1>1, <3>1 DEF Local, ScanOK
  <2>2. \/ /\ Scan!Sendable(Scan!NewClient(server.settings, w.request.acceptRisk), plan, TRUE)
           /\ Sends(c, "operation", {Spelled(plan.origin)}, plan.dangerous \/ Scan!IsUnsafeMethod(plan.method))
        \/ Quiet
    BY Zenon DEF SendPlan
  <2>3. QED
    BY <1>1, <2>1, <2>2, PlanSent, QuietSent
<1>3. WorldKept
  BY <1>2 DEF SendPlan, WorldKept
<1>4. PICK v : v = [w EXCEPT !.index = @ + 1]
  OBVIOUS
<1>5. Goto(c, v)
  BY <1>4 DEF SendPlan
<1>6. /\ DOMAIN v = WorkFields /\ v.pc = "sending" /\ v.plans = w.plans
      /\ v.request = w.request /\ v.answer = w.answer /\ v.index = w.index + 1
      /\ v.planned = w.planned /\ v.failed = w.failed /\ v.manifest = w.manifest
      /\ v.copies = w.copies /\ v.proofs = w.proofs /\ v.id = w.id /\ v.error = w.error
  BY <1>1, <1>4 DEF WorkFields
<1>7. Typed(v)
  BY <1>1, <1>6 DEF Local, Typed, Places
<1>8. Fresh(v) /\ InPlace(v) /\ SnapshotOK(server, v) /\ ScanOK(server, v)
  BY <1>1, <1>6 DEF Local, Fresh, InPlace, SnapshotOK, ScanOK
<1>9. BudgetsOK(v) /\ RunsItself(c, v)
  BY <1>1, <1>6 DEF Local, BudgetsOK, RunsItself
<1>10. Local(server, c, v)
  BY <1>1, <1>6, <1>7, <1>8, <1>9 DEF Local
<1>11. Link(server, c, v, snapshots, assessments)
  BY <1>1, <1>6, EarlyLink DEF Unlinked
<1>12. Effect(c, v)
  BY <1>1, <1>3, <1>5, <1>6, <1>10, <1>11, QuietMove DEF Busy
<1>13. QED
  BY <1>12

-----------------------------------------------------------------------------
(* Discovery, the full workflow and the analysis                           *)

LEMMA BruteAnswerOK ==
  ASSUME ServerInv, NEW reports \in Seq(Nat)
  PROVE  AnswerOK(server, BruteAnswer(reports))
<1> DEFINE kept == TruncateBruteReports(reports, server.maxResults)
           total == SumFunction(reports)
<1>1. server.maxResults \in Nat
  BY DEF ServerInv, OptionsOK
<1>2. /\ total \in Nat
      /\ kept.shown = IF total <= server.maxResults THEN total ELSE server.maxResults
      /\ kept.truncated <=> total > server.maxResults
  BY <1>1, TruncatedReports
<1>3. BruteAnswer(reports) = Answer(FALSE, {}, kept.shown, total, kept.truncated)
  BY Zenon DEF BruteAnswer
<1> HIDE DEF kept, total
<1>4. kept.shown <= server.maxResults /\ (kept.truncated <=> kept.shown < total)
  BY <1>1, <1>2
<1>5. QED
  BY <1>3, <1>4 DEF AnswerOK, Answer

\* discover and brute send to targets that CheckURL accepted.
LEMMA ProbeEffect ==
  ASSUME ServerInv, NEW c \in Call, Probe(c), server' = server
  PROVE  \E v : Effect(c, v)
<1> DEFINE request == call[c].request
<1>1. call[c].pc = "working" /\ Tool(c) \in {"discover", "brute"} /\ Local(server, c, call[c])
  BY DEF ServerInv, Probe, At
<1>2. IsRequest(request) /\ Permits(server, request) /\ request.tool \in {"discover", "brute"}
  BY <1>1 DEF Local, Typed, Tool
<1>3. /\ request.targets \in Seq(Authority) /\ request.found \in Nat
      /\ DOMAIN request.targets = 1..Len(request.targets) /\ Len(request.targets) \in Nat
  BY <1>2 DEF IsRequest
<1>4. PICK fits \in Fits, failed \in BOOLEAN, found \in [DOMAIN request.targets -> 0..request.found] :
        Respond(c, IF NewClientFails \/ failed \/ ~fits THEN Failure ELSE BruteAnswer(found))
  BY Zenon DEF Probe
<1>5. found \in Seq(Nat)
  <2>1. found \in [1..Len(request.targets) -> Nat]
    BY <1>3, <1>4
  <2>2. QED
    BY <1>3, <2>1
<1>6. AnswerOK(server, IF NewClientFails \/ failed \/ ~fits THEN Failure ELSE BruteAnswer(found))
  BY <1>5, BruteAnswerOK, FailureOK
<1>7. WorldKept
  <2>1. \A request0 \in sent' : request0 \in sent
          \/ \E url \in Range(request.targets) :
               request0 = [call |-> c, kind |-> "probe", url |-> url, unsafe |-> FALSE]
    BY DEF Probe, Sends, Outgoing
  <2>2. \A url \in Range(request.targets) : url.origin \in Hosts(server)
    BY <1>2 DEF Permits, Range
  <2>3. server.active
    BY <1>2 DEF Permits
  <2>4. SentOK(server, call, sent')
    BY <2>1, <2>2, <2>3 DEF ServerInv, SentOK
  <2>5. QED
    BY <2>4 DEF Probe, WorldKept
<1>8. \A answer : Reports(call[c], answer)
  BY <1>1 DEF Tool, Reports
<1>9. QED
  BY <1>1, <1>4, <1>6, <1>7, <1>8, QuietAnswer DEF Unlinked

\* Answers of one result fit every limit New accepts.
LEMMA SmallAnswersOK ==
  ASSUME ServerInv
  PROVE  AnswerOK(server, Complete(0)) /\ AnswerOK(server, Complete(1)) /\ AnswerOK(server, Failure)
  BY CompleteOK, FailureOK DEF ServerInv, OptionsOK, New

\* A workflow starts from URLs of the operator's hosts, or from stored runs.
LEMMA StartingPointsAllowed ==
  ASSUME NEW request, request.tool = "run_full_workflow", Permits(server, request),
         request.skipBrute \in BOOLEAN, NEW url \in StartingPoints(request)
  PROVE  url.origin \in Hosts(server) \/ (request.skipBrute /\ request.runs # {})
<1>1. CASE ~request.skipBrute
  BY <1>1 DEF StartingPoints, Permits, Range
<1>2. CASE request.skipBrute /\ request.runs = {}
  BY <1>2 DEF StartingPoints, Permits, Range
<1>3. QED
  BY <1>1, <1>2

\* Operations leave past the client's gate, wherever they go.
LEMMA OperationsGated ==
  ASSUME NEW c, NEW request, NEW read, NEW performed \in SUBSET WorkflowPlans(request, read),
         NEW operation \in Operations(c, performed)
  PROVE  /\ operation.call = c /\ operation.kind = "operation"
         /\ operation.unsafe => request.acceptRisk
<1> DEFINE client == Scan!NewClient(server.settings, request.acceptRisk)
           unsafe(plan) == plan.dangerous \/ Scan!IsUnsafeMethod(plan.method)
<1>1. PICK plan \in performed :
        operation \in Outgoing(c, "operation", {Spelled(plan.origin)}, unsafe(plan))
  BY Zenon DEF Operations
<1>2. Scan!Sendable(client, plan, TRUE)
  BY Zenon DEF WorkflowPlans
<1>3. unsafe(plan) => request.acceptRisk
  BY <1>2 DEF Scan!Sendable, Scan!RefusesUnsafe, Scan!NewClient
<1> HIDE DEF unsafe
<1>4. operation = [call |-> c, kind |-> "operation", url |-> Spelled(plan.origin),
                   unsafe |-> unsafe(plan)]
  BY <1>1 DEF Outgoing
<1>5. QED
  BY <1>3, <1>4

\* What a workflow sends is allowed, but for the hosts its documents name.
LEMMA WorkflowSent ==
  ASSUME ServerInv, NEW c \in Call, call[c].pc = "working", Tool(c) = "run_full_workflow",
         NEW points, points \subseteq StartingPoints(call[c].request),
         NEW reached \in SUBSET points,
         NEW read \in SUBSET {d \in server.documents : d.url \in reached},
         NEW performed \in SUBSET WorkflowPlans(call[c].request, read),
         sent' = sent \cup Operations(c, performed)
           \cup Outgoing(c, "fetch", {d.url : d \in read}, FALSE)
           \cup Outgoing(c, "probe", IF call[c].request.skipBrute THEN {} ELSE reached, FALSE)
  PROVE  SentOK(server, call, sent')
<1> DEFINE asked == call[c].request
<1>1. /\ asked.tool = "run_full_workflow" /\ Permits(server, asked) /\ IsRequest(asked)
      /\ SentOK(server, call, sent)
  BY DEF ServerInv, Local, Typed, Tool
<1>2. server.active /\ (asked.acceptRisk => server.destructive) /\ asked.skipBrute \in BOOLEAN
  BY <1>1 DEF Permits, IsRequest
<1>3. \A url \in reached :
        url.origin \in Hosts(server) \/ (asked.skipBrute /\ asked.runs # {})
  BY <1>1, <1>2, StartingPointsAllowed
<1> SUFFICES ASSUME NEW request \in sent'
             PROVE  /\ request.call \in Call
                    /\ request.url.origin \in Hosts(server)
                         \/ Outside(request, call[request.call].request)
                    /\ request.kind # "fetch" => server.active
                    /\ request.unsafe => server.destructive /\ call[request.call].request.acceptRisk
  BY DEF SentOK
<1>4. CASE request \in sent
  BY <1>1, <1>4 DEF SentOK
<1>5. CASE request \in Operations(c, performed)
  <2>1. /\ request.call = c /\ request.kind = "operation" /\ request.unsafe => asked.acceptRisk
    BY <1>5, OperationsGated
  <2>2. QED
    BY <1>1, <1>2, <1>5, <2>1, OperationsGated DEF Outside
<1>6. CASE request \in Outgoing(c, "fetch", {d.url : d \in read}, FALSE)
  <2>1. PICK url \in reached : request = [call |-> c, kind |-> "fetch", url |-> url, unsafe |-> FALSE]
    BY <1>6 DEF Outgoing
  <2>2. QED
    BY <1>1, <1>3, <2>1 DEF Outside
<1>7. CASE request \in Outgoing(c, "probe", IF asked.skipBrute THEN {} ELSE reached, FALSE)
  <2>1. PICK url \in reached : /\ request = [call |-> c, kind |-> "probe", url |-> url, unsafe |-> FALSE]
                               /\ ~asked.skipBrute
    BY <1>2, <1>7 DEF Outgoing
  <2>2. QED
    BY <1>2, <1>3, <2>1
<1>8. QED
  BY <1>4, <1>5, <1>6, <1>7

\* A workflow that moves on has begun no assessment in the server's database.
LEMMA WorkflowMoves ==
  ASSUME ServerInv, NEW c \in Call, call[c].pc \in {"working", "assessing"},
         Tool(c) = "run_full_workflow", WorldKept, NEW pc \in {"assessing", "concluding"},
         NEW id \in {{}, {c}}, NEW error \in BOOLEAN, NEW v,
         v = [call[c] EXCEPT !.pc = pc, !.id = id, !.error = error], Goto(c, v),
         pc = "concluding" /\ ~error /\ ~call[c].request.skipAssessment => id # {}
  PROVE  Effect(c, v)
<1> DEFINE w == call[c]
<1>1. Local(server, c, w) /\ DOMAIN w = WorkFields
  BY DEF ServerInv, Local, Typed
<1>2. /\ DOMAIN v = WorkFields /\ v.pc = pc /\ v.id = id /\ v.error = error
      /\ v.request = w.request /\ v.answer = w.answer /\ v.index = w.index /\ v.plans = w.plans
      /\ v.planned = w.planned /\ v.failed = w.failed /\ v.manifest = w.manifest
      /\ v.copies = w.copies /\ v.proofs = w.proofs
  BY <1>1 DEF WorkFields
<1>3. v.request.tool = "run_full_workflow"
  BY <1>2 DEF Tool
<1>4. Typed(v)
  BY <1>1, <1>2 DEF Local, Typed, Places, Id
<1>5. Fresh(v) /\ InPlace(v) /\ ScanOK(server, v) /\ SnapshotOK(server, v)
  BY <1>2, <1>3 DEF Fresh, InPlace, ScanOK, SnapshotOK
<1>6. BudgetsOK(v) /\ RunsItself(c, v)
  BY <1>1, <1>2 DEF Local, BudgetsOK, RunsItself
<1>7. Local(server, c, v)
  BY <1>1, <1>2, <1>4, <1>5, <1>6 DEF Local
<1>8. Link(server, c, v, snapshots, assessments)
  BY <1>2, EarlyLink DEF Unlinked, Concluded
<1>9. QED
  BY <1>2, <1>7, <1>8, QuietMove DEF Busy

\* The scans of a workflow go on to its assessment, or end with what they did.
LEMMA RunFullWorkflowEffect ==
  ASSUME ServerInv, NEW c \in Call, RunFullWorkflow(c), server' = server
  PROVE  \E v : Effect(c, v)
<1> DEFINE request == call[c].request
           points == IF NewClientFails THEN {} ELSE StartingPoints(request)
<1>1. call[c].pc = "working" /\ Tool(c) = "run_full_workflow" /\ UNCHANGED world
  BY DEF RunFullWorkflow, At
<1>2. PICK reached \in SUBSET points :
      \E read \in SUBSET {d \in server.documents : d.url \in reached} :
      \E performed \in SUBSET WorkflowPlans(request, read), done, reported \in BOOLEAN :
        /\ done => \E document \in read : ~PlanningFails(request, document)
        /\ sent' = sent \cup Operations(c, performed)
              \cup Outgoing(c, "fetch", {d.url : d \in read}, FALSE)
              \cup Outgoing(c, "probe", IF request.skipBrute THEN {} ELSE reached, FALSE)
        /\ Goto(c, [call[c] EXCEPT
             !.pc = IF done /\ ~request.skipAssessment THEN "assessing" ELSE "concluding",
             !.error = ~(done /\ reported)])
  BY Zenon DEF RunFullWorkflow
<1>3. PICK read \in SUBSET {d \in server.documents : d.url \in reached} :
      \E performed \in SUBSET WorkflowPlans(request, read), done, reported \in BOOLEAN :
        /\ sent' = sent \cup Operations(c, performed)
              \cup Outgoing(c, "fetch", {d.url : d \in read}, FALSE)
              \cup Outgoing(c, "probe", IF request.skipBrute THEN {} ELSE reached, FALSE)
        /\ Goto(c, [call[c] EXCEPT
             !.pc = IF done /\ ~request.skipAssessment THEN "assessing" ELSE "concluding",
             !.error = ~(done /\ reported)])
  BY <1>2, Zenon
<1>4. PICK performed \in SUBSET WorkflowPlans(request, read), done \in BOOLEAN, reported \in BOOLEAN :
        /\ sent' = sent \cup Operations(c, performed)
              \cup Outgoing(c, "fetch", {d.url : d \in read}, FALSE)
              \cup Outgoing(c, "probe", IF request.skipBrute THEN {} ELSE reached, FALSE)
        /\ Goto(c, [call[c] EXCEPT
             !.pc = IF done /\ ~request.skipAssessment THEN "assessing" ELSE "concluding",
             !.error = ~(done /\ reported)])
  BY <1>3, Zenon
<1>5. WorldKept
  <2>1. points \subseteq StartingPoints(request)
    OBVIOUS
  <2> HIDE DEF points
  <2>2. SentOK(server, call, sent')
    BY <1>1, <1>4, <2>1, WorkflowSent
  <2>3. QED
    BY <1>1, <2>2 DEF WorldKept
<1>6. PICK pc, error : /\ pc = IF done /\ ~request.skipAssessment THEN "assessing" ELSE "concluding"
                       /\ error = ~(done /\ reported)
  OBVIOUS
<1>7. /\ pc \in {"assessing", "concluding"} /\ error \in BOOLEAN
      /\ ~(pc = "concluding" /\ ~error /\ ~request.skipAssessment)
  BY <1>6
<1>8. call[c].id = {}
  BY <1>1 DEF ServerInv, Local, Fresh
<1>9. DOMAIN call[c] = WorkFields
  BY DEF ServerInv, Local, Typed
<1>10. PICK v : v = [call[c] EXCEPT !.pc = pc, !.error = error]
  OBVIOUS
<1>11. Goto(c, v)
  BY <1>4, <1>6, <1>10, Zenon
<1>12. v = [call[c] EXCEPT !.pc = pc, !.id = {}, !.error = error]
  BY <1>8, <1>9, <1>10 DEF WorkFields
<1>13. QED
  BY <1>1, <1>5, <1>7, <1>11, <1>12, WorkflowMoves

\* The assessment of a workflow begins or is an error.
LEMMA AssessFullWorkflowEffect ==
  ASSUME ServerInv, NEW c \in Call, AssessFullWorkflow(c), server' = server
  PROVE  \E v : Effect(c, v)
<1> DEFINE w == call[c]
<1>1. /\ w.pc = "assessing" /\ w.request.tool = "run_full_workflow" /\ Local(server, c, w)
      /\ DOMAIN w = WorkFields /\ w.error \in BOOLEAN
  BY DEF ServerInv, AssessFullWorkflow, At, Local, Typed, InPlace
<1>2. WorldKept
  BY QuietSent DEF AssessFullWorkflow, WorldKept
<1>3. w.id \in {{}, {c}}
  BY <1>1 DEF Local, RunsItself
<1>4. CASE Goto(c, [w EXCEPT !.pc = "concluding", !.error = TRUE])
  <2>1. [w EXCEPT !.pc = "concluding", !.error = TRUE]
          = [w EXCEPT !.pc = "concluding", !.id = w.id, !.error = TRUE]
    BY <1>1 DEF WorkFields
  <2>2. QED
    BY <1>1, <1>2, <1>3, <1>4, <2>1, WorkflowMoves DEF Tool
<1>5. CASE \E failed \in BOOLEAN :
             Goto(c, [w EXCEPT !.pc = "concluding", !.id = {c}, !.error = @ \/ failed])
  <2>1. PICK failed \in BOOLEAN :
          Goto(c, [w EXCEPT !.pc = "concluding", !.id = {c}, !.error = @ \/ failed])
    BY <1>5
  <2>2. PICK error \in BOOLEAN : error = (w.error \/ failed)
    BY <1>1
  <2>3. PICK v : v = [w EXCEPT !.pc = "concluding", !.id = {c}, !.error = error]
    OBVIOUS
  <2>4. Goto(c, v)
    BY <2>1, <2>2, <2>3, Zenon
  <2>5. QED
    BY <1>1, <1>2, <2>3, <2>4, WorkflowMoves DEF Tool
<1>6. QED
  BY <1>4, <1>5, Zenon DEF AssessFullWorkflow

\* A workflow is answered with its error and the ID read from the run file, or
\* with neither.
LEMMA FinishFullWorkflowEffect ==
  ASSUME ServerInv, NEW c \in Call, FinishFullWorkflow(c), server' = server
  PROVE  \E v : Effect(c, v)
<1> DEFINE w == call[c]
<1>1. /\ w.pc = "concluding" /\ w.request.tool = "run_full_workflow" /\ w.error \in BOOLEAN
      /\ Concluded(w)
  BY DEF ServerInv, FinishFullWorkflow, At, Local, Typed, InPlace, Link
<1>2. WorldKept
  BY QuietSent DEF FinishFullWorkflow, WorldKept
<1>3. PICK named \in SUBSET w.id, fits \in Fits :
        Respond(c, IF fits THEN Answer(w.error, named, 0, 0, FALSE) ELSE Failure)
  BY Zenon DEF FinishFullWorkflow
<1>4. PICK answer : answer = Answer(w.error, named, 0, 0, FALSE)
  OBVIOUS
<1>5. AnswerOK(server, answer) /\ Reports(w, answer)
  <2>1. /\ answer.error = w.error /\ answer.id = named /\ answer.shown = 0 /\ answer.total = 0
        /\ answer.truncated = FALSE
    BY <1>4 DEF Answer
  <2>2. AnswerOK(server, answer)
    BY <1>1, <2>1 DEF AnswerOK, ServerInv, OptionsOK
  <2>3. QED
    BY <1>1, <2>1, <2>2 DEF Concluded, Reports
<1>6. CASE fits
  BY <1>1, <1>2, <1>3, <1>4, <1>5, <1>6, QuietAnswer DEF Unlinked
<1>7. CASE ~fits
  BY <1>1, <1>2, <1>3, <1>7, FailureOK, QuietAnswer DEF Unlinked
<1>8. QED
  BY <1>6, <1>7

\* The analysis of stored results answers with its summary.
LEMMA AnalyzeAPIResultsEffect ==
  ASSUME ServerInv, NEW c \in Call, AnalyzeAPIResults(c), server' = server
  PROVE  \E v : Effect(c, v)
<1>1. call[c].pc \in Unlinked /\ \A answer : Reports(call[c], answer)
  BY DEF AnalyzeAPIResults, At, Tool, Unlinked, Reports
<1>2. WorldKept
  BY QuietSent DEF AnalyzeAPIResults, WorldKept
<1>3. PICK fits \in Fits :
        Respond(c, IF AnalysisFails(call[c].request) \/ ~fits THEN Failure ELSE Complete(1))
  BY Zenon DEF AnalyzeAPIResults
<1>4. AnswerOK(server, IF AnalysisFails(call[c].request) \/ ~fits THEN Failure ELSE Complete(1))
  BY SmallAnswersOK
<1>5. QED
  BY <1>1, <1>2, <1>3, <1>4, QuietAnswer

\* Status and report read an assessment that is intact.
LEMMA ReadAssessmentEffect ==
  ASSUME ServerInv, NEW c \in Call, ReadAssessment(c), server' = server
  PROVE  \E v : Effect(c, v)
<1>1. call[c].pc \in Unlinked /\ \A answer : Reports(call[c], answer)
  BY DEF ReadAssessment, At, Tool, Unlinked, Reports
<1>2. WorldKept
  BY QuietSent DEF ReadAssessment, WorldKept
<1>3. PICK answer \in {Failure, Complete(1)} : Respond(c, answer)
  BY Zenon DEF ReadAssessment
<1>4. AnswerOK(server, answer)
  BY SmallAnswersOK
<1>5. QED
  BY <1>1, <1>2, <1>3, <1>4, QuietAnswer

\* Resume reads the assessment it names and checks its origins before it leases it.
LEMMA PreflightEffect ==
  ASSUME ServerInv, NEW c \in Call, Preflight(c), server' = server
  PROVE  \E v : Effect(c, v)
<1> DEFINE w == call[c]
           request == w.request
           stored == assessments[request.id]
<1>1. /\ w.pc = "working" /\ Local(server, c, w) /\ DOMAIN w = WorkFields
      /\ request.tool \in {"assess_resume", "assess_status", "assess_report"}
  BY DEF ServerInv, Preflight, At, Tool, Local, Typed
<1>2. WorldKept
  BY QuietSent DEF Preflight, WorldKept
<1>3. IF RuntimeUnavailable \/ PreflightFails(request) THEN Respond(c, Failure)
      ELSE Goto(c, [w EXCEPT !.pc = "preflighted", !.id = {request.id}])
  BY Zenon DEF Preflight
<1>4. CASE RuntimeUnavailable \/ PreflightFails(request)
  <2>1. Respond(c, Failure)
    BY <1>3, <1>4
  <2>2. QED
    BY <1>1, <1>2, <2>1, FailureOK, QuietAnswer DEF Unlinked
<1>5. CASE ~(RuntimeUnavailable \/ PreflightFails(request))
  <2>1. PICK v : v = [w EXCEPT !.pc = "preflighted", !.id = {request.id}]
    OBVIOUS
  <2>2. Goto(c, v)
    BY <1>3, <1>5, <2>1
  <2>3. /\ DOMAIN v = WorkFields /\ v.pc = "preflighted" /\ v.id = {request.id}
        /\ v.request = w.request /\ v.answer = w.answer /\ v.index = w.index /\ v.plans = w.plans
        /\ v.planned = w.planned /\ v.failed = w.failed /\ v.manifest = w.manifest
        /\ v.copies = w.copies /\ v.proofs = w.proofs /\ v.error = w.error
    BY <1>1, <2>1 DEF WorkFields
  <2>4. request.id \in Id
    BY <1>1 DEF Local, Typed, IsRequest
  <2>5. Local(server, c, v)
    <3>1. Typed(v)
      BY <1>1, <2>3, <2>4 DEF Local, Typed, Places
    <3>2. Fresh(v) /\ InPlace(v) /\ SnapshotOK(server, v) /\ ScanOK(server, v)
      BY <1>1, <2>3 DEF Fresh, InPlace, SnapshotOK, ScanOK
    <3>3. BudgetsOK(v) /\ RunsItself(c, v)
      BY <1>1, <2>3 DEF Local, BudgetsOK, RunsItself
    <3>4. QED
      BY <1>1, <2>3, <3>1, <3>2, <3>3 DEF Local
  <2>6. Safe(server, stored)
    <3>1. stored.status # "none" /\ \A url \in UrlsOf(stored.proofs) : CheckURL(url)
      BY <1>5 DEF PreflightFails
    <3>2. \A url \in UrlsOf(stored.proofs) : url.origin \in Hosts(server)
      BY <3>1 DEF CheckURL, Hosts
    <3>3. QED
      BY <3>1, <3>2 DEF Safe, UrlsOf
  <2>7. Held(server, v, assessments)
    BY <2>3, <2>4, <2>6 DEF Held
  <2>8. Link(server, c, v, snapshots, assessments)
    BY <1>1, <2>3, <2>7, UnlinkedCalls DEF Link, Snapshotted, Begun, Completed, Concluded, Unlinked
  <2>9. Effect(c, v)
    BY <1>1, <1>2, <2>2, <2>3, <2>5, <2>8, QuietMove DEF Busy
  <2>10. QED
    BY <2>9
<1>6. QED
  BY <1>4, <1>5

-----------------------------------------------------------------------------
(* The assessment tools, up to the plan                                    *)

\* A call gives up, or goes on, before it has begun an assessment.
LEMMA LateLink ==
  ASSUME ServerInv, NEW c \in Call, call[c].pc \in {"copying", "ready", "preflighted"},
         call[c].request.tool \in {"assess_plan", "assess_run", "assess_resume"},
         NEW v, v.request = call[c].request, v.pc \in {"copying", "ready", "cleaning"},
         v.pc = "cleaning" /\ v.request.tool = "assess_run" => v.error
  PROVE  Link(server, c, v, snapshots, assessments)
<1>1. Link(server, c, call[c], snapshots, assessments)
  BY DEF ServerInv
<1>2. assessments[c].status = "none"
  BY <1>1 DEF Link, Begun
<1>3. c \in snapshots => v.request.tool \in {"assess_plan", "assess_run"}
  BY <1>1 DEF Link, Snapshotted
<1>4. Snapshotted(c, v, snapshots)
  BY <1>3 DEF Snapshotted
<1>5. Begun(server, c, v, assessments) /\ Completed(c, v, assessments) /\ Held(server, v, assessments)
  BY <1>2 DEF Begun, Completed, Held
<1>6. QED
  BY <1>4, <1>5 DEF Link, Concluded

\* A refusal leaves the call to be cleaned up, with an error.
LEMMA GiveUpEffect ==
  ASSUME ServerInv, NEW c \in Call, call[c].pc \in {"copying", "ready", "preflighted"},
         call[c].request.tool \in {"assess_plan", "assess_run", "assess_resume"},
         GiveUp(c), WorldKept
  PROVE  \E v : Effect(c, v)
<1> DEFINE w == call[c]
<1>1. Local(server, c, w) /\ DOMAIN w = WorkFields
  BY DEF ServerInv, Local, Typed
<1>2. PICK v : v = [w EXCEPT !.pc = "cleaning", !.error = TRUE]
  OBVIOUS
<1>3. Goto(c, v)
  BY <1>2 DEF GiveUp
<1>4. /\ DOMAIN v = WorkFields /\ v.pc = "cleaning" /\ v.error = TRUE
      /\ v.request = w.request /\ v.answer = w.answer /\ v.index = w.index /\ v.plans = w.plans
      /\ v.planned = w.planned /\ v.failed = w.failed /\ v.manifest = w.manifest
      /\ v.copies = w.copies /\ v.proofs = w.proofs /\ v.id = w.id
  BY <1>1, <1>2 DEF WorkFields
<1>5. Local(server, c, v)
  <2>1. Typed(v)
    BY <1>1, <1>4 DEF Local, Typed, Places
  <2>2. Fresh(v) /\ InPlace(v) /\ SnapshotOK(server, v) /\ ScanOK(server, v)
    BY <1>4 DEF Fresh, InPlace, SnapshotOK, ScanOK
  <2>3. BudgetsOK(v) /\ RunsItself(c, v)
    BY <1>1, <1>4 DEF Local, BudgetsOK, RunsItself
  <2>4. QED
    BY <1>1, <1>4, <2>1, <2>2, <2>3 DEF Local
<1>6. Link(server, c, v, snapshots, assessments)
  BY <1>4, LateLink
<1>7. Effect(c, v)
  BY <1>3, <1>4, <1>5, <1>6, QuietMove DEF Busy
<1>8. QED
  BY <1>7

\* loadManifestSnapshot accepts a manifest only of the operator's hosts.
LEMMA ManifestAccepted ==
  ASSUME ServerInv, NEW path, ~SnapshotRefused(path)
  PROVE  Decoded(files[path].manifest) /\ CanonicalOrigins(files[path].manifest) \subseteq Hosts(server)
<1>1. /\ CheckAssessmentPath(path) /\ files[path].kind = "manifest"
      /\ ValidateAssessmentManifestPolicy(files[path].manifest)
  BY Zenon DEF SnapshotRefused
<1>2. path \in File
  BY <1>1 DEF CheckAssessmentPath, ServerInv, OptionsOK
<1>3. Decoded(files[path].manifest)
  BY <1>1, <1>2 DEF ServerInv, FilesOK, Locals, IsContent
<1>4. \A authority \in OriginSet(files[path].manifest) : CheckURL(authority)
  BY <1>1, Zenon DEF ValidateAssessmentManifestPolicy
<1>5. CanonicalOrigins(files[path].manifest) \subseteq Hosts(server)
  BY <1>4 DEF CanonicalOrigins, CanonicalOrigin, CheckURL, Hosts
<1>6. QED
  BY <1>3, <1>5

\* The manifest is read once, and its origins are checked on what was read.
LEMMA ReadManifestEffect ==
  ASSUME ServerInv, NEW c \in Call, ReadManifest(c), server' = server
  PROVE  \E v : Effect(c, v)
<1> DEFINE w == call[c]
           path == w.request.manifest
           m == files[path].manifest
           refused(made) == \/ RuntimeUnavailable
                            \/ Tool(c) = "assess_run" /\ ~RequirePersistedAssessmentDatabase
                            \/ SnapshotRefused(path) \/ ~made
<1>1. /\ w.pc = "working" /\ Local(server, c, w) /\ DOMAIN w = WorkFields
      /\ w.request.tool \in {"assess_plan", "assess_run"}
  BY DEF ServerInv, ReadManifest, At, Tool, Local, Typed
<1>2. PICK made \in BOOLEAN :
        IF refused(made) THEN Respond(c, Failure) /\ UNCHANGED snapshots
        ELSE Goto(c, [w EXCEPT !.pc = "copying", !.manifest = {m}]) /\ snapshots' = snapshots \cup {c}
  BY Zenon DEF ReadManifest
<1>3. SentOK(server, call, sent') /\ UNCHANGED <<files, writes, assessments, verdicts>>
  BY QuietSent DEF ReadManifest
<1>4. CASE refused(made)
  <2>1. Respond(c, Failure) /\ UNCHANGED snapshots
    BY <1>2, <1>4
  <2>2. WorldKept
    BY <1>3, <2>1 DEF WorldKept, world
  <2>3. QED
    BY <1>1, <2>1, <2>2, FailureOK, QuietAnswer DEF Unlinked
<1>5. CASE ~refused(made)
  <2>1. PICK v : v = [w EXCEPT !.pc = "copying", !.manifest = {m}]
    OBVIOUS
  <2>2. Goto(c, v) /\ snapshots' = snapshots \cup {c}
    BY <1>2, <1>5, <2>1
  <2>3. Decoded(m) /\ CanonicalOrigins(m) \subseteq Hosts(server)
    BY <1>5, ManifestAccepted
  <2> HIDE DEF m
  <2>4. /\ DOMAIN v = WorkFields /\ v.pc = "copying" /\ v.manifest = {m}
        /\ v.request = w.request /\ v.answer = w.answer /\ v.index = w.index /\ v.plans = w.plans
        /\ v.planned = w.planned /\ v.failed = w.failed /\ v.id = w.id
        /\ v.copies = w.copies /\ v.proofs = w.proofs /\ v.error = w.error
    BY <1>1, <2>1 DEF WorkFields
  <2>5. Local(server, c, v)
    <3>1. Typed(v)
      BY <1>1, <2>4 DEF Local, Typed, Places
    <3>2. Fresh(v) /\ InPlace(v) /\ SnapshotOK(server, v) /\ ScanOK(server, v)
      BY <1>1, <2>3, <2>4 DEF Fresh, InPlace, SnapshotOK, ScanOK
    <3>3. BudgetsOK(v) /\ RunsItself(c, v)
      BY <1>1, <2>4 DEF Local, BudgetsOK, RunsItself, Fresh
    <3>4. QED
      BY <1>1, <2>4, <3>1, <3>2, <3>3 DEF Local
  <2>6. Link(server, c, v, snapshots', assessments)
    BY <1>1, <2>4, UnlinkedCalls DEF Link, Snapshotted, Begun, Completed, Held, Concluded, Unlinked
  <2>7. /\ snapshots' \subseteq Call /\ snapshots' \ {c} = snapshots \ {c}
        /\ StoreOK(assessments') /\ StoreMoved(c) /\ VerdictsOK' /\ files' = files /\ writes' = writes
    BY <1>3, <2>2, SameVerdicts DEF ServerInv, StoreMoved
  <2>8. Moved(c, v) /\ SlotMoved(c, v)
    BY <1>1, <2>2, <2>4, Goes DEF Goto, SlotMoved, Busy
  <2>9. Effect(c, v)
    BY <1>3, <2>4, <2>5, <2>6, <2>7, <2>8 DEF Effect
  <2>10. QED
    BY <2>9
<1>6. QED
  BY <1>4, <1>5

\* An input is copied as it was when it was read.
LEMMA CopyInputEffect ==
  ASSUME ServerInv, NEW c \in Call, CopyInput(c), server' = server
  PROVE  \E v : Effect(c, v)
<1> DEFINE w == call[c]
<1>1. /\ w.pc = "copying" /\ Local(server, c, w) /\ DOMAIN w = WorkFields
      /\ w.request.tool \in {"assess_plan", "assess_run"}
  BY DEF ServerInv, CopyInput, At, Local, Typed, InPlace
<1>2. WorldKept
  BY QuietSent DEF CopyInput, WorldKept
<1>3. PICK f \in ToCopy(c), wrote \in BOOLEAN :
        IF f \in Readable /\ wrote
        THEN Goto(c, [w EXCEPT !.copies = [g \in DOMAIN @ \cup {f} |-> IF g = f THEN files[f] ELSE @[g]]])
        ELSE GiveUp(c)
  BY Zenon DEF CopyInput
<1>4. CASE ~(f \in Readable /\ wrote)
  <2>1. GiveUp(c)
    BY <1>3, <1>4
  <2>2. QED
    BY <1>1, <1>2, <2>1, GiveUpEffect
<1>5. CASE f \in Readable /\ wrote
  <2> DEFINE copies == [g \in DOMAIN w.copies \cup {f} |-> IF g = f THEN files[f] ELSE w.copies[g]]
  <2>1. PICK v : v = [w EXCEPT !.copies = copies]
    OBVIOUS
  <2>2. Goto(c, v)
    BY <1>3, <1>5, <2>1
  <2>3. DOMAIN copies \subseteq File /\ Locals(copies)
    <3>1. f \in File /\ IsContent(files[f])
      BY <1>5 DEF Readable, ServerInv, FilesOK, Locals
    <3>2. DOMAIN w.copies \subseteq File /\ Locals(w.copies)
      BY <1>1 DEF Local, Typed
    <3>3. QED
      BY <3>1, <3>2 DEF Locals
  <2> HIDE DEF copies
  <2>4. /\ DOMAIN v = WorkFields /\ v.pc = "copying" /\ v.copies = copies
        /\ v.request = w.request /\ v.answer = w.answer /\ v.index = w.index /\ v.plans = w.plans
        /\ v.planned = w.planned /\ v.failed = w.failed /\ v.manifest = w.manifest /\ v.id = w.id
        /\ v.proofs = w.proofs /\ v.error = w.error
    BY <1>1, <2>1 DEF WorkFields
  <2>5. Local(server, c, v)
    <3>1. Typed(v)
      BY <1>1, <2>3, <2>4 DEF Local, Typed, Places
    <3>2. Fresh(v) /\ InPlace(v) /\ SnapshotOK(server, v) /\ ScanOK(server, v)
      BY <1>1, <2>4 DEF Local, Fresh, InPlace, SnapshotOK, ScanOK
    <3>3. BudgetsOK(v) /\ RunsItself(c, v)
      BY <1>1, <2>4 DEF Local, BudgetsOK, RunsItself
    <3>4. QED
      BY <1>1, <2>4, <3>1, <3>2, <3>3 DEF Local
  <2>6. Link(server, c, v, snapshots, assessments)
    BY <1>1, <2>4, LateLink
  <2>7. Effect(c, v)
    BY <1>1, <1>2, <2>2, <2>4, <2>5, <2>6, QuietMove DEF Busy
  <2>8. QED
    BY <2>7
<1>6. QED
  BY <1>4, <1>5

\* The manifest of the snapshot points to the copies.
LEMMA WriteManifestEffect ==
  ASSUME ServerInv, NEW c \in Call, WriteManifest(c), server' = server
  PROVE  \E v : Effect(c, v)
<1> DEFINE w == call[c]
<1>1. /\ w.pc = "copying" /\ Local(server, c, w)
      /\ w.request.tool \in {"assess_plan", "assess_run"}
  BY DEF ServerInv, WriteManifest, At, Local, InPlace
<1>2. WorldKept
  BY QuietSent DEF WriteManifest, WorldKept
<1>3. CASE GiveUp(c)
  BY <1>1, <1>2, <1>3, GiveUpEffect
<1>4. CASE Goto(c, [w EXCEPT !.pc = "ready"])
  <2>1. PICK v : v = [w EXCEPT !.pc = "ready"]
    OBVIOUS
  <2>2. Goto(c, v)
    BY <1>4, <2>1
  <2>3. /\ v.pc = "ready" /\ v.request = w.request /\ v.manifest = w.manifest
        /\ Typed(v) /\ AnswerOK(server, v.answer) /\ BudgetsOK(v) /\ RunsItself(c, v)
    BY <1>1, <2>1, OnlyPlace DEF Places
  <2>4. Local(server, c, v)
    BY <1>1, <2>3 DEF Local, Fresh, InPlace, SnapshotOK, ScanOK
  <2>5. Link(server, c, v, snapshots, assessments)
    BY <1>1, <2>3, LateLink
  <2>6. Effect(c, v)
    BY <1>1, <1>2, <2>2, <2>3, <2>4, <2>5, QuietMove DEF Busy
  <2>7. QED
    BY <2>6
<1>5. QED
  BY <1>3, <1>4 DEF WriteManifest

\* What the runtime plans from a snapshot.
LEMMA SnapshotPlanned ==
  ASSUME ServerInv, NEW c \in Call, call[c].pc = "ready", PreparedPlan(c).result = "planned"
  PROVE  /\ call[c].manifest = {SnapshotManifest(c)}
         /\ FitsBudgets(SnapshotManifest(c), PreparedPlan(c).proofs)
         /\ \A proof \in PreparedPlan(c).proofs : IsMatrix(proof)
         /\ \A proof \in PreparedPlan(c).proofs : \A case \in proof.cases : case.url.origin \in Hosts(server)
<1>1. Local(server, c, call[c]) /\ Runs(server.stored)
  BY DEF ServerInv, OptionsOK
<1>2. PICK m : call[c].manifest = {m} /\ Decoded(m) /\ CanonicalOrigins(m) \subseteq Hosts(server)
  BY <1>1 DEF Local, SnapshotOK
<1>3. SnapshotManifest(c) = m
  BY <1>2 DEF SnapshotManifest, The
<1>4. PICK plan : plan = PreparedPlan(c)
  OBVIOUS
<1>5. plan = Prepare(m, call[c].copies, server.stored, server.database # "none", FALSE)
      /\ plan.result = "planned" /\ Locals(call[c].copies)
  BY <1>1, <1>3, <1>4 DEF PreparedPlan, Local, Typed
<1>6. FitsBudgets(m, plan.proofs) /\ AuthorizedProofs(m, plan.proofs)
      /\ \A proof \in plan.proofs : IsMatrix(proof)
  BY <1>1, <1>2, <1>5, PreparedPlans
<1>7. \A proof \in plan.proofs : \A case \in proof.cases : case.url.origin \in Hosts(server)
  BY <1>2, <1>6 DEF AuthorizedProofs
<1>8. QED
  BY <1>2, <1>3, <1>4, <1>6, <1>7

\* assess_plan plans from the snapshot and leaves it to be removed.
LEMMA PlanEffect ==
  ASSUME ServerInv, NEW c \in Call, Plan(c), server' = server
  PROVE  \E v : Effect(c, v)
<1> DEFINE w == call[c]
           plan == PreparedPlan(c)
<1>1. /\ w.pc = "ready" /\ Local(server, c, w) /\ DOMAIN w = WorkFields
      /\ w.request.tool = "assess_plan"
  BY DEF ServerInv, Plan, At, Tool, Local, Typed
<1>2. WorldKept
  BY QuietSent DEF Plan, WorldKept
<1>3. \/ GiveUp(c)
      \/ plan.result = "planned" /\ Goto(c, [w EXCEPT !.pc = "cleaning", !.proofs = plan.proofs])
  BY Zenon DEF Plan
<1>4. CASE GiveUp(c)
  BY <1>1, <1>2, <1>4, GiveUpEffect
<1>5. CASE plan.result = "planned" /\ Goto(c, [w EXCEPT !.pc = "cleaning", !.proofs = plan.proofs])
  <2>1. /\ w.manifest = {SnapshotManifest(c)}
        /\ FitsBudgets(SnapshotManifest(c), plan.proofs)
    BY <1>1, <1>5, SnapshotPlanned
  <2>2. PICK proofs : proofs = plan.proofs
    OBVIOUS
  <2>3. PICK v : v = [w EXCEPT !.pc = "cleaning", !.proofs = proofs]
    OBVIOUS
  <2>4. Goto(c, v)
    BY <1>5, <2>2, <2>3
  <2>5. /\ DOMAIN v = WorkFields /\ v.pc = "cleaning" /\ v.proofs = proofs
        /\ v.request = w.request /\ v.answer = w.answer /\ v.index = w.index /\ v.plans = w.plans
        /\ v.planned = w.planned /\ v.failed = w.failed /\ v.manifest = w.manifest /\ v.id = w.id
        /\ v.copies = w.copies /\ v.error = w.error
    BY <1>1, <2>3 DEF WorkFields
  <2>6. Local(server, c, v)
    <3>1. Typed(v)
      BY <1>1, <2>5 DEF Local, Typed, Places
    <3>2. Fresh(v) /\ InPlace(v) /\ SnapshotOK(server, v) /\ ScanOK(server, v)
      BY <1>1, <2>5 DEF Fresh, InPlace, SnapshotOK, ScanOK
    <3>3. BudgetsOK(v)
      <4>1. The(v.manifest) = SnapshotManifest(c)
        BY <2>5 DEF SnapshotManifest
      <4>2. QED
        BY <2>1, <2>2, <2>5, <4>1 DEF BudgetsOK
    <3>4. RunsItself(c, v)
      BY <1>1, <2>5 DEF RunsItself
    <3>5. QED
      BY <1>1, <2>5, <3>1, <3>2, <3>3, <3>4 DEF Local
  <2>7. Link(server, c, v, snapshots, assessments)
    BY <1>1, <2>5, LateLink
  <2>8. Effect(c, v)
    BY <1>1, <1>2, <2>4, <2>5, <2>6, <2>7, QuietMove DEF Busy
  <2>9. QED
    BY <2>8
<1>6. QED
  BY <1>3, <1>4, <1>5

-----------------------------------------------------------------------------
(* The assessment tools, from the plan on                                  *)

\* Nobody executes an assessment that is not running under a lease.
LEMMA NotExecuting ==
  ASSUME ServerInv, NEW i \in Id, ~(assessments[i].status = "running" /\ assessments[i].leased)
  PROVE  \A d \in Call : call[d].pc = "executing" => call[d].id # {i}
<1> SUFFICES ASSUME NEW d \in Call, call[d].pc = "executing" PROVE call[d].id # {i}
  OBVIOUS
<1>1. PICK j \in Id : call[d].id = {j} /\ assessments[j].status = "running" /\ assessments[j].leased
  BY DEF ServerInv, Link, Held
<1>2. QED
  BY <1>1

\* persistPreparedPlan begins an assessment of the call's own: all of a plan,
\* or what a failure left of it.
Stored(c, full) ==
  /\ IsAssessment(full) /\ Safe(server, full)
  /\ assessments' = [assessments EXCEPT ![c] = full]

\* A run that has begun executes an assessment of its own.
LEMMA BegunEffect ==
  ASSUME ServerInv, NEW c \in Call, NEW v, NEW full, NEW proofs, Stored(c, full), Goto(c, v),
         call[c].pc = "ready", call[c].request.tool = "assess_run",
         v = [call[c] EXCEPT !.pc = v.pc, !.proofs = proofs, !.id = {c}, !.error = v.error],
         v.pc \in {"executing", "cleaning"}, v.error \in BOOLEAN,
         v.pc = "executing" => full.status = "running" /\ full.leased,
         v.pc = "cleaning" => v.error,
         proofs # {} => FitsBudgets(The(call[c].manifest), proofs),
         server' = server, SentOK(server, call, sent'), UNCHANGED <<files, writes, snapshots, verdicts>>
  PROVE  Effect(c, v)
<1> DEFINE w == call[c]
<1>1. Local(server, c, w) /\ DOMAIN w = WorkFields
  BY DEF ServerInv, Local, Typed
<1>2. /\ DOMAIN v = WorkFields /\ v.id = {c} /\ v.proofs = proofs
      /\ v.request = w.request /\ v.answer = w.answer /\ v.index = w.index /\ v.plans = w.plans
      /\ v.planned = w.planned /\ v.failed = w.failed /\ v.manifest = w.manifest
      /\ v.copies = w.copies
  BY <1>1 DEF WorkFields
<1>3. c \in Id /\ DOMAIN assessments = Id /\ assessments[c].status = "none"
  BY DEF Id, ServerInv, StoreOK, Link, Begun
<1>4. assessments'[c] = full /\ DOMAIN assessments' = Id
      /\ \A i \in Id \ {c} : assessments'[i] = assessments[i]
  BY <1>3 DEF Stored
<1>5. \A d \in Call : call[d].pc = "executing" => call[d].id # {c}
  BY <1>3, NotExecuting
<1>6. Local(server, c, v)
  <2>1. Typed(v)
    BY <1>1, <1>2, <1>3 DEF Local, Typed, Places
  <2>2. Fresh(v) /\ InPlace(v) /\ SnapshotOK(server, v) /\ ScanOK(server, v)
    BY <1>2 DEF Fresh, InPlace, SnapshotOK, ScanOK
  <2>3. BudgetsOK(v) /\ RunsItself(c, v)
    BY <1>2 DEF BudgetsOK, RunsItself
  <2>4. Permits(server, v.request) /\ AnswerOK(server, v.answer)
    BY <1>1, <1>2 DEF Local
  <2>5. QED
    BY <2>1, <2>2, <2>3, <2>4 DEF Local
<1>7. Link(server, c, v, snapshots, assessments')
  <2>1. Snapshotted(c, v, snapshots) /\ Begun(server, c, v, assessments')
    BY <1>2 DEF Snapshotted, Begun
  <2>2. Completed(c, v, assessments')
    BY DEF Completed
  <2>3. Held(server, v, assessments')
    BY <1>2, <1>3, <1>4 DEF Held, Stored
  <2>4. QED
    BY <1>2, <2>1, <2>2, <2>3 DEF Link, Concluded
<1>8. StoreOK(assessments')
  BY <1>4 DEF StoreOK, Stored, ServerInv
<1>9. StoreMoved(c)
  BY <1>3, <1>4, <1>5 DEF StoreMoved, Stored
<1>10. VerdictsOK' /\ snapshots' \subseteq Call
  BY SameVerdicts DEF ServerInv
<1>11. Moved(c, v) /\ SlotMoved(c, v)
  BY Goes DEF Goto, SlotMoved, Busy
<1>12. QED
  BY <1>2, <1>5, <1>6, <1>7, <1>8, <1>9, <1>10, <1>11 DEF Effect

\* What a run persists is safe: its cases go to the operator's hosts.
LEMMA PersistedAssessment ==
  ASSUME NEW m, NEW proofs, \A proof \in proofs : IsMatrix(proof),
         \A proof \in proofs : \A case \in proof.cases : case.url.origin \in Hosts(server)
  PROVE  /\ IsAssessment(Persisted(m, proofs)) /\ Safe(server, Persisted(m, proofs))
         /\ Persisted(m, proofs).status = "running" /\ Persisted(m, proofs).leased
         /\ \A status \in {"failed", "running"} :
              LET part == [Persisted(m, proofs) EXCEPT !.status = status, !.intact = FALSE,
                                                       !.leased = FALSE]
              IN  IsAssessment(part) /\ Safe(server, part)
<1> DEFINE D == {"status", "intact", "leased", "origins", "proofs", "done", "fileSecrets", "window"}
           Shape(x, status) ==
             /\ x = [k \in D |-> x[k]]
             /\ x.status = status /\ x.proofs = proofs
<1>1. \A x : \A status \in {"failed", "running"} :
        Shape(x, status) => IsAssessment(x) /\ Safe(server, x)
  <2> SUFFICES ASSUME NEW x, NEW status \in {"failed", "running"}, Shape(x, status)
               PROVE  IsAssessment(x) /\ Safe(server, x)
    OBVIOUS
  <2>1. PICK whole : whole = [status |-> x.status, intact |-> x.intact, leased |-> x.leased,
               origins |-> x.origins, proofs |-> x.proofs, done |-> x.done,
               fileSecrets |-> x.fileSecrets, window |-> x.window]
    OBVIOUS
  <2>2. x = whole
    BY <2>1
  <2>3. QED
    BY <2>1, <2>2 DEF IsAssessment, Safe
<1>2. PICK full : full = Persisted(m, proofs)
  OBVIOUS
<1>3. Shape(full, "running") /\ full.leased
  BY <1>2 DEF Persisted
<1>4. ASSUME NEW status \in {"failed", "running"}
      PROVE  Shape([full EXCEPT !.status = status, !.intact = FALSE, !.leased = FALSE], status)
  BY <1>3
<1> HIDE DEF Shape
<1>5. IsAssessment(full) /\ Safe(server, full)
  BY <1>1, <1>3
<1>6. full.status = "running" /\ full.leased
  BY <1>3 DEF Shape
<1>7. \A status \in {"failed", "running"} :
        /\ IsAssessment([full EXCEPT !.status = status, !.intact = FALSE, !.leased = FALSE])
        /\ Safe(server, [full EXCEPT !.status = status, !.intact = FALSE, !.leased = FALSE])
  BY <1>1, <1>4, Zenon
<1>8. QED
  BY <1>2, <1>5, <1>6, <1>7, Zenon

\* assess_run plans from the snapshot, persists the assessment and executes it.
LEMMA RunEffect ==
  ASSUME ServerInv, NEW c \in Call, Run(c), server' = server
  PROVE  \E v : Effect(c, v)
<1> DEFINE w == call[c]
           plan == PreparedPlan(c)
           m == SnapshotManifest(c)
           full == Persisted(m, plan.proofs)
           part(status) == [full EXCEPT !.status = status, !.intact = FALSE, !.leased = FALSE]
           next == [w EXCEPT !.proofs = plan.proofs, !.id = {c}]
<1>1. /\ w.pc = "ready" /\ Local(server, c, w) /\ DOMAIN w = WorkFields
      /\ w.request.tool = "assess_run"
  BY DEF ServerInv, Run, At, Tool, Local, Typed
<1>2. SentOK(server, call, sent') /\ UNCHANGED <<files, writes, snapshots, verdicts>>
  BY QuietSent DEF Run
<1>3. \/ GiveUp(c) /\ UNCHANGED assessments
      \/ /\ plan.result = "planned" /\ assessments' = [assessments EXCEPT ![c] = full]
         /\ Goto(c, [next EXCEPT !.pc = "executing"])
      \/ /\ plan.result = "planned"
         /\ \E status \in {"failed", "running"} : assessments' = [assessments EXCEPT ![c] = part(status)]
         /\ Goto(c, [next EXCEPT !.pc = "cleaning", !.error = TRUE])
  BY Zenon DEF Run
<1>4. CASE GiveUp(c) /\ UNCHANGED assessments
  <2>1. WorldKept
    BY <1>2, <1>4 DEF WorldKept, world
  <2>2. QED
    BY <1>1, <1>4, <2>1, GiveUpEffect
<1>5. CASE plan.result = "planned"
  <2>1. /\ w.manifest = {m} /\ FitsBudgets(m, plan.proofs)
        /\ \A proof \in plan.proofs : IsMatrix(proof)
        /\ \A proof \in plan.proofs : \A case \in proof.cases : case.url.origin \in Hosts(server)
    BY <1>1, <1>5, SnapshotPlanned
  <2>2. FitsBudgets(The(w.manifest), plan.proofs)
    BY <2>1 DEF SnapshotManifest
  <2> HIDE DEF plan, m
  <2>3. /\ IsAssessment(full) /\ Safe(server, full) /\ full.status = "running" /\ full.leased
        /\ \A status \in {"failed", "running"} : IsAssessment(part(status)) /\ Safe(server, part(status))
    BY <2>1, PersistedAssessment
  <2> HIDE DEF full, part
  <2>4. CASE assessments' = [assessments EXCEPT ![c] = full] /\ Goto(c, [next EXCEPT !.pc = "executing"])
    <3>1. PICK v : v = [next EXCEPT !.pc = "executing"]
      OBVIOUS
    <3>2. /\ v = [w EXCEPT !.pc = v.pc, !.proofs = plan.proofs, !.id = {c}, !.error = v.error]
          /\ v.pc = "executing" /\ v.error \in BOOLEAN
      BY <1>1, <3>1 DEF WorkFields, Local, Typed
    <3>3. Goto(c, v) /\ Stored(c, full)
      BY <2>3, <2>4, <3>1 DEF Stored
    <3>4. Effect(c, v)
      BY <1>1, <1>2, <2>2, <2>3, <3>2, <3>3, BegunEffect
    <3>5. QED
      BY <3>4
  <2>5. CASE /\ \E status \in {"failed", "running"} : assessments' = [assessments EXCEPT ![c] = part(status)]
             /\ Goto(c, [next EXCEPT !.pc = "cleaning", !.error = TRUE])
    <3>1. PICK v : v = [next EXCEPT !.pc = "cleaning", !.error = TRUE]
      OBVIOUS
    <3>2. PICK status \in {"failed", "running"} : assessments' = [assessments EXCEPT ![c] = part(status)]
      BY <2>5
    <3>3. /\ v = [w EXCEPT !.pc = v.pc, !.proofs = plan.proofs, !.id = {c}, !.error = v.error]
          /\ v.pc = "cleaning" /\ v.error = TRUE
      BY <1>1, <3>1 DEF WorkFields
    <3>4. Goto(c, v) /\ Stored(c, part(status))
      BY <2>3, <2>5, <3>1, <3>2 DEF Stored
    <3>5. Effect(c, v)
      BY <1>1, <1>2, <2>2, <3>3, <3>4, BegunEffect
    <3>6. QED
      BY <3>5
  <2>6. CASE GiveUp(c) /\ UNCHANGED assessments
    BY <1>4, <2>6
  <2>7. QED
    BY <1>3, <2>4, <2>5, <2>6
<1>6. QED
  BY <1>3, <1>4, <1>5

\* Resume takes over only what nobody executes.
LEMMA ResumeEffect ==
  ASSUME ServerInv, NEW c \in Call, Resume(c), server' = server
  PROVE  \E v : Effect(c, v)
<1> DEFINE w == call[c]
           id == w.request.id
           stored == assessments[id]
           open == stored.status \in {"running", "canceled"}
           refused == \/ ~stored.intact \/ ~WithinTimeWindow(The(stored.window))
                      \/ open /\ stored.leased
<1>1. /\ w.pc = "preflighted" /\ Local(server, c, w) /\ DOMAIN w = WorkFields
      /\ w.request.tool = "assess_resume"
  BY DEF ServerInv, Resume, At, Tool, Local, Typed
<1>2. SentOK(server, call, sent') /\ UNCHANGED <<files, writes, snapshots, verdicts>>
  BY QuietSent DEF Resume
<1>3. IF refused THEN GiveUp(c) /\ UNCHANGED assessments
      ELSE IF ~open THEN Goto(c, [w EXCEPT !.pc = "cleaning"]) /\ UNCHANGED assessments
      ELSE /\ assessments' = [assessments EXCEPT ![id].status = "running", ![id].leased = TRUE]
           /\ Goto(c, [w EXCEPT !.pc = "executing"])
  BY Zenon DEF Resume
<1>4. id \in Id /\ w.id = {id} /\ Safe(server, stored) /\ c \notin snapshots
      /\ assessments[c].status = "none"
  <2>1. Held(server, w, assessments)
    BY DEF ServerInv, Link
  <2>2. c \notin snapshots /\ assessments[c].status = "none"
    BY <1>1, UnlinkedCalls DEF Unlinked
  <2>3. QED
    BY <1>1, <2>1, <2>2 DEF Held
<1>5. CASE refused
  <2>1. GiveUp(c) /\ WorldKept
    BY <1>2, <1>3, <1>5 DEF WorldKept, world
  <2>2. QED
    BY <1>1, <2>1, GiveUpEffect
<1>6. CASE ~refused /\ ~open
  <2>1. PICK v : v = [w EXCEPT !.pc = "cleaning"]
    OBVIOUS
  <2>2. Goto(c, v) /\ WorldKept
    BY <1>2, <1>3, <1>6, <2>1 DEF WorldKept, world
  <2>3. /\ v.pc = "cleaning" /\ v.request = w.request
        /\ Typed(v) /\ AnswerOK(server, v.answer) /\ BudgetsOK(v) /\ RunsItself(c, v)
    BY <1>1, <2>1, OnlyPlace DEF Places
  <2>4. Local(server, c, v)
    BY <1>1, <2>3 DEF Local, Fresh, InPlace, SnapshotOK, ScanOK
  <2>5. Link(server, c, v, snapshots, assessments)
    BY <1>1, <2>3, LateLink
  <2>6. Effect(c, v)
    BY <1>1, <2>2, <2>3, <2>4, <2>5, QuietMove DEF Busy
  <2>7. QED
    BY <2>6
<1>7. CASE ~refused /\ open
  <2>1. PICK v : v = [w EXCEPT !.pc = "executing"]
    OBVIOUS
  <2>2. Goto(c, v) /\ assessments' = [assessments EXCEPT ![id].status = "running", ![id].leased = TRUE]
    BY <1>3, <1>7, <2>1
  <2>3. /\ v.pc = "executing" /\ v.request = w.request /\ v.id = w.id
        /\ Typed(v) /\ AnswerOK(server, v.answer) /\ BudgetsOK(v) /\ RunsItself(c, v)
    BY <1>1, <2>1, OnlyPlace DEF Places
  <2>4. Local(server, c, v)
    BY <1>1, <2>3 DEF Local, Fresh, InPlace, SnapshotOK, ScanOK
  <2>5. DOMAIN assessments = Id /\ IsAssessment(stored)
    BY <1>4 DEF ServerInv, StoreOK
  <2>6. PICK taken : taken = [stored EXCEPT !.status = "running", !.leased = TRUE]
    OBVIOUS
  <2>7. IsAssessment(taken) /\ taken.status = "running" /\ taken.leased /\ taken.proofs = stored.proofs
    BY <2>5, <2>6 DEF IsAssessment
  <2>8. /\ DOMAIN assessments' = Id /\ assessments'[id] = taken
        /\ \A i \in Id \ {id} : assessments'[i] = assessments[i]
    BY <1>4, <2>2, <2>5, <2>6
  <2>9. Safe(server, taken)
    BY <1>4, <2>7 DEF Safe
  <2>10. id # c
    BY <1>4 DEF Safe
  <2>11. \A d \in Call : call[d].pc = "executing" => call[d].id # {id}
    BY <1>4, <1>7, NotExecuting
  <2>12. Link(server, c, v, snapshots, assessments')
    <3>1. c \in Id /\ assessments'[c] = assessments[c]
      BY <2>8, <2>10 DEF Id
    <3>2. Snapshotted(c, v, snapshots) /\ Begun(server, c, v, assessments')
      BY <1>4, <3>1 DEF Snapshotted, Begun
    <3>3. Completed(c, v, assessments')
      BY <2>3 DEF Completed
    <3>4. Held(server, v, assessments')
      BY <1>4, <2>3, <2>7, <2>8, <2>9 DEF Held
    <3>5. QED
      BY <1>1, <2>3, <3>2, <3>3, <3>4 DEF Link, Concluded
  <2>13. StoreOK(assessments') /\ StoreMoved(c)
    <3>1. StoreOK(assessments')
      BY <2>7, <2>8 DEF StoreOK, ServerInv
    <3>2. StoreMoved(c)
      BY <1>7, <2>8, <2>9, <2>11 DEF StoreMoved
    <3>3. QED
      BY <3>1, <3>2
  <2>14. VerdictsOK' /\ snapshots' \subseteq Call
    BY <1>2, SameVerdicts DEF ServerInv
  <2>15. Moved(c, v) /\ SlotMoved(c, v)
    BY <1>1, <2>2, <2>3, Goes DEF Goto, SlotMoved, Busy
  <2>16. Effect(c, v)
    BY <1>2, <1>4, <2>3, <2>4, <2>11, <2>12, <2>13, <2>14, <2>15 DEF Effect
  <2>17. QED
    BY <2>16
<1>8. QED
  BY <1>5, <1>6, <1>7

\* A proof is sent to the operator's hosts, and what it shows is right.
LEMMA ProofsSent ==
  ASSUME ServerInv, NEW c \in Call, NEW stored, NEW attempted \in SUBSET stored.proofs,
         Safe(server, stored), call[c].pc = "executing", Sends(c, "assessment", UrlsOf(attempted), FALSE)
  PROVE  SentOK(server, call, sent')
<1>1. Local(server, c, call[c]) /\ Permits(server, call[c].request)
      /\ call[c].request.tool \in {"assess_run", "assess_resume"} /\ SentOK(server, call, sent)
  BY DEF ServerInv, Local, InPlace
<1>2. server.active
  BY <1>1 DEF Permits
<1>3. \A url \in UrlsOf(attempted) : url.origin \in Hosts(server)
  BY DEF UrlsOf, Safe
<1>4. \A request \in sent' : request \in sent
        \/ \E url \in UrlsOf(attempted) :
             request = [call |-> c, kind |-> "assessment", url |-> url, unsafe |-> FALSE]
  BY DEF Sends, Outgoing
<1>5. QED
  BY <1>1, <1>2, <1>3, <1>4 DEF SentOK

\* The verdicts of an execution are right.
LEMMA ProofsJudged ==
  ASSUME ServerInv, server' = server, NEW done, \A proof \in done : IsMatrix(proof),
         verdicts' = verdicts \cup {[proof |-> proof, status |-> Evaluated(proof)] : proof \in done}
  PROVE  VerdictsOK'
<1>1. server.behaviour \in Behaviour
  BY DEF ServerInv, OptionsOK
<1>2. \A proof \in done : RightVerdict(proof, Evaluated(proof))
  BY <1>1, MatrixVerdicts
<1>3. \A verdict \in verdicts' : RightVerdict(verdict.proof, verdict.status)
  <2> SUFFICES ASSUME NEW verdict \in verdicts' PROVE RightVerdict(verdict.proof, verdict.status)
    OBVIOUS
  <2>1. CASE verdict \in verdicts
    BY <2>1 DEF ServerInv, VerdictsOK
  <2>2. CASE verdict \notin verdicts
    <3>1. PICK proof \in done : verdict = [proof |-> proof, status |-> Evaluated(proof)]
      BY <2>2
    <3>2. verdict.proof = proof /\ verdict.status = Evaluated(proof)
      BY <3>1
    <3>3. QED
      BY <1>2, <3>2
  <2>3. QED
    BY <2>1, <2>2
<1>4. QED
  BY <1>3, SameVerdict DEF VerdictsOK

\* An assessment sends its cases and succeeds, fails or is canceled.
LEMMA ExecuteEffect ==
  ASSUME ServerInv, NEW c \in Call, Execute(c), server' = server
  PROVE  \E v : Effect(c, v)
<1> DEFINE w == call[c]
           id == The(w.id)
           left == assessments[id].proofs \ assessments[id].done
<1>1. /\ w.pc = "executing" /\ Local(server, c, w) /\ DOMAIN w = WorkFields
      /\ Link(server, c, w, snapshots, assessments)
      /\ UNCHANGED <<files, writes, snapshots>>
  BY DEF ServerInv, Execute, At, Local, Typed
<1>2. PICK i \in Id : /\ w.id = {i} /\ Safe(server, assessments[i])
                      /\ assessments[i].status = "running" /\ assessments[i].leased
  BY <1>1 DEF Link, Held
<1>3. id = i
  BY <1>2 DEF The
<1>4. PICK attempted \in SUBSET left : \E done \in SUBSET attempted :
        /\ Sends(c, "assessment", UrlsOf(attempted), FALSE)
        /\ verdicts' = verdicts \cup {[proof |-> proof, status |-> Evaluated(proof)] : proof \in done}
        /\ \E status \in IF done = left THEN {"succeeded"} ELSE {"failed", "canceled"} :
             assessments' = [assessments EXCEPT ![id].status = status, ![id].leased = FALSE,
                                                ![id].done = @ \cup done]
        /\ Goto(c, [w EXCEPT !.pc = "cleaning", !.error = done # left])
  BY Zenon DEF Execute
<1>5. PICK done \in SUBSET attempted :
        /\ Sends(c, "assessment", UrlsOf(attempted), FALSE)
        /\ verdicts' = verdicts \cup {[proof |-> proof, status |-> Evaluated(proof)] : proof \in done}
        /\ \E status \in IF done = left THEN {"succeeded"} ELSE {"failed", "canceled"} :
             assessments' = [assessments EXCEPT ![id].status = status, ![id].leased = FALSE,
                                                ![id].done = @ \cup done]
        /\ Goto(c, [w EXCEPT !.pc = "cleaning", !.error = done # left])
  BY <1>4
<1>6. PICK status \in IF done = left THEN {"succeeded"} ELSE {"failed", "canceled"} :
        assessments' = [assessments EXCEPT ![i].status = status, ![i].leased = FALSE,
                                           ![i].done = @ \cup done]
  BY <1>3, <1>5
<1>7. attempted \subseteq assessments[i].proofs /\ done \subseteq assessments[i].proofs
  BY <1>3, <1>4, <1>5
<1>8. PICK error : error = (done # left)
  OBVIOUS
<1>9. PICK v : v = [w EXCEPT !.pc = "cleaning", !.error = error]
  OBVIOUS
<1>10. Goto(c, v) /\ error \in BOOLEAN /\ (~error => status = "succeeded")
  BY <1>5, <1>6, <1>8, <1>9
<1> HIDE DEF left, id
<1>11. DOMAIN assessments = Id /\ IsAssessment(assessments[i])
  BY DEF ServerInv, StoreOK
<1>12. SentOK(server, call, sent')
  BY <1>1, <1>2, <1>5, <1>7, ProofsSent
<1>13. VerdictsOK'
  BY <1>5, <1>7, <1>11, ProofsJudged DEF IsAssessment
<1>14. PICK ended : ended = [assessments[i] EXCEPT !.status = status, !.leased = FALSE, !.done = @ \cup done]
  OBVIOUS
<1>15. /\ DOMAIN assessments' = Id /\ assessments'[i] = ended
       /\ \A j \in Id \ {i} : assessments'[j] = assessments[j]
  BY <1>6, <1>11, <1>14
<1>16. IsAssessment(ended) /\ ended.status = status /\ ended.proofs = assessments[i].proofs
       /\ status \in {"succeeded", "failed", "canceled"}
  BY <1>6, <1>11, <1>14 DEF IsAssessment
<1>17. Safe(server, ended)
  BY <1>2, <1>16 DEF Safe
<1>18. StoreOK(assessments')
  BY <1>15, <1>16 DEF StoreOK, ServerInv
<1>19. StoreMoved(c)
  <2>1. \A d \in Call \ {c} : call[d].pc = "executing" => call[d].id # {i}
    BY <1>1, <1>2 DEF ServerInv, Alone
  <2>2. QED
    BY <1>2, <1>15, <1>17, <2>1 DEF StoreMoved
<1>20. /\ DOMAIN v = WorkFields /\ v.pc = "cleaning" /\ v.error = error
       /\ v.request = w.request /\ v.answer = w.answer /\ v.index = w.index /\ v.plans = w.plans
       /\ v.planned = w.planned /\ v.failed = w.failed /\ v.manifest = w.manifest
       /\ v.copies = w.copies /\ v.proofs = w.proofs /\ v.id = w.id
  BY <1>1, <1>9 DEF WorkFields
<1>21. Local(server, c, v)
  <2>1. Typed(v)
    BY <1>1, <1>10, <1>20 DEF Local, Typed, Places
  <2>2. Fresh(v) /\ InPlace(v) /\ SnapshotOK(server, v) /\ ScanOK(server, v)
    BY <1>1, <1>20 DEF Local, Fresh, InPlace, SnapshotOK, ScanOK
  <2>3. BudgetsOK(v) /\ RunsItself(c, v)
    BY <1>1, <1>20 DEF Local, BudgetsOK, RunsItself
  <2>4. QED
    BY <1>1, <1>20, <2>1, <2>2, <2>3 DEF Local
<1>22. Link(server, c, v, snapshots, assessments')
  <2>1. c \in Id
    BY DEF Id
  <2>2. assessments'[c].status # "none" => assessments[c].status # "none"
    BY <1>2, <1>15, <2>1
  <2>3. Snapshotted(c, v, snapshots) /\ Begun(server, c, v, assessments')
    BY <1>1, <1>20, <2>2 DEF Link, Snapshotted, Begun
  <2>4. Completed(c, v, assessments')
    <3> SUFFICES ASSUME v.request.tool = "assess_run", ~v.error PROVE assessments'[c].status = "succeeded"
      BY <1>20 DEF Completed
    <3>1. i = c
      BY <1>1, <1>2, <1>20 DEF Local, RunsItself
    <3>2. QED
      BY <1>10, <1>15, <1>16, <1>20, <3>1
  <2>5. Held(server, v, assessments')
    BY <1>20 DEF Held
  <2>6. QED
    BY <1>1, <1>20, <2>3, <2>4, <2>5 DEF Link, Concluded
<1>23. Moved(c, v) /\ SlotMoved(c, v)
  BY <1>1, <1>10, <1>20, Goes DEF Goto, SlotMoved, Busy
<1>24. snapshots' \subseteq Call /\ snapshots' \ {c} = snapshots \ {c} /\ snapshots' = snapshots
       /\ files' = files /\ writes' = writes
  BY <1>1 DEF ServerInv
<1>25. Effect(c, v)
  BY <1>12, <1>13, <1>18, <1>19, <1>20, <1>21, <1>22, <1>23, <1>24 DEF Effect
<1>26. QED
  BY <1>25

\* runResponse keeps the assessment's ID while its answer can hold one.
LEMMA RunResponseOK ==
  ASSUME ServerInv, NEW id, NEW error \in BOOLEAN, NEW fits \in BOOLEAN
  PROVE  /\ AnswerOK(server, AssessmentRunResponse(id, error, fits))
         /\ error => AssessmentRunResponse(id, error, fits).error
         /\ server.output # "tiny" => AssessmentRunResponse(id, error, fits).id = id
<1>1. server.maxResults \in Nat /\ 1 <= server.maxResults
  BY DEF ServerInv, OptionsOK, New
<1>2. PICK answer : answer = AssessmentRunResponse(id, error, fits)
  OBVIOUS
<1>3. PICK failed : failed = (error \/ ~fits)
  OBVIOUS
<1>4. failed \in BOOLEAN /\ (failed <=> error \/ ~fits)
  BY <1>3
<1>5. PICK named : named = IF fits \/ server.output # "tiny" THEN id ELSE {}
  OBVIOUS
<1>6. answer = [[error |-> failed, id |-> id, shown |-> IF fits THEN 1 ELSE 0, total |-> 1,
                 truncated |-> FALSE] EXCEPT !.id = named]
  BY <1>2, <1>3, <1>5, Zenon DEF AssessmentRunResponse, Answer
<1>7. /\ answer.error = failed /\ answer.id = named /\ answer.shown = (IF fits THEN 1 ELSE 0)
      /\ answer.total = 1 /\ answer.truncated = FALSE
  BY <1>6
<1>8. AnswerOK(server, answer)
  BY <1>1, <1>4, <1>7 DEF AnswerOK
<1>9. (error => answer.error) /\ (server.output # "tiny" => answer.id = id)
  BY <1>4, <1>5, <1>7
<1>10. QED
  BY <1>2, <1>8, <1>9

\* The snapshot is removed and the call answered, with an error if that failed.
LEMMA CleanEffect ==
  ASSUME ServerInv, NEW c \in Call, Clean(c), server' = server
  PROVE  \E v : Effect(c, v)
<1> DEFINE w == call[c]
           answerOf(error, fits) == IF Tool(c) # "assess_plan" THEN AssessmentRunResponse(w.id, error, fits)
                                    ELSE IF error \/ ~fits THEN Failure ELSE Complete(1)
<1>1. /\ w.pc = "cleaning" /\ Local(server, c, w) /\ Link(server, c, w, snapshots, assessments)
      /\ w.request.tool \in {"assess_plan", "assess_run", "assess_resume"}
      /\ UNCHANGED <<files, writes, assessments, verdicts>>
  BY DEF ServerInv, Clean, At, Local, InPlace
<1>2. PICK removed \in IF c \in snapshots THEN BOOLEAN ELSE {TRUE}, fits \in Fits :
        /\ snapshots' = IF removed THEN snapshots \ {c} ELSE snapshots
        /\ Respond(c, answerOf(w.error \/ ~removed, fits))
  BY Zenon DEF Clean
<1>3. PICK error : error = (w.error \/ ~removed)
  OBVIOUS
<1>4. /\ error \in BOOLEAN /\ fits \in BOOLEAN /\ removed \in BOOLEAN
      /\ ~error => ~w.error /\ removed
  BY <1>1, <1>2, <1>3, FitsTyped DEF Local, Typed
<1>5. PICK answer : answer = answerOf(error, fits)
  OBVIOUS
<1>6. /\ AnswerOK(server, answer) /\ (error => answer.error)
      /\ w.request.tool = "assess_run" /\ server.output # "tiny" => answer.id = w.id
  <2>1. CASE Tool(c) # "assess_plan"
    <3>1. answer = AssessmentRunResponse(w.id, error, fits)
      BY <1>5, <2>1
    <3>2. QED
      BY <1>4, <3>1, RunResponseOK
  <2>2. CASE Tool(c) = "assess_plan"
    BY <1>5, <2>2, SmallAnswersOK, FailureOK DEF Tool
  <2>3. QED
    BY <2>1, <2>2
<1>7. Respond(c, answer)
  BY <1>2, <1>3, <1>5
<1>8. PICK v : /\ Moved(c, v) /\ SlotMoved(c, v) /\ Local(server, c, v)
               /\ v.pc = "answered" /\ v.answer = answer
               /\ v.request = w.request /\ v.id = w.id /\ v.error = w.error
  BY <1>6, <1>7, Responds
<1>9. Link(server, c, v, snapshots', assessments)
  <2>1. Snapshotted(c, v, snapshots')
    <3>1. c \in snapshots' => c \in snapshots /\ ~removed
      BY <1>2, <1>4
    <3>2. c \in snapshots' => answer.error
      BY <1>3, <1>4, <1>6, <3>1
    <3>3. QED
      BY <1>1, <1>8, <3>1, <3>2 DEF Link, Snapshotted
  <2>2. Begun(server, c, v, assessments)
    BY <1>1, <1>6, <1>8 DEF Link, Begun
  <2>3. Completed(c, v, assessments)
    BY <1>1, <1>4, <1>6, <1>8 DEF Link, Completed
  <2>4. Held(server, v, assessments)
    BY <1>8 DEF Held
  <2>5. QED
    BY <1>1, <1>8, <2>1, <2>2, <2>3, <2>4 DEF Link, Concluded
<1>10. /\ snapshots' \subseteq Call /\ snapshots' \ {c} = snapshots \ {c}
  BY <1>2 DEF ServerInv
<1>11. VerdictsOK' /\ StoreOK(assessments') /\ StoreMoved(c) /\ assessments' = assessments
  BY <1>1, SameVerdicts DEF ServerInv, StoreMoved
<1>12. SentOK(server, call, sent')
  BY QuietSent DEF Clean
<1>13. Effect(c, v)
  BY <1>1, <1>8, <1>9, <1>10, <1>11, <1>12 DEF Effect
<1>14. QED
  BY <1>13

-----------------------------------------------------------------------------
(* The whole server                                                        *)

LEMMA InitInv ==
  ASSUME Init PROVE ServerInv
<1>1. PICK job \in Jobs :
        /\ New(job.server) /\ server = job.server
        /\ call = [c \in Call |-> Work(job.calls[c])]
        /\ slots = {} /\ writes = 0 /\ snapshots = {} /\ sent = {} /\ verdicts = {}
        /\ files = job.files
        /\ assessments = [id \in Id |-> IF id = Earlier THEN job.earlier ELSE NoAssessment]
  BY Zenon DEF Init
<1>2. OptionsOK(server) /\ server.maxResults \in Nat /\ 1 <= server.maxResults
  BY <1>1, JobsAssumption DEF OptionsOK, Runs, New
<1>3. FilesOK(files)
  BY <1>1, JobsAssumption DEF FilesOK, Locals
<1>4. writes \in 0..MaxWrites
  BY <1>1, JobsAssumption
<1>5. PICK empty : empty = <<>>
  OBVIOUS
<1>6. Len(empty) = 0 /\ DOMAIN empty = {} /\ empty \in Seq(Scan!Request)
  BY <1>5
<1>7. ASSUME NEW c \in Call
      PROVE  Local(server, c, call[c]) /\ ~Busy(call[c])
             /\ Link(server, c, call[c], snapshots, assessments)
  <2>1. PICK w : w = Work(job.calls[c])
    OBVIOUS
  <2>2. call[c] = w
    BY <1>1, <2>1
  <2>3. /\ DOMAIN w = WorkFields /\ w.request = job.calls[c] /\ w.answer = Failure
        /\ w.pc = "received" /\ w.index = 1 /\ w.plans = empty /\ w.planned = {} /\ w.failed = {}
        /\ w.manifest = {} /\ w.copies = empty /\ w.proofs = {} /\ w.id = {} /\ w.error = FALSE
    BY <1>5, <2>1 DEF Work, WorkFields
  <2>4. IsRequest(w.request)
    BY <1>1, <2>3, JobsAssumption
  <2>5. IsFiniteSet(w.planned)
    BY <2>3, FS_EmptySet
  <2>6. Typed(w)
    <3>1. DOMAIN w = WorkFields /\ w.pc \in Places
      BY <2>3 DEF Places
    <3>2. DOMAIN w.copies \subseteq File /\ Locals(w.copies)
      BY <1>6, <2>3 DEF Locals
    <3>3. w.index \in Nat \ {0} /\ w.plans \in Seq(Scan!Request)
      BY <1>6, <2>3
    <3>4. w.failed \subseteq Nat /\ w.id \subseteq Id /\ w.error \in BOOLEAN
      BY <2>3
    <3>5. QED
      BY <2>4, <2>5, <3>1, <3>2, <3>3, <3>4 DEF Typed
  <2>7. AnswerOK(server, w.answer)
    BY <1>2, <2>3 DEF AnswerOK, Failure, Answer
  <2>8. Fresh(w) /\ InPlace(w) /\ ScanOK(server, w) /\ SnapshotOK(server, w)
        /\ BudgetsOK(w) /\ RunsItself(c, w) /\ ~Busy(w)
    BY <1>6, <2>3 DEF Fresh, InPlace, ScanOK, SnapshotOK, BudgetsOK, RunsItself, Busy
  <2>9. Local(server, c, w)
    BY <2>3, <2>6, <2>7, <2>8 DEF Local
  <2>10. assessments[c].status = "none"
    BY <1>1, JobsAssumption DEF Id, NoAssessment
  <2>11. Link(server, c, w, snapshots, assessments)
    BY <1>1, <2>3, <2>10 DEF Link, Snapshotted, Begun, Completed, Held, Concluded
  <2>12. QED
    BY <2>2, <2>8, <2>9, <2>11
<1>8. SlotsOK(server, call, slots)
  <2>1. Cardinality(slots) = 0 /\ IsFiniteSet(slots)
    BY <1>1, FS_EmptySet
  <2>2. slots = {c \in Call : Busy(call[c])}
    BY <1>1, <1>7
  <2>3. server.slots \in Nat
    BY <1>2 DEF OptionsOK
  <2>4. QED
    BY <2>1, <2>2, <2>3 DEF SlotsOK
<1>9. StoreOK(assessments)
  <2>1. IsAssessment(NoAssessment)
    BY DEF IsAssessment, NoAssessment
  <2>2. QED
    BY <1>1, <2>1, JobsAssumption DEF StoreOK
<1>10. Alone(call)
  BY <1>7 DEF Alone, Busy
<1>11. SentOK(server, call, sent) /\ VerdictsOK /\ snapshots \subseteq Call /\ DOMAIN call = Call
  BY <1>1 DEF SentOK, VerdictsOK
<1>12. QED
  BY <1>2, <1>3, <1>4, <1>7, <1>8, <1>9, <1>10, <1>11 DEF ServerInv

\* A client that writes a file changes no call and no assessment.
LEMMA SameWorldInv ==
  ASSUME ServerInv, UNCHANGED <<server, call, slots, snapshots, assessments, sent, verdicts>>,
         FilesOK(files'), writes' \in 0..MaxWrites
  PROVE  ServerInv'
<1>1. VerdictsOK'
  BY SameVerdicts DEF ServerInv
<1>2. QED
  BY <1>1 DEF ServerInv

\* Files may change between any two steps.
LEMMA WriteFileInv ==
  ASSUME ServerInv, NEW f \in File, WriteFile(f)
  PROVE  ServerInv'
<1>1. PICK draft \in server.drafts[f] : files' = [files EXCEPT ![f] = draft]
  BY DEF WriteFile
<1>2. IsContent(draft)
  BY DEF ServerInv, OptionsOK
<1>3. FilesOK(files')
  BY <1>1, <1>2 DEF ServerInv, FilesOK, Locals
<1>4. writes' \in 0..MaxWrites
  BY JobsAssumption DEF ServerInv, WriteFile
<1>5. QED
  BY <1>3, <1>4, SameWorldInv DEF WriteFile

\* Every step of a call has an effect.
LEMMA CallInv ==
  ASSUME ServerInv, NEW c \in Call, Handle(c) \/ (CancelCall(c) /\ UNCHANGED server)
  PROVE  ServerInv'
<1> SUFFICES \E v : Effect(c, v)
  BY EffectKeeps
<1>1. server' = server
  BY DEF Handle
<1>2. CASE CancelCall(c)
  BY <1>1, <1>2, CancelEffect
<1>3. CASE Receive(c)
  BY <1>1, <1>3, ReceiveEffect
<1>4. CASE Acquire(c)
  BY <1>1, <1>4, AcquireEffect
<1>5. CASE ReadDocument(c)
  BY <1>1, <1>5, ReadDocumentEffect
<1>6. CASE StartScan(c)
  BY <1>1, <1>6, StartScanEffect
<1>7. CASE PrepareSource(c)
  BY <1>1, <1>7, PrepareSourceEffect
<1>8. CASE StartAutomate(c)
  BY <1>1, <1>8, StartAutomateEffect
<1>9. CASE SendPlan(c)
  BY <1>1, <1>9, SendPlanEffect
<1>10. CASE FinishScan(c)
  BY <1>1, <1>10, FinishScanEffect
<1>11. CASE Probe(c)
  BY <1>1, <1>11, ProbeEffect
<1>12. CASE RunFullWorkflow(c)
  BY <1>1, <1>12, RunFullWorkflowEffect
<1>13. CASE AnalyzeAPIResults(c)
  BY <1>1, <1>13, AnalyzeAPIResultsEffect
<1>14. CASE ReadManifest(c)
  BY <1>1, <1>14, ReadManifestEffect
<1>15. CASE CopyInput(c)
  BY <1>1, <1>15, CopyInputEffect
<1>16. CASE WriteManifest(c)
  BY <1>1, <1>16, WriteManifestEffect
<1>17. CASE Plan(c)
  BY <1>1, <1>17, PlanEffect
<1>18. CASE Run(c)
  BY <1>1, <1>18, RunEffect
<1>19. CASE Execute(c)
  BY <1>1, <1>19, ExecuteEffect
<1>20. CASE Clean(c)
  BY <1>1, <1>20, CleanEffect
<1>21. CASE Preflight(c)
  BY <1>1, <1>21, PreflightEffect
<1>22. CASE Resume(c)
  BY <1>1, <1>22, ResumeEffect
<1>23. CASE ReadAssessment(c)
  BY <1>1, <1>23, ReadAssessmentEffect
<1>24. CASE AssessFullWorkflow(c)
  BY <1>1, <1>24, AssessFullWorkflowEffect
<1>25. CASE FinishFullWorkflow(c)
  BY <1>1, <1>25, FinishFullWorkflowEffect
<1>26. QED
  BY <1>2, <1>3, <1>4, <1>5, <1>6, <1>7, <1>8, <1>9, <1>10, <1>11, <1>12, <1>13, <1>14, <1>15,
     <1>16, <1>17, <1>18, <1>19, <1>20, <1>21, <1>22, <1>23, <1>24, <1>25 DEF Handle

\* Every step keeps the invariant.
LEMMA NextInv ==
  ASSUME ServerInv, [Next]_vars
  PROVE  ServerInv'
<1>1. CASE UNCHANGED vars
  BY <1>1, SameWorldInv DEF vars, ServerInv
<1>2. ASSUME NEW c \in Call, Handle(c) \/ (CancelCall(c) /\ UNCHANGED server) PROVE ServerInv'
  BY <1>2, CallInv
<1>3. ASSUME NEW f \in File, WriteFile(f) PROVE ServerInv'
  BY <1>3, WriteFileInv
<1>4. CASE Idle
  BY <1>1, <1>4 DEF Idle
<1>5. QED
  BY <1>1, <1>2, <1>3, <1>4 DEF Next

\* The inductive invariant: the place of a call tells what its handler has checked
\* (server.go, tools.go, assessment_tools.go), a slot is held by every call that works,
\* a call that executes has the lease of an assessment that no other call executes, and
\* what is sent, judged and stored agrees with the options the server was created with.
THEOREM McpInvariant == Spec => []ServerInv
<1>1. Init => ServerInv
  BY InitInv
<1>2. ServerInv /\ [Next]_vars => ServerInv'
  BY NextInv
<1>3. QED
  BY <1>1, <1>2, PTL DEF Spec

\* The state of the server has its type, for every server, client and file.
THEOREM McpTypeCorrect == Spec => []TypeOK
<1>1. ServerInv => TypeOK
  <2> SUFFICES ASSUME ServerInv PROVE TypeOK
    OBVIOUS
  <2>1. slots = {c \in Call : Working(c)} /\ Cardinality(slots) <= server.slots
    BY DEF ServerInv, SlotsOK, Busy, Working
  <2>2. \A c \in Call : /\ call[c].answer.error \in BOOLEAN /\ call[c].id \subseteq Id
                        /\ call[c].failed \subseteq Nat /\ DOMAIN call[c].copies \subseteq File
    BY DEF ServerInv, Local, Typed, AnswerOK
  <2>3. \A id \in Id : assessments[id].status \in {"none", "running", "succeeded", "failed", "canceled"}
    BY DEF ServerInv, StoreOK, IsAssessment
  <2>4. {request.call : request \in sent} \subseteq Call
    BY DEF ServerInv, SentOK
  <2>5. snapshots \subseteq Call /\ writes \in 0..MaxWrites
    BY DEF ServerInv
  <2>6. QED
    BY <2>1, <2>2, <2>3, <2>4, <2>5 DEF TypeOK
<1>2. QED
  BY <1>1, McpInvariant, PTL

\* EverySendIsAllowed: a request of any tool but run_full_workflow, to fetch a document
\* or to test an API, goes to a host of the operator (CheckURL), and so do the workflow's
\* probes and its fetches from targets and given URLs; its operations may leave for any
\* server a document names. No test is sent unless active tools are enabled, and no
\* unsafe one, a workflow's included, unless both operator and client accept it. All
\* this though documents, manifests and stored assessments may change between the
\* checks and the sends.
THEOREM McpSends == Spec => []EverySendIsAllowed
<1>1. ServerInv => EverySendIsAllowed
  BY DEF ServerInv, SentOK, Hosts, Outside, OutsideHosts, Tool, EverySendIsAllowed
<1>2. QED
  BY <1>1, McpInvariant, PTL

\* PlanFitsBudgets: a plan that prepare (plan.go) returns stays, together with its
\* redirects, within every budget of the manifest, in exact arithmetic: no overflow
\* check or sharing of charges lets more through.
THEOREM McpBudgets == Spec => []PlanFitsBudgets
<1>1. ServerInv => PlanFitsBudgets
  <2> SUFFICES ASSUME ServerInv, NEW c \in Call, call[c].proofs # {}
               PROVE  FitsBudgets(SnapshotManifest(c), call[c].proofs)
    BY Zenon DEF PlanFitsBudgets, FitsBudgets
  <2>1. BudgetsOK(call[c])
    BY DEF ServerInv, Local
  <2>2. QED
    BY <2>1 DEF BudgetsOK, SnapshotManifest
<1>2. QED
  BY <1>1, McpInvariant, PTL

\* VerdictsAreRight: Evaluate (pkg/modules/bola) confirms a violation only where the API
\* gives the object to the attacker every time, and disproves one only where it never
\* does, for every API but one that echoes identifiers.
THEOREM McpVerdicts == Spec => []VerdictsAreRight
<1>1. ServerInv => VerdictsAreRight
  BY Zenon DEF ServerInv, VerdictsOK, RightVerdict, VerdictsAreRight
<1>2. QED
  BY <1>1, McpInvariant, PTL

\* EffectsAreReported: a call that began an assessment in the server's database names
\* it in its answer while an answer can hold its ID, a run answers success only when its
\* assessment succeeded, a snapshot stays behind only with an error, and results are left
\* out only where the answer says so (assessmentRunResponse, truncateBruteReports). A
\* workflow that ended without an error began the assessment it was asked for, and names
\* no other; whether it names that one is not claimed (runFullWorkflow drops it).
THEOREM McpEffects == Spec => []EffectsAreReported
<1>1. ServerInv => EffectsAreReported
  <2> SUFFICES ASSUME ServerInv, NEW c \in Call, Answered(c)
               PROVE  LET answer == call[c].answer
                      IN  /\ c \in snapshots => answer.error
                          /\ assessments[c].status # "none" /\ server.output # "tiny" => answer.id = {c}
                          /\ Tool(c) = "assess_run" /\ ~answer.error => assessments[c].status = "succeeded"
                          /\ Tool(c) = "run_full_workflow" =>
                               /\ answer.id \subseteq call[c].id
                               /\ ~answer.error /\ ~call[c].request.skipAssessment => call[c].id = {c}
                          /\ answer.shown <= server.maxResults
                          /\ ~answer.error => (answer.truncated <=> answer.shown < answer.total)
    BY Zenon DEF EffectsAreReported
  <2>1. Local(server, c, call[c]) /\ Link(server, c, call[c], snapshots, assessments)
        /\ call[c].pc = "answered"
    BY DEF ServerInv, Answered, At
  <2>2. Tool(c) = "run_full_workflow" =>
          /\ call[c].answer.id \subseteq call[c].id
          /\ ~call[c].answer.error /\ ~call[c].request.skipAssessment => call[c].id = {c}
    BY <2>1 DEF Local, RunsItself, Link, Concluded, Reports, Tool
  <2>3. QED
    BY <2>1, <2>2 DEF Local, AnswerOK, Link, Snapshotted, Begun, Completed, Tool
<1>2. QED
  BY <1>1, McpInvariant, PTL

=============================================================================
