----------------------------- MODULE BruteScan -----------------------------
(***************************************************************************)
(* Discovery of API definitions (pkg/brute and the brute command): a pool  *)
(* of workers takes targets from a channel; each target's scan walks its   *)
(* candidate list, which grows while it is walked by the references and    *)
(* path variations its responses name, and stops at limits of its own.     *)
(***************************************************************************)
EXTENDS HttpClient, Sequences, FiniteSets, FiniteSetsExt, SequencesExt

CONSTANTS Target, NoTarget, Url, BruteWorker,
          MaxReferenceDepth,      \* 3 in the code
          MinExactWildcard,       \* 5 in the code
          MinSizeWildcard         \* 8 in the code

MaxConsecutive == 3   \* transport errors, WAF challenges, unavailable answers

\* A brute command: what it scans and with which limits. A Target is an entry
\* of the target list, each scanned by itself. candidates(t) is the deduplicated
\* list of candidates(), or <<>> when building it failed.
BruteJob ==
  [targets : Seq(Target), workers : Nat,
   candidates : [Target -> Seq(Url)], priority : Nat, maxCandidates : Nat,
   references : [Url -> SUBSET Url], variations : [Url -> SUBSET Url]]

VARIABLES
  bruteJob,    \* the command's configuration
  scan,        \* per target, the scanState of findAllDefinitionFiles
  pool         \* the dispatcher's next target, and what each worker scans
bruteVars == <<bruteJob, scan, pool>>

-----------------------------------------------------------------------------
(* Responses of a candidate. kind: no response; an empty body; a definition; *)
(* a page that may name references; a WAF challenge, with a 2xx status or    *)
(* not; another error; unavailable (502, 503, 504) with one of two shapes.   *)
BruteKind == {"none", "empty", "spec", "page", "challenge", "challenge2xx",
              "missing", "limited", "down1", "down2"}
BruteEvent ==
  {event \in [kind : BruteKind, low : BOOLEAN, exact : 1..2] :
     /\ event.kind = "none" => ~event.low
     /\ event.kind # "page" => event.exact = 1}

Limit == {"transport", "rate", "unavailable", "waf"}
Candidate == [url : Url, depth : Nat]
NewScan(candidates) ==
  [pc |-> "candidates", index |-> 1, tested |-> {}, known |-> Range(candidates),
   queue |-> <<>>, found |-> {}, interesting |-> {}, shapes |-> <<>>,
   skipped |-> {}, filtered |-> {}, faults |-> 0, down |-> 0, shape |-> "none",
   challenges |-> 0, limits |-> {}]
NoScan == [NewScan(<<>>) EXCEPT !.pc = "none"]

MinimumWAFChallengeCoverage(job, t) ==
  Min({Len(job.candidates[t]), job.priority})

\* recordResponseLimit: 429 and depleted capacity stop the scan at once, three
\* unavailable answers of one shape in a row do.
RecordResponseLimit(s, event) ==
  IF event.kind = "limited" \/ event.low
    THEN [s EXCEPT !.limits = @ \cup {"rate"}, !.down = 0, !.shape = "none"]
  ELSE IF event.kind \notin {"down1", "down2"}
    THEN [s EXCEPT !.down = 0, !.shape = "none"]
  ELSE IF event.kind # s.shape
    THEN [s EXCEPT !.down = 1, !.shape = event.kind]
  ELSE [s EXCEPT !.down = @ + 1,
                 !.limits = IF s.down + 1 >= MaxConsecutive
                            THEN @ \cup {"unavailable"} ELSE @]
RecordWAFChallengeLimit(job, t, s, challenge) ==
  IF ~challenge THEN [s EXCEPT !.challenges = 0]
  ELSE [s EXCEPT !.challenges = @ + 1,
                 !.limits = IF /\ s.challenges + 1 >= MaxConsecutive
                               /\ Cardinality(s.tested) >= MinimumWAFChallengeCoverage(job, t)
                            THEN @ \cup {"waf"} ELSE @]

\* queueCandidate: at most MaxCandidates different URLs in one scan; the ones
\* beyond are counted in ReferencesSkipped (here: collected).
Queued(s) == {c.url : c \in Range(s.queue)}
QueueCandidate(job, s, c) ==
  IF c.url \in s.tested \cup Queued(s) THEN s
  ELSE IF c.url \notin s.known /\ Cardinality(s.known) >= job.maxCandidates
    THEN [s EXCEPT !.skipped = @ \cup {c.url}]
  ELSE [s EXCEPT !.known = @ \cup {c.url}, !.queue = Append(@, c)]
QueueReference(job, s, c) ==
  IF c.depth > MaxReferenceDepth THEN [s EXCEPT !.skipped = @ \cup {c.url}]
  ELSE QueueCandidate(job, s, c)
QueueVariation(job, s, c) ==
  IF c.url \in s.known THEN s ELSE QueueCandidate(job, s, c)

\* The URLs a response names, in an order of the document.
AsCandidates(urls, depth) ==
  LET order == SetToSeq(urls)
  IN  [i \in DOMAIN order |-> [url |-> order[i], depth |-> depth]]
AddSpec(job, s, c) ==
  LET variations == AsCandidates(job.variations[c.url], c.depth)
      added[k \in 0..Len(variations)] ==
        IF k = 0 THEN [s EXCEPT !.found = @ \cup {c.url}]
        ELSE QueueVariation(job, added[k - 1], variations[k])
  IN  added[Len(variations)]
AddReferences(job, s, c) ==
  LET references == AsCandidates(job.references[c.url], c.depth + 1)
      added[k \in 0..Len(references)] ==
        IF k = 0 THEN s ELSE QueueReference(job, added[k - 1], references[k])
  IN  added[Len(references)]
\* Interesting pages are kept up to MaxCandidates.
AddInteresting(job, s, c, event) ==
  IF Cardinality(s.interesting) < job.maxCandidates
    THEN [s EXCEPT !.interesting = @ \cup {c.url},
                   !.shapes = Append(@, [url |-> c.url, exact |-> event.exact])]
    ELSE s

\* processCandidate, for a candidate that is tested for the first time.
ProcessCandidate(job, t, s, c, event) ==
  LET fetched == [s EXCEPT !.tested = @ \cup {c.url}, !.known = @ \cup {c.url}]
      silent  == RecordWAFChallengeLimit(job, t,
                   [fetched EXCEPT !.down = 0, !.shape = "none", !.faults = @ + 1], FALSE)
      heard   == [fetched EXCEPT !.faults = 0]
      limited == RecordResponseLimit(heard, event)
      challenged(challenge) == RecordWAFChallengeLimit(job, t, limited, challenge)
  IN  CASE event.kind = "none" -> silent
        [] event.kind = "empty" -> challenged(FALSE)
        [] event.kind \in {"challenge", "challenge2xx"} -> challenged(TRUE)
        [] event.kind = "spec" -> AddSpec(job, challenged(FALSE), c)
        [] event.kind = "page" ->
             AddInteresting(job, AddReferences(job, challenged(FALSE), c), c, event)
        [] OTHER -> challenged(FALSE)

\* filterWildcardResponses: a server that answers everything alike. Exact
\* bodies and bodies of one size are counted; both shapes here have one size.
FilterWildcardResponses(s) ==
  LET same(shape) == Cardinality({i \in DOMAIN s.shapes : s.shapes[i].exact = shape.exact})
      wildcard == {s.shapes[i].url : i \in {j \in DOMAIN s.shapes :
                     \/ same(s.shapes[j]) >= MinExactWildcard
                     \/ Len(s.shapes) >= MinSizeWildcard}}
  IN  IF Len(s.shapes) < MinExactWildcard THEN s
      ELSE [s EXCEPT !.interesting = @ \ wildcard, !.filtered = wildcard]

-----------------------------------------------------------------------------
(* The loop of findAllDefinitionFiles. pc "candidates": candidates[index] is *)
(* next; "variations": the queue its response filled is drained.             *)
NextCandidate(job, t, s) ==
  IF s.pc = "variations" THEN Head(s.queue)
  ELSE [url |-> job.candidates[t][s.index], depth |-> 0]
Dequeued(s) == IF s.pc = "variations" THEN [s EXCEPT !.queue = Tail(@)] ELSE s
ScanLimitReached(s) == s.faults >= MaxConsecutive \/ s.limits # {}
Finished(s) == FilterWildcardResponses([s EXCEPT !.pc = "done"])
\* Mutant: a scan that found a definition ends with its queue still full.
AfterCandidateWithQueue(job, t, s) ==
  IF ScanLimitReached(s)
    THEN Finished([s EXCEPT !.queue = <<>>,
                            !.limits = IF s.faults >= MaxConsecutive
                                       THEN @ \cup {"transport"} ELSE @])
  ELSE IF s.found # {} /\ s.index > job.priority THEN Finished(s)
  ELSE IF s.queue # <<>> THEN [s EXCEPT !.pc = "variations"]
  ELSE IF s.index = Len(job.candidates[t]) THEN Finished(s)
  ELSE [s EXCEPT !.pc = "candidates", !.index = @ + 1]
AfterCandidate(job, t, s) ==
  IF ScanLimitReached(s)
    THEN Finished([s EXCEPT !.queue = <<>>,
                            !.limits = IF s.faults >= MaxConsecutive
                                       THEN @ \cup {"transport"} ELSE @])
  ELSE IF s.queue # <<>> THEN [s EXCEPT !.pc = "variations"]
  ELSE IF s.found # {} /\ s.index > job.priority THEN Finished(s)
  ELSE IF s.index = Len(job.candidates[t]) THEN Finished(s)
  ELSE [s EXCEPT !.pc = "candidates", !.index = @ + 1]

Running(s) == s.pc \in {"candidates", "variations"}
IdlePool == [next |-> 1, open |-> TRUE, at |-> [w \in BruteWorker |-> NoTarget]]
\* Store the scan of the worker's target; the worker is free when it ended.
Report(w, t, s) ==
  /\ scan' = [scan EXCEPT ![t] = s]
  /\ pool' = IF Running(s) THEN pool ELSE [pool EXCEPT !.at[w] = NoTarget]

\* An unbuffered channel: a free worker takes the next target. A target whose
\* candidate list cannot be built fails at once.
Dispatch(w) ==
  LET t == bruteJob.targets[pool.next]
  IN  /\ pool.open /\ pool.next <= Len(bruteJob.targets)
      /\ pool.at[w] = NoTarget
      /\ Cardinality({v \in BruteWorker : pool.at[v] # NoTarget}) < bruteJob.workers
      /\ scan' = [scan EXCEPT ![t] = IF bruteJob.candidates[t] = <<>>
                                     THEN [NoScan EXCEPT !.pc = "failed"]
                                     ELSE NewScan(bruteJob.candidates[t])]
      /\ pool' = [pool EXCEPT !.next = @ + 1,
                              !.at[w] = IF bruteJob.candidates[t] = <<>> THEN NoTarget ELSE t]
      /\ UNCHANGED bruteJob
\* select: the dispatcher may give up once the context is done.
StopDispatch ==
  /\ canceled /\ pool.open /\ pool.next <= Len(bruteJob.targets)
  /\ pool' = [pool EXCEPT !.open = FALSE]
  /\ UNCHANGED <<bruteJob, scan>>

\* One candidate is fetched. A fetch that starts after the cancellation, which
\* only a queued variation can, gets no response.
BruteFetch(w, event) ==
  LET t == pool.at[w]
      s == scan[t]
      c == NextCandidate(bruteJob, t, s)
      processed == ProcessCandidate(bruteJob, t, Dequeued(s), c, event)
  IN  /\ t # NoTarget
      /\ canceled => s.pc = "variations" /\ event.kind = "none"
      /\ c.url \notin s.tested
      /\ Report(w, t, IF canceled THEN [processed EXCEPT !.pc = "canceled"]
                      ELSE AfterCandidate(bruteJob, t, processed))
      /\ UNCHANGED bruteJob
\* A candidate that a response already named has been fetched before its turn.
BruteSkip(w) ==
  LET t == pool.at[w]
      s == scan[t]
  IN  /\ t # NoTarget /\ ~canceled
      /\ NextCandidate(bruteJob, t, s).url \in s.tested
      /\ Report(w, t, AfterCandidate(bruteJob, t, Dequeued(s)))
      /\ UNCHANGED bruteJob
BruteCancel(w) ==
  LET t == pool.at[w]
  IN  /\ t # NoTarget /\ canceled /\ scan[t].pc = "candidates"
      /\ Report(w, t, [scan[t] EXCEPT !.pc = "canceled"])
      /\ UNCHANGED bruteJob

BruteInit(job) ==
  /\ bruteJob = job
  /\ scan = [t \in Target |-> NoScan]
  /\ pool = IdlePool
BruteNext ==
  \/ StopDispatch
  \/ \E w \in BruteWorker :
       \/ Dispatch(w)
       \/ \E event \in BruteEvent : BruteFetch(w, event)
       \/ BruteSkip(w)
       \/ BruteCancel(w)
\* close(jobs) and wait.Wait().
BruteOver ==
  /\ pool.next > Len(bruteJob.targets) \/ ~pool.open
  /\ \A w \in BruteWorker : pool.at[w] = NoTarget

\* What RunTargetsContext returns: a batch that lost targets is partial, a
\* canceled one is not; a single target's failure is the command's.
BruteErrors ==
  LET batch == Len(bruteJob.targets) > 1
      ended(pc) == \E t \in Range(bruteJob.targets) : scan[t].pc = pc
  IN  IF (batch /\ canceled) \/ ended("canceled") THEN {"canceled"}
      ELSE IF ended("failed") THEN {IF batch THEN "partial" ELSE "fatal"}
      ELSE {}
\* The definitions in the reports, in target order.
FoundSpecs ==
  LET specs[k \in 0..Len(bruteJob.targets)] ==
        IF k = 0 THEN <<>>
        ELSE specs[k - 1] \o SetToSeq(scan[bruteJob.targets[k]].found)
  IN  specs[Len(bruteJob.targets)]

-----------------------------------------------------------------------------
BruteTypeOK ==
  /\ bruteJob \in [targets : Seq(Target), workers : Nat,
                   candidates : [Target -> Seq(Url)], priority : Nat, maxCandidates : Nat,
                   references : [Url -> SUBSET Url], variations : [Url -> SUBSET Url]]
  /\ pool \in [next : Nat, open : BOOLEAN, at : [BruteWorker -> Target \cup {NoTarget}]]
  /\ \A t \in Target :
       /\ scan[t].pc \in {"none", "candidates", "variations", "done", "failed", "canceled"}
       /\ scan[t].tested \cup scan[t].known \cup scan[t].found \cup scan[t].interesting
            \cup scan[t].skipped \cup scan[t].filtered \subseteq Url
       /\ scan[t].queue \in Seq(Candidate)
       /\ scan[t].limits \subseteq Limit

=============================================================================
