--------------------------- MODULE FrontierProofs ---------------------------
(***************************************************************************)
(* Theorems about the discovery frontier for every set of targets, workers *)
(* and enqueuers, every policy and every bound on attempts; and, from      *)
(* Items on, about ingests that record their discoveries in it: they use   *)
(* the frontier only as any caller may.  Every behaviour of FrontierIngest *)
(* is one of DiscoveryFrontier, so what is shown first holds with          *)
(* recordings, too.                                                        *)
(***************************************************************************)
EXTENDS FrontierIngest, TLAPS


---------------------------------------------------------------------------
(* What the upsert computes stays within the columns' ranges.              *)

LEMMA ScoresInRange ==
  ASSUME NEW r \in Requests
  PROVE  /\ r.depth \in Nat
         /\ r.confidence \in 0..100 /\ r.relevance \in 0..100 /\ r.novelty \in 0..100
  BY RequestsAssumption

LEMMA ClampInRange == ASSUME NEW x \in Int PROVE Clamp(x) \in Priorities
  <1> DEFINE top == 10000
  <1>1. top \in Int /\ 0 <= top
    OBVIOUS
  <1>2. Clamp(x) = IF x < 0 THEN 0 ELSE IF x > top THEN top ELSE x
    BY DEF Clamp
  <1>3. Priorities = 0..top
    BY DEF Priorities
  <1> HIDE DEF top
  <1> QED BY <1>1, <1>2, <1>3

LEMMA WeightedSum ==
  ASSUME NEW c \in 0..100, NEW v \in 0..100, NEW n \in 0..100, NEW p \in Int
  PROVE  30 * c + 50 * v + 20 * n - p \in Int
  <1>1. c \in Int /\ v \in Int /\ n \in Int
    OBVIOUS
  <1>2. 30 * c \in Int /\ 50 * v \in Int /\ 20 * n \in Int
    BY <1>1
  <1> QED BY <1>2

LEMMA PriorityInRange == ASSUME NEW r \in Requests PROVE Priority(r) \in Priorities
  <1>1. DepthPenalty(r.depth) \in Int
    BY ScoresInRange DEF DepthPenalty
  <1> DEFINE sum == 30 * r.confidence + 50 * r.relevance + 20 * r.novelty
                     - DepthPenalty(r.depth)
  <1>2. sum \in Int
    BY <1>1, ScoresInRange, WeightedSum
  <1>3. Priority(r) = Clamp(sum)
    BY DEF Priority
  <1> HIDE DEF sum
  <1> QED
    BY <1>2, <1>3, ClampInRange

LEMMA StateAfterType ==
  ASSUME NEW s \in States, NEW r
  PROVE  StateAfter(s, r) \in States \ {"absent"}
  BY DEF StateAfter, States

---------------------------------------------------------------------------
(* What each operation leaves behind, field by field.                      *)

LEMMA CommitEffect ==
  ASSUME TypeOK, NEW e \in Enqueuers, EnqueueCommit(e)
  PROVE  \E t \in Targets, r \in Requests :
           /\ state' = [state EXCEPT ![t] = StateAfter(state[t], r)]
           /\ depth' = [depth EXCEPT ![t] = MergedDepth(t, r)]
           /\ priority' = [priority EXCEPT ![t] = MergedPriority(t, r)]
           /\ evidence' = [evidence EXCEPT ![t] = @ \cup {r}]
           /\ tx' = [tx EXCEPT ![e] = None]
           /\ UNCHANGED <<attempt, leased, worker, settled>>
  <1>1. tx[e] \in Transaction
    BY DEF TypeOK, EnqueueCommit
  <1>2. tx[e].target \in Targets /\ tx[e].request \in Requests
    BY <1>1 DEF Transaction
  <1> QED
    BY <1>2 DEF EnqueueCommit

LEMMA ReportEffect ==
  ASSUME TypeOK, NEW w \in Workers, NEW v \in Verdicts, ReportVerdict(w, v)
  PROVE  \E t \in Targets, a \in Nat :
           /\ worker[w] # None /\ worker[w].target = t /\ worker[w].attempt = a
           /\ IF Owns(t, a, v)
              THEN /\ state' = [state EXCEPT ![t] = v]
                   /\ leased' = leased \ {t}
                   /\ settled' = IF state[t] = "claimed"
                                 THEN settled \cup {[target |-> t, attempt |-> a, verdict |-> v]}
                                 ELSE settled
              ELSE UNCHANGED <<state, leased, settled>>
           /\ UNCHANGED <<attempt, depth, priority, evidence, tx, worker>>
  <1>1. worker[w] \in Holding
    BY DEF TypeOK, ReportVerdict
  <1>2. worker[w].target \in Targets /\ worker[w].attempt \in Nat
    BY <1>1 DEF Holding
  <1> QED
    BY <1>2 DEF ReportVerdict

(* Type correctness.                                                       *)
LEMMA TypeInvariance == TypeOK /\ [Next]_vars => TypeOK'
  <1> SUFFICES ASSUME TypeOK, [Next]_vars PROVE TypeOK'
    OBVIOUS
  <1>1. ASSUME NEW e \in Enqueuers, NEW t \in Targets, NEW r \in Requests, EnqueueOpen(e, t, r)
        PROVE  TypeOK'
    <2>1. [target |-> t, request |-> r] \in Transaction
      BY DEF Transaction
    <2>2. tx' \in [Enqueuers -> Transaction \cup {None}]
      BY <1>1, <2>1 DEF EnqueueOpen, TypeOK
    <2>3. UNCHANGED <<state, attempt, leased, depth, priority, evidence, worker, settled>>
      BY <1>1 DEF EnqueueOpen, rowVars
    <2> QED
      BY <2>2, <2>3 DEF TypeOK
  <1>2. ASSUME NEW e \in Enqueuers, EnqueueCommit(e)
        PROVE  TypeOK'
    <2>1. PICK t \in Targets, r \in Requests :
           /\ state' = [state EXCEPT ![t] = StateAfter(state[t], r)]
           /\ depth' = [depth EXCEPT ![t] = MergedDepth(t, r)]
           /\ priority' = [priority EXCEPT ![t] = MergedPriority(t, r)]
           /\ evidence' = [evidence EXCEPT ![t] = @ \cup {r}]
           /\ tx' = [tx EXCEPT ![e] = None]
           /\ UNCHANGED <<attempt, leased, worker, settled>>
      BY <1>2, CommitEffect
    <2>2. state' \in [Targets -> States]
      BY <2>1, StateAfterType DEF TypeOK
    <2>3. depth' \in [Targets -> Nat]
      BY <2>1, ScoresInRange DEF TypeOK, MergedDepth
    <2>4. priority' \in [Targets -> Priorities]
      <3>1. MergedPriority(t, r) \in Priorities
        BY PriorityInRange DEF TypeOK, MergedPriority
      <3>2. priority' = [priority EXCEPT ![t] = MergedPriority(t, r)]
        BY <2>1
      <3> QED
        BY <3>1, <3>2 DEF TypeOK
    <2>5. evidence' \in [Targets -> SUBSET Requests]
      BY <2>1 DEF TypeOK
    <2>6. tx' \in [Enqueuers -> Transaction \cup {None}]
      BY <2>1 DEF TypeOK
    <2>7. UNCHANGED <<attempt, leased, worker, settled>>
      BY <2>1
    <2> QED
      BY <2>2, <2>3, <2>4, <2>5, <2>6, <2>7 DEF TypeOK
  <1>3. ASSUME NEW e \in Enqueuers, EnqueueAbort(e)
        PROVE  TypeOK'
    <2>1. tx' \in [Enqueuers -> Transaction \cup {None}]
      BY <1>3 DEF EnqueueAbort, TypeOK
    <2>2. UNCHANGED <<state, attempt, leased, depth, priority, evidence, worker, settled>>
      BY <1>3 DEF EnqueueAbort, rowVars
    <2> QED
      BY <2>1, <2>2 DEF TypeOK
  <1>4. ASSUME NEW w \in Workers, NEW t \in Targets, Claim(w, t)
        PROVE  TypeOK'
    <2>1. NextAttempt(t) \in Nat
      BY DEF TypeOK, NextAttempt
    <2>2. [target |-> t, attempt |-> NextAttempt(t)] \in Holding
      BY <2>1 DEF Holding
    <2>3. state' \in [Targets -> States]
      BY <1>4 DEF Claim, TypeOK, States
    <2>4. attempt' \in [Targets -> Nat]
      BY <1>4, <2>1 DEF Claim, TypeOK
    <2>5. leased' \subseteq Targets
      BY <1>4 DEF Claim, TypeOK
    <2>6. worker' \in [Workers -> Holding \cup {None}]
      BY <1>4, <2>2 DEF Claim, TypeOK
    <2>7. UNCHANGED <<depth, priority, evidence, tx, settled>>
      BY <1>4 DEF Claim
    <2> QED
      BY <2>3, <2>4, <2>5, <2>6, <2>7 DEF TypeOK
  <1>5. ASSUME NEW w \in Workers, NEW v \in Verdicts, ReportVerdict(w, v)
        PROVE  TypeOK'
    <2>1. PICK t \in Targets, a \in Nat :
           /\ IF Owns(t, a, v)
              THEN /\ state' = [state EXCEPT ![t] = v]
                   /\ leased' = leased \ {t}
                   /\ settled' = IF state[t] = "claimed"
                                 THEN settled \cup {[target |-> t, attempt |-> a, verdict |-> v]}
                                 ELSE settled
              ELSE UNCHANGED <<state, leased, settled>>
           /\ UNCHANGED <<attempt, depth, priority, evidence, tx, worker>>
      BY <1>5, ReportEffect
    <2>2. v \in States /\ [target |-> t, attempt |-> a, verdict |-> v] \in Report
      BY DEF Verdicts, States, Report
    <2>3. state' \in [Targets -> States]
      BY <2>1, <2>2 DEF TypeOK
    <2>4. leased' \subseteq Targets
      BY <2>1 DEF TypeOK
    <2>5. settled' \subseteq Report
      BY <2>1, <2>2 DEF TypeOK
    <2>6. UNCHANGED <<attempt, depth, priority, evidence, tx, worker>>
      BY <2>1
    <2> QED
      BY <2>3, <2>4, <2>5, <2>6 DEF TypeOK
  <1>6. ASSUME NEW w \in Workers, Leave(w)
        PROVE  TypeOK'
    <2>1. worker' \in [Workers -> Holding \cup {None}]
      BY <1>6 DEF Leave, TypeOK
    <2>2. UNCHANGED <<state, attempt, leased, depth, priority, evidence, tx, settled>>
      BY <1>6 DEF Leave, rowVars
    <2> QED
      BY <2>1, <2>2 DEF TypeOK
  <1>7. ASSUME NEW t \in Targets, LeaseExpires(t)
        PROVE  TypeOK'
    BY <1>7 DEF LeaseExpires, TypeOK
  <1>8. ASSUME NEW t \in Targets, CompleteUnclaimed(t)
        PROVE  TypeOK'
    <2>1. state' \in [Targets -> States]
      BY <1>8 DEF CompleteUnclaimed, TypeOK, States
    <2>2. leased' \subseteq Targets
      BY <1>8 DEF CompleteUnclaimed, TypeOK
    <2>3. UNCHANGED <<attempt, depth, priority, evidence, tx, worker, settled>>
      BY <1>8 DEF CompleteUnclaimed
    <2> QED
      BY <2>1, <2>2, <2>3 DEF TypeOK
  <1>9. CASE UNCHANGED vars
    BY <1>9 DEF vars, TypeOK
  <1> QED
    BY <1>1, <1>2, <1>3, <1>4, <1>5, <1>6, <1>7, <1>8, <1>9 DEF Next

(* Every reachable state of the frontier is well typed; priorities stay    *)
(* within the range the table's CHECK constraint demands.                  *)
THEOREM TypeCorrect == Spec => []TypeOK
  <1>1. Init => TypeOK
    BY DEF Init, TypeOK, States, Priorities
  <1> QED
    BY <1>1, TypeInvariance, PTL DEF Spec
---------------------------------------------------------------------------
(* The fencing token.  Uniqueness alone is not inductive: a claim could    *)
(* hand out a number some worker already holds.  It cannot, because no     *)
(* worker holds a number above its row's count.                            *)

HeldAttemptsCounted ==
  \A w \in Workers : worker[w] # None =>
    worker[w].attempt <= attempt[worker[w].target]

TokenInv == HeldAttemptsCounted /\ TokensAreUnique

\* Only Claim and Leave touch what TokenInv speaks of.
LEMMA OnlyClaimAndLeave ==
  ASSUME TypeOK, [Next]_vars
  PROVE  \/ UNCHANGED <<attempt, worker>>
         \/ \E w \in Workers : Leave(w)
         \/ \E w \in Workers, t \in Targets : Claim(w, t)
  <1>1. ASSUME NEW e \in Enqueuers, NEW t \in Targets, NEW r \in Requests, EnqueueOpen(e, t, r)
        PROVE  UNCHANGED <<attempt, worker>>
    BY <1>1 DEF EnqueueOpen, rowVars
  <1>2. ASSUME NEW e \in Enqueuers, EnqueueCommit(e)
        PROVE  UNCHANGED <<attempt, worker>>
    BY <1>2 DEF EnqueueCommit
  <1>3. ASSUME NEW e \in Enqueuers, EnqueueAbort(e)
        PROVE  UNCHANGED <<attempt, worker>>
    BY <1>3 DEF EnqueueAbort, rowVars
  <1>4. ASSUME NEW w \in Workers, NEW v \in Verdicts, ReportVerdict(w, v)
        PROVE  UNCHANGED <<attempt, worker>>
    BY <1>4 DEF ReportVerdict
  <1>5. ASSUME NEW t \in Targets, LeaseExpires(t) \/ CompleteUnclaimed(t)
        PROVE  UNCHANGED <<attempt, worker>>
    BY <1>5 DEF LeaseExpires, CompleteUnclaimed
  <1>6. CASE UNCHANGED vars
    BY <1>6 DEF vars
  <1> QED
    BY <1>1, <1>2, <1>3, <1>4, <1>5, <1>6 DEF Next

LEMMA TokenInvariance == TypeOK /\ TokenInv /\ [Next]_vars => TokenInv'
  <1> SUFFICES ASSUME TypeOK, TokenInv, [Next]_vars PROVE TokenInv'
    OBVIOUS
  <1>1. CASE UNCHANGED <<attempt, worker>>
    BY <1>1 DEF TokenInv, HeldAttemptsCounted, TokensAreUnique
  <1>2. ASSUME NEW w \in Workers, Leave(w)
        PROVE  TokenInv'
    <2>1. worker' = [worker EXCEPT ![w] = None] /\ attempt' = attempt
      BY <1>2 DEF Leave, rowVars
    <2>2. \A v \in Workers : worker'[v] # None => worker'[v] = worker[v] /\ worker[v] # None
      BY <2>1 DEF TypeOK
    <2> QED
      BY <2>1, <2>2 DEF TokenInv, HeldAttemptsCounted, TokensAreUnique
  <1>3. ASSUME NEW w \in Workers, NEW t \in Targets, Claim(w, t)
        PROVE  TokenInv'
    <2>1. /\ worker'[w] = [target |-> t, attempt |-> attempt[t] + 1]
          /\ \A v \in Workers \ {w} : worker'[v] = worker[v]
      BY <1>3 DEF Claim, NextAttempt, TypeOK
    <2>2. /\ attempt'[t] = attempt[t] + 1
          /\ \A u \in Targets \ {t} : attempt'[u] = attempt[u]
          /\ attempt[t] \in Nat
      BY <1>3 DEF Claim, NextAttempt, TypeOK
    <2>3. \A v \in Workers : worker[v] # None =>
            worker[v].target \in Targets /\ worker[v].attempt \in Nat
      BY DEF TypeOK, Holding
    <2>4. HeldAttemptsCounted'
      <3> SUFFICES ASSUME NEW v \in Workers, worker'[v] # None
                   PROVE  worker'[v].attempt <= attempt'[worker'[v].target]
        BY DEF HeldAttemptsCounted
      <3>1. CASE v = w
        BY <3>1, <2>1, <2>2
      <3>2. CASE v # w
        <4>1. worker'[v] = worker[v] /\ worker[v].attempt <= attempt[worker[v].target]
          BY <3>2, <2>1 DEF TokenInv, HeldAttemptsCounted
        <4>2. attempt[worker[v].target] <= attempt'[worker[v].target]
          BY <4>1, <2>2, <2>3 DEF TypeOK
        <4>3. attempt'[worker[v].target] \in Nat /\ attempt[worker[v].target] \in Nat
          BY <4>1, <2>2, <2>3 DEF TypeOK
        <4> QED
          BY <4>1, <4>2, <4>3, <2>3
      <3> QED
        BY <3>1, <3>2
    <2>5. \A v \in Workers \ {w} : worker'[v] # None /\ worker'[v].target = t =>
            worker'[v].attempt # attempt[t] + 1
      BY <2>1, <2>2, <2>3 DEF TokenInv, HeldAttemptsCounted
    <2>6. TokensAreUnique'
      BY <2>1, <2>5 DEF TokenInv, TokensAreUnique
    <2> QED
      BY <2>4, <2>6 DEF TokenInv
  <1> QED
    BY <1>1, <1>2, <1>3, OnlyClaimAndLeave

(* The attempt number is a fencing token: whatever leases expire and       *)
(* whichever targets are reopened, no two workers hold the same one.       *)
THEOREM FencingTokens == Spec => []TokensAreUnique
  <1>1. Init => TokenInv
    BY DEF Init, TokenInv, HeldAttemptsCounted, TokensAreUnique
  <1>2. TokenInv => TokensAreUnique
    BY DEF TokenInv
  <1> QED
    BY <1>1, <1>2, TypeCorrect, TokenInvariance, PTL DEF Spec
---------------------------------------------------------------------------
(* Leases and verdicts.  A lease only runs on a claimed row, and no        *)
(* attempt has settled a row that is claimed under it.                     *)

LeaseInv == \A t \in leased : state[t] = "claimed"

ClaimUnsettled ==
  \A s \in settled :
    /\ s.attempt <= attempt[s.target]
    /\ state[s.target] = "claimed" => s.attempt # attempt[s.target]

RowInv == LeaseInv /\ ClaimUnsettled /\ VerdictBelongsToAttempt

LEMMA StateAfterKeeps ==
  ASSUME NEW s \in States, NEW r
  PROVE  /\ s \in {"completed", "claimed"} => StateAfter(s, r) = s
         /\ StateAfter(s, r) = "claimed" => s = "claimed"
         /\ StateAfter(s, r) = "failed" => s = "failed"
         /\ StateAfter(s, r) = "completed" => s = "completed"
  BY DEF StateAfter, States

\* What a step does to the rows, if it does anything: an enqueue commits, or
\* only state, attempt and lease change.
CommitStep ==
  \E t \in Targets, r \in Requests :
    /\ state' = [state EXCEPT ![t] = StateAfter(state[t], r)]
    /\ depth' = [depth EXCEPT ![t] = MergedDepth(t, r)]
    /\ priority' = [priority EXCEPT ![t] = MergedPriority(t, r)]
    /\ evidence' = [evidence EXCEPT ![t] = @ \cup {r}]
    /\ UNCHANGED <<attempt, leased, settled>>

OtherStep ==
  \/ UNCHANGED <<state, attempt, leased, settled>>
  \/ \E t \in Targets :
       /\ Claimable(t)
       /\ state' = [state EXCEPT ![t] = "claimed"]
       /\ attempt' = [attempt EXCEPT ![t] = attempt[t] + 1]
       /\ leased' = leased \cup {t}
       /\ UNCHANGED settled
  \/ \E t \in Targets : leased' = leased \ {t} /\ UNCHANGED <<state, attempt, settled>>
  \/ \E t \in Targets, v \in Verdicts :
       /\ state[t] = "claimed"
       /\ state' = [state EXCEPT ![t] = v]
       /\ leased' = leased \ {t}
       /\ settled' = settled \cup {[target |-> t, attempt |-> attempt[t], verdict |-> v]}
       /\ UNCHANGED attempt
  \/ \E t \in Targets :
       /\ state[t] \notin {"absent", "claimed"}
       /\ state' = [state EXCEPT ![t] = "completed"]
       /\ leased' = leased \ {t}
       /\ UNCHANGED <<attempt, settled>>

RowStep == CommitStep \/ (OtherStep /\ UNCHANGED <<depth, priority, evidence>>)

RowCommits == \E e \in Enqueuers : EnqueueCommit(e)

RowKept == OtherStep /\ UNCHANGED <<depth, priority, evidence>>

\* A step that commits no enqueue leaves summaries and evidence alone.
LEMMA OnlyCommitsMerge == ASSUME TypeOK, [Next]_vars PROVE RowCommits \/ RowKept
  <1>1. ASSUME NEW e \in Enqueuers, NEW t \in Targets, NEW r \in Requests, EnqueueOpen(e, t, r)
        PROVE  RowKept
    BY <1>1 DEF EnqueueOpen, rowVars, RowKept, OtherStep
  <1>2. ASSUME NEW e \in Enqueuers, EnqueueCommit(e)
        PROVE  RowCommits
    BY <1>2 DEF RowCommits
  <1>3. ASSUME NEW e \in Enqueuers, EnqueueAbort(e)
        PROVE  RowKept
    BY <1>3 DEF EnqueueAbort, rowVars, RowKept, OtherStep
  <1>4. ASSUME NEW w \in Workers, NEW t \in Targets, Claim(w, t)
        PROVE  RowKept
    BY <1>4 DEF Claim, NextAttempt, RowKept, OtherStep
  <1>5. ASSUME NEW w \in Workers, NEW v \in Verdicts, ReportVerdict(w, v)
        PROVE  RowKept
    <2>1. PICK t \in Targets, a \in Nat :
           /\ IF Owns(t, a, v)
              THEN /\ state' = [state EXCEPT ![t] = v]
                   /\ leased' = leased \ {t}
                   /\ settled' = IF state[t] = "claimed"
                                 THEN settled \cup {[target |-> t, attempt |-> a, verdict |-> v]}
                                 ELSE settled
              ELSE UNCHANGED <<state, leased, settled>>
           /\ UNCHANGED <<attempt, depth, priority, evidence, tx, worker>>
      BY <1>5, ReportEffect
    <2>2. CASE ~Owns(t, a, v)
      BY <2>1, <2>2 DEF RowKept, OtherStep
    <2>3. CASE Owns(t, a, v) /\ state[t] = "claimed"
      BY <2>1, <2>3 DEF Owns, RowKept, OtherStep
    <2>4. CASE Owns(t, a, v) /\ state[t] # "claimed"
      <3>1. state[t] = v /\ state' = [state EXCEPT ![t] = v]
        BY <2>1, <2>4 DEF Owns
      <3>2. state' = state
        BY <3>1 DEF TypeOK
      <3> QED
        BY <2>1, <2>4, <3>2 DEF RowKept, OtherStep
    <2> QED
      BY <2>2, <2>3, <2>4
  <1>6. ASSUME NEW w \in Workers, Leave(w)
        PROVE  RowKept
    BY <1>6 DEF Leave, rowVars, RowKept, OtherStep
  <1>7. ASSUME NEW t \in Targets, LeaseExpires(t)
        PROVE  RowKept
    BY <1>7 DEF LeaseExpires, RowKept, OtherStep
  <1>8. ASSUME NEW t \in Targets, CompleteUnclaimed(t)
        PROVE  RowKept
    BY <1>8 DEF CompleteUnclaimed, RowKept, OtherStep
  <1>9. CASE UNCHANGED vars
    BY <1>9 DEF vars, RowKept, OtherStep
  <1> QED
    BY <1>1, <1>2, <1>3, <1>4, <1>5, <1>6, <1>7, <1>8, <1>9 DEF Next

LEMMA EveryStepIsRowStep == ASSUME TypeOK, [Next]_vars PROVE RowStep
  <1>1. RowCommits => CommitStep
    BY CommitEffect DEF RowCommits, CommitStep
  <1>2. RowKept => OtherStep /\ UNCHANGED <<depth, priority, evidence>>
    BY DEF RowKept
  <1> QED
    BY <1>1, <1>2, OnlyCommitsMerge DEF RowStep

(* Completed is final for every number of workers, leases and enqueues.    *)
THEOREM CompletedStays == Spec => CompletedIsFinal
  <1> DEFINE Final == \A t \in Targets : state[t] = "completed" =>
                        state'[t] = "completed" /\ attempt'[t] = attempt[t]
  <1>1. TypeOK /\ [Next]_vars => Final
    <2> SUFFICES ASSUME TypeOK, [Next]_vars, NEW u \in Targets, state[u] = "completed"
                 PROVE  state'[u] = "completed" /\ attempt'[u] = attempt[u]
      OBVIOUS
    <2> QED
      BY EveryStepIsRowStep, StateAfterKeeps DEF RowStep, CommitStep, OtherStep, TypeOK, Claimable
  <1>2. TypeOK /\ [Next]_vars => [Final]_vars
    BY <1>1
  <1> QED
    BY <1>2, TypeCorrect, PTL DEF Spec, CompletedIsFinal

LEMMA RowInvariance == TypeOK /\ RowInv /\ [Next]_vars => RowInv'
  <1> SUFFICES ASSUME TypeOK, RowInv, [Next]_vars PROVE RowInv'
    OBVIOUS
  <1>0. \A s \in settled : s.target \in Targets /\ s.attempt \in Nat
    BY DEF TypeOK, Report
  <1> USE DEF RowInv, LeaseInv, ClaimUnsettled, VerdictBelongsToAttempt
  <1>1. CASE UNCHANGED <<state, attempt, leased, settled>>
    BY <1>1
  <1>2. ASSUME NEW t \in Targets, NEW r \in Requests,
               state' = [state EXCEPT ![t] = StateAfter(state[t], r)],
               UNCHANGED <<attempt, leased, settled>>
        PROVE  RowInv'
    <2>1. \A u \in Targets :
            /\ state[u] = "claimed" <=> state'[u] = "claimed"
            /\ state'[u] = "failed" => state[u] = "failed"
      BY <1>2, StateAfterKeeps DEF TypeOK
    <2> QED
      BY <1>0, <1>2, <2>1 DEF TypeOK
  <1>3. ASSUME NEW t \in Targets,
               Claimable(t),
               state' = [state EXCEPT ![t] = "claimed"],
               attempt' = [attempt EXCEPT ![t] = attempt[t] + 1],
               leased' = leased \cup {t},
               UNCHANGED settled
        PROVE  RowInv'
    <2>1. /\ state'[t] = "claimed" /\ attempt'[t] = attempt[t] + 1 /\ attempt[t] \in Nat
          /\ \A u \in Targets \ {t} : state'[u] = state[u] /\ attempt'[u] = attempt[u]
      BY <1>3 DEF TypeOK
    <2>2. LeaseInv'
      BY <1>3, <2>1 DEF TypeOK
    <2>3. ClaimUnsettled'
      BY <1>0, <1>3, <2>1
    <2>4. VerdictBelongsToAttempt'
      BY <1>0, <1>3, <2>1
    <2> QED
      BY <2>2, <2>3, <2>4
  <1>4. ASSUME NEW t \in Targets, leased' = leased \ {t}, UNCHANGED <<state, attempt, settled>>
        PROVE  RowInv'
    BY <1>4
  <1>5. ASSUME NEW t \in Targets, NEW v \in Verdicts,
               state[t] = "claimed",
               state' = [state EXCEPT ![t] = v],
               leased' = leased \ {t},
               settled' = settled \cup {[target |-> t, attempt |-> attempt[t], verdict |-> v]},
               UNCHANGED attempt
        PROVE  RowInv'
    <2> DEFINE new == [target |-> t, attempt |-> attempt[t], verdict |-> v]
    <2>1. /\ state'[t] = v /\ v # "claimed"
          /\ \A u \in Targets \ {t} : state'[u] = state[u]
          /\ attempt[t] \in Nat
      BY <1>5 DEF TypeOK, Verdicts
    <2>2. new.target = t /\ new.attempt = attempt[t] /\ new.verdict = v
      OBVIOUS
    <2>3. \A s \in settled : s.target = t => s.attempt # attempt[t]
      BY <1>5
    <2>4. settled' = settled \cup {new} /\ attempt' = attempt
      BY <1>5
    <2>5. LeaseInv'
      BY <1>5, <2>1 DEF TypeOK
    <2> HIDE DEF new
    <2>6. ClaimUnsettled'
      BY <1>0, <2>1, <2>2, <2>4
    <2>7. VerdictBelongsToAttempt'
      <3>1. \A p, q \in settled' :
              p.target = q.target /\ p.attempt = q.attempt => p.verdict = q.verdict
        BY <2>2, <2>3, <2>4
      <3>2. \A u \in Targets : state'[u] = "failed" =>
              [target |-> u, attempt |-> attempt'[u], verdict |-> "failed"] \in settled'
        BY <2>1, <2>4 DEF new
      <3> QED
        BY <3>1, <3>2
    <2> QED
      BY <2>5, <2>6, <2>7
  <1>6. ASSUME NEW t \in Targets,
               state[t] \notin {"absent", "claimed"},
               state' = [state EXCEPT ![t] = "completed"],
               leased' = leased \ {t},
               UNCHANGED <<attempt, settled>>
        PROVE  RowInv'
    <2>1. \A u \in Targets :
            /\ state'[u] = "claimed" => state[u] = "claimed"
            /\ state'[u] = "failed" => state[u] = "failed"
            /\ u # t => state'[u] = state[u]
      BY <1>6 DEF TypeOK
    <2>2. LeaseInv'
      BY <1>6, <2>1 DEF TypeOK
    <2> QED
      BY <1>0, <1>6, <2>1, <2>2
  <1> QED
    BY <1>1, <1>2, <1>3, <1>4, <1>5, <1>6, EveryStepIsRowStep DEF RowStep, CommitStep, OtherStep

LEMMA RowInvHolds == Spec => [](TypeOK /\ RowInv)
  <1>1. Init => RowInv
    BY DEF Init, RowInv, LeaseInv, ClaimUnsettled, VerdictBelongsToAttempt
  <1> QED
    BY <1>1, TypeCorrect, RowInvariance, PTL DEF Spec

(* A failed row was failed by its current attempt and no attempt settles a *)
(* row both ways, for any number of workers and takeovers.                 *)
THEOREM VerdictsAreFenced == Spec => []VerdictBelongsToAttempt
  <1>1. RowInv => VerdictBelongsToAttempt
    BY DEF RowInv
  <1> QED
    BY <1>1, RowInvHolds, PTL

(* Attempts are fenced: no two workers share one, and its verdict counts   *)
(* for it alone.                                                           *)
THEOREM AttemptsFenced == Spec => []AttemptsAreFenced
  BY FencingTokens, VerdictsAreFenced, PTL DEF AttemptsAreFenced

(* While its lease runs, a claim is ended by its own attempt only.         *)
THEOREM LiveLeasesHeld == Spec => LiveLeaseHeld
  <1> DEFINE Held == \A t \in Targets :
               t \in leased /\ (state'[t] # state[t] \/ attempt'[t] # attempt[t]) =>
                 \E s \in settled' \ settled : s.target = t /\ s.attempt = attempt[t]
  <1>1. TypeOK /\ RowInv /\ [Next]_vars => Held
    <2> SUFFICES ASSUME TypeOK, RowInv, [Next]_vars, NEW u \in Targets, u \in leased,
                        state'[u] # state[u] \/ attempt'[u] # attempt[u]
                 PROVE  \E s \in settled' \ settled : s.target = u /\ s.attempt = attempt[u]
      OBVIOUS
    <2>1. state[u] = "claimed"
      BY DEF RowInv, LeaseInv
    <2>2. PICK t \in Targets, v \in Verdicts :
            /\ state[t] = "claimed"
            /\ state' = [state EXCEPT ![t] = v]
            /\ settled' = settled \cup {[target |-> t, attempt |-> attempt[t], verdict |-> v]}
            /\ UNCHANGED attempt
      BY <2>1, EveryStepIsRowStep, StateAfterKeeps DEF RowStep, CommitStep, OtherStep, TypeOK, Claimable
    <2>3. u = t
      BY <2>2 DEF TypeOK
    <2> DEFINE new == [target |-> t, attempt |-> attempt[t], verdict |-> v]
    <2>4. new \in settled' /\ new.target = u /\ new.attempt = attempt[u]
      BY <2>2, <2>3
    <2>5. new \notin settled
      BY <2>1, <2>3, <2>4 DEF RowInv, ClaimUnsettled
    <2> QED
      BY <2>4, <2>5
  <1>2. TypeOK /\ RowInv /\ [Next]_vars => [Held]_vars
    BY <1>1
  <1> QED
    BY <1>2, RowInvHolds, PTL DEF Spec, LiveLeaseHeld

(* Neither a live claim nor a completed target is disturbed by others.     *)
THEOREM OwnersRespected == Spec => OwnersAreRespected
  BY LiveLeasesHeld, CompletedStays DEF OwnersAreRespected

---------------------------------------------------------------------------
(* The frontier implements FencedTask, for every instance: in particular   *)
(* tokens only grow and nothing but a grant moves them.                    *)

LEMMA PhaseStep ==
  ASSUME TypeOK, NEW t \in Targets, NEW s, state' = [state EXCEPT ![t] = s]
  PROVE  Phase' = [Phase EXCEPT ![t] = PhaseOf(s)]
  BY DEF TypeOK, Phase

THEOREM FrontierImplementsFencedTask == Spec => ImplementsFencedTask
  <1>1. Init => Abstract!Init
    BY DEF Init, Abstract!Init, Phase, PhaseOf
  <1>2. TypeOK /\ [Next]_vars => [Abstract!Next]_(Abstract!vars)
    <2> SUFFICES ASSUME TypeOK, [Next]_vars
                 PROVE  Abstract!Next \/ UNCHANGED Abstract!vars
      OBVIOUS
    <2>0. \A t \in Targets : Phase[t] = PhaseOf(state[t]) /\ state[t] \in States
      BY DEF Phase, TypeOK
    <2>1. CASE UNCHANGED <<state, attempt>>
      BY <2>1 DEF Phase, Abstract!vars
    <2>2. ASSUME NEW t \in Targets, NEW r \in Requests,
                 state' = [state EXCEPT ![t] = StateAfter(state[t], r)],
                 UNCHANGED attempt
          PROVE  Abstract!Next \/ UNCHANGED Abstract!vars
      <3>1. Phase' = [Phase EXCEPT ![t] = PhaseOf(StateAfter(state[t], r))]
        BY <2>2, PhaseStep
      <3>2. CASE PhaseOf(StateAfter(state[t], r)) = Phase[t]
        <4>1. Phase' = Phase
          BY <3>1, <3>2 DEF Phase
        <4> QED
          BY <2>2, <4>1 DEF Abstract!vars
      <3>3. CASE PhaseOf(StateAfter(state[t], r)) # Phase[t]
        <4>1. Phase[t] = "parked" /\ PhaseOf(StateAfter(state[t], r)) = "waiting"
          BY <2>0, <3>3 DEF PhaseOf, StateAfter, States
        <4> QED
          BY <2>2, <3>1, <4>1 DEF Abstract!Next, Abstract!Offer, Abstract!Become
      <3> QED
        BY <3>2, <3>3
    <2>3. ASSUME NEW t \in Targets, Claimable(t),
                 state' = [state EXCEPT ![t] = "claimed"],
                 attempt' = [attempt EXCEPT ![t] = attempt[t] + 1]
          PROVE  Abstract!Next
      <3>1. Phase' = [Phase EXCEPT ![t] = "held"]
        BY <2>3, PhaseStep DEF PhaseOf
      <3>2. Phase[t] \in {"waiting", "held"}
        BY <2>0, <2>3 DEF Claimable, PhaseOf
      <3> QED
        BY <2>3, <3>1, <3>2 DEF Abstract!Next, Abstract!Grant, Abstract!Become
    <2>4. ASSUME NEW t \in Targets, NEW v \in Verdicts, state[t] = "claimed",
                 state' = [state EXCEPT ![t] = v], UNCHANGED attempt
          PROVE  Abstract!Next
      <3>1. Phase' = [Phase EXCEPT ![t] = PhaseOf(v)]
        BY <2>4, PhaseStep
      <3>2. Phase[t] = "held" /\ PhaseOf(v) \in {"done", "parked"}
        BY <2>0, <2>4 DEF PhaseOf, Verdicts
      <3> QED
        BY <2>4, <3>1, <3>2 DEF Abstract!Next, Abstract!Return, Abstract!Become
    <2>5. ASSUME NEW t \in Targets, state[t] \notin {"absent", "claimed"},
                 state' = [state EXCEPT ![t] = "completed"], UNCHANGED attempt
          PROVE  Abstract!Next \/ UNCHANGED Abstract!vars
      <3>1. Phase' = [Phase EXCEPT ![t] = "done"]
        BY <2>5, PhaseStep DEF PhaseOf
      <3>2. Phase[t] \in {"waiting", "parked", "done"}
        BY <2>0, <2>5 DEF PhaseOf, States
      <3>3. CASE Phase[t] = "done"
        <4>1. Phase' = Phase
          BY <3>1, <3>3 DEF Phase
        <4> QED
          BY <2>5, <4>1 DEF Abstract!vars
      <3>4. CASE Phase[t] # "done"
        BY <2>5, <3>1, <3>2, <3>4 DEF Abstract!Next, Abstract!FinishUngranted, Abstract!Become
      <3> QED
        BY <3>3, <3>4
    <2> QED
      BY <2>1, <2>2, <2>3, <2>4, <2>5, EveryStepIsRowStep DEF RowStep, CommitStep, OtherStep
  <1> QED
    BY <1>1, <1>2, TypeCorrect, PTL DEF Spec, Abstract!Spec, ImplementsFencedTask

---------------------------------------------------------------------------
(* Summary columns and the policy.                                         *)

EvidenceInv ==
  /\ SummaryMatchesEvidence
  /\ PolicyDecides
  /\ \A t \in Targets : ~Known(t) => attempt[t] = 0

LEMMA ScoresAreNumbers ==
  \A q \in Requests : q.depth \in Nat /\ Priority(q) \in Nat
  <1>1. \A q \in Requests : q.depth \in Nat
    BY ScoresInRange
  <1>2. Priorities \subseteq Nat
    BY DEF Priorities
  <1> QED
    BY <1>1, <1>2, PriorityInRange

LEMMA SummariesAreNumbers ==
  ASSUME TypeOK, NEW t \in Targets
  PROVE  depth[t] \in Nat /\ priority[t] \in Nat /\ evidence[t] \subseteq Requests
  <1>1. depth[t] \in Nat /\ evidence[t] \subseteq Requests
    BY DEF TypeOK
  <1>2. priority[t] \in Priorities
    BY DEF TypeOK
  <1>3. Priorities \subseteq Nat
    BY DEF Priorities
  <1>4. priority[t] \in Nat
    BY <1>2, <1>3
  <1> QED
    BY <1>1, <1>4

LEMMA EvidenceInvariance == TypeOK /\ EvidenceInv /\ [Next]_vars => EvidenceInv'
  <1> SUFFICES ASSUME TypeOK, EvidenceInv, [Next]_vars PROVE EvidenceInv'
    OBVIOUS
  <1> USE DEF EvidenceInv, SummaryMatchesEvidence, PolicyDecides, Known
  <1>1. ASSUME CommitStep
        PROVE  EvidenceInv'
    <2>1. PICK t \in Targets, r \in Requests :
           /\ state' = [state EXCEPT ![t] = StateAfter(state[t], r)]
           /\ depth' = [depth EXCEPT ![t] = MergedDepth(t, r)]
           /\ priority' = [priority EXCEPT ![t] = MergedPriority(t, r)]
           /\ evidence' = [evidence EXCEPT ![t] = @ \cup {r}]
           /\ UNCHANGED attempt
      BY <1>1 DEF CommitStep
    <2>2. \A u \in Targets \ {t} :
            /\ state'[u] = state[u] /\ attempt'[u] = attempt[u]
            /\ depth'[u] = depth[u] /\ priority'[u] = priority[u]
            /\ evidence'[u] = evidence[u]
      BY <2>1 DEF TypeOK
    <2>3. /\ state'[t] = StateAfter(state[t], r)
          /\ depth'[t] = MergedDepth(t, r)
          /\ priority'[t] = MergedPriority(t, r)
          /\ evidence'[t] = evidence[t] \cup {r}
          /\ attempt'[t] = attempt[t]
          /\ state'[t] # "absent"
      BY <2>1, StateAfterType DEF TypeOK
    <2>4. /\ \A q \in evidence[t] \cup {r} : q \in Requests /\ q.depth \in Nat /\ Priority(q) \in Nat
          /\ depth[t] \in Nat /\ priority[t] \in Nat
      BY SummariesAreNumbers, ScoresAreNumbers
    <2>5. /\ \A q \in evidence'[t] : depth'[t] <= q.depth
          /\ \E q \in evidence'[t] : q.depth = depth'[t]
      BY <2>3, <2>4 DEF MergedDepth
    <2>6. /\ \A q \in evidence'[t] : Priority(q) <= priority'[t]
          /\ \E q \in evidence'[t] : Priority(q) = priority'[t]
      BY <2>3, <2>4 DEF MergedPriority
    <2>7. IF \E q \in evidence'[t] : Admitted(q)
          THEN state'[t] # "deferred"
          ELSE attempt'[t] = 0 /\ state'[t] \in {"deferred", "completed"}
      BY <2>3 DEF StateAfter, TypeOK, States
    <2> QED
      BY <2>2, <2>3, <2>5, <2>6, <2>7
  <1>2. ASSUME OtherStep, UNCHANGED <<depth, priority, evidence>>
        PROVE  EvidenceInv'
    <2>1. \A t \in Targets : state'[t] # "absent" <=> state[t] # "absent"
      BY <1>2 DEF OtherStep, TypeOK, Verdicts, Claimable
    <2>2. \A t \in Targets : attempt'[t] # attempt[t] => state[t] \in {"pending", "claimed"}
      BY <1>2 DEF OtherStep, TypeOK, Claimable
    <2>3. \A t \in Targets : state'[t] # state[t] =>
            \/ state'[t] = "completed"
            \/ state[t] \in {"pending", "claimed"} /\ state'[t] # "deferred"
      BY <1>2 DEF OtherStep, TypeOK, Claimable, Verdicts
    <2> QED
      BY <1>2, <2>1, <2>2, <2>3
  <1> QED
    BY <1>1, <1>2, EveryStepIsRowStep DEF RowStep

(* The row is a faithful summary of its evidence and the policy alone      *)
(* decides what is handed out, in whatever order enqueues commit.          *)
THEOREM SummariesMatch == Spec => [](SummaryMatchesEvidence /\ PolicyDecides)
  <1>1. Init => EvidenceInv
    BY DEF Init, EvidenceInv, SummaryMatchesEvidence, PolicyDecides, Known
  <1>2. EvidenceInv => SummaryMatchesEvidence /\ PolicyDecides
    BY DEF EvidenceInv
  <1> QED
    BY <1>1, <1>2, TypeCorrect, EvidenceInvariance, PTL DEF Spec

---------------------------------------------------------------------------
(* Recordings.                                                             *)

Items == [target : Targets, ok : BOOLEAN]

\* What a recorder may hold between two of its steps.
Recorder ==
  {Idle} \cup [pc : {"seed"}, report : Reports]
  \cup [pc : {"item"}, report : Reports, todo : Seq(Items),
        seedState : States, seedDepth : 0..MaxSeedDepth]
  \cup [pc : {"links"}, report : Reports, todo : Seq(Items) \ {<<>>},
        seedState : States, seedDepth : 0..MaxSeedDepth,
        depth : 0..(MaxSeedDepth + 1), links : SUBSET Targets]

\* How deep the open enqueue of a recorder can make the row it commits.
EnqueueBound(r) == IF Pc(r, "seed") THEN 0 ELSE MaxSeedDepth + 1

RecInv ==
  /\ setting \in Settings
  /\ rec \in [Enqueuers -> Recorder]
  /\ \A r \in Enqueuers :
       /\ tx[r] # None /\ (Pc(r, "seed") \/ Pc(r, "item"))
            => tx[r].request.depth <= EnqueueBound(r)
       /\ tx[r] # None /\ Pc(r, "item") => rec[r].todo # <<>>

(* A recorder's next enqueue is of a target, with scores callers may give. *)
LEMMA WantedIsRequest ==
  ASSUME RecInv, NEW r \in Enqueuers, NEW p \in Wanted(r)
  PROVE  /\ p[1] \in Targets /\ p[2] \in Requests
         /\ Pc(r, "seed") \/ Pc(r, "item") => p[2].depth <= EnqueueBound(r)
  <1>0. rec[r] \in Recorder /\ ~Pc(r, "idle")
    BY DEF RecInv, Wanted, Pc
  <1>1. CASE Pc(r, "seed")
    <2>1. rec[r].report \in Reports
      BY <1>0, <1>1 DEF Recorder, Pc, Idle
    <2> QED
      BY <1>1, <2>1, ReportsAssumption, RecordedAssumption
      DEF Wanted, SeedRequest, EnqueueBound, Pc
  <1>2. CASE Pc(r, "item")
    <2>1. rec[r].todo \in Seq(Items) /\ rec[r].todo # <<>> /\ rec[r].seedDepth \in 0..MaxSeedDepth
      BY <1>0, <1>2 DEF Recorder, Pc, Idle, Wanted
    <2>2. p = <<Item(r).target, ItemRequest(rec[r].seedDepth)>>
      BY <1>2 DEF Wanted, Pc
    <2>3. Item(r) \in Items
      BY <2>1 DEF Item
    <2>4. rec[r].seedDepth \in 0..(MaxSeedDepth + 1)
      BY <2>1, RecordedAssumption
    <2>5. ItemRequest(rec[r].seedDepth) \in Requests
      BY <2>4, RecordedAssumption
    <2>6. ItemRequest(rec[r].seedDepth).depth <= MaxSeedDepth + 1
      BY <2>1, RecordedAssumption DEF ItemRequest
    <2> QED
      BY <1>2, <2>2, <2>3, <2>5, <2>6 DEF Items, EnqueueBound, Pc
  <1>3. CASE Pc(r, "links")
    <2>1. rec[r].links \subseteq Targets /\ rec[r].depth \in 0..(MaxSeedDepth + 1)
      BY <1>0, <1>3 DEF Recorder, Pc, Idle
    <2>2. PICK l \in rec[r].links : p = <<l, LinkRequest(rec[r].depth)>>
      BY <1>3 DEF Wanted, Pc
    <2> QED
      BY <1>3, <2>1, <2>2, RecordedAssumption DEF Pc
  <1> QED
    BY <1>0, <1>1, <1>2, <1>3 DEF Recorder, Pc, Idle

(* Every step of an ingest, of other callers and of the workers is a step  *)
(* of the frontier or leaves it alone.                                     *)
LEMMA IngestStepIsFrontierStep ==
  ASSUME RecInv, IngestNext
  PROVE  [Next]_vars
  <1>1. ASSUME NEW r \in Enqueuers, NEW report \in Reports, Start(r, report)
        PROVE  UNCHANGED vars
    BY <1>1 DEF Start
  <1>2. ASSUME NEW r \in Enqueuers, RecordOpen(r)
        PROVE  Next
    BY <1>2, WantedIsRequest DEF RecordOpen, Next
  <1>3. ASSUME NEW r \in Enqueuers, RecordCommit(r) \/ RecordAbort(r)
        PROVE  Next
    BY <1>3 DEF RecordCommit, RecordAbort, Next
  <1>4. ASSUME NEW r \in Enqueuers, RecordSeedItem(r)
        PROVE  UNCHANGED vars
    BY <1>4 DEF RecordSeedItem
  <1>5. ASSUME NEW t \in Targets, CompleteIfUnclaimed(t)
        PROVE  [Next]_vars
    BY <1>5 DEF CompleteIfUnclaimed, Next
  <1>6. ASSUME NEW r \in Enqueuers, RecordVideoDone(r)
        PROVE  [Next]_vars
    <2>1. Item(r).target \in Targets
      <3>1. rec[r] \in Recorder /\ Pc(r, "links")
        BY <1>6 DEF RecordVideoDone, RecInv
      <3>2. rec[r].todo \in Seq(Items) \ {<<>>}
        BY <3>1 DEF Recorder, Pc, Idle
      <3>3. Head(rec[r].todo) \in Items
        BY <3>2
      <3> QED
        BY <3>3 DEF Item, Items
    <2> QED
      BY <1>5, <1>6, <2>1 DEF RecordVideoDone
  <1>7. ASSUME NEW r \in Enqueuers, RecordFinish(r)
        PROVE  [Next]_vars
    <2>1. rec[r].report \in Reports
      BY <1>7 DEF RecordFinish, RecInv, Recorder, Pc, Idle
    <2>2. rec[r].report.seed \in Targets
      BY <2>1, ReportsAssumption
    <2> QED
      BY <1>5, <1>7, <2>2 DEF RecordFinish
  <1>8. ASSUME NEW e \in Enqueuers, Offer(e)
        PROVE  Next
    BY <1>8, SettingsAssumption DEF Offer, Next, RecInv
  <1>9. ASSUME NEW w \in Workers, Work(w)
        PROVE  Next
    BY <1>9 DEF Work, Next
  <1>10. ASSUME NEW t \in Targets, LeaseExpires(t) \/ CompleteUnclaimed(t)
         PROVE  Next
    BY <1>10 DEF Next
  <1> QED
    BY <1>1, <1>2, <1>3, <1>4, <1>6, <1>7, <1>8, <1>9, <1>10, SettingsAssumption
    DEF IngestNext, RecInv

(* The recorders' part of the invariant.  Why it is needed: an enqueue is  *)
(* a step of the frontier only if its scores are ones callers may give,    *)
(* and those of items and links count on from the depth a recorder read.   *)
LEMMA BeginIsTyped ==
  ASSUME NEW report \in Reports, NEW s \in States, NEW d \in 0..MaxSeedDepth
  PROVE  Begin(report, s, d) \in Recorder /\ Begin(report, s, d).pc \in {"idle", "item"}
  <1>1. report.items \in Seq(Items)
    BY ReportsAssumption DEF Items
  <1> QED
    BY <1>1 DEF Begin, Recorder, Idle

LEMMA SkipIsTyped ==
  ASSUME NEW r \in Enqueuers, rec[r] \in Recorder, Pc(r, "item") \/ Pc(r, "links"),
         rec[r].todo # <<>>
  PROVE  Skip(r) \in Recorder /\ Skip(r).pc = "item"
  <1>1. /\ rec[r].report \in Reports /\ rec[r].todo \in Seq(Items)
        /\ rec[r].seedState \in States /\ rec[r].seedDepth \in 0..MaxSeedDepth
    BY DEF Recorder, Pc, Idle
  <1>2. Tail(rec[r].todo) \in Seq(Items)
    BY <1>1
  <1> QED
    BY <1>1, <1>2 DEF Skip, Recorder

LEMMA ExpandIsTyped ==
  ASSUME NEW r \in Enqueuers, rec[r] \in Recorder, Pc(r, "item"),
         rec[r].todo # <<>>, NEW d \in 0..(MaxSeedDepth + 1)
  PROVE  Expand(r, d) \in Recorder /\ Expand(r, d).pc = "links"
  <1>1. /\ rec[r].report \in Reports /\ rec[r].todo \in Seq(Items)
        /\ rec[r].seedState \in States /\ rec[r].seedDepth \in 0..MaxSeedDepth
    BY DEF Recorder, Pc, Idle
  <1>2. Item(r).target \in Targets
    <2>1. Head(rec[r].todo) \in Items
      BY <1>1
    <2> QED
      BY <2>1 DEF Item, Items
  <1>3. Links[Item(r).target] \subseteq Targets
    BY <1>2, LinksAssumption
  <1> QED
    BY <1>1, <1>3 DEF Expand, Recorder

LEMMA OneRecorderMoves ==
  ASSUME RecInv, NEW r \in Enqueuers, NEW v \in Recorder,
         rec' = [rec EXCEPT ![r] = v], setting' = setting,
         \A q \in Enqueuers \ {r} : tx'[q] = tx[q],
         tx'[r] = None
  PROVE  RecInv'
  <1>1. /\ rec' \in [Enqueuers -> Recorder]
        /\ \A q \in Enqueuers \ {r} : rec'[q] = rec[q]
    BY DEF RecInv
  <1> QED
    BY <1>1 DEF RecInv, Pc, EnqueueBound

\* What a commit leaves of the row it merges into.
LEMMA CommitBoundsDepth ==
  ASSUME TypeOK, NEW r \in Enqueuers, EnqueueCommit(r), NEW b \in Nat,
         tx[r].request.depth <= b
  PROVE  LET t == tx[r].target IN state'[t] \in States /\ depth'[t] \in 0..b
  <1> DEFINE t == tx[r].target
  <1>1. tx[r] \in Transaction
    BY DEF TypeOK, EnqueueCommit
  <1>2. t \in Targets /\ tx[r].request \in Requests
    BY <1>1 DEF Transaction
  <1>3. tx[r].request.depth \in Nat
    BY <1>2, RequestsAssumption
  <1>4. TypeOK'
    BY TypeInvariance DEF Next
  <1>5. depth'[t] = MergedDepth(t, tx[r].request)
    BY <1>2 DEF EnqueueCommit, TypeOK
  <1>6. depth[t] \in Nat
    BY <1>2 DEF TypeOK
  <1>7. state'[t] \in States
    BY <1>2, <1>4 DEF TypeOK
  <1> QED
    BY <1>3, <1>5, <1>6, <1>7 DEF MergedDepth

LEMMA RecorderInvariance ==
  ASSUME TypeOK, RecInv, [IngestNext]_allVars
  PROVE  RecInv'
  <1>1. ASSUME NEW r \in Enqueuers, NEW report \in Reports, Start(r, report)
        PROVE  RecInv'
    <2>1. report.seed \in Targets
      BY ReportsAssumption
    <2>2. state[report.seed] \in States /\ depth[report.seed] \in 0..MaxSeedDepth
      BY <1>1, <2>1, RecordedAssumption DEF Start, TypeOK
    <2>3. Begin(report, state[report.seed], depth[report.seed]) \in Recorder
      BY <2>2, BeginIsTyped
    <2>4. [pc |-> "seed", report |-> report] \in Recorder
      BY DEF Recorder
    <2>5. tx' = tx /\ setting' = setting /\ tx[r] = None
      BY <1>1 DEF Start, vars
    <2>6. PICK v \in Recorder : rec' = [rec EXCEPT ![r] = v]
      BY <1>1, <2>3, <2>4 DEF Start
    <2> QED
      BY <2>5, <2>6, OneRecorderMoves
  <1>2. ASSUME NEW r \in Enqueuers, RecordOpen(r)
        PROVE  RecInv'
    <2>1. PICK p \in Wanted(r) : EnqueueOpen(r, p[1], p[2])
      BY <1>2 DEF RecordOpen
    <2>2. rec' = rec /\ setting' = setting
      BY <1>2 DEF RecordOpen, ingestVars
    <2>3. tx' = [tx EXCEPT ![r] = [target |-> p[1], request |-> p[2]]]
      BY <2>1 DEF EnqueueOpen
    <2>4. ASSUME NEW q \in Enqueuers, tx'[q] # None, Pc(q, "seed") \/ Pc(q, "item")
          PROVE  tx'[q].request.depth <= EnqueueBound(q) /\ (Pc(q, "item") => rec[q].todo # <<>>)
      <3>1. CASE q = r
        BY <2>1, <2>3, <2>4, <3>1, WantedIsRequest DEF TypeOK, Wanted, Pc
      <3>2. CASE q # r
        BY <2>3, <2>4, <3>2 DEF TypeOK, RecInv
      <3> QED
        BY <3>1, <3>2
    <2> QED
      BY <2>2, <2>4 DEF RecInv, Pc, EnqueueBound
  <1>3. ASSUME NEW r \in Enqueuers, RecordCommit(r)
        PROVE  RecInv'
    <2> DEFINE t == tx[r].target
    <2>1. rec[r] \in Recorder /\ EnqueueCommit(r) /\ ~Pc(r, "idle") /\ setting' = setting
      BY <1>3 DEF RecordCommit, RecInv
    <2>2. tx'[r] = None /\ \A q \in Enqueuers \ {r} : tx'[q] = tx[q]
      BY <2>1 DEF EnqueueCommit, TypeOK
    <2>3. CASE Pc(r, "seed")
      <3>1. tx[r].request.depth <= 0
        BY <2>1, <2>3 DEF RecInv, EnqueueBound, EnqueueCommit
      <3>2. state'[t] \in States /\ depth'[t] \in 0..MaxSeedDepth
        BY <2>1, <3>1, CommitBoundsDepth, RecordedAssumption
      <3>3. rec[r].report \in Reports
        BY <2>1, <2>3 DEF Recorder, Pc, Idle
      <3>4. Begin(rec[r].report, state'[t], depth'[t]) \in Recorder
        BY <3>2, <3>3, BeginIsTyped
      <3>5. rec' = [rec EXCEPT ![r] = Begin(rec[r].report, state'[t], depth'[t])]
        BY <1>3, <2>3 DEF RecordCommit, Pc
      <3> QED
        BY <2>1, <2>2, <3>4, <3>5, OneRecorderMoves
    <2>4. CASE Pc(r, "item")
      <3>1. tx[r].request.depth <= MaxSeedDepth + 1 /\ rec[r].todo # <<>>
        BY <2>1, <2>4 DEF RecInv, EnqueueBound, EnqueueCommit, Pc
      <3>2. depth'[t] \in 0..(MaxSeedDepth + 1)
        BY <2>1, <3>1, CommitBoundsDepth, RecordedAssumption
      <3>3. Expand(r, depth'[t]) \in Recorder /\ Skip(r) \in Recorder
        BY <2>1, <2>4, <3>1, <3>2, ExpandIsTyped, SkipIsTyped
      <3>4. PICK v \in Recorder : rec' = [rec EXCEPT ![r] = v]
        BY <1>3, <2>4, <3>3 DEF RecordCommit, Pc
      <3> QED
        BY <2>1, <2>2, <3>4, OneRecorderMoves
    <2>5. CASE Pc(r, "links")
      <3> DEFINE v == [rec[r] EXCEPT !.links = @ \ {t}]
      <3>1. v \in Recorder
        BY <2>1, <2>5 DEF Recorder, Pc, Idle
      <3>2. rec' = [rec EXCEPT ![r] = v]
        BY <1>3, <2>5 DEF RecordCommit, Pc
      <3> QED
        BY <2>1, <2>2, <3>1, <3>2, OneRecorderMoves
    <2> QED
      BY <2>1, <2>3, <2>4, <2>5 DEF Recorder, Pc, Idle
  <1>4. ASSUME NEW r \in Enqueuers, RecordAbort(r)
        PROVE  RecInv'
    <2>1. tx'[r] = None /\ setting' = setting /\ \A q \in Enqueuers \ {r} : tx'[q] = tx[q]
      BY <1>4 DEF RecordAbort, EnqueueAbort, TypeOK
    <2>2. rec' = [rec EXCEPT ![r] = Idle] /\ Idle \in Recorder
      BY <1>4 DEF RecordAbort, AfterError, Recorder
    <2> QED
      BY <2>1, <2>2, OneRecorderMoves
  <1>5. ASSUME NEW r \in Enqueuers, RecordSeedItem(r)
        PROVE  RecInv'
    <2>1. /\ rec[r] \in Recorder /\ Pc(r, "item") /\ rec[r].todo # <<>>
          /\ tx' = tx /\ tx[r] = None /\ setting' = setting
      BY <1>5 DEF RecordSeedItem, RecInv, vars
    <2>2. rec[r].seedDepth \in 0..(MaxSeedDepth + 1)
      BY <2>1, RecordedAssumption DEF Recorder, Pc, Idle
    <2>3. Expand(r, rec[r].seedDepth) \in Recorder /\ Skip(r) \in Recorder
      BY <2>1, <2>2, ExpandIsTyped, SkipIsTyped
    <2>4. PICK v \in Recorder : rec' = [rec EXCEPT ![r] = v]
      BY <1>5, <2>3 DEF RecordSeedItem
    <2> QED
      BY <2>1, <2>4, OneRecorderMoves
  <1>6. ASSUME NEW t \in Targets, CompleteIfUnclaimed(t)
        PROVE  tx' = tx
    BY <1>6 DEF CompleteIfUnclaimed, CompleteUnclaimed, vars
  <1>7. ASSUME NEW r \in Enqueuers, RecordVideoDone(r)
        PROVE  RecInv'
    <2>1. /\ rec[r] \in Recorder /\ Pc(r, "links") /\ tx[r] = None /\ setting' = setting
      BY <1>7 DEF RecordVideoDone, RecInv
    <2>2. rec[r].todo \in Seq(Items) /\ rec[r].todo # <<>>
      BY <2>1 DEF Recorder, Pc, Idle
    <2>3. Head(rec[r].todo) \in Items
      BY <2>2
    <2>4. Item(r).target \in Targets
      BY <2>3 DEF Item, Items
    <2>5. tx' = tx
      BY <1>6, <1>7, <2>4 DEF RecordVideoDone, vars
    <2>6. Skip(r) \in Recorder /\ rec' = [rec EXCEPT ![r] = Skip(r)]
      BY <1>7, <2>1, <2>2, SkipIsTyped DEF RecordVideoDone
    <2> QED
      BY <2>1, <2>5, <2>6, OneRecorderMoves
  <1>8. ASSUME NEW r \in Enqueuers, RecordFinish(r)
        PROVE  RecInv'
    <2>1. /\ rec[r] \in Recorder /\ Pc(r, "item") /\ rec[r].todo = <<>> /\ setting' = setting
      BY <1>8 DEF RecordFinish, RecInv
    <2>2. tx[r] = None
      BY <2>1 DEF RecInv
    <2>3. rec[r].report \in Reports
      BY <2>1 DEF Recorder, Pc, Idle
    <2>4. tx' = tx
      BY <1>6, <1>8, <2>3, ReportsAssumption DEF RecordFinish, vars
    <2>5. rec' = [rec EXCEPT ![r] = Idle] /\ Idle \in Recorder
      BY <1>8 DEF RecordFinish, Recorder
    <2> QED
      BY <2>1, <2>2, <2>4, <2>5, OneRecorderMoves
  <1>9. ASSUME NEW e \in Enqueuers, Offer(e)
        PROVE  RecInv'
    <2>1. rec' = rec /\ setting' = setting /\ Pc(e, "idle")
      BY <1>9 DEF Offer, ingestVars
    <2>2. \A q \in Enqueuers \ {e} : tx'[q] = tx[q]
      BY <1>9 DEF Offer, EnqueueOpen, EnqueueCommit, EnqueueAbort, TypeOK
    <2> QED
      BY <2>1, <2>2 DEF RecInv, Pc, EnqueueBound
  <1>10. ASSUME \/ \E w \in Workers : Work(w)
                \/ \E t \in Targets : LeaseExpires(t) /\ UNCHANGED ingestVars
                \/ \E t \in Targets : CompleteUnclaimed(t) /\ UNCHANGED ingestVars
                \/ UNCHANGED allVars
         PROVE  RecInv'
    <2>1. rec' = rec /\ setting' = setting /\ tx' = tx
      BY <1>10 DEF Work, Claim, ReportVerdict, Leave, LeaseExpires, CompleteUnclaimed,
                   ingestVars, allVars, vars
    <2> QED
      BY <2>1 DEF RecInv, Pc, EnqueueBound
  <1> QED
    BY <1>1, <1>2, <1>3, <1>4, <1>5, <1>7, <1>8, <1>9, <1>10, SettingsAssumption
    DEF IngestNext, RecInv

(* Recordings, other callers and workers together are a frontier: its      *)
(* specification holds of IngestSpec, whatever is recorded.                *)
THEOREM IngestIsFrontier == IngestSpec => Spec
  <1>1. FrontierInit => Init /\ TypeOK /\ RecInv
    BY DEF FrontierInit, Init, TypeOK, States, Priorities, RecInv, Recorder, Idle
  <1>2. TypeOK /\ RecInv /\ [IngestNext]_allVars => [Next]_vars
    <2>1. UNCHANGED allVars => UNCHANGED vars
      BY DEF allVars, vars
    <2> QED
      BY <2>1, IngestStepIsFrontierStep
  <1>3. TypeOK /\ RecInv /\ [IngestNext]_allVars => TypeOK' /\ RecInv'
    BY <1>2, TypeInvariance, RecorderInvariance
  <1> QED
    BY <1>1, <1>2, <1>3, PTL DEF IngestSpec, Spec

(* Attempts stay fenced while ingests record what they found.              *)
THEOREM AttemptsFencedWithIngests == IngestSpec => []AttemptsAreFenced
  BY IngestIsFrontier, AttemptsFenced

(* No recording disturbs a live claim or reopens a completed target.       *)
THEOREM OwnersRespectedByIngests == IngestSpec => OwnersAreRespected
  BY IngestIsFrontier, OwnersRespected

---------------------------------------------------------------------------
(* The crawl.  An item is noted when its target has evidence one level     *)
(* below the seed.                                                         *)

Noted(report, d, i) ==
  report.items[i].target # report.seed =>
    \E e \in evidence[report.items[i].target] : e.depth = d + 1

\* todo is the end of the report's items.
IsRest(report, todo) ==
  /\ Len(todo) <= Len(report.items)
  /\ \A k \in 1..Len(todo) : todo[k] = report.items[Len(report.items) - Len(todo) + k]

\* The items before the last n are noted.
NotedBut(report, d, n) ==
  \A i \in 1..Len(report.items) : i <= Len(report.items) - n => Noted(report, d, i)

\* What a recorder goes through, it has recorded; its current item too once
\* it is at that item's links.
ItemsBehind(r) ==
  /\ Pc(r, "item") => /\ IsRest(rec[r].report, rec[r].todo)
                      /\ NotedBut(rec[r].report, rec[r].seedDepth, Len(rec[r].todo))
  /\ Pc(r, "links") => /\ IsRest(rec[r].report, rec[r].todo)
                       /\ NotedBut(rec[r].report, rec[r].seedDepth, Len(rec[r].todo) - 1)

\* Who an open enqueue writes for, and that only those of roots and of
\* other callers can be at depth 0.
OpenWriteIsKnown(r) ==
  tx[r] # None =>
    /\ Pc(r, "idle") => tx[r].target \in setting.targets
    /\ Pc(r, "seed") => tx[r].target = rec[r].report.seed
    /\ Pc(r, "item") => /\ tx[r].target = Item(r).target
                        /\ tx[r].request.depth = rec[r].seedDepth + 1
    /\ Pc(r, "links") => tx[r].request.depth > 0

RecorderHolds(r) ==
  /\ OpenWriteIsKnown(r)
  /\ Pc(r, "seed") => rec[r].report.seed \in roots
  /\ ItemsBehind(r)

CrawlInv ==
  /\ \A r \in Enqueuers : RecorderHolds(r)
  /\ started \in 0..setting.recordings /\ roots \subseteq Targets
  /\ finished \subseteq [report : Reports, depth : Nat]
  /\ DepthsAreDistances /\ ExpansionIsRecorded

\* A target is in the frontier, at a depth or above it.
Placed(u, d) == u \in Targets /\ Known(u) /\ depth[u] <= d

\* What a recorder counts depths from is in the frontier no deeper than it assumes.
SourcesArePlaced(r) ==
  /\ Pc(r, "item") \/ Pc(r, "links") => Placed(rec[r].report.seed, rec[r].seedDepth)
  /\ Pc(r, "links") => /\ Placed(Item(r).target, rec[r].depth)
                       /\ rec[r].links \subseteq Links[Item(r).target]
  /\ tx[r] # None /\ Pc(r, "seed") => tx[r].request.depth = 0
  /\ tx[r] # None /\ Pc(r, "links") => /\ tx[r].target \in rec[r].links
                                       /\ tx[r].request.depth = rec[r].depth + 1

PlacesInv == \A r \in Enqueuers : SourcesArePlaced(r)

\* What every step leaves in place.
Growing ==
  /\ setting' = setting /\ roots \subseteq roots'
  /\ \A t \in Targets : evidence[t] \subseteq evidence'[t]

LEMMA ItemsOfReports ==
  ASSUME NEW report \in Reports
  PROVE  /\ report.items \in Seq(Items) /\ Len(report.items) \in Nat
         /\ \A i \in 1..Len(report.items) : report.items[i] \in Items
         /\ \A i \in 1..Len(report.items) : report.items[i].target \in Targets
  <1>1. report.items \in Seq(Items)
    BY ReportsAssumption DEF Items
  <1>2. \A i \in 1..Len(report.items) : report.items[i] \in Items
    BY <1>1
  <1> QED
    BY <1>1, <1>2 DEF Items

LEMMA EvidenceGrows ==
  ASSUME TypeOK, [Next]_vars
  PROVE  \A t \in Targets : evidence[t] \subseteq evidence'[t]
  BY EveryStepIsRowStep DEF RowStep, CommitStep, TypeOK

LEMMA NotedStays ==
  ASSUME NEW report \in Reports, NEW d, NEW i \in 1..Len(report.items),
         Noted(report, d, i), \A t \in Targets : evidence[t] \subseteq evidence'[t]
  PROVE  Noted(report, d, i)'
  <1>1. report.items[i].target \in Targets
    BY ItemsOfReports
  <1> QED
    BY <1>1 DEF Noted

LEMMA NotedButStays ==
  ASSUME NEW report \in Reports, NEW d, NEW n,
         NotedBut(report, d, n), \A t \in Targets : evidence[t] \subseteq evidence'[t]
  PROVE  NotedBut(report, d, n)'
  BY NotedStays DEF NotedBut

LEMMA RecordersKeepReports ==
  ASSUME RecInv, NEW r \in Enqueuers
  PROVE  /\ rec[r].pc \in {"idle", "seed", "item", "links"}
         /\ ~Pc(r, "idle") => rec[r].report \in Reports
         /\ Pc(r, "item") \/ Pc(r, "links")
              => /\ rec[r].todo \in Seq(Items) /\ rec[r].seedDepth \in 0..MaxSeedDepth
                 /\ Len(rec[r].todo) \in Nat
         /\ Pc(r, "links") => /\ rec[r].todo # <<>>
                              /\ rec[r].depth \in 0..(MaxSeedDepth + 1)
  <1>1. rec[r] \in Recorder
    BY DEF RecInv
  <1> QED
    BY <1>1 DEF Recorder, Pc, Idle

(* Another's step costs a recorder nothing.                                *)
LEMMA OthersStep ==
  ASSUME RecInv, Growing, NEW q \in Enqueuers, RecorderHolds(q),
         rec'[q] = rec[q], tx'[q] = tx[q]
  PROVE  RecorderHolds(q)'
  <1>1. OpenWriteIsKnown(q)'
    BY DEF RecorderHolds, OpenWriteIsKnown, Growing, Pc, Item
  <1>2. ASSUME Pc(q, "item") \/ Pc(q, "links"), NEW n,
               NotedBut(rec[q].report, rec[q].seedDepth, n)
        PROVE  NotedBut(rec[q].report, rec[q].seedDepth, n)'
    <2>1. rec[q].report \in Reports
      BY <1>2, RecordersKeepReports DEF Pc
    <2>0. PICK d : d = rec[q].seedDepth
      OBVIOUS
    <2>2. PICK report \in Reports : report = rec[q].report /\ d = rec[q].seedDepth
      BY <2>0, <2>1
    <2>3. NotedBut(report, d, n)'
      BY <1>2, <2>2, NotedButStays DEF Growing
    <2>4. rec'[q].report = report /\ rec'[q].seedDepth = d
      BY <2>2
    <2> QED
      BY <2>3, <2>4
  <1>3. ItemsBehind(q)'
    <2>1. Pc(q, "item")' => Pc(q, "item")
      BY DEF Pc
    <2>2. Pc(q, "links")' => Pc(q, "links")
      BY DEF Pc
    <2>3. ASSUME Pc(q, "item")
          PROVE  /\ IsRest(rec[q].report, rec[q].todo)'
                 /\ NotedBut(rec[q].report, rec[q].seedDepth, Len(rec[q].todo))'
      <3>1. NotedBut(rec[q].report, rec[q].seedDepth, Len(rec[q].todo))
        BY <2>3 DEF RecorderHolds, ItemsBehind
      <3>2. PICK n : n = Len(rec[q].todo)
        OBVIOUS
      <3>3. NotedBut(rec[q].report, rec[q].seedDepth, n)'
        BY <1>2, <2>3, <3>1, <3>2
      <3>4. n = Len(rec'[q].todo)
        BY <3>2
      <3>5. IsRest(rec[q].report, rec[q].todo)'
        BY <2>3 DEF RecorderHolds, ItemsBehind, IsRest
      <3> QED
        BY <3>3, <3>4, <3>5
    <2>4. ASSUME Pc(q, "links")
          PROVE  /\ IsRest(rec[q].report, rec[q].todo)'
                 /\ NotedBut(rec[q].report, rec[q].seedDepth, Len(rec[q].todo) - 1)'
      <3>1. NotedBut(rec[q].report, rec[q].seedDepth, Len(rec[q].todo) - 1)
        BY <2>4 DEF RecorderHolds, ItemsBehind
      <3>2. PICK n : n = Len(rec[q].todo) - 1
        OBVIOUS
      <3>3. NotedBut(rec[q].report, rec[q].seedDepth, n)'
        BY <1>2, <2>4, <3>1, <3>2
      <3>4. n = Len(rec'[q].todo) - 1
        BY <3>2
      <3>5. IsRest(rec[q].report, rec[q].todo)'
        BY <2>4 DEF RecorderHolds, ItemsBehind, IsRest
      <3> QED
        BY <3>3, <3>4, <3>5
    <2> QED
      BY <2>1, <2>2, <2>3, <2>4 DEF ItemsBehind
  <1>4. (Pc(q, "seed") => rec[q].report.seed \in roots)'
    BY DEF RecorderHolds, Growing, Pc
  <1> QED
    BY <1>1, <1>3, <1>4 DEF RecorderHolds

LEMMA OneHolds ==
  ASSUME RecInv, Growing, \A q \in Enqueuers : RecorderHolds(q), NEW r \in Enqueuers,
         \A q \in Enqueuers \ {r} : rec'[q] = rec[q] /\ tx'[q] = tx[q],
         RecorderHolds(r)'
  PROVE  \A q \in Enqueuers : RecorderHolds(q)'
  BY OthersStep

LEMMA IndexShift ==
  \A a, b, c, k \in Int : c = b - 1 => a - b + (k + 1) = a - c + k
  OBVIOUS

(* The list of what is left gets shorter by one item at a time.            *)
LEMMA RestOfRest ==
  ASSUME NEW report \in Reports, NEW todo \in Seq(Items), todo # <<>>,
         IsRest(report, todo)
  PROVE  /\ IsRest(report, Tail(todo)) /\ Len(Tail(todo)) = Len(todo) - 1
         /\ Head(todo) = report.items[Len(report.items) - Len(todo) + 1]
         /\ Len(report.items) - Len(todo) + 1 \in 1..Len(report.items)
  <1>1. Len(todo) \in Nat /\ Len(todo) >= 1 /\ Len(report.items) \in Nat
    BY ItemsOfReports
  <1>2. Len(Tail(todo)) = Len(todo) - 1
    BY <1>1
  <1>3. \A k \in 1..Len(Tail(todo)) : Tail(todo)[k] = todo[k + 1] /\ k + 1 \in 1..Len(todo)
    BY <1>1, <1>2
  <1>4. \A k \in 1..Len(Tail(todo)) :
          todo[k + 1] = report.items[Len(report.items) - Len(todo) + (k + 1)]
    BY <1>3 DEF IsRest
  <1>5. \A k \in 1..Len(Tail(todo)) :
          Len(report.items) - Len(todo) + (k + 1) = Len(report.items) - Len(Tail(todo)) + k
    <2>1. Len(Tail(todo)) \in Int /\ Len(todo) \in Int /\ Len(report.items) \in Int
      BY <1>1, <1>2
    <2>2. \A k \in 1..Len(Tail(todo)) : k \in Int
      BY <2>1
    <2> QED
      BY <1>2, <2>1, <2>2, IndexShift, Zenon
  <1>6. \A k \in 1..Len(Tail(todo)) :
          Tail(todo)[k] = report.items[Len(report.items) - Len(Tail(todo)) + k]
    BY <1>3, <1>4, <1>5
  <1>7. Head(todo) = todo[1] /\ 1 \in 1..Len(todo)
    BY <1>1
  <1>8. Head(todo) = report.items[Len(report.items) - Len(todo) + 1]
    BY <1>7 DEF IsRest
  <1>9. Len(todo) <= Len(report.items)
    BY DEF IsRest
  <1> QED
    BY <1>1, <1>2, <1>6, <1>8, <1>9 DEF IsRest

(* A recorder with nothing behind it holds whatever it is at.              *)
LEMMA BeginHolds ==
  ASSUME NEW r \in Enqueuers, NEW report \in Reports, NEW s, NEW d,
         rec'[r] = Begin(report, s, d), tx'[r] = None
  PROVE  RecorderHolds(r)'
  <1>1. CASE AllFailed(report)
    <2>1. rec'[r].pc = "idle"
      BY <1>1 DEF Begin, Idle
    <2> QED
      BY <2>1 DEF RecorderHolds, OpenWriteIsKnown, ItemsBehind, Pc
  <1>2. CASE ~AllFailed(report)
    <2>1. /\ rec'[r].pc = "item" /\ rec'[r].report = report /\ rec'[r].todo = report.items
          /\ rec'[r].seedDepth = d
      BY <1>2 DEF Begin
    <2>2. IsRest(report, report.items) /\ NotedBut(report, d, Len(report.items))'
      BY ItemsOfReports DEF IsRest, NotedBut
    <2>3. ItemsBehind(r)'
      BY <2>1, <2>2 DEF ItemsBehind, Pc, IsRest
    <2> QED
      BY <2>1, <2>3 DEF RecorderHolds, OpenWriteIsKnown, Pc
  <1> QED
    BY <1>1, <1>2

LEMMA IdleHolds ==
  ASSUME NEW r \in Enqueuers, rec'[r] = Idle, tx'[r] = None
  PROVE  RecorderHolds(r)'
  <1>1. rec'[r].pc = "idle"
    BY DEF Idle
  <1> QED
    BY <1>1 DEF RecorderHolds, OpenWriteIsKnown, ItemsBehind, Pc

(* Once the current item is noted the recorder may go on: to the links of  *)
(* the item, past it, or from its links to the next item.                  *)
LEMMA SkipHolds ==
  ASSUME NEW r \in Enqueuers, NEW report \in Reports, NEW todo \in Seq(Items), NEW d,
         todo # <<>>, IsRest(report, todo), NotedBut(report, d, Len(todo) - 1)',
         rec'[r].pc = "item", rec'[r].report = report, rec'[r].todo = Tail(todo),
         rec'[r].seedDepth = d, tx'[r] = None
  PROVE  RecorderHolds(r)'
  <1>1. IsRest(report, Tail(todo)) /\ Len(Tail(todo)) = Len(todo) - 1
    BY RestOfRest
  <1>2. NotedBut(report, d, Len(Tail(todo)))'
    <2>1. PICK n : n = Len(todo) - 1
      OBVIOUS
    <2>2. NotedBut(report, d, n)'
      BY <2>1
    <2>3. Len(Tail(todo)) = n
      BY <1>1, <2>1
    <2> QED
      BY <2>2, <2>3
  <1>3. ItemsBehind(r)'
    BY <1>1, <1>2 DEF ItemsBehind, Pc, IsRest
  <1> QED
    BY <1>3 DEF RecorderHolds, OpenWriteIsKnown, Pc

LEMMA LinksHold ==
  ASSUME NEW r \in Enqueuers, NEW report \in Reports, NEW todo \in Seq(Items), NEW d,
         IsRest(report, todo), NotedBut(report, d, Len(todo) - 1)',
         rec'[r].pc = "links", rec'[r].report = report, rec'[r].todo = todo,
         rec'[r].seedDepth = d, tx'[r] = None
  PROVE  RecorderHolds(r)'
  <1>1. ItemsBehind(r)'
    BY DEF ItemsBehind, Pc, IsRest
  <1> QED
    BY <1>1 DEF RecorderHolds, OpenWriteIsKnown, Pc

---------------------------------------------------------------------------
(* Growing, step by step; an idle recorder's place is taken by no other.   *)
LEMMA StepsGrow ==
  ASSUME TypeOK, RecInv, [IngestNext]_allVars
  PROVE  Growing
  <1>1. [Next]_vars
    <2>1. UNCHANGED allVars => UNCHANGED vars
      BY DEF allVars, vars
    <2> QED
      BY <2>1, IngestStepIsFrontierStep
  <1>2. setting' = setting /\ roots \subseteq roots'
    BY DEF IngestNext, Start, RecordOpen, RecordCommit, RecordAbort, RecordSeedItem,
           RecordVideoDone, RecordFinish, Offer, Work, ingestVars, allVars
  <1> QED
    BY <1>1, <1>2, EvidenceGrows DEF Growing

\* Completing rows writes no transaction.
LEMMA CompletingKeepsWrites ==
  ASSUME NEW t, CompleteIfUnclaimed(t)
  PROVE  tx' = tx
  BY DEF CompleteIfUnclaimed, CompleteUnclaimed, vars

(* An enqueue that commits leaves its evidence.                            *)
LEMMA CommitIsNoted ==
  ASSUME TypeOK, NEW r \in Enqueuers, EnqueueCommit(r)
  PROVE  /\ tx[r].target \in Targets /\ tx[r].request \in Requests
         /\ tx[r].request \in evidence'[tx[r].target]
         /\ tx'[r] = None /\ \A q \in Enqueuers \ {r} : tx'[q] = tx[q]
  <1>1. tx[r] \in Transaction
    BY DEF TypeOK, EnqueueCommit
  <1>2. tx[r].target \in Targets /\ tx[r].request \in Requests
    BY <1>1 DEF Transaction
  <1>3. evidence'[tx[r].target] = evidence[tx[r].target] \cup {tx[r].request}
    BY <1>2 DEF TypeOK, EnqueueCommit
  <1> QED
    BY <1>2, <1>3 DEF EnqueueCommit, TypeOK

(* The current item of a recorder.                                         *)
LEMMA CurrentItem ==
  ASSUME RecInv, NEW r \in Enqueuers, ItemsBehind(r), Pc(r, "item"), rec[r].todo # <<>>
  PROVE  /\ rec[r].report \in Reports /\ rec[r].todo \in Seq(Items) /\ Item(r) \in Items
         /\ IsRest(rec[r].report, rec[r].todo)
         /\ Len(rec[r].todo) \in Nat /\ Len(rec[r].todo) >= 1
         /\ Len(rec[r].todo) <= Len(rec[r].report.items)
         /\ NotedBut(rec[r].report, rec[r].seedDepth, Len(rec[r].todo))
         /\ Item(r) = rec[r].report.items[Len(rec[r].report.items) - Len(rec[r].todo) + 1]
  <1>1. /\ rec[r].report \in Reports /\ rec[r].todo \in Seq(Items)
        /\ IsRest(rec[r].report, rec[r].todo)
        /\ NotedBut(rec[r].report, rec[r].seedDepth, Len(rec[r].todo))
    BY RecordersKeepReports DEF ItemsBehind, Pc
  <1>2. Head(rec[r].todo) \in Items /\ Len(rec[r].todo) \in Nat /\ Len(rec[r].todo) >= 1
    BY <1>1
  <1>3. PICK report \in Reports, todo \in Seq(Items) :
          report = rec[r].report /\ todo = rec[r].todo /\ todo # <<>>
    BY <1>1
  <1>4. Head(todo) = report.items[Len(report.items) - Len(todo) + 1]
        /\ Len(todo) <= Len(report.items)
    BY <1>1, <1>3, RestOfRest DEF IsRest
  <1> QED
    BY <1>1, <1>2, <1>3, <1>4 DEF Item

\* One item more is noted, and what went before stays noted.
LEMMA CurrentItemNoted ==
  ASSUME TypeOK, RecInv, Growing, NEW r \in Enqueuers, ItemsBehind(r), Pc(r, "item"), rec[r].todo # <<>>,
         \/ IsSeed(r, Item(r).target)
         \/ \E e \in evidence'[Item(r).target] : e.depth = rec[r].seedDepth + 1,
         NEW report, NEW todo, NEW d,
         report = rec[r].report, todo = rec[r].todo, d = rec[r].seedDepth
  PROVE  NotedBut(report, d, Len(todo) - 1)'
  <1>1. PICK n \in Nat : n = Len(todo)
    BY CurrentItem
  <1>2. /\ report \in Reports /\ n >= 1 /\ n <= Len(report.items)
        /\ NotedBut(report, d, n)
        /\ Item(r) = report.items[Len(report.items) - n + 1]
    BY <1>1, CurrentItem
  <1>3. NotedBut(report, d, n)'
    BY <1>2, NotedButStays DEF Growing
  <1>4. Noted(report, d, Len(report.items) - n + 1)'
    BY <1>2 DEF Noted, IsSeed
  <1>5. Len(report.items) \in Nat
    BY <1>2, ItemsOfReports
  <1>6. \A i \in 1..Len(report.items) :
          i <= Len(report.items) - (n - 1)
            => i <= Len(report.items) - n \/ i = Len(report.items) - n + 1
    BY <1>5
  <1>7. NotedBut(report, d, n - 1)'
    BY <1>3, <1>4, <1>6 DEF NotedBut
  <1> QED
    BY <1>1, <1>7

---------------------------------------------------------------------------
(* Every recorder holds what the crawl needs of it, after every step.      *)
LEMMA RecordersHold ==
  ASSUME TypeOK, RecInv, \A q \in Enqueuers : RecorderHolds(q), [IngestNext]_allVars
  PROVE  \A q \in Enqueuers : RecorderHolds(q)'
  <1> Growing
    BY StepsGrow
  <1>0. rec \in [Enqueuers -> Recorder] /\ tx \in [Enqueuers -> Transaction \cup {None}]
    BY DEF RecInv, TypeOK
  <1>1. ASSUME NEW r \in Enqueuers, NEW report \in Reports, Start(r, report)
        PROVE  \A q \in Enqueuers : RecorderHolds(q)'
    <2>1. tx' = tx /\ tx[r] = None /\ \A q \in Enqueuers \ {r} : rec'[q] = rec[q]
      BY <1>0, <1>1 DEF Start, vars
    <2>2. CASE Known(report.seed)
      <3>1. rec'[r] = Begin(report, state[report.seed], depth[report.seed])
        BY <1>0, <1>1, <2>2 DEF Start, SeedFound
      <3> QED
        BY <2>1, <3>1, BeginHolds, OneHolds
    <2>3. CASE ~Known(report.seed)
      <3>1. rec'[r] = [pc |-> "seed", report |-> report] /\ report.seed \in roots'
        BY <1>0, <1>1, <2>3 DEF Start, SeedFound
      <3>2. RecorderHolds(r)'
        BY <2>1, <3>1 DEF RecorderHolds, OpenWriteIsKnown, ItemsBehind, Pc
      <3> QED
        BY <2>1, <3>2, OneHolds
    <2> QED
      BY <2>2, <2>3
  <1>2. ASSUME NEW r \in Enqueuers, RecordOpen(r)
        PROVE  \A q \in Enqueuers : RecorderHolds(q)'
    <2>1. PICK p \in Wanted(r) : EnqueueOpen(r, p[1], p[2])
      BY <1>2 DEF RecordOpen
    <2>2. /\ rec' = rec /\ tx'[r] = [target |-> p[1], request |-> p[2]]
          /\ \A q \in Enqueuers \ {r} : tx'[q] = tx[q]
          /\ evidence' = evidence /\ roots' = roots /\ setting' = setting
      BY <1>0, <1>2, <2>1 DEF RecordOpen, ingestVars, EnqueueOpen, rowVars
    <2>3. CASE Pc(r, "seed")
      <3>1. p[1] = rec[r].report.seed
        BY <2>3 DEF Wanted, Pc
      <3> QED
        BY <2>2, <2>3, <3>1, OneHolds
        DEF RecorderHolds, OpenWriteIsKnown, ItemsBehind, Pc
    <2>4. CASE Pc(r, "item")
      <3>1. p[1] = Item(r).target /\ p[2].depth = rec[r].seedDepth + 1
        BY <2>4 DEF Wanted, Pc, ItemRequest
      <3>2. OpenWriteIsKnown(r)'
        BY <2>2, <2>4, <3>1 DEF OpenWriteIsKnown, Pc, Item
      <3>3. ItemsBehind(r)'
        BY <2>2 DEF RecorderHolds, ItemsBehind, IsRest, NotedBut, Noted, Pc
      <3> QED
        BY <2>2, <2>4, <3>2, <3>3, OneHolds DEF RecorderHolds, Pc
    <2>5. CASE Pc(r, "links")
      <3>1. p[2].depth = rec[r].depth + 1
        BY <2>5 DEF Wanted, Pc, LinkRequest
      <3>2. p[2].depth > 0
        BY <2>5, <3>1, RecordersKeepReports, RecordedAssumption
      <3>3. OpenWriteIsKnown(r)'
        BY <2>2, <2>5, <3>2 DEF OpenWriteIsKnown, Pc
      <3>4. ItemsBehind(r)'
        BY <2>2 DEF RecorderHolds, ItemsBehind, IsRest, NotedBut, Noted, Pc
      <3> QED
        BY <2>2, <2>5, <3>3, <3>4, OneHolds DEF RecorderHolds, Pc
    <2>6. ~Pc(r, "idle")
      BY <2>1 DEF Wanted, Pc
    <2> QED
      BY <2>3, <2>4, <2>5, <2>6, RecordersKeepReports DEF Pc
  <1>3. ASSUME NEW r \in Enqueuers, RecordCommit(r)
        PROVE  \A q \in Enqueuers : RecorderHolds(q)'
    <2> DEFINE t == tx[r].target
    <2>1. EnqueueCommit(r) /\ tx[r] # None
      BY <1>3 DEF RecordCommit, EnqueueCommit
    <2>2. /\ tx'[r] = None /\ \A q \in Enqueuers \ {r} : rec'[q] = rec[q] /\ tx'[q] = tx[q]
      BY <1>0, <1>3, <2>1, CommitIsNoted DEF RecordCommit
    <2>3. CASE Pc(r, "seed")
      <3>1. rec'[r] = Begin(rec[r].report, state'[t], depth'[t])
        BY <1>0, <1>3, <2>3 DEF RecordCommit, Pc
      <3>2. rec[r].report \in Reports
        BY <2>3, RecordersKeepReports DEF Pc
      <3> QED
        BY <2>2, <3>1, <3>2, BeginHolds, OneHolds
    <2>4. CASE Pc(r, "item")
      <3>1. rec[r].todo # <<>> /\ ItemsBehind(r) /\ OpenWriteIsKnown(r)
        BY <2>1, <2>4 DEF RecInv, RecorderHolds
      <3>2. t = Item(r).target /\ tx[r].request.depth = rec[r].seedDepth + 1
        BY <2>1, <2>4, <3>1 DEF OpenWriteIsKnown
      <3>3. \E e \in evidence'[Item(r).target] : e.depth = rec[r].seedDepth + 1
        BY <2>1, <3>2, CommitIsNoted
      <3>4. PICK report, todo, d : report = rec[r].report /\ todo = rec[r].todo /\ d = rec[r].seedDepth
        OBVIOUS
      <3>5. NotedBut(report, d, Len(todo) - 1)'
        BY <2>4, <3>1, <3>3, <3>4, CurrentItemNoted
      <3>6. report \in Reports /\ todo \in Seq(Items) /\ IsRest(report, todo) /\ todo # <<>>
        BY <2>4, <3>1, <3>4, CurrentItem
      <3>7. CASE Item(r).ok
        <4>1. rec'[r] = Expand(r, depth'[t])
          BY <1>0, <1>3, <2>4, <3>7 DEF RecordCommit, Pc
        <4>2. /\ rec'[r].pc = "links" /\ rec'[r].report = report /\ rec'[r].todo = todo
              /\ rec'[r].seedDepth = d
          BY <3>4, <4>1 DEF Expand
        <4>3. RecorderHolds(r)'
          BY <2>2, <3>5, <3>6, <4>2, LinksHold
        <4> QED
          BY <2>2, <4>3, OneHolds
      <3>8. CASE ~Item(r).ok
        <4>1. rec'[r] = Skip(r)
          BY <1>0, <1>3, <2>4, <3>8 DEF RecordCommit, Pc
        <4>2. /\ rec'[r].pc = "item" /\ rec'[r].report = report /\ rec'[r].todo = Tail(todo)
              /\ rec'[r].seedDepth = d
          BY <3>4, <4>1 DEF Skip
        <4>3. RecorderHolds(r)'
          BY <2>2, <3>5, <3>6, <4>2, SkipHolds
        <4> QED
          BY <2>2, <4>3, OneHolds
      <3> QED
        BY <3>7, <3>8
    <2>5. CASE Pc(r, "links")
      <3>1. rec'[r] = [rec[r] EXCEPT !.links = @ \ {t}]
        BY <1>0, <1>3, <2>5 DEF RecordCommit, Pc
      <3>2. rec[r] \in [pc : {"links"}, report : Reports, todo : Seq(Items) \ {<<>>},
                        seedState : States, seedDepth : 0..MaxSeedDepth,
                        depth : 0..(MaxSeedDepth + 1), links : SUBSET Targets]
        BY <1>0, <2>5 DEF Recorder, Pc, Idle
      <3>3. /\ rec'[r].pc = "links" /\ rec'[r].report = rec[r].report
            /\ rec'[r].todo = rec[r].todo /\ rec'[r].seedDepth = rec[r].seedDepth
        BY <3>1, <3>2
      <3>4. PICK report, todo, d : report = rec[r].report /\ todo = rec[r].todo /\ d = rec[r].seedDepth
        OBVIOUS
      <3>5. /\ report \in Reports /\ todo \in Seq(Items)
            /\ IsRest(report, todo) /\ NotedBut(report, d, Len(todo) - 1)
        BY <2>5, <3>2, <3>4 DEF RecorderHolds, ItemsBehind
      <3>6. NotedBut(report, d, Len(todo) - 1)'
        <4>1. PICK n : n = Len(todo) - 1
          OBVIOUS
        <4>2. NotedBut(report, d, n)'
          BY <3>5, <4>1, NotedButStays DEF Growing
        <4> QED
          BY <4>1, <4>2
      <3>7. RecorderHolds(r)'
        BY <2>2, <3>3, <3>4, <3>5, <3>6, LinksHold
      <3> QED
        BY <2>2, <3>7, OneHolds
    <2>6. ~Pc(r, "idle")
      BY <1>3 DEF RecordCommit
    <2> QED
      BY <2>3, <2>4, <2>5, <2>6, RecordersKeepReports DEF Pc
  <1>4. ASSUME NEW r \in Enqueuers, RecordAbort(r)
        PROVE  \A q \in Enqueuers : RecorderHolds(q)'
    <2>1. /\ tx'[r] = None /\ rec'[r] = Idle
          /\ \A q \in Enqueuers \ {r} : rec'[q] = rec[q] /\ tx'[q] = tx[q]
      BY <1>0, <1>4 DEF RecordAbort, EnqueueAbort, AfterError
    <2> QED
      BY <2>1, IdleHolds, OneHolds
  <1>5. ASSUME NEW r \in Enqueuers, RecordSeedItem(r)
        PROVE  \A q \in Enqueuers : RecorderHolds(q)'
    <2>1. /\ Pc(r, "item") /\ rec[r].todo # <<>> /\ IsSeed(r, Item(r).target)
          /\ ItemsBehind(r) /\ tx'[r] = None
          /\ \A q \in Enqueuers \ {r} : rec'[q] = rec[q] /\ tx'[q] = tx[q]
      BY <1>0, <1>5 DEF RecordSeedItem, vars, RecorderHolds
    <2>2. PICK report, todo, d : report = rec[r].report /\ todo = rec[r].todo /\ d = rec[r].seedDepth
      OBVIOUS
    <2>3. NotedBut(report, d, Len(todo) - 1)'
      BY <2>1, <2>2, CurrentItemNoted
    <2>4. report \in Reports /\ todo \in Seq(Items) /\ IsRest(report, todo) /\ todo # <<>>
      BY <2>1, <2>2, CurrentItem
    <2>5. CASE Item(r).ok
      <3>1. rec'[r] = Expand(r, rec[r].seedDepth)
        BY <1>0, <1>5, <2>5 DEF RecordSeedItem
      <3>2. /\ rec'[r].pc = "links" /\ rec'[r].report = report /\ rec'[r].todo = todo
            /\ rec'[r].seedDepth = d
        BY <2>2, <3>1 DEF Expand
      <3>3. RecorderHolds(r)'
        BY <2>1, <2>3, <2>4, <3>2, LinksHold
      <3> QED
        BY <2>1, <3>3, OneHolds
    <2>6. CASE ~Item(r).ok
      <3>1. rec'[r] = Skip(r)
        BY <1>0, <1>5, <2>6 DEF RecordSeedItem
      <3>2. /\ rec'[r].pc = "item" /\ rec'[r].report = report /\ rec'[r].todo = Tail(todo)
            /\ rec'[r].seedDepth = d
        BY <2>2, <3>1 DEF Skip
      <3>3. RecorderHolds(r)'
        BY <2>1, <2>3, <2>4, <3>2, SkipHolds
      <3> QED
        BY <2>1, <3>3, OneHolds
    <2> QED
      BY <2>5, <2>6
  <1>6. ASSUME NEW r \in Enqueuers, RecordVideoDone(r)
        PROVE  \A q \in Enqueuers : RecorderHolds(q)'
    <2>1. /\ Pc(r, "links") /\ tx[r] = None /\ rec'[r] = Skip(r)
          /\ \A q \in Enqueuers \ {r} : rec'[q] = rec[q]
      BY <1>0, <1>6 DEF RecordVideoDone
    <2>2. tx' = tx
      BY <1>6, CompletingKeepsWrites DEF RecordVideoDone, vars
    <2>3. PICK report, todo, d : report = rec[r].report /\ todo = rec[r].todo /\ d = rec[r].seedDepth
      OBVIOUS
    <2>4. /\ report \in Reports /\ todo \in Seq(Items) /\ todo # <<>>
          /\ IsRest(report, todo) /\ NotedBut(report, d, Len(todo) - 1)
      BY <2>1, <2>3, RecordersKeepReports DEF RecorderHolds, ItemsBehind, Pc
    <2>5. NotedBut(report, d, Len(todo) - 1)'
      <3>1. PICK n : n = Len(todo) - 1
        OBVIOUS
      <3>2. NotedBut(report, d, n)'
        BY <2>4, <3>1, NotedButStays DEF Growing
      <3> QED
        BY <3>1, <3>2
    <2>6. /\ rec'[r].pc = "item" /\ rec'[r].report = report /\ rec'[r].todo = Tail(todo)
          /\ rec'[r].seedDepth = d
      BY <2>1, <2>3 DEF Skip
    <2>7. RecorderHolds(r)'
      BY <2>1, <2>2, <2>4, <2>5, <2>6, SkipHolds
    <2> QED
      BY <2>1, <2>2, <2>7, OneHolds
  <1>7. ASSUME NEW r \in Enqueuers, RecordFinish(r)
        PROVE  \A q \in Enqueuers : RecorderHolds(q)'
    <2>1. /\ Pc(r, "item") /\ rec[r].todo = <<>> /\ rec'[r] = Idle
          /\ \A q \in Enqueuers \ {r} : rec'[q] = rec[q]
      BY <1>0, <1>7 DEF RecordFinish
    <2>2. tx[r] = None
      BY <2>1 DEF RecInv
    <2>3. tx' = tx
      BY <1>7, CompletingKeepsWrites DEF RecordFinish, vars
    <2> QED
      BY <2>1, <2>2, <2>3, IdleHolds, OneHolds
  <1>8. ASSUME NEW e \in Enqueuers, Offer(e)
        PROVE  \A q \in Enqueuers : RecorderHolds(q)'
    <2>1. rec' = rec /\ setting' = setting /\ Pc(e, "idle")
      BY <1>8 DEF Offer, ingestVars
    <2>2. \A q \in Enqueuers \ {e} : tx'[q] = tx[q]
      BY <1>0, <1>8 DEF Offer, EnqueueOpen, EnqueueCommit, EnqueueAbort
    <2>3. tx'[e] # None => tx'[e].target \in setting.targets
      BY <1>0, <1>8 DEF Offer, EnqueueOpen, EnqueueCommit, EnqueueAbort
    <2>4. RecorderHolds(e)'
      BY <2>1, <2>3 DEF RecorderHolds, OpenWriteIsKnown, ItemsBehind, Pc
    <2> QED
      BY <2>1, <2>2, <2>4, OneHolds
  <1>9. ASSUME \/ \E w \in Workers : Work(w)
               \/ \E t \in Targets : LeaseExpires(t) /\ UNCHANGED ingestVars
               \/ \E t \in Targets : CompleteUnclaimed(t) /\ UNCHANGED ingestVars
               \/ UNCHANGED allVars
        PROVE  \A q \in Enqueuers : RecorderHolds(q)'
    <2>1. rec' = rec /\ tx' = tx
      BY <1>9 DEF Work, Claim, ReportVerdict, Leave, LeaseExpires, CompleteUnclaimed,
                  ingestVars, allVars, vars
    <2> QED
      BY <2>1, OthersStep
  <1> QED
    BY <1>1, <1>2, <1>3, <1>4, <1>5, <1>6, <1>7, <1>8, <1>9, SettingsAssumption
    DEF IngestNext, RecInv

(* A target stays in the frontier and never gets deeper.                   *)
LEMMA PlacedStays ==
  ASSUME TypeOK, [IngestNext]_allVars, RecInv, NEW u, NEW d \in Nat, Placed(u, d)
  PROVE  Placed(u, d)'
  <1>1. [Next]_vars
    <2>1. UNCHANGED allVars => UNCHANGED vars
      BY DEF allVars, vars
    <2> QED
      BY <2>1, IngestStepIsFrontierStep
  <1>2. u \in Targets /\ Known(u) /\ depth[u] <= d /\ depth[u] \in Nat
    BY DEF Placed, TypeOK
  <1>3. CASE RowKept
    <2>1. (Known(u)) ' /\ depth'[u] = depth[u]
      BY <1>2, <1>3 DEF RowKept, OtherStep, Known, TypeOK, Claimable, Verdicts
    <2> QED
      BY <1>2, <2>1 DEF Placed
  <1>4. ASSUME NEW e \in Enqueuers, EnqueueCommit(e)
        PROVE  Placed(u, d)'
    <2>1. PICK t \in Targets, q \in Requests :
            /\ state' = [state EXCEPT ![t] = StateAfter(state[t], q)]
            /\ depth' = [depth EXCEPT ![t] = MergedDepth(t, q)]
      BY <1>4, CommitEffect
    <2>2. StateAfter(state[t], q) # "absent"
      BY StateAfterType DEF TypeOK
    <2>3. t = u => MergedDepth(t, q) <= depth[u]
      <3>1. q.depth \in Nat
        BY RequestsAssumption
      <3> QED
        BY <1>2, <3>1 DEF MergedDepth, Known
    <2>4. state'[u] # "absent" /\ depth'[u] <= d
      <3>1. CASE t = u
        <4>1. depth'[u] = MergedDepth(t, q) /\ state'[u] = StateAfter(state[t], q)
          BY <1>2, <2>1, <3>1 DEF TypeOK
        <4>2. MergedDepth(t, q) \in Nat
          BY RequestsAssumption DEF MergedDepth, TypeOK
        <4> QED
          BY <1>2, <2>2, <2>3, <3>1, <4>1, <4>2
      <3>2. CASE t # u
        BY <1>2, <2>1, <3>2 DEF TypeOK, Known
      <3> QED
        BY <3>1, <3>2
    <2> QED
      BY <1>2, <2>4 DEF Placed, Known
  <1> QED
    BY <1>1, <1>3, <1>4, OnlyCommitsMerge DEF RowCommits

LEMMA DepthStaysNumber ==
  ASSUME TypeOK, RecInv, [IngestNext]_allVars
  PROVE  \A u \in Targets : depth'[u] \in Nat
  <1>1. [Next]_vars
    <2>1. UNCHANGED allVars => UNCHANGED vars
      BY DEF allVars, vars
    <2> QED
      BY <2>1, IngestStepIsFrontierStep
  <1> QED
    BY <1>1, TypeInvariance DEF TypeOK

\* What an enqueue wrote is in the frontier at the depth its row now has.
LEMMA CommitPlaces ==
  ASSUME TypeOK, NEW r \in Enqueuers, EnqueueCommit(r)
  PROVE  \E t \in Targets, n \in Nat : t = tx[r].target /\ n = depth'[t] /\ Placed(t, n)'
  <1>1. tx[r].target \in Targets /\ tx[r].request \in Requests
    BY CommitIsNoted
  <1>2. PICK t \in Targets, q \in Requests : t = tx[r].target /\ q = tx[r].request
    BY <1>1
  <1>3. /\ state'[t] = StateAfter(state[t], q)
        /\ depth'[t] = MergedDepth(t, q)
    BY <1>2 DEF EnqueueCommit, TypeOK
  <1>4. StateAfter(state[t], q) # "absent"
    BY StateAfterType DEF TypeOK
  <1>5. MergedDepth(t, q) \in Nat
    BY RequestsAssumption DEF MergedDepth, TypeOK
  <1>6. PICK n \in Nat : n = depth'[t]
    BY <1>3, <1>5
  <1>7. Placed(t, n)'
    BY <1>3, <1>4, <1>6 DEF Placed, Known
  <1> QED
    BY <1>2, <1>6, <1>7

LEMMA DepthsAreNumbers ==
  ASSUME RecInv, NEW r \in Enqueuers
  PROVE  /\ Pc(r, "item") \/ Pc(r, "links") => rec[r].seedDepth \in Nat
         /\ Pc(r, "links") => rec[r].depth \in Nat
  BY RecordersKeepReports, RecordedAssumption

\* Another's step leaves what a recorder counts from in place.
LEMMA OthersPlaced ==
  ASSUME TypeOK, RecInv, [IngestNext]_allVars, NEW q \in Enqueuers, SourcesArePlaced(q),
         rec'[q] = rec[q], tx'[q] = tx[q]
  PROVE  SourcesArePlaced(q)'
  <1>1. ASSUME Pc(q, "item") \/ Pc(q, "links")
        PROVE  Placed(rec[q].report.seed, rec[q].seedDepth)'
    <2>1. PICK u \in Targets, d \in Nat : u = rec[q].report.seed /\ d = rec[q].seedDepth
      BY <1>1, DepthsAreNumbers DEF SourcesArePlaced, Placed
    <2>2. Placed(u, d)'
      BY <1>1, <2>1, PlacedStays DEF SourcesArePlaced
    <2> QED
      BY <2>1, <2>2
  <1>2. ASSUME Pc(q, "links")
        PROVE  Placed(Item(q).target, rec[q].depth)'
    <2>1. PICK u \in Targets, d \in Nat : u = Item(q).target /\ d = rec[q].depth
      BY <1>2, DepthsAreNumbers DEF SourcesArePlaced, Placed
    <2>2. Placed(u, d)'
      BY <1>2, <2>1, PlacedStays DEF SourcesArePlaced
    <2>3. u = Item(q)'.target
      BY <2>1 DEF Item
    <2> QED
      BY <2>1, <2>2, <2>3
  <1>3. Item(q)' = Item(q)
    BY DEF Item
  <1> QED
    BY <1>1, <1>2, <1>3 DEF SourcesArePlaced, Pc

LEMMA OnePlaced ==
  ASSUME TypeOK, RecInv, [IngestNext]_allVars, PlacesInv, NEW r \in Enqueuers,
         \A q \in Enqueuers \ {r} : rec'[q] = rec[q] /\ tx'[q] = tx[q],
         SourcesArePlaced(r)'
  PROVE  PlacesInv'
  BY OthersPlaced DEF PlacesInv

\* The places of a recorder that goes through items, and of one at an item's links.
LEMMA ItemPlaced ==
  ASSUME NEW r \in Enqueuers, NEW u, NEW d, Placed(u, d)',
         rec'[r].pc = "item", rec'[r].report.seed = u, rec'[r].seedDepth = d, tx'[r] = None
  PROVE  SourcesArePlaced(r)'
  BY DEF SourcesArePlaced, Pc, Placed

LEMMA IdlePlaced ==
  ASSUME NEW r \in Enqueuers, rec'[r] = Idle, tx'[r] = None
  PROVE  SourcesArePlaced(r)'
  BY DEF SourcesArePlaced, Pc, Idle

LEMMA BeginPlaced ==
  ASSUME NEW r \in Enqueuers, NEW report, NEW s, NEW d, Placed(report.seed, d)',
         rec'[r] = Begin(report, s, d), tx'[r] = None
  PROVE  SourcesArePlaced(r)'
  <1>1. CASE AllFailed(report)
    BY <1>1, IdlePlaced DEF Begin
  <1>2. CASE ~AllFailed(report)
    <2>1. rec'[r].pc = "item" /\ rec'[r].report = report /\ rec'[r].seedDepth = d
      BY <1>2 DEF Begin
    <2>2. PICK u : u = report.seed
      OBVIOUS
    <2> QED
      BY <2>1, <2>2, ItemPlaced DEF Placed
  <1> QED
    BY <1>1, <1>2

LEMMA LinksPlaced ==
  ASSUME NEW r \in Enqueuers, NEW u, NEW d, NEW v, NEW n, Placed(u, d)', Placed(v, n)',
         rec'[r].pc = "links", rec'[r].report.seed = u, rec'[r].seedDepth = d,
         Head(rec'[r].todo).target = v, rec'[r].depth = n, rec'[r].links \subseteq Links[v],
         tx'[r] = None
  PROVE  SourcesArePlaced(r)'
  BY DEF SourcesArePlaced, Pc, Item, Placed

\* The places of a recorder after any step, whatever becomes of the recorder.
LEMMA SeedStays ==
  ASSUME TypeOK, RecInv, [IngestNext]_allVars, NEW r \in Enqueuers, SourcesArePlaced(r),
         Pc(r, "item") \/ Pc(r, "links")
  PROVE  \E u \in Targets, d \in Nat :
           u = rec[r].report.seed /\ d = rec[r].seedDepth /\ Placed(u, d)'
  <1>1. PICK d \in Nat : d = rec[r].seedDepth
    BY DepthsAreNumbers
  <1>2. PICK u \in Targets : u = rec[r].report.seed
    BY DEF SourcesArePlaced, Placed
  <1>3. Placed(u, d)'
    BY <1>1, <1>2, PlacedStays DEF SourcesArePlaced
  <1> QED
    BY <1>1, <1>2, <1>3

LEMMA CurrentStays ==
  ASSUME TypeOK, RecInv, [IngestNext]_allVars, NEW r \in Enqueuers, SourcesArePlaced(r),
         Pc(r, "links")
  PROVE  \E v \in Targets, n \in Nat : v = Item(r).target /\ n = rec[r].depth /\ Placed(v, n)'
  <1>1. PICK n \in Nat : n = rec[r].depth
    BY DepthsAreNumbers
  <1>2. PICK v \in Targets : v = Item(r).target
    BY DEF SourcesArePlaced, Placed
  <1>3. Placed(v, n)'
    BY <1>1, <1>2, PlacedStays DEF SourcesArePlaced
  <1> QED
    BY <1>1, <1>2, <1>3

(* What a recorder counts from stays where it was read or higher.          *)
LEMMA SourcesStayPlaced ==
  ASSUME TypeOK, RecInv, \A q \in Enqueuers : RecorderHolds(q), PlacesInv,
         [IngestNext]_allVars
  PROVE  PlacesInv'
  <1>0. /\ rec \in [Enqueuers -> Recorder] /\ tx \in [Enqueuers -> Transaction \cup {None}]
        /\ \A q \in Enqueuers : SourcesArePlaced(q)
    BY DEF RecInv, TypeOK, PlacesInv
  <1>1. ASSUME NEW r \in Enqueuers, NEW report \in Reports, Start(r, report)
        PROVE  PlacesInv'
    <2>1. /\ tx'[r] = None /\ \A q \in Enqueuers \ {r} : rec'[q] = rec[q] /\ tx'[q] = tx[q]
          /\ UNCHANGED <<state, depth>>
      BY <1>0, <1>1 DEF Start, vars, rowVars
    <2>2. CASE Known(report.seed)
      <3>1. rec'[r] = Begin(report, state[report.seed], depth[report.seed])
        BY <1>0, <1>1, <2>2 DEF Start, SeedFound
      <3>2. PICK d \in Nat : d = depth[report.seed]
        BY ReportsAssumption DEF TypeOK
      <3>3. Placed(report.seed, d)'
        BY <2>1, <2>2, <3>2, ReportsAssumption DEF Placed, Known
      <3>4. SourcesArePlaced(r)'
        BY <2>1, <3>1, <3>2, <3>3, BeginPlaced
      <3> QED
        BY <2>1, <3>4, OnePlaced
    <2>3. CASE ~Known(report.seed)
      <3>1. rec'[r].pc = "seed"
        BY <1>0, <1>1, <2>3 DEF Start, SeedFound
      <3>2. SourcesArePlaced(r)'
        BY <2>1, <3>1 DEF SourcesArePlaced, Pc
      <3> QED
        BY <2>1, <3>2, OnePlaced
    <2> QED
      BY <2>2, <2>3
  <1>2. ASSUME NEW r \in Enqueuers, RecordOpen(r)
        PROVE  PlacesInv'
    <2>1. PICK p \in Wanted(r) : EnqueueOpen(r, p[1], p[2])
      BY <1>2 DEF RecordOpen
    <2>2. /\ rec' = rec /\ tx'[r] = [target |-> p[1], request |-> p[2]]
          /\ \A q \in Enqueuers \ {r} : tx'[q] = tx[q]
          /\ UNCHANGED <<state, depth>>
      BY <1>0, <1>2, <2>1 DEF RecordOpen, ingestVars, EnqueueOpen, rowVars
    <2>3. Pc(r, "seed") => p[2].depth = 0
      BY DEF Wanted, Pc, SeedRequest
    <2>4. Pc(r, "links") => p[1] \in rec[r].links /\ p[2].depth = rec[r].depth + 1
      BY DEF Wanted, Pc, LinkRequest
    <2>5. SourcesArePlaced(r)'
      BY <1>0, <2>2, <2>3, <2>4 DEF SourcesArePlaced, Pc, Item, Placed, Known
    <2> QED
      BY <2>2, <2>5, OnePlaced
  <1>3. ASSUME NEW r \in Enqueuers, RecordCommit(r)
        PROVE  PlacesInv'
    <2>1. EnqueueCommit(r) /\ tx[r] # None /\ ~Pc(r, "idle")
      BY <1>3 DEF RecordCommit, EnqueueCommit
    <2>2. /\ tx'[r] = None /\ \A q \in Enqueuers \ {r} : rec'[q] = rec[q] /\ tx'[q] = tx[q]
      BY <1>0, <1>3, <2>1, CommitIsNoted DEF RecordCommit
    <2>3. PICK t \in Targets, n \in Nat :
            t = tx[r].target /\ n = depth'[t] /\ Placed(t, n)'
      BY <2>1, CommitPlaces
    <2>4. OpenWriteIsKnown(r)
      BY DEF RecorderHolds
    <2>5. CASE Pc(r, "seed")
      <3>1. rec'[r] = Begin(rec[r].report, state'[t], n)
        BY <1>0, <1>3, <2>3, <2>5 DEF RecordCommit, Pc
      <3>2. PICK report : report = rec[r].report
        OBVIOUS
      <3>3. report.seed = t
        BY <2>1, <2>3, <2>4, <2>5, <3>2 DEF OpenWriteIsKnown
      <3>4. Placed(report.seed, n)'
        BY <2>3, <3>3
      <3>5. PICK s : s = state'[t]
        OBVIOUS
      <3>6. SourcesArePlaced(r)'
        BY <2>2, <3>1, <3>2, <3>4, <3>5, BeginPlaced
      <3> QED
        BY <2>2, <3>6, OnePlaced
    <2>6. CASE Pc(r, "item")
      <3>1. PICK u \in Targets, d \in Nat :
              u = rec[r].report.seed /\ d = rec[r].seedDepth /\ Placed(u, d)'
        BY <1>0, <2>6, SeedStays
      <3>2. CASE Item(r).ok
        <4>1. rec'[r] = Expand(r, n)
          BY <1>0, <1>3, <2>3, <2>6, <3>2 DEF RecordCommit, Pc
        <4>2. /\ rec'[r].pc = "links" /\ rec'[r].report.seed = u /\ rec'[r].seedDepth = d
              /\ rec'[r].todo = rec[r].todo /\ rec'[r].depth = n
              /\ rec'[r].links \subseteq Links[Item(r).target]
          BY <3>1, <4>1 DEF Expand
        <4>3. Item(r).target = t
          BY <2>1, <2>3, <2>4, <2>6 DEF OpenWriteIsKnown
        <4>4. Head(rec'[r].todo).target = t
          BY <4>2, <4>3 DEF Item
        <4>5. SourcesArePlaced(r)'
          BY <2>2, <2>3, <3>1, <4>2, <4>3, <4>4, LinksPlaced
        <4> QED
          BY <2>2, <4>5, OnePlaced
      <3>3. CASE ~Item(r).ok
        <4>1. rec'[r] = Skip(r)
          BY <1>0, <1>3, <2>6, <3>3 DEF RecordCommit, Pc
        <4>2. rec'[r].pc = "item" /\ rec'[r].report.seed = u /\ rec'[r].seedDepth = d
          BY <3>1, <4>1 DEF Skip
        <4>3. SourcesArePlaced(r)'
          BY <2>2, <3>1, <4>2, ItemPlaced
        <4> QED
          BY <2>2, <4>3, OnePlaced
      <3> QED
        BY <3>2, <3>3
    <2>7. CASE Pc(r, "links")
      <3>1. rec'[r] = [rec[r] EXCEPT !.links = @ \ {t}]
        BY <1>0, <1>3, <2>3, <2>7 DEF RecordCommit, Pc
      <3>2. rec[r] \in [pc : {"links"}, report : Reports, todo : Seq(Items) \ {<<>>},
                        seedState : States, seedDepth : 0..MaxSeedDepth,
                        depth : 0..(MaxSeedDepth + 1), links : SUBSET Targets]
        BY <1>0, <2>7 DEF Recorder, Pc, Idle
      <3>3. /\ rec'[r].pc = "links" /\ rec'[r].report = rec[r].report
            /\ rec'[r].todo = rec[r].todo /\ rec'[r].seedDepth = rec[r].seedDepth
            /\ rec'[r].depth = rec[r].depth /\ rec'[r].links \subseteq rec[r].links
        BY <3>1, <3>2
      <3>4. PICK u \in Targets, d \in Nat :
              u = rec[r].report.seed /\ d = rec[r].seedDepth /\ Placed(u, d)'
        BY <1>0, <2>7, SeedStays
      <3>5. PICK v \in Targets, m \in Nat : v = Item(r).target /\ m = rec[r].depth /\ Placed(v, m)'
        BY <1>0, <2>7, CurrentStays
      <3>6. rec[r].links \subseteq Links[v]
        BY <1>0, <2>7, <3>5 DEF SourcesArePlaced
      <3>7. Head(rec'[r].todo).target = v
        BY <3>3, <3>5 DEF Item
      <3>8. SourcesArePlaced(r)'
        BY <2>2, <3>3, <3>4, <3>5, <3>6, <3>7, LinksPlaced
      <3> QED
        BY <2>2, <3>8, OnePlaced
    <2> QED
      BY <2>1, <2>5, <2>6, <2>7, RecordersKeepReports DEF Pc
  <1>4. ASSUME NEW r \in Enqueuers, RecordAbort(r)
        PROVE  PlacesInv'
    <2>1. /\ tx'[r] = None /\ rec'[r] = Idle
          /\ \A q \in Enqueuers \ {r} : rec'[q] = rec[q] /\ tx'[q] = tx[q]
      BY <1>0, <1>4 DEF RecordAbort, EnqueueAbort, AfterError
    <2> QED
      BY <2>1, IdlePlaced, OnePlaced
  <1>5. ASSUME NEW r \in Enqueuers, RecordSeedItem(r)
        PROVE  PlacesInv'
    <2>1. /\ Pc(r, "item") /\ IsSeed(r, Item(r).target) /\ tx'[r] = None
          /\ \A q \in Enqueuers \ {r} : rec'[q] = rec[q] /\ tx'[q] = tx[q]
      BY <1>0, <1>5 DEF RecordSeedItem, vars
    <2>2. PICK u \in Targets, d \in Nat :
            u = rec[r].report.seed /\ d = rec[r].seedDepth /\ Placed(u, d)'
      BY <1>0, <2>1, SeedStays
    <2>3. CASE Item(r).ok
      <3>1. rec'[r] = Expand(r, d)
        BY <1>0, <1>5, <2>2, <2>3 DEF RecordSeedItem
      <3>2. /\ rec'[r].pc = "links" /\ rec'[r].report.seed = u /\ rec'[r].seedDepth = d
            /\ rec'[r].todo = rec[r].todo /\ rec'[r].depth = d
            /\ rec'[r].links \subseteq Links[Item(r).target]
        BY <2>2, <3>1 DEF Expand
      <3>3. Item(r).target = u
        BY <2>1, <2>2 DEF IsSeed
      <3>4. Head(rec'[r].todo).target = u
        BY <3>2, <3>3 DEF Item
      <3>5. SourcesArePlaced(r)'
        BY <2>1, <2>2, <3>2, <3>3, <3>4, LinksPlaced
      <3> QED
        BY <2>1, <3>5, OnePlaced
    <2>4. CASE ~Item(r).ok
      <3>1. rec'[r] = Skip(r)
        BY <1>0, <1>5, <2>4 DEF RecordSeedItem
      <3>2. rec'[r].pc = "item" /\ rec'[r].report.seed = u /\ rec'[r].seedDepth = d
        BY <2>2, <3>1 DEF Skip
      <3>3. SourcesArePlaced(r)'
        BY <2>1, <2>2, <3>2, ItemPlaced
      <3> QED
        BY <2>1, <3>3, OnePlaced
    <2> QED
      BY <2>3, <2>4
  <1>6. ASSUME NEW r \in Enqueuers, RecordVideoDone(r)
        PROVE  PlacesInv'
    <2>1. /\ Pc(r, "links") /\ tx[r] = None /\ rec'[r] = Skip(r)
          /\ \A q \in Enqueuers \ {r} : rec'[q] = rec[q]
      BY <1>0, <1>6 DEF RecordVideoDone
    <2>2. tx' = tx
      BY <1>6, CompletingKeepsWrites DEF RecordVideoDone, vars
    <2>3. PICK u \in Targets, d \in Nat :
            u = rec[r].report.seed /\ d = rec[r].seedDepth /\ Placed(u, d)'
      BY <1>0, <2>1, SeedStays
    <2>4. rec'[r].pc = "item" /\ rec'[r].report.seed = u /\ rec'[r].seedDepth = d
      BY <2>1, <2>3 DEF Skip
    <2>5. SourcesArePlaced(r)'
      BY <2>1, <2>2, <2>3, <2>4, ItemPlaced
    <2> QED
      BY <2>1, <2>2, <2>5, OnePlaced
  <1>7. ASSUME NEW r \in Enqueuers, RecordFinish(r)
        PROVE  PlacesInv'
    <2>1. /\ Pc(r, "item") /\ rec[r].todo = <<>> /\ rec'[r] = Idle
          /\ \A q \in Enqueuers \ {r} : rec'[q] = rec[q]
      BY <1>0, <1>7 DEF RecordFinish
    <2>2. tx[r] = None
      BY <2>1 DEF RecInv
    <2>3. tx' = tx
      BY <1>7, CompletingKeepsWrites DEF RecordFinish, vars
    <2> QED
      BY <2>1, <2>2, <2>3, IdlePlaced, OnePlaced
  <1>8. ASSUME NEW e \in Enqueuers, Offer(e)
        PROVE  PlacesInv'
    <2>1. rec' = rec /\ Pc(e, "idle")
      BY <1>8 DEF Offer, ingestVars
    <2>2. \A q \in Enqueuers \ {e} : tx'[q] = tx[q]
      BY <1>0, <1>8 DEF Offer, EnqueueOpen, EnqueueCommit, EnqueueAbort
    <2>3. SourcesArePlaced(e)'
      BY <2>1 DEF SourcesArePlaced, Pc
    <2> QED
      BY <2>1, <2>2, <2>3, OnePlaced
  <1>9. ASSUME \/ \E w \in Workers : Work(w)
               \/ \E t \in Targets : LeaseExpires(t) /\ UNCHANGED ingestVars
               \/ \E t \in Targets : CompleteUnclaimed(t) /\ UNCHANGED ingestVars
               \/ UNCHANGED allVars
        PROVE  PlacesInv'
    <2>1. rec' = rec /\ tx' = tx
      BY <1>9 DEF Work, Claim, ReportVerdict, Leave, LeaseExpires, CompleteUnclaimed,
                  ingestVars, allVars, vars
    <2> QED
      BY <1>0, <2>1, OthersPlaced DEF PlacesInv
  <1> QED
    BY <1>1, <1>2, <1>3, <1>4, <1>5, <1>6, <1>7, <1>8, <1>9, SettingsAssumption
    DEF IngestNext, RecInv

\* What DepthsAreDistances says of one piece of evidence.
CountsFromRoots(t, e) ==
  IF e.depth = 0 THEN t \in roots
  ELSE \E u \in Targets : Known(u) /\ depth[u] < e.depth /\ Leads(u, t)

(* Evidence that leads somewhere goes on doing so: what it is counted from *)
(* never gets deeper.                                                      *)
LEMMA CountedStays ==
  ASSUME TypeOK, RecInv, [IngestNext]_allVars, NEW t \in Targets, NEW e \in Requests,
         CountsFromRoots(t, e)
  PROVE  CountsFromRoots(t, e)'
  <1>1. CASE e.depth = 0
    BY <1>1, StepsGrow DEF CountsFromRoots, Growing
  <1>2. CASE e.depth # 0
    <2>1. PICK u \in Targets : Known(u) /\ depth[u] < e.depth /\ Leads(u, t)
      BY <1>2 DEF CountsFromRoots
    <2>2. PICK d \in Nat : d = depth[u]
      BY DEF TypeOK
    <2>3. Placed(u, d)'
      BY <2>1, <2>2, PlacedStays DEF Placed
    <2>4. depth'[u] < e.depth
      <3>1. depth'[u] \in Nat
        BY <2>2, DepthStaysNumber
      <3> QED
        BY <2>1, <2>2, <2>3, <3>1, RequestsAssumption DEF Placed
    <2>5. (Known(u))' /\ Leads(u, t)'
      BY <2>1, <2>3 DEF Placed, Leads
    <2> QED
      BY <1>2, <2>4, <2>5 DEF CountsFromRoots
  <1> QED
    BY <1>1, <1>2

\* The place of an item whose rest has m of n items.
LEMMA PositionInRange ==
  ASSUME NEW n \in Nat, NEW m \in Nat, m >= 1, m <= n
  PROVE  n - m + 1 \in 1..n
  OBVIOUS

(* What a recorder writes is counted from a place it holds.                *)
LEMMA WritesAreCounted ==
  ASSUME TypeOK, RecInv, NEW r \in Enqueuers, RecorderHolds(r), SourcesArePlaced(r),
         tx[r] # None, ~Pc(r, "idle"), NEW t \in Targets, NEW q \in Requests,
         t = tx[r].target, q = tx[r].request
  PROVE  CountsFromRoots(t, q)
  <1>1. CASE Pc(r, "seed")
    BY <1>1 DEF RecorderHolds, OpenWriteIsKnown, SourcesArePlaced, CountsFromRoots
  <1>2. CASE Pc(r, "item")
    <2>1. /\ t = Item(r).target /\ q.depth = rec[r].seedDepth + 1 /\ rec[r].seedDepth \in Nat
          /\ rec[r].todo # <<>>
      BY <1>2, DepthsAreNumbers DEF RecorderHolds, OpenWriteIsKnown, RecInv
    <2>2. PICK u \in Targets : u = rec[r].report.seed /\ Placed(u, rec[r].seedDepth)
      BY <1>2 DEF SourcesArePlaced, Placed
    <2>3. Leads(u, t)
      <3>1. /\ rec[r].report \in Reports
            /\ Item(r) = rec[r].report.items[Len(rec[r].report.items) - Len(rec[r].todo) + 1]
            /\ Len(rec[r].todo) \in Nat /\ Len(rec[r].todo) >= 1
            /\ Len(rec[r].todo) <= Len(rec[r].report.items)
        BY <1>2, <2>1, CurrentItem DEF RecorderHolds
      <3>2. Len(rec[r].report.items) \in Nat
        BY <3>1, ItemsOfReports
      <3>3. Len(rec[r].report.items) - Len(rec[r].todo) + 1 \in 1..Len(rec[r].report.items)
        <4>1. PICK n \in Nat, m \in Nat : n = Len(rec[r].report.items) /\ m = Len(rec[r].todo)
          BY <3>1, <3>2
        <4>2. m >= 1 /\ m <= n
          BY <3>1, <4>1
        <4>3. n - m + 1 \in 1..n
          BY <4>2, PositionInRange
        <4> QED
          BY <4>1, <4>3
      <3> QED
        BY <2>1, <2>2, <3>1, <3>3 DEF Leads
    <2>4. depth[u] < q.depth /\ q.depth # 0
      BY <2>1, <2>2 DEF Placed, TypeOK
    <2> QED
      BY <2>2, <2>3, <2>4 DEF CountsFromRoots, Placed
  <1>3. CASE Pc(r, "links")
    <2>1. /\ t \in rec[r].links /\ q.depth = rec[r].depth + 1 /\ rec[r].depth \in Nat
      BY <1>3, DepthsAreNumbers DEF SourcesArePlaced
    <2>2. PICK u \in Targets : u = Item(r).target /\ Placed(u, rec[r].depth)
      BY <1>3 DEF SourcesArePlaced, Placed
    <2>3. Leads(u, t)
      BY <1>3, <2>1, <2>2 DEF SourcesArePlaced, Leads
    <2>4. depth[u] < q.depth /\ q.depth # 0
      BY <2>1, <2>2 DEF Placed, TypeOK
    <2> QED
      BY <2>2, <2>3, <2>4 DEF CountsFromRoots, Placed
  <1> QED
    BY <1>1, <1>2, <1>3, RecordersKeepReports DEF Pc

(* Evidence is counted from the roots on: what a step adds to it is what   *)
(* a recorder or another caller wrote.                                     *)
LEMMA DistancesStay ==
  ASSUME TypeOK, RecInv, CrawlInv, PlacesInv, [IngestNext]_allVars
  PROVE  DepthsAreDistances'
  <1> Growing
    BY StepsGrow
  <1>1. [Next]_vars
    <2>1. UNCHANGED allVars => UNCHANGED vars
      BY DEF allVars, vars
    <2> QED
      BY <2>1, IngestStepIsFrontierStep
  <1>2. SUFFICES ASSUME NEW t \in Targets, t \notin setting.targets, NEW q \in evidence'[t]
                 PROVE  CountsFromRoots(t, q)'
    BY DEF DepthsAreDistances, CountsFromRoots, Growing
  <1>3. CASE q \in evidence[t]
    <2>1. q \in Requests /\ CountsFromRoots(t, q)
      BY <1>2, <1>3 DEF TypeOK, CrawlInv, DepthsAreDistances, CountsFromRoots
    <2> QED
      BY <2>1, CountedStays
  <1>4. CASE q \notin evidence[t]
    <2>1. PICK r \in Enqueuers : EnqueueCommit(r)
      BY <1>1, <1>4, OnlyCommitsMerge DEF RowCommits, RowKept
    <2>2. t = tx[r].target /\ q = tx[r].request /\ tx[r] # None /\ q \in Requests
      BY <1>4, <2>1, CommitIsNoted DEF EnqueueCommit, TypeOK
    <2>3. RecorderHolds(r) /\ SourcesArePlaced(r)
      BY DEF CrawlInv, PlacesInv
    <2>4. ~Pc(r, "idle")
      BY <1>2, <2>2, <2>3 DEF RecorderHolds, OpenWriteIsKnown
    <2>5. CountsFromRoots(t, q)
      BY <2>2, <2>3, <2>4, WritesAreCounted
    <2> QED
      BY <2>2, <2>5, CountedStays
  <1> QED
    BY <1>3, <1>4

(* A recording that ends has every item behind it.                         *)
FinishedEntry(f) ==
  \A i \in 1..Len(f.report.items) : Noted(f.report, f.depth, i)

LEMMA FinishedIsRecorded ==
  ASSUME TypeOK, RecInv, CrawlInv, [IngestNext]_allVars
  PROVE  /\ finished' \subseteq [report : Reports, depth : Nat]
         /\ \A f \in finished' : FinishedEntry(f)'
  <1> Growing
    BY StepsGrow
  <1>1. ASSUME NEW f \in finished
        PROVE  FinishedEntry(f)'
    <2>1. FinishedEntry(f)
      BY DEF CrawlInv, ExpansionIsRecorded, FinishedEntry, Noted
    <2>2. f.report \in Reports
      BY DEF CrawlInv
    <2> QED
      BY <2>1, <2>2, NotedStays DEF FinishedEntry, Growing
  <1>2. ASSUME NEW r \in Enqueuers, RecordFinish(r)
        PROVE  \E report \in Reports, d \in Nat :
                 /\ report = rec[r].report /\ d = rec[r].seedDepth
                 /\ FinishedEntry([report |-> report, depth |-> d])'
    <2>1. Pc(r, "item") /\ rec[r].todo = <<>>
      BY <1>2 DEF RecordFinish
    <2>2. PICK report \in Reports, d \in Nat : report = rec[r].report /\ d = rec[r].seedDepth
      BY <2>1, RecordersKeepReports, RecordedAssumption DEF Pc
    <2>3. NotedBut(report, d, 0)
      BY <2>1, <2>2 DEF CrawlInv, RecorderHolds, ItemsBehind
    <2>4. Len(report.items) \in Nat
      BY ItemsOfReports
    <2>5. \A i \in 1..Len(report.items) : Noted(report, d, i)
      BY <2>3, <2>4 DEF NotedBut
    <2>6. \A i \in 1..Len(report.items) : Noted(report, d, i)'
      BY <2>5, NotedStays DEF Growing
    <2>7. FinishedEntry([report |-> report, depth |-> d])'
      BY <2>6 DEF FinishedEntry
    <2> QED
      BY <2>2, <2>7
  <1>3. \/ finished' = finished
        \/ \E r \in Enqueuers :
             /\ RecordFinish(r)
             /\ finished' = finished \cup {[report |-> rec[r].report, depth |-> rec[r].seedDepth]}
    BY DEF IngestNext, Start, RecordOpen, RecordCommit, RecordAbort, RecordSeedItem,
           RecordVideoDone, RecordFinish, Offer, Work, ingestVars, allVars
  <1>4. CASE \E r \in Enqueuers :
               /\ RecordFinish(r)
               /\ finished' = finished \cup {[report |-> rec[r].report, depth |-> rec[r].seedDepth]}
    <2>1. PICK report \in Reports, d \in Nat :
            /\ finished' = finished \cup {[report |-> report, depth |-> d]}
            /\ FinishedEntry([report |-> report, depth |-> d])'
      BY <1>2, <1>4
    <2> QED
      BY <1>1, <2>1 DEF CrawlInv
  <1> QED
    BY <1>1, <1>3, <1>4 DEF CrawlInv

LEMMA CrawlInvariance ==
  ASSUME TypeOK, RecInv, CrawlInv, PlacesInv, [IngestNext]_allVars
  PROVE  CrawlInv'
  <1>1. \A q \in Enqueuers : RecorderHolds(q)'
    BY RecordersHold DEF CrawlInv
  <1>2. ExpansionIsRecorded'
    BY FinishedIsRecorded DEF ExpansionIsRecorded, FinishedEntry, Noted
  <1>3. setting' = setting
    BY StepsGrow DEF Growing
  <1>4. \/ started' = started
        \/ started < setting.recordings /\ started' = started + 1
    BY DEF IngestNext, Start, RecordOpen, RecordCommit, RecordAbort, RecordSeedItem,
           RecordVideoDone, RecordFinish, Offer, Work, ingestVars, allVars
  <1>5. setting.recordings \in Nat
    BY SettingsAssumption DEF RecInv
  <1>6. started' \in 0..setting'.recordings
    BY <1>3, <1>4, <1>5 DEF CrawlInv
  <1>7. roots' \subseteq Targets
    <2>1. roots' = roots \/ \E report \in Reports : roots' = roots \cup {report.seed}
      BY DEF IngestNext, Start, RecordOpen, RecordCommit, RecordAbort, RecordSeedItem,
             RecordVideoDone, RecordFinish, Offer, Work, ingestVars, allVars
    <2> QED
      BY <2>1, ReportsAssumption DEF CrawlInv
  <1> QED
    BY <1>1, <1>2, <1>6, <1>7, DistancesStay, FinishedIsRecorded DEF CrawlInv

(* What was given to a worker some evidence admitted, and the row's depth  *)
(* is not below that of any evidence.                                      *)
LEMMA WorkedIsShallow ==
  ASSUME TypeOK, EvidenceInv, NEW t \in Targets, attempt[t] > 0
  PROVE  depth[t] <= Policy.maxDepth
  <1>1. Known(t)
    BY DEF EvidenceInv
  <1>2. PICK q \in evidence[t] : Admitted(q)
    BY <1>1 DEF EvidenceInv, PolicyDecides
  <1>3. depth[t] <= q.depth
    BY <1>1, <1>2 DEF EvidenceInv, SummaryMatchesEvidence
  <1>4. q.depth \in Nat /\ depth[t] \in Nat /\ Policy.maxDepth \in Nat
    BY SummariesAreNumbers, ScoresAreNumbers, PolicyAssumption
  <1> QED
    BY <1>2, <1>3, <1>4 DEF Admitted

(* Whatever is ingested, by however many recorders and with whatever       *)
(* callers and workers beside them: a recording that ran to its end left   *)
(* evidence of each of its items one level below its seed, evidence is     *)
(* deeper than a target that leads to its own, or that of a root or of     *)
(* what others offer, and no worker is ever given a target deeper than the *)
(* policy allows.                                                          *)
THEOREM CrawlComplete == IngestSpec => []CrawlIsComplete
  <1>1. FrontierInit => TypeOK /\ RecInv /\ EvidenceInv /\ CrawlInv /\ PlacesInv
    <2>1. FrontierInit => TypeOK /\ RecInv
      BY DEF FrontierInit, Init, TypeOK, States, Priorities, RecInv, Recorder, Idle
    <2>2. FrontierInit => EvidenceInv
      BY DEF FrontierInit, Init, EvidenceInv, SummaryMatchesEvidence, PolicyDecides, Known
    <2>3. FrontierInit => CrawlInv /\ PlacesInv
      BY SettingsAssumption
      DEF FrontierInit, Init, CrawlInv, RecorderHolds, OpenWriteIsKnown, ItemsBehind, Pc, Idle,
          DepthsAreDistances, Known, ExpansionIsRecorded, PlacesInv, SourcesArePlaced
    <2> QED
      BY <2>1, <2>2, <2>3
  <1>2. TypeOK /\ RecInv /\ [IngestNext]_allVars => [Next]_vars
    <2>1. UNCHANGED allVars => UNCHANGED vars
      BY DEF allVars, vars
    <2> QED
      BY <2>1, IngestStepIsFrontierStep
  <1>3. TypeOK /\ RecInv /\ EvidenceInv /\ CrawlInv /\ PlacesInv /\ [IngestNext]_allVars
          => TypeOK' /\ RecInv' /\ EvidenceInv' /\ CrawlInv' /\ PlacesInv'
    BY <1>2, TypeInvariance, RecorderInvariance, EvidenceInvariance, CrawlInvariance,
       SourcesStayPlaced DEF CrawlInv
  <1>4. TypeOK /\ RecInv /\ EvidenceInv /\ CrawlInv => CrawlIsComplete
    BY WorkedIsShallow, RecordersKeepReports
    DEF CrawlIsComplete, CrawlIsBounded, IngestTypeOK, CrawlInv, RecInv
  <1> QED
    BY <1>1, <1>3, <1>4, PTL DEF IngestSpec
==============================================================================
