------------------------- MODULE DiscoveryFrontier -------------------------
(***************************************************************************)
(* The discovery frontier: the durable queue of YouTube targets still to   *)
(* be processed (tables discovery_targets and discovery_evidence).         *)
(*                                                                         *)
(* Enqueuers offer candidates (an upsert and its evidence row in one       *)
(* transaction, which keeps the row locked until it commits).  Workers     *)
(* claim the best unlocked row for a lease; the attempt number a claim     *)
(* returns is the fencing token their terminal report has to present.      *)
(* Direct ingests complete rows nobody has claimed.                        *)
(***************************************************************************)
EXTENDS Integers, FiniteSets

CONSTANTS
  Targets,        (* (kind, canonical_key) pairs                            *)
  Workers,        (* callers of claim / complete / fail                     *)
  Enqueuers,      (* callers of enqueue_discovery and direct ingests        *)
  Requests,       (* the score vectors candidates are offered with          *)
  Policy,         (* the admission policy, scores in hundredths             *)
  MaxAttempts,    (* bound: claims per target                               *)
  None            (* no claim, no open transaction                          *)

ASSUME RequestsAssumption ==
  Requests \subseteq [depth : Nat, confidence : 0..100,
                      relevance : 0..100, novelty : 0..100]

ASSUME PolicyAssumption ==
  Policy \in [maxDepth : Nat, minConfidence : 0..100,
              minRelevance : 0..100, minPriority : 0..10000]

ASSUME BoundAssumption == MaxAttempts \in Nat

VARIABLES
  state,     (* discovery_targets.state, or "absent" when there is no row   *)
  attempt,   (* attempt_count                                               *)
  leased,    (* the targets whose claim_expires_at lies in the future       *)
  depth,     (* depth                                                       *)
  priority,  (* priority, in ten-thousandths                                *)
  evidence,  (* the discovery_evidence rows of the target                   *)
  tx,        (* the open enqueue transaction of each enqueuer               *)
  worker,    (* the claim each worker holds in memory                       *)
  settled    (* history: reports that moved a row out of 'claimed'          *)

rowVars == <<state, attempt, leased, depth, priority, evidence>>
vars == <<state, attempt, leased, depth, priority, evidence, tx, worker, settled>>

Priorities == 0..10000
Verdicts == {"completed", "failed"}
States == {"absent", "pending", "claimed", "completed", "deferred", "failed"}

Transaction == [target : Targets, request : Requests]
Holding == [target : Targets, attempt : Nat]
Report == [target : Targets, attempt : Nat, verdict : Verdicts]

---------------------------------------------------------------------------
(* Admission: a linear score less a capped depth penalty, in units of      *)
(* 1/10000; a candidate below any threshold is deferred.                   *)

DepthPenalty(d) == IF d >= 5 THEN 2500 ELSE 500 * d

Unclamped(x) == x

Clamp(x) == IF x < 0 THEN 0 ELSE IF x > 10000 THEN 10000 ELSE x

Priority(r) ==
  Clamp(30 * r.confidence + 50 * r.relevance + 20 * r.novelty
          - DepthPenalty(r.depth))

Admitted(r) ==
  /\ r.depth <= Policy.maxDepth
  /\ r.confidence >= Policy.minConfidence
  /\ r.relevance >= Policy.minRelevance
  /\ Priority(r) >= Policy.minPriority

---------------------------------------------------------------------------
Init ==
  /\ state = [t \in Targets |-> "absent"]
  /\ attempt = [t \in Targets |-> 0]
  /\ leased = {}
  /\ depth = [t \in Targets |-> 0]
  /\ priority = [t \in Targets |-> 0]
  /\ evidence = [t \in Targets |-> {}]
  /\ tx = [e \in Enqueuers |-> None]
  /\ worker = [w \in Workers |-> None]
  /\ settled = {}

\* Rows whose lock an open transaction holds.
Locked == {tx[e].target : e \in {x \in Enqueuers : tx[x] # None}}

(* enqueue_discovery: the upsert takes the row lock (or the unique index   *)
(* entry of the new row); nothing is visible to others until the commit.   *)
EnqueueOpen(e, t, r) ==
  /\ tx[e] = None
  /\ t \notin Locked
  /\ tx' = [tx EXCEPT ![e] = [target |-> t, request |-> r]]
  /\ UNCHANGED <<rowVars, worker, settled>>

\* The CASE of the upsert: what an enqueue makes of the row's state.
StateAfter(s, r) ==
  CASE s = "absent"                        -> IF Admitted(r) THEN "pending" ELSE "deferred"
    [] s \in {"completed", "claimed"}      -> s
    [] s \in {"pending", "deferred", "failed"} -> IF Admitted(r) THEN "pending" ELSE s

\* Mutant of MergedDepth: the last enqueue wins.
LastDepth(t, r) == r.depth

MergedDepth(t, r) ==
  IF state[t] = "absent" \/ r.depth < depth[t] THEN r.depth ELSE depth[t]

MergedPriority(t, r) ==
  IF state[t] = "absent" \/ Priority(r) > priority[t] THEN Priority(r) ELSE priority[t]

\* Row and evidence become visible together.
EnqueueCommit(e) ==
  /\ tx[e] # None
  /\ LET t == tx[e].target
         r == tx[e].request
     IN  /\ state' = [state EXCEPT ![t] = StateAfter(state[t], r)]
         /\ depth' = [depth EXCEPT ![t] = MergedDepth(t, r)]
         /\ priority' = [priority EXCEPT ![t] = MergedPriority(t, r)]
         /\ evidence' = [evidence EXCEPT ![t] = @ \cup {r}]
  /\ tx' = [tx EXCEPT ![e] = None]
  /\ UNCHANGED <<attempt, leased, worker, settled>>

\* The evidence insert fails or the process dies: nothing of it remains.
EnqueueAbort(e) ==
  /\ tx[e] # None
  /\ tx' = [tx EXCEPT ![e] = None]
  /\ UNCHANGED <<rowVars, worker, settled>>

---------------------------------------------------------------------------
\* Mutant of Claimable: forgets to look at claim_expires_at.
ClaimableAnyLease(t) == state[t] \in {"pending", "claimed"}

Claimable(t) == state[t] = "pending" \/ (state[t] = "claimed" /\ t \notin leased)

NextAttempt(t) == attempt[t] + 1

(* claim_next_discovery_with_lease: the claimable row of highest priority  *)
(* among those no transaction has locked (FOR UPDATE SKIP LOCKED).         *)
Claim(w, t) ==
  /\ worker[w] = None
  /\ Claimable(t) /\ t \notin Locked
  /\ \A u \in Targets \ Locked : Claimable(u) => priority[u] <= priority[t]
  /\ attempt[t] < MaxAttempts
  /\ state' = [state EXCEPT ![t] = "claimed"]
  /\ attempt' = [attempt EXCEPT ![t] = NextAttempt(t)]
  /\ leased' = leased \cup {t}
  /\ worker' = [worker EXCEPT ![w] = [target |-> t, attempt |-> NextAttempt(t)]]
  /\ UNCHANGED <<depth, priority, evidence, tx, settled>>

\* The wall clock passes claim_expires_at.
LeaseExpires(t) ==
  /\ t \in leased
  /\ leased' = leased \ {t}
  /\ UNCHANGED <<state, attempt, depth, priority, evidence, tx, worker, settled>>

\* Mutants of Owns: without the fencing token; without the state.
OwnsUnfenced(t, a, verdict) == state[t] \in {"claimed", verdict}
OwnsAnyState(t, a, verdict) == attempt[t] = a

\* WHERE clause of transition_claimed_target.
Owns(t, a, verdict) == attempt[t] = a /\ state[t] \in {"claimed", verdict}

(* complete_discovery / fail_discovery: accepted for the row's current     *)
(* attempt while the row is claimed, and again (changing nothing) once it  *)
(* holds this very verdict; anything else is an error to the caller.  The  *)
(* worker may repeat the call: its reply can be lost.                      *)
ReportVerdict(w, verdict) ==
  /\ worker[w] # None
  /\ LET t == worker[w].target
         a == worker[w].attempt
         report == [target |-> t, attempt |-> a, verdict |-> verdict]
     IN  /\ t \notin Locked
         /\ IF Owns(t, a, verdict)
            THEN /\ state' = [state EXCEPT ![t] = verdict]
                 /\ leased' = leased \ {t}
                 /\ settled' = IF state[t] = "claimed" THEN settled \cup {report} ELSE settled
            ELSE UNCHANGED <<state, leased, settled>>
  /\ UNCHANGED <<attempt, depth, priority, evidence, tx, worker>>

\* The worker is done with its claim, or crashes and forgets it.
Leave(w) ==
  /\ worker[w] # None
  /\ worker' = [worker EXCEPT ![w] = None]
  /\ UNCHANGED <<rowVars, tx, settled>>

\* complete_unclaimed_discovery, the end of a direct ingest.
CompleteUnclaimed(t) ==
  /\ state[t] \notin {"absent", "claimed"}
  /\ t \notin Locked
  /\ state' = [state EXCEPT ![t] = "completed"]
  /\ leased' = leased \ {t}
  /\ UNCHANGED <<attempt, depth, priority, evidence, tx, worker, settled>>

---------------------------------------------------------------------------
Next ==
  \/ \E e \in Enqueuers : \/ \E t \in Targets, r \in Requests : EnqueueOpen(e, t, r)
                          \/ EnqueueCommit(e)
                          \/ EnqueueAbort(e)
  \/ \E w \in Workers : \/ \E t \in Targets : Claim(w, t)
                        \/ \E v \in Verdicts : ReportVerdict(w, v)
                        \/ Leave(w)
  \/ \E t \in Targets : LeaseExpires(t) \/ CompleteUnclaimed(t)

Spec == Init /\ [][Next]_vars
---------------------------------------------------------------------------
(* Every variable keeps its type; priorities stay within the range the     *)
(* CHECK constraint of discovery_targets demands.                          *)
TypeOK ==
  /\ state \in [Targets -> States]
  /\ attempt \in [Targets -> Nat]
  /\ leased \subseteq Targets
  /\ depth \in [Targets -> Nat]
  /\ priority \in [Targets -> Priorities]
  /\ evidence \in [Targets -> SUBSET Requests]
  /\ tx \in [Enqueuers -> Transaction \cup {None}]
  /\ worker \in [Workers -> Holding \cup {None}]
  /\ settled \subseteq Report

Known(t) == state[t] # "absent"

(* The summary columns of a row are what its evidence says: no row without *)
(* evidence, the depth is the least and the priority the greatest any      *)
(* evidence row carries, in whatever order the enqueues, claims and        *)
(* reports ran.                                                            *)
SummaryMatchesEvidence ==
  \A t \in Targets :
    IF Known(t)
    THEN /\ \A r \in evidence[t] : depth[t] <= r.depth /\ Priority(r) <= priority[t]
         /\ \E r \in evidence[t] : r.depth = depth[t]
         /\ \E r \in evidence[t] : Priority(r) = priority[t]
    ELSE evidence[t] = {}

(* The admission policy decides, and nothing else: a target some evidence  *)
(* admits is never left deferred, and one that no evidence admits has      *)
(* never been handed to a worker.                                          *)
PolicyDecides ==
  \A t \in Targets : Known(t) =>
    IF \E r \in evidence[t] : Admitted(r)
    THEN state[t] # "deferred"
    ELSE attempt[t] = 0 /\ state[t] \in {"deferred", "completed"}

(* The attempt number is a fencing token: two workers never hold the same  *)
(* one for a target, however leases expire and targets are reopened.       *)
TokensAreUnique ==
  \A v, w \in Workers :
    /\ v # w
    /\ worker[v] # None /\ worker[w] # None
    /\ worker[v].target = worker[w].target
    => worker[v].attempt # worker[w].attempt

(* A failed row was failed by its current attempt, not by an older one     *)
(* that reported late, and no attempt ever settles a row both ways.        *)
VerdictBelongsToAttempt ==
  /\ \A t \in Targets : state[t] = "failed" =>
       [target |-> t, attempt |-> attempt[t], verdict |-> "failed"] \in settled
  /\ \A p, q \in settled :
       p.target = q.target /\ p.attempt = q.attempt => p.verdict = q.verdict

(* Both together: however late and often workers report, an attempt is one *)
(* worker's and its verdict counts for it alone.                           *)
AttemptsAreFenced == TokensAreUnique /\ VerdictBelongsToAttempt

(* Until its lease expires a claim is only ended by its own attempt's      *)
(* report: no duplicate enqueue, direct ingest or other claim touches it.  *)
LiveLeaseHeld ==
  [][\A t \in Targets :
       t \in leased /\ (state'[t] # state[t] \/ attempt'[t] # attempt[t]) =>
         \E s \in settled' \ settled : s.target = t /\ s.attempt = attempt[t]]_vars

(* Completed is final: no late report, duplicate discovery or new claim    *)
(* reopens a completed target.                                             *)
CompletedIsFinal ==
  [][\A t \in Targets : state[t] = "completed" =>
       state'[t] = "completed" /\ attempt'[t] = attempt[t]]_vars

(* Neither a live claim nor a completed target is disturbed by others.     *)
OwnersAreRespected == LiveLeaseHeld /\ CompletedIsFinal

(* The frontier implements FencedTask: expired leases, duplicate enqueues  *)
(* and late reports never amount to more than its steps.                   *)
PhaseOf(s) ==
  CASE s \in {"absent", "deferred", "failed"} -> "parked"
    [] s = "pending"   -> "waiting"
    [] s = "claimed"   -> "held"
    [] s = "completed" -> "done"

Phase == [t \in Targets |-> PhaseOf(state[t])]

Abstract == INSTANCE FencedTask WITH Tasks <- Targets, phase <- Phase, token <- attempt

ImplementsFencedTask == Abstract!Spec
===========================================================================
