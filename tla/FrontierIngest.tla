--------------------------- MODULE FrontierIngest ---------------------------
(***************************************************************************)
(* What an ingest does to the discovery frontier (record_ingest_           *)
(* discoveries): it looks its seed up or enqueues it, records every item   *)
(* of its report as a child, every link of an ingested video as a child of *)
(* that video, completes what it ingested, and finally its seed unless a   *)
(* worker owned the seed when the recording began.  Every enqueue and      *)
(* every completion is a transaction of its own: recorders interleave with *)
(* each other, with the enqueues and completions of other callers and with *)
(* the workers of DiscoveryFrontier, and the first error ends a recording  *)
(* where it stands.                                                        *)
(***************************************************************************)
EXTENDS DiscoveryFrontier, Sequences

CONSTANTS
  Links,         (* Targets -> SUBSET Targets: channel and links of a video  *)
  Reports,       (* ingest reports: a seed and items that succeeded or not   *)
  MaxSeedDepth,  (* bound: depth of a seed that is ingested                  *)
  Settings       (* bounds: who uses the frontier beside each other          *)

ASSUME LinksAssumption == Links \in [Targets -> SUBSET Targets]

ASSUME ReportsAssumption ==
  \A report \in Reports : /\ report.seed \in Targets
                          /\ report.items \in Seq([target : Targets, ok : BOOLEAN])

(* A setting bounds the recordings, the claims held at once, the attempts  *)
(* per target, the enqueues open at once, and names what callers other     *)
(* than recordings offer and complete.                                     *)
ASSUME SettingsAssumption ==
  \A s \in Settings : /\ {s.recordings, s.claims, s.attempts, s.open} \subseteq Nat
                      /\ s.targets \subseteq Targets /\ s.offers \subseteq Requests

VARIABLES
  setting,   (* who uses the frontier in this behaviour                      *)
  rec,       (* what each recorder has read and still has to do              *)
  started,   (* recordings started                                           *)
  roots,     (* history: seeds ingested before the frontier knew them        *)
  finished   (* history: recordings that ran to their end                    *)

ingestVars == <<setting, rec, started, roots, finished>>
allVars == <<vars, setting, rec, started, roots, finished>>

Idle == [pc |-> "idle"]

\* Scores of seeds and expanded items, and of links, at the given depth.
SeedRequest == [depth |-> 0, confidence |-> 100, relevance |-> 100, novelty |-> 100]
ItemRequest(d) == [depth |-> d + 1, confidence |-> 100, relevance |-> 100, novelty |-> 100]
LinkRequest(d) == [depth |-> d + 1, confidence |-> 90, relevance |-> 75, novelty |-> 80]

ASSUME RecordedAssumption ==
  /\ MaxSeedDepth \in Nat /\ SeedRequest \in Requests
  /\ \A d \in 0..(MaxSeedDepth + 1) : {ItemRequest(d), LinkRequest(d)} \subseteq Requests

FrontierInit == Init /\ setting \in Settings /\ rec = [r \in Enqueuers |-> Idle] /\ started = 0
                /\ roots = {} /\ finished = {}

Pc(r, p) == rec[r].pc = p
Item(r) == Head(rec[r].todo)
IsSeed(r, t) == t = rec[r].report.seed

AllFailed(report) == \A i \in 1..Len(report.items) : ~report.items[i].ok

\* After its seed is known: nothing to expand when every item failed.
Begin(report, seedState, seedDepth) ==
  IF AllFailed(report) THEN Idle
  ELSE [pc |-> "item", report |-> report, todo |-> report.items,
        seedState |-> seedState, seedDepth |-> seedDepth]

SeedFound(t) == Known(t)

\* The lookup of the seed; its state and depth are not read again.
Start(r, report) ==
  /\ Pc(r, "idle") /\ tx[r] = None
  /\ started < setting.recordings /\ depth[report.seed] <= MaxSeedDepth
  /\ started' = started + 1
  /\ roots' = IF Known(report.seed) THEN roots ELSE roots \cup {report.seed}
  /\ rec' = [rec EXCEPT ![r] =
       IF SeedFound(report.seed)
       THEN Begin(report, state[report.seed], depth[report.seed])
       ELSE [pc |-> "seed", report |-> report]]
  /\ UNCHANGED <<vars, setting, finished>>

\* The next enqueue a recorder has to make, if its next step is one.
Wanted(r) ==
  CASE Pc(r, "seed") -> {<<rec[r].report.seed, SeedRequest>>}
    [] Pc(r, "item") /\ rec[r].todo # <<>> /\ ~IsSeed(r, Item(r).target) ->
         {<<Item(r).target, ItemRequest(rec[r].seedDepth)>>}
    [] Pc(r, "links") -> {<<l, LinkRequest(rec[r].depth)>> : l \in rec[r].links}
    [] OTHER -> {}

RecordOpen(r) ==
  /\ \E p \in Wanted(r) : EnqueueOpen(r, p[1], p[2])
  /\ UNCHANGED ingestVars

Skip(r) == [pc |-> "item", report |-> rec[r].report, todo |-> Tail(rec[r].todo),
            seedState |-> rec[r].seedState, seedDepth |-> rec[r].seedDepth]

\* Expansion of the current video, whose row was at depth d.
Expand(r, d) ==
  LET current == Item(r).target
  IN  [pc |-> "links", report |-> rec[r].report, todo |-> rec[r].todo,
       seedState |-> rec[r].seedState, seedDepth |-> rec[r].seedDepth,
       depth |-> d, links |-> Links[current] \ {current}]

\* Mutant of AfterError: a failed enqueue is logged and passed over.
ErrorPassedOver(r) == IF Pc(r, "item") THEN Skip(r) ELSE Idle

AfterError(r) == Idle

\* The enqueue commits and returns the row as it now is, or fails.
RecordCommit(r) ==
  /\ ~Pc(r, "idle") /\ EnqueueCommit(r)
  /\ LET t == tx[r].target
     IN  rec' = [rec EXCEPT ![r] =
           CASE Pc(r, "seed") -> Begin(rec[r].report, state'[t], depth'[t])
             [] Pc(r, "item") -> IF Item(r).ok THEN Expand(r, depth'[t]) ELSE Skip(r)
             [] Pc(r, "links") -> [rec[r] EXCEPT !.links = @ \ {t}]]
  /\ UNCHANGED <<setting, started, roots, finished>>

RecordAbort(r) ==
  /\ ~Pc(r, "idle") /\ EnqueueAbort(r)
  /\ rec' = [rec EXCEPT ![r] = AfterError(r)]
  /\ UNCHANGED <<setting, started, roots, finished>>

\* The seed itself is an item of the report: it is expanded or passed over.
RecordSeedItem(r) ==
  /\ Pc(r, "item") /\ rec[r].todo # <<>> /\ IsSeed(r, Item(r).target) /\ tx[r] = None
  /\ rec' = [rec EXCEPT ![r] = IF Item(r).ok THEN Expand(r, rec[r].seedDepth) ELSE Skip(r)]
  /\ UNCHANGED <<vars, setting, started, roots, finished>>

\* complete_unclaimed_discovery as its callers use it: claimed rows stay.
CompleteIfUnclaimed(t) ==
  /\ t \notin Locked
  /\ CompleteUnclaimed(t) \/ (state[t] = "claimed" /\ UNCHANGED vars)

\* All links of the video are recorded: its own row is completed.
RecordVideoDone(r) ==
  /\ Pc(r, "links") /\ rec[r].links = {} /\ tx[r] = None
  /\ IF IsSeed(r, Item(r).target) THEN UNCHANGED vars
     ELSE CompleteIfUnclaimed(Item(r).target)
  /\ rec' = [rec EXCEPT ![r] = Skip(r)]
  /\ UNCHANGED <<setting, started, roots, finished>>

\* The end: a seed no worker owned at the start is completed.
RecordFinish(r) ==
  /\ Pc(r, "item") /\ rec[r].todo = <<>>
  /\ IF rec[r].seedState = "claimed" THEN UNCHANGED vars
     ELSE CompleteIfUnclaimed(rec[r].report.seed)
  /\ finished' = finished \cup {[report |-> rec[r].report, depth |-> rec[r].seedDepth]}
  /\ rec' = [rec EXCEPT ![r] = Idle]
  /\ UNCHANGED <<setting, started, roots>>

(* Other callers of enqueue_discovery (the expansion of channels, a CLI)   *)
(* and of complete_unclaimed_discovery.                                    *)
Offer(e) ==
  /\ Pc(e, "idle")
  /\ \/ /\ Cardinality({c \in Enqueuers : tx[c] # None}) < setting.open
        /\ \E t \in setting.targets, request \in setting.offers : EnqueueOpen(e, t, request)
     \/ EnqueueCommit(e)
     \/ EnqueueAbort(e)
  /\ UNCHANGED ingestVars

Work(w) ==
  /\ \/ /\ Cardinality({v \in Workers : worker[v] # None}) < setting.claims
        /\ \E t \in Targets : attempt[t] < setting.attempts /\ Claim(w, t)
     \/ \E v \in Verdicts : ReportVerdict(w, v)
     \/ Leave(w)
  /\ UNCHANGED ingestVars

IngestNext ==
  \/ \E r \in Enqueuers :
       \/ \E report \in Reports : Start(r, report)
       \/ RecordOpen(r) \/ RecordCommit(r) \/ RecordAbort(r)
       \/ RecordSeedItem(r) \/ RecordVideoDone(r) \/ RecordFinish(r)
       \/ Offer(r)
  \/ \E w \in Workers : Work(w)
  \/ \E t \in Targets : LeaseExpires(t) /\ UNCHANGED ingestVars
  \/ \E t \in setting.targets : CompleteUnclaimed(t) /\ UNCHANGED ingestVars

IngestSpec == FrontierInit /\ [][IngestNext]_allVars
---------------------------------------------------------------------------
IngestTypeOK ==
  /\ TypeOK
  /\ setting \in Settings /\ started \in 0..setting.recordings
  /\ roots \subseteq Targets
  /\ \A r \in Enqueuers : rec[r].pc \in {"idle", "seed", "item", "links"}
  /\ finished \subseteq [report : Reports, depth : Nat]

\* What the report of a seed lists, and what a video links to.
Leads(u, t) ==
  \/ t \in Links[u]
  \/ \E report \in Reports :
       report.seed = u /\ \E i \in 1..Len(report.items) : report.items[i].target = t

(* Crawl depth counts from the roots: unless others offered the target,    *)
(* evidence of depth 0 is that of a seed whose lookup missed, and any      *)
(* other evidence is deeper than a target that leads there.  A row that    *)
(* the lookup finds is reused with its depth, claimed or not; one that     *)
(* another recorder inserts between the lookup and the enqueue is lowered  *)
(* to depth 0 (ingest.rs:40-64).                                           *)
DepthsAreDistances ==
  \A t \in Targets \ setting.targets : \A e \in evidence[t] :
    IF e.depth = 0 THEN t \in roots
    ELSE \E u \in Targets : Known(u) /\ depth[u] < e.depth /\ Leads(u, t)

(* A recording that ran to its end left evidence of every item it reports, *)
(* one level below its seed, the failed items included.                    *)
ExpansionIsRecorded ==
  \A f \in finished : \A i \in 1..Len(f.report.items) :
    LET t == f.report.items[i].target
    IN  t # f.report.seed => \E r \in evidence[t] : r.depth = f.depth + 1

(* The crawl is bounded: depths count from the roots, and no target deeper *)
(* than the policy's maximum was ever given to a worker.                   *)
CrawlIsBounded ==
  /\ IngestTypeOK /\ DepthsAreDistances
  /\ \A t \in Targets : attempt[t] > 0 => depth[t] <= Policy.maxDepth

(* What was ingested is in the frontier at its depth, and no deeper than   *)
(* the policy allows has anything been ingested.                           *)
CrawlIsComplete == ExpansionIsRecorded /\ CrawlIsBounded
=============================================================================
