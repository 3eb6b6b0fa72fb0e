-------------------------- MODULE SourceChecksProofs --------------------------
(***************************************************************************)
(* Theorems about backfills and checks, for any sources, videos, requests, *)
(* listings, users, checkers, faults and stops.                            *)
(*                                                                         *)
(* The invariant follows a row through those who hold it.  The listing     *)
(* keeps what it has read of the row at its entry true until it writes the *)
(* row (EntrySound); the dispatcher and an approval keep theirs (JobSound, *)
(* ApprovalSound) because whoever else writes a row asks for a status that *)
(* a held row has not; a user's control keeps the state it read, for only  *)
(* the listing leaves 'discovering' (ListingSound, ControlSound); and what *)
(* is selected and not yet acted upon is still to come in the listing      *)
(* (SelectionSound).  The facts about types come first, then what a step   *)
(* that leaves the rows or the requests alone preserves (Frame...), then   *)
(* one lemma per action.                                                   *)
(***************************************************************************)
EXTENDS SourceChecks, FiniteSetTheorems, SequenceTheorems, TLAPS

---------------------------------------------------------------------------
(* The invariant of the backfill workers.                                  *)

Fresh == {"absent", "discovered"}

RowOf(s, v) == status[s][v]
CurrentRow == RowOf(DiscoverySource, Listed)

\* A selected video that is not selected by its place in the listing.
AnyPlace(b, v) == ScopeOf[b] = "full" \/ (ScopeOf[b] = "recent" /\ v \in Recent)

\* Every selected video has been acted upon, if no listing broke off in vain.
Sure(b) == faults = 0 \/ Repeatable(b)
Handled(b, v) == RowOf(SourceOf[b], v) \notin Unhandled
Complete(b) == Sure(b) => \A v \in selected[b] : Handled(b, v)

Steers(u, b) == control[u] # None /\ control[u].step = "write" /\ control[u].backfill = b
AllowedBy(s, v) == s \in Trusted \/ \E o \in Trusted \ {s} : RowOf(o, v) # "absent"

AtEntry == {"look", "entry", "queue", "mark"}
Recording == AtEntry \cup {"count"}

\* What types rest on: the worker stands at an entry, the verdict is one.
Placed ==
  discovery # None =>
    /\ discovery.step = "list" => discovery.at = 1
    /\ discovery.step \in AtEntry => discovery.at \in 1..Len(discovery.listing)

Settled == job # None => (job.step = "settle" => job.verdict \in Outcomes)

Typed == TypeOK /\ Placed /\ Settled

ListingSound ==
  discovery # None =>
    /\ discovery.step = "count" => discovery.at > Len(discovery.listing)
    /\ discovery.step \in Recording \cup {"list"} =>
         /\ bstate[discovery.backfill] \in {"discovering", "canceled"}
         /\ \A u \in Users : Steers(u, discovery.backfill) => control[u].action = "cancel"
    /\ discovery.step = "refresh" => bstate[discovery.backfill] \notin {"absent", "discovering"}
    /\ discovery.canceled /\ discovery.step \in Recording => bstate[discovery.backfill] = "canceled"
    /\ discovery.own => DiscoverySource \in Trusted

EntrySound ==
  discovery # None =>
    /\ discovery.step \in {"entry", "queue"} =>
         /\ discovery.seen \in Fresh => CurrentRow = "discovered"
         /\ discovery.seen \notin Unhandled => CurrentRow \notin Unhandled
         /\ discovery.seen \notin Pending => CurrentRow \notin Pending
    /\ discovery.step = "mark" =>
         /\ CurrentRow \notin Pending
         /\ discovery.seen \notin Fresh \cup {"running"}
         /\ discovery.seen = "not_selected" =>
              CurrentRow = "discovered" /\ ~(InScope /\ ~discovery.canceled)
         /\ discovery.seen = "queued" => AllowedBy(DiscoverySource, Listed)

\* The dispatcher's video and the one being approved.
JobSound ==
  job # None =>
    /\ up
    /\ RowOf(job.source, job.video) \notin Unhandled
    /\ Separate =>
         /\ job.source \in Automatic
         /\ job.step \in {"admit", "process"} => RowOf(job.source, job.video) = "running"

ApprovalSound ==
  approval # None =>
    /\ RowOf(approval.source, approval.video) \notin Unhandled
    /\ Separate /\ approval.step = "process" =>
         RowOf(approval.source, approval.video) = "awaiting_review"

ControlSound ==
  \A u \in Users : \A b \in Backfills : Steers(u, b) /\ control[u].action # "cancel" =>
    bstate[b] \notin {"absent", "discovering"} /\ Complete(b)

ToCome(v) ==
  IF Repeatable(discovery.backfill)
  THEN \E i \in discovery.at..Len(discovery.listing) : discovery.listing[i] = v
  ELSE discovery.step \in {"queue", "mark"} /\ v = Listed /\ InScope

SelectionSound ==
  /\ \A b \in Backfills :
       /\ bstate[b] \notin {"absent", "discovering", "failed", "canceled"} => Complete(b)
       /\ /\ faults = 0 /\ bstate[b] \in {"absent", "discovering"}
          /\ discovery # None => discovery.backfill # b \/ discovery.step = "list"
          => selected[b] = {}
       /\ Repeatable(b) => \A v \in selected[b] :
            AnyPlace(b, v) /\ \A l \in Listings : \E i \in DOMAIN l : l[i] = v
  /\ discovery # None /\ discovery.step \in Recording /\ ~discovery.canceled =>
       (Sure(discovery.backfill) =>
         \A v \in selected[discovery.backfill] : Handled(discovery.backfill, v) \/ ToCome(v))

ReviewSound ==
  /\ automatic \subseteq Trusted
  /\ ReviewFirstHolds

\* Where approvals and the dispatcher never meet: what rows and listings are there.
SeparateRows ==
  Separate =>
    /\ automatic = Automatic
    /\ \A s \in Sources, v \in Videos :
         /\ RowOf(s, v) = "awaiting_review" => s \notin Automatic
         /\ RowOf(s, v) \in Pending => s \in Automatic

SeparateListing ==
  Separate /\ discovery # None =>
    /\ discovery.step \in Recording => (discovery.own <=> DiscoverySource \in Automatic)
    /\ /\ discovery.step \in {"entry", "queue"}
       /\ discovery.seen \notin Pending \cup {"awaiting_review", "indexed"}
       => CurrentRow \notin {"indexed", "awaiting_review"}
    /\ discovery.step = "mark" => CurrentRow \notin {"indexed", "awaiting_review"}
    /\ discovery.step \in {"entry", "queue", "mark"} /\ discovery.seen = "awaiting_review" =>
         DiscoverySource \notin Automatic

IInv ==
  /\ Typed /\ ListingSound /\ EntrySound /\ JobSound /\ ApprovalSound /\ ControlSound
  /\ SelectionSound /\ ReviewSound /\ SeparateRows /\ SeparateListing

---------------------------------------------------------------------------
(* Types.                                                                  *)

\* What every setting is.
LEMMA SettingFacts ==
  ASSUME TypeOK
  PROVE  /\ setting \in Settings
         /\ \A b \in Backfills : b \in Nat \ {0} /\ SourceOf[b] \in Sources /\ ScopeOf[b] \in Scopes
         /\ \A l \in Listings : l \in Seq(Videos) /\ Len(l) \in Nat /\ DOMAIN l = 1..Len(l)
         /\ Switchable \subseteq Sources /\ MaxFaults \in Nat /\ Automatic \subseteq Sources
         /\ setting.users \subseteq Users
  <1>1. setting \in Settings /\ IsSetting(setting) /\ setting.users \subseteq Users
    BY BackfillAssumption, ResultsAssumption DEF TypeOK, TablesTypeOK
  <1>2. \A b \in Backfills : b \in Nat \ {0} /\ SourceOf[b] \in Sources /\ ScopeOf[b] \in Scopes
    BY <1>1 DEF IsSetting, Backfills, SourceOf, ScopeOf
  <1>3. \A l \in Listings : l \in Seq(Videos) /\ Len(l) \in Nat /\ DOMAIN l = 1..Len(l)
    BY <1>1 DEF IsSetting, Listings
  <1> QED
    BY <1>1, <1>2, <1>3 DEF IsSetting, Switchable, MaxFaults, Automatic

\* What a listing is when the worker stands at one of its entries.
LEMMA ListingFacts ==
  ASSUME TypeOK, discovery # None
  PROVE  /\ discovery \in Discovery /\ discovery.backfill \in Backfills
         /\ DiscoverySource \in Sources
         /\ Len(discovery.listing) \in Nat
         /\ discovery.at \in 1..Len(discovery.listing) => Listed \in Videos
  <1>1. discovery \in Discovery
    BY DEF TypeOK
  <1>2. discovery.backfill \in Backfills /\ discovery.listing \in Listings
    BY <1>1 DEF Discovery, Listing, DiscoverySteps
  <1>3. discovery.listing \in Seq(Videos) /\ Len(discovery.listing) \in Nat
    BY <1>2, SettingFacts
  <1>4. discovery.at \in 1..Len(discovery.listing) => Listed \in Videos
    BY <1>3, ElementOfSeq DEF Listed
  <1> QED
    BY <1>1, <1>2, <1>3, <1>4, SettingFacts DEF DiscoverySource

LEMMA MarkEffect ==
  ASSUME TypeOK, NEW s \in Sources, NEW v \in Videos, NEW st \in Statuses, Mark(s, v, st)
  PROVE  /\ status' \in [Sources -> [Videos -> Statuses]]
         /\ status'[s][v] = st
         /\ \A o \in Sources, w \in Videos : o # s \/ w # v => status'[o][w] = status[o][w]
  BY DEF Mark, TypeOK, TablesTypeOK

LEMMA QueueEffect ==
  ASSUME TypeOK, NEW s \in Sources, NEW v \in Videos, NEW o \in Origins, Queue(s, v, o)
  PROVE  /\ Mark(s, v, "queued")
         /\ origin' \in [Sources -> [Videos -> Origins]]
  BY DEF Queue, TypeOK, TablesTypeOK

LEMMA UpsertEffect ==
  ASSUME TypeOK, NEW s \in Sources, NEW v \in Videos, Upsert(s, v)
  PROVE  /\ status' \in [Sources -> [Videos -> Statuses]]
         /\ status'[s][v] = IF status[s][v] = "absent" THEN "discovered" ELSE status[s][v]
         /\ \A o \in Sources, w \in Videos : o # s \/ w # v => status'[o][w] = status[o][w]
  <1>1. Mark(s, v, IF status[s][v] = "absent" THEN "discovered" ELSE status[s][v])
    BY DEF Upsert, Mark, TypeOK, TablesTypeOK
  <1>2. (IF status[s][v] = "absent" THEN "discovered" ELSE status[s][v]) \in Statuses
    BY DEF TypeOK, TablesTypeOK, Statuses
  <1> QED
    BY <1>1, <1>2, MarkEffect

LEMMA RefreshEffect ==
  ASSUME TypeOK, NEW B, Refresh(B), UNCHANGED setting
  PROVE  /\ bstate' \in [Backfills' -> BackfillStates]
         /\ \A b \in Backfills :
              \/ bstate'[b] = bstate[b]
              \/ /\ b \in B /\ bstate[b] \in Live
                 /\ bstate'[b] \in Live \cup {"partial", "completed"}
  <1>1. \A b \in Backfills : bstate[b] \in BackfillStates
    BY DEF TypeOK, TablesTypeOK
  <1>2. \A b \in Backfills : Refreshed(b) \in Live \cup {"partial", "completed"}
    BY DEF Refreshed, Live
  <1>3. bstate' = [b \in Backfills |-> IF b \in B \cap Refreshable THEN Refreshed(b) ELSE bstate[b]]
    BY DEF Refresh
  <1>4. \A b \in B \cap Refreshable : b \in Backfills /\ bstate[b] \in Live
    BY DEF Refreshable
  <1>5. Backfills' = Backfills
    BY DEF Backfills, ScopeOf
  <1>6. \A b \in Backfills : (IF b \in B \cap Refreshable THEN Refreshed(b) ELSE bstate[b]) \in BackfillStates
    BY <1>1, <1>2 DEF BackfillStates
  <1> QED
    BY <1>3, <1>4, <1>5, <1>6, <1>2

\* The worker's record is not "None".
LEMMA DiscoveryIsSome ==
  ASSUME TypeOK
  PROVE  None \notin Discovery
  <1>1. Backfills \subseteq Nat /\ Listings \subseteq Seq(Videos)
    BY SettingFacts
  <1>2. Discovery \subseteq Listing(Nat, Seq(Videos))
    BY <1>1 DEF Discovery, Listing
  <1> QED
    BY <1>2, NoneAssumption

LEMMA RefreshTypes ==
  ASSUME TypeOK, NEW B, Refresh(B), setting' = setting
  PROVE  bstate' \in [Backfills -> BackfillStates]
  BY RefreshEffect DEF Backfills, ScopeOf

\* The types of the next state, when the setting stays.
LEMMA TypesKept ==
  ASSUME setting \in Settings, setting' = setting, automatic' \subseteq Sources,
         status' \in [Sources -> [Videos -> Statuses]],
         origin' \in [Sources -> [Videos -> Origins]],
         bstate' \in [Backfills -> BackfillStates],
         note' \subseteq Backfills,
         position' \in [Backfills -> [Videos -> Nat]],
         selected' \in [Backfills -> SUBSET Videos],
         frozen' \in [Backfills -> SUBSET Videos],
         up' \in BOOLEAN,
         discovery' \in Discovery \cup {None},
         turn' \in Origins,
         job' \in Job \cup {None},
         control' \in [Users -> Control \cup {None}],
         approval' \in Approval \cup {None},
         faults' \in 0..MaxFaults
  PROVE  TypeOK'
  <1>1. Backfills' = Backfills /\ Listings' = Listings /\ MaxFaults' = MaxFaults
    BY DEF Backfills, ScopeOf, Listings, MaxFaults
  <1>2. Discovery' = Discovery /\ Job' = Job /\ Control' = Control /\ Approval' = Approval
    BY <1>1 DEF Discovery, Listing, DiscoverySteps, Job, Control, Approval
  <1>3. TablesTypeOK'
    BY <1>1 DEF TablesTypeOK
  <1> QED
    BY <1>1, <1>2, <1>3 DEF TypeOK

\* The steps of the discovery worker keep its record one.
LEMMA DiscoveryTypes ==
  ASSUME NEW r \in Discovery
  PROVE  /\ \A st \in DiscoverySteps :
              [r EXCEPT !.step = st] \in Discovery
         /\ \A x \in Statuses : [r EXCEPT !.step = "entry", !.seen = x] \in Discovery
         /\ \A x \in Statuses : [r EXCEPT !.step = "mark", !.seen = x] \in Discovery
         /\ \A st \in {"look", "count"}, x \in BOOLEAN, y \in BOOLEAN :
              [r EXCEPT !.step = st, !.canceled = x, !.own = y] \in Discovery
         /\ \A st \in {"look", "count"} :
              [r EXCEPT !.at = @ + 1, !.step = st, !.seen = "absent"] \in Discovery
         /\ r.backfill \in Backfills /\ r.at \in Nat /\ r.seen \in Statuses
         /\ r.canceled \in BOOLEAN /\ r.own \in BOOLEAN
         /\ r.listing \in Listings
         /\ r.step \in DiscoverySteps
  <1>1. "absent" \in Statuses
    BY DEF Statuses
  <1> HIDE DEF Statuses, Listings, Backfills
  <1>2. /\ r.backfill \in Backfills /\ r.at \in Nat /\ r.seen \in Statuses
        /\ r.canceled \in BOOLEAN /\ r.own \in BOOLEAN
        /\ r.listing \in Listings
        /\ r.step \in DiscoverySteps
    BY DEF Discovery, Listing, DiscoverySteps
  <1>3. \A st \in DiscoverySteps :
          [r EXCEPT !.step = st] \in Discovery
    BY DEF Discovery, Listing, DiscoverySteps
  <1>4. \A x \in Statuses : [r EXCEPT !.step = "entry", !.seen = x] \in Discovery
    BY DEF Discovery, Listing, DiscoverySteps
  <1>5. \A x \in Statuses : [r EXCEPT !.step = "mark", !.seen = x] \in Discovery
    BY DEF Discovery, Listing, DiscoverySteps
  <1>6. \A st \in {"look", "count"}, x \in BOOLEAN, y \in BOOLEAN :
          [r EXCEPT !.step = st, !.canceled = x, !.own = y] \in Discovery
    BY DEF Discovery, Listing, DiscoverySteps
  <1>7. \A st \in {"look", "count"} :
          [r EXCEPT !.at = @ + 1, !.step = st, !.seen = "absent"] \in Discovery
    <2>1. r.at + 1 \in Nat
      BY <1>2
    <2>2. \A n \in Nat, st \in {"look", "count"} :
            [r EXCEPT !.at = n, !.step = st, !.seen = "absent"] \in Discovery
      BY <1>1 DEF Discovery, Listing, DiscoverySteps
    <2> QED
      BY <2>1, <2>2
  <1> QED
    BY <1>2, <1>3, <1>4, <1>5, <1>6, <1>7

LEMMA NextEntryTypes ==
  ASSUME TypeOK, discovery # None
  PROVE  NextEntry \in Discovery
  <1>1. discovery \in Discovery
    BY DEF TypeOK
  <1>2. StepAt(discovery.at + 1) \in {"look", "count"}
    BY DEF StepAt
  <1> QED
    BY <1>1, <1>2, DiscoveryTypes DEF NextEntry

\* What a decision can be.
LEMMA DecisionTypes ==
  ASSUME TypeOK, NEW s \in Sources, NEW v \in Videos, NEW own,
         NEW d \in Decision(s, v, own)
  PROVE  d \in {"filtered", "queued", "awaiting_review", "indexed", "skipped"}
  <1>1. Admission(s, v, own) \subseteq {"process", "awaiting_review", "indexed", "skipped"}
    BY DEF Admission, ProcessedElsewhere, Processed
  <1> QED
    BY <1>1 DEF Decision

LEMMA DiscoveryStepTypes ==
  ASSUME Typed, DiscoveryStep \/ DiscoveryFails
  PROVE  TypeOK'
  <1> USE DEF Origins, Typed
  <1>0. setting \in Settings
    BY DEF TypeOK, TablesTypeOK
  <1> DEFINE r == discovery
  <1>a. r # None => r \in Discovery /\ r.backfill \in Backfills /\ DiscoverySource \in Sources
    BY ListingFacts
  <1>b. r # None /\ r.step \in AtEntry => Listed \in Videos
    BY ListingFacts DEF Placed
  <1>1. CASE PickBackfill
    <2>1. discovery' \in Discovery
      BY <1>1 DEF PickBackfill, Discovery, Listing, DiscoverySteps, Statuses, Discovering
    <2> QED
      BY <1>0, <1>1, <2>1, TypesKept DEF PickBackfill, TypeOK, TablesTypeOK, tables
  <1>2. CASE ListingFails
    <2>1. r # None /\ r.backfill \in Backfills
      BY <1>2, <1>a DEF ListingFails, InDiscovery
    <2>2. bstate' \in [Backfills -> BackfillStates]
      BY <1>2, <2>1 DEF ListingFails, StateAfterFailedListing, TypeOK, TablesTypeOK,
         BackfillStates
    <2>3. note' \subseteq Backfills
      BY <1>2, <2>1 DEF ListingFails, TypeOK, TablesTypeOK
    <2> QED
      BY <1>0, <1>2, <2>2, <2>3, TypesKept DEF ListingFails, TypeOK, TablesTypeOK
  <1>3. CASE ReadState
    <2>1. r # None /\ r \in Discovery
      BY <1>3, <1>a DEF ReadState, InDiscovery
    <2>2. StepAt(1) \in {"look", "count"}
      BY DEF StepAt
    <2>3. discovery' \in Discovery
      <3>1. /\ (bstate[r.backfill] = "canceled") \in BOOLEAN
            /\ (SourceOf[r.backfill] \in automatic) \in BOOLEAN
        OBVIOUS
      <3> QED
        BY <1>3, <2>1, <2>2, <3>1, DiscoveryTypes DEF ReadState
    <2> QED
      BY <1>0, <1>3, <2>3, TypesKept DEF ReadState, TypeOK, TablesTypeOK, tables
  <1>4. CASE LookUp
    <2>1. r \in Discovery /\ DiscoverySource \in Sources /\ Listed \in Videos
      BY <1>4, <1>a, <1>b DEF LookUp, InDiscovery, AtEntry
    <2>2. status' \in [Sources -> [Videos -> Statuses]]
      BY <1>4, <2>1, UpsertEffect DEF LookUp
    <2>3. status[DiscoverySource][Listed] \in Statuses
      BY <2>1 DEF TypeOK, TablesTypeOK
    <2>4. discovery' \in Discovery
      BY <1>4, <2>1, <2>3, DiscoveryTypes DEF LookUp
    <2> QED
      BY <1>0, <1>4, <2>2, <2>4, TypesKept DEF LookUp, TypeOK, TablesTypeOK
  <1>5. CASE RecordEntry
    <2>1. r \in Discovery /\ r.backfill \in Backfills /\ Listed \in Videos /\ r.at \in Nat
      BY <1>5, <1>a, <1>b, DiscoveryTypes DEF RecordEntry, InDiscovery, AtEntry
    <2>2. discovery' \in Discovery
      BY <1>5, <2>1, DiscoveryTypes DEF RecordEntry, DiscoverySteps
    <2>3. position' \in [Backfills -> [Videos -> Nat]]
      <3>1. position' \in {position, [position EXCEPT ![r.backfill][Listed] = r.at]}
        BY <1>5 DEF RecordEntry
      <3>2. [position EXCEPT ![r.backfill][Listed] = r.at] \in [Backfills -> [Videos -> Nat]]
        BY <2>1 DEF TypeOK, TablesTypeOK
      <3> QED
        BY <3>1, <3>2 DEF TypeOK, TablesTypeOK
    <2>4. selected' \in [Backfills -> SUBSET Videos]
      <3>1. selected' \in {selected, [selected EXCEPT ![r.backfill] = @ \cup {Listed}]}
        BY <1>5 DEF RecordEntry
      <3>2. selected \in [Backfills -> SUBSET Videos]
        BY DEF TypeOK, TablesTypeOK
      <3>3. [selected EXCEPT ![r.backfill] = @ \cup {Listed}] \in [Backfills -> SUBSET Videos]
        BY <2>1, <3>2
      <3> QED
        BY <3>1, <3>2, <3>3
    <2>5. setting' = setting
      BY <1>5 DEF RecordEntry
    <2> QED
      BY <1>0, <1>5, <2>2, <2>3, <2>4, <2>5, TypesKept DEF RecordEntry, TypeOK, TablesTypeOK
  <1>6. CASE DecideEntry
    <2>1. r # None /\ r \in Discovery /\ DiscoverySource \in Sources /\ Listed \in Videos
      BY <1>6, <1>a, <1>b DEF DecideEntry, InDiscovery, AtEntry
    <2>2. discovery' \in Discovery
      <3>1. CASE discovery' = NextEntry
        BY <3>1, <2>1, NextEntryTypes
      <3>2. CASE \E d \in Statuses : discovery' = [discovery EXCEPT !.step = "mark", !.seen = d]
        <4>1. PICK d \in Statuses : discovery' = [discovery EXCEPT !.step = "mark", !.seen = d]
          BY <3>2
        <4> QED
          BY <4>1, <2>1, DiscoveryTypes
      <3>3. \A d \in Decision(DiscoverySource, Listed, r.own) : d \in Statuses
        BY <2>1, DecisionTypes DEF Statuses, Outcomes, Processed, Pending
      <3> QED
        BY <1>6, <3>1, <3>2, <3>3 DEF DecideEntry, Statuses
    <2> QED
      BY <1>0, <1>6, <2>2, TypesKept DEF DecideEntry, TypeOK, TablesTypeOK, tables
  <1>7. CASE MarkEntry
    <2>1. r # None /\ r \in Discovery /\ DiscoverySource \in Sources /\ Listed \in Videos
      BY <1>7, <1>a, <1>b DEF MarkEntry, InDiscovery, AtEntry
    <2>2. r.seen \in Statuses /\ "queued" \in Statuses
      BY <2>1, DiscoveryTypes DEF Statuses, Pending
    <2>3. status' \in [Sources -> [Videos -> Statuses]] /\ origin' \in [Sources -> [Videos -> Origins]]
      <3>1. CASE r.seen = "queued"
        <4>1. Queue(DiscoverySource, Listed, "history")
          BY <1>7, <3>1 DEF MarkEntry
        <4> QED
          BY <4>1, <2>1, <2>2, QueueEffect, MarkEffect
      <3>2. CASE r.seen # "queued"
        BY <1>7, <2>1, <2>2, <3>2, MarkEffect DEF MarkEntry, TypeOK, TablesTypeOK
      <3> QED
        BY <3>1, <3>2
    <2>4. discovery' \in Discovery
      BY <1>7, <2>1, NextEntryTypes DEF MarkEntry
    <2> QED
      BY <1>0, <1>7, <2>3, <2>4, TypesKept DEF MarkEntry, TypeOK, TablesTypeOK
  <1>8. CASE CountSnapshot
    <2>1. r # None /\ r \in Discovery /\ r.backfill \in Backfills
      BY <1>8, <1>a DEF CountSnapshot, InDiscovery
    <2>2. bstate' \in [Backfills -> BackfillStates]
      BY <1>8, <2>1 DEF CountSnapshot, StateAfterSnapshot, TypeOK, TablesTypeOK,
         BackfillStates, Live
    <2>3. note' \subseteq Backfills
      BY <1>8, <2>1 DEF CountSnapshot, TypeOK, TablesTypeOK
    <2>4. discovery' \in Discovery
      BY <1>8, <2>1, DiscoveryTypes DEF CountSnapshot, DiscoverySteps
    <2> QED
      BY <1>0, <1>8, <2>2, <2>3, <2>4, TypesKept DEF CountSnapshot, TypeOK, TablesTypeOK
  <1>9. CASE RefreshSnapshot
    <2>1. bstate' \in [Backfills -> BackfillStates]
      <3>1. Refresh(SnapshotRefreshes) /\ setting' = setting
        BY <1>9 DEF RefreshSnapshot
      <3>2. bstate' \in [Backfills' -> BackfillStates]
        BY <3>1, RefreshEffect
      <3> QED
        BY <3>1, <3>2 DEF Backfills, ScopeOf
    <2> QED
      BY <1>0, <1>9, <2>1, TypesKept DEF RefreshSnapshot, TypeOK, TablesTypeOK
  <1>10. CASE DiscoveryFails
    <2>1. faults' \in 0..MaxFaults
      BY <1>10, SettingFacts DEF DiscoveryFails, TypeOK
    <2> QED
      BY <1>0, <1>10, <2>1, TypesKept DEF DiscoveryFails, TypeOK, TablesTypeOK, tables
  <1> QED
    BY <1>1, <1>2, <1>3, <1>4, <1>5, <1>6, <1>7, <1>8, <1>9, <1>10 DEF DiscoveryStep

LEMMA PlacedStays ==
  ASSUME Typed, DiscoveryStep \/ DiscoveryFails
  PROVE  Placed'
  <1>a. discovery # None => /\ discovery \in Discovery /\ discovery.at \in Nat
                            /\ Len(discovery.listing) \in Nat
    BY ListingFacts, DiscoveryTypes DEF Typed
  <1>b. \A at \in Nat : discovery # None /\ at >= 1 /\ StepAt(at) \in AtEntry =>
          at \in 1..Len(discovery.listing)
    BY <1>a DEF StepAt, AtEntry
  <1>1. CASE PickBackfill
    BY <1>1 DEF PickBackfill, Placed, AtEntry
  <1>2. CASE discovery' = None
    BY <1>2 DEF Placed
  <1>3. CASE ReadState
    <2>1. discovery # None /\ discovery.step = "list" /\ discovery.at = 1
      BY <1>3 DEF ReadState, InDiscovery, Typed, Placed
    <2>2. discovery'.at = 1 /\ discovery'.step = StepAt(1) /\ discovery'.listing = discovery.listing
      BY <1>3, <1>a, <2>1 DEF ReadState, Discovery, Listing
    <2>3. StepAt(1) # "list"
      BY DEF StepAt
    <2> QED
      BY <1>b, <2>1, <2>2, <2>3 DEF Placed
  <1>4. ASSUME discovery # None, discovery.step \in AtEntry, discovery' = NextEntry
        PROVE  Placed'
    <2>1. /\ discovery'.at = discovery.at + 1 /\ discovery'.step = StepAt(discovery.at + 1)
          /\ discovery'.listing = discovery.listing
      BY <1>a, <1>4 DEF NextEntry, Discovery, Listing
    <2>2. StepAt(discovery.at + 1) # "list"
      BY DEF StepAt
    <2>3. discovery.at + 1 \in Nat /\ discovery.at + 1 >= 1
      BY <1>a, <1>4
    <2> QED
      BY <1>b, <1>4, <2>1, <2>2, <2>3 DEF Placed
  <1>5. ASSUME discovery # None, discovery.step \in AtEntry, discovery'.step # "list",
               discovery'.at = discovery.at, discovery'.listing = discovery.listing
        PROVE  Placed'
    BY <1>5 DEF Typed, Placed
  <1>6. CASE LookUp
    <2>1. discovery # None /\ discovery.step \in AtEntry
      BY <1>6 DEF LookUp, InDiscovery, AtEntry
    <2>2. /\ discovery'.at = discovery.at /\ discovery'.listing = discovery.listing
          /\ discovery'.step = "entry"
      BY <1>6, <1>a, <2>1 DEF LookUp, Discovery, Listing
    <2> QED
      BY <1>5, <2>1, <2>2
  <1>7. CASE RecordEntry
    <2>1. discovery # None /\ discovery.step \in AtEntry
      BY <1>7 DEF RecordEntry, InDiscovery, AtEntry
    <2>2. /\ discovery'.at = discovery.at /\ discovery'.listing = discovery.listing
          /\ discovery'.step = "queue"
      BY <1>7, <1>a, <2>1 DEF RecordEntry, Discovery, Listing
    <2> QED
      BY <1>5, <2>1, <2>2
  <1>8. CASE DecideEntry
    <2>1. discovery # None /\ discovery.step \in AtEntry
      BY <1>8 DEF DecideEntry, InDiscovery, AtEntry
    <2>2. CASE \E d : discovery' = [discovery EXCEPT !.step = "mark", !.seen = d]
      <3>1. /\ discovery'.at = discovery.at /\ discovery'.listing = discovery.listing
            /\ discovery'.step = "mark"
        BY <1>a, <2>1, <2>2 DEF Discovery, Listing
      <3> QED
        BY <1>5, <2>1, <3>1
    <2> QED
      BY <1>4, <1>8, <2>1, <2>2 DEF DecideEntry
  <1>9. CASE MarkEntry
    BY <1>4, <1>9 DEF MarkEntry, InDiscovery, AtEntry
  <1>10. CASE CountSnapshot
    <2>1. discovery # None /\ discovery'.step = "refresh"
      BY <1>10, <1>a DEF CountSnapshot, InDiscovery, Discovery, Listing
    <2> QED
      BY <2>1 DEF Placed, AtEntry
  <1> QED
    BY <1>1, <1>2, <1>3, <1>6, <1>7, <1>8, <1>9, <1>10
    DEF DiscoveryStep, DiscoveryFails, ListingFails, RefreshSnapshot

LEMMA DispatcherStepTypes ==
  ASSUME Typed, DispatcherStep \/ ProcessingFails \/ DispatcherFails
  PROVE  TypeOK' /\ Settled'
  <1> USE DEF Origins
  <1>a. TypeOK /\ setting \in Settings
    BY DEF Typed, TypeOK, TablesTypeOK
  <1>b. job # None => /\ job \in Job /\ job.source \in Sources /\ job.video \in Videos
    BY <1>a DEF TypeOK, Job
  <1>c. \A x \in {"process", "refresh"} : job # None =>
          /\ [job EXCEPT !.step = x] \in Job
          /\ [job EXCEPT !.step = x].step # "settle"
    BY <1>b DEF Job
  <1>d. ASSUME job # None, NEW st \in Statuses, Mark(job.source, job.video, st)
        PROVE  status' \in [Sources -> [Videos -> Statuses]]
    BY <1>a, <1>b, <1>d, MarkEffect
  <1>1. ASSUME NEW s \in Sources, NEW v \in Videos, NEW class \in Origins,
               Claimed(class, s, v), turn' \in Origins
        PROVE  TypeOK' /\ Settled'
    <2>1. status' \in [Sources -> [Videos -> Statuses]]
      BY <1>1, <1>a, MarkEffect DEF Claimed, Statuses, Pending
    <2>2. job' \in Job /\ job'.step = "admit"
      BY <1>1 DEF Claimed, Job
    <2>3. TypeOK'
      BY <1>a, <1>1, <2>1, <2>2, TypesKept DEF Claimed, TypeOK, TablesTypeOK
    <2> QED
      BY <2>2, <2>3 DEF Settled
  <1>2. CASE ClaimNew
    <2>1. PICK e \in QueuedNew : Claimed("new", e[1], e[2])
      BY <1>2 DEF ClaimNew
    <2>2. e[1] \in Sources /\ e[2] \in Videos
      BY DEF QueuedNew
    <2> QED
      BY <1>1, <1>2, <2>1, <2>2 DEF ClaimNew
  <1>3. CASE ClaimHistory
    <2>1. PICK e \in QueuedHistory : Claimed("history", SourceOf[e[1]], e[2])
      BY <1>3 DEF ClaimHistory
    <2>2. e[1] \in Backfills /\ e[2] \in Videos
      BY DEF QueuedHistory
    <2>3. SourceOf[e[1]] \in Sources
      BY <1>a, <2>2, SettingFacts
    <2> QED
      BY <1>1, <1>3, <2>1, <2>2, <2>3 DEF ClaimHistory
  <1>4. CASE AdmitClaimed
    <2>1. job # None
      BY <1>4 DEF AdmitClaimed, InJob
    <2>2. job' \in Job /\ job'.step # "settle"
      BY <1>4, <1>c, <2>1 DEF AdmitClaimed
    <2>3. status' \in [Sources -> [Videos -> Statuses]]
      <3>1. ProcessedElsewhere(job.source, job.video) \subseteq Statuses
        BY DEF ProcessedElsewhere, Processed, Statuses, Outcomes
      <3> QED
        BY <1>4, <1>a, <1>d, <2>1, <3>1 DEF AdmitClaimed, TypeOK, TablesTypeOK
    <2>4. TypeOK'
      BY <1>a, <1>4, <2>2, <2>3, TypesKept DEF AdmitClaimed, TypeOK, TablesTypeOK
    <2> QED
      BY <2>2, <2>4 DEF Settled
  <1>5. CASE ProcessClaimed
    <2>1. job # None
      BY <1>5 DEF ProcessClaimed, InJob
    <2>2. PICK r \in Results :
            /\ Mark(job.source, job.video, StatusFor(r))
            /\ job' = IF r \in Outcomes THEN [job EXCEPT !.step = "settle", !.verdict = r]
                                        ELSE [job EXCEPT !.step = "refresh"]
      BY <1>5 DEF ProcessClaimed
    <2>3. StatusFor(r) \in Statuses
      BY ResultsAssumption DEF StatusFor, Outcomes, Processed, Statuses
    <2>4. status' \in [Sources -> [Videos -> Statuses]]
      BY <1>d, <2>1, <2>2, <2>3
    <2>5. job' \in Job /\ (job'.step = "settle" => job'.verdict \in Outcomes)
      <3>1. CASE r \in Outcomes
        BY <1>b, <2>1, <2>2, <3>1 DEF Job
      <3>2. CASE r \notin Outcomes
        BY <1>c, <2>1, <2>2, <3>2
      <3> QED
        BY <3>1, <3>2
    <2>6. TypeOK'
      BY <1>a, <1>5, <2>4, <2>5, TypesKept DEF ProcessClaimed, TypeOK, TablesTypeOK
    <2> QED
      BY <2>5, <2>6 DEF Settled
  <1>6. CASE SettleElsewhere
    <2>1. job # None /\ job.verdict \in Outcomes
      BY <1>6 DEF SettleElsewhere, InJob, Typed, Settled
    <2>2. status' = [s \in Sources |->
               [status[s] EXCEPT ![job.video] = IF @ = "awaiting_review" THEN job.verdict ELSE @]]
      BY <1>6 DEF SettleElsewhere, SettlePending
    <2>3. status' \in [Sources -> [Videos -> Statuses]]
      <3>1. job.verdict \in Statuses
        BY <2>1 DEF Statuses
      <3>2. \A s \in Sources : status[s] \in [Videos -> Statuses]
        BY <1>a DEF TypeOK, TablesTypeOK
      <3>3. \A s \in Sources :
              [status[s] EXCEPT ![job.video] = IF @ = "awaiting_review" THEN job.verdict ELSE @]
                \in [Videos -> Statuses]
        BY <3>1, <3>2
      <3> QED
        BY <2>2, <3>3
    <2>4. job' \in Job /\ job'.step # "settle"
      BY <1>6, <1>c, <2>1 DEF SettleElsewhere
    <2>5. TypeOK'
      BY <1>a, <1>6, <2>3, <2>4, TypesKept DEF SettleElsewhere, TypeOK, TablesTypeOK
    <2> QED
      BY <2>4, <2>5 DEF Settled
  <1>7. CASE RefreshForItem
    <2>1. PICK B : Refresh(B)
      BY <1>7 DEF RefreshForItem
    <2>2. bstate' \in [Backfills -> BackfillStates]
      BY <1>7, <1>a, <2>1, RefreshTypes DEF RefreshForItem
    <2>3. TypeOK'
      BY <1>a, <1>7, <2>2, TypesKept DEF RefreshForItem, TypeOK, TablesTypeOK
    <2> QED
      BY <1>7, <2>3 DEF Settled, RefreshForItem
  <1>8. CASE ProcessingFails
    <2>1. job # None
      BY <1>8 DEF ProcessingFails
    <2>2. "failed" \in Statuses
      BY DEF Statuses, Outcomes
    <2>3. status' \in [Sources -> [Videos -> Statuses]]
      BY <1>8, <1>d, <2>1, <2>2 DEF ProcessingFails
    <2>4. job' \in Job /\ job'.step # "settle"
      BY <1>8, <1>c, <2>1 DEF ProcessingFails
    <2>5. faults' \in 0..MaxFaults
      BY <1>8, <1>a, SettingFacts DEF ProcessingFails, TypeOK
    <2>6. TypeOK'
      BY <1>a, <1>8, <2>3, <2>4, <2>5, TypesKept DEF ProcessingFails, TypeOK, TablesTypeOK
    <2> QED
      BY <2>4, <2>6 DEF Settled
  <1>9. CASE DispatcherFails
    <2>1. faults' \in 0..MaxFaults
      BY <1>9, <1>a, SettingFacts DEF DispatcherFails, TypeOK
    <2>2. TypeOK'
      BY <1>a, <1>9, <2>1, TypesKept DEF DispatcherFails, TypeOK, TablesTypeOK, tables
    <2> QED
      BY <1>9, <2>2 DEF Settled, DispatcherFails
  <1> QED
    BY <1>2, <1>3, <1>4, <1>5, <1>6, <1>7, <1>8, <1>9 DEF DispatcherStep

LEMMA UserStepTypes ==
  ASSUME TypeOK,
         \/ \E b \in Backfills : StartBackfill(b)
         \/ \E u \in Users : ControlStep(u)
         \/ \E s \in Switchable : SetPolicy(s)
  PROVE  TypeOK'
  <1>a. setting \in Settings
    BY DEF TypeOK, TablesTypeOK
  <1>b. ASSUME NEW u \in Users, control[u] # None
        PROVE  /\ control[u] \in Control /\ control[u].backfill \in Backfills
               /\ control[u].action \in Actions
               /\ [control[u] EXCEPT !.step = "refresh"] \in Control
    <2>1. control[u] \in Control
      BY <1>b DEF TypeOK
    <2> QED
      BY <2>1 DEF Control
  <1>1. ASSUME NEW b \in Backfills, StartBackfill(b)
        PROVE  TypeOK'
    <2>1. bstate' \in [Backfills -> BackfillStates]
      BY <1>1 DEF StartBackfill, TypeOK, TablesTypeOK, BackfillStates
    <2> QED
      BY <1>1, <1>a, <2>1, TypesKept DEF StartBackfill, TypeOK, TablesTypeOK, workers
  <1>2. ASSUME NEW u \in Users, NEW b \in Backfills, NEW a \in Actions, ReadForControl(u, b, a)
        PROVE  TypeOK'
    <2>1. [backfill |-> b, action |-> a, step |-> "write"] \in Control
      BY DEF Control
    <2>2. control' \in [Users -> Control \cup {None}]
      BY <1>2, <2>1 DEF ReadForControl, TypeOK
    <2> QED
      BY <1>2, <1>a, <2>2, TypesKept DEF ReadForControl, TypeOK, TablesTypeOK, tables
  <1>3. ASSUME NEW u \in Users, WriteControl(u)
        PROVE  TypeOK'
    <2> DEFINE b == control[u].backfill
    <2> DEFINE a == control[u].action
    <2>1. b \in Backfills /\ a \in Actions /\ SourceOf[b] \in Sources
      BY <1>3, <1>b, SettingFacts DEF WriteControl
    <2>2. bstate' \in [Backfills -> BackfillStates]
      <3>1. StateAfter(a) \in BackfillStates
        BY <2>1 DEF StateAfter, Actions, BackfillStates, Live
      <3> QED
        BY <1>3, <2>1, <3>1 DEF WriteControl, TypeOK, TablesTypeOK
    <2>3. control' \in [Users -> Control \cup {None}]
      <3>1. control' = [control EXCEPT ![u] =
                          IF a = "resume" THEN [control[u] EXCEPT !.step = "refresh"] ELSE None]
        BY <1>3 DEF WriteControl
      <3>2. [control[u] EXCEPT !.step = "refresh"] \in Control
        BY <1>3, <1>b DEF WriteControl
      <3> QED
        BY <3>1, <3>2 DEF TypeOK
    <2>4. status' \in [Sources -> [Videos -> Statuses]] /\ frozen' \in [Backfills -> SUBSET Videos]
      <3>1. CASE a = "cancel"
        <4>1. Release(b)
          BY <1>3, <3>1 DEF WriteControl
        <4>2. NotStarted(b) \subseteq Videos
          BY <2>1 DEF NotStarted, Wanted, TypeOK, TablesTypeOK
        <4>3. frozen' \in [Backfills -> SUBSET Videos]
          BY <2>1, <4>1, <4>2 DEF Release, TypeOK, TablesTypeOK
        <4>4. "canceled" \in Statuses
          BY DEF Statuses
        <4>5. status' \in [Sources -> [Videos -> Statuses]]
          BY <2>1, <4>1, <4>4 DEF Release, TypeOK, TablesTypeOK
        <4> QED
          BY <4>3, <4>5
      <3>2. CASE a # "cancel"
        BY <1>3, <3>2 DEF WriteControl, TypeOK, TablesTypeOK
      <3> QED
        BY <3>1, <3>2
    <2> QED
      BY <1>3, <1>a, <2>2, <2>3, <2>4, TypesKept DEF WriteControl, TypeOK, TablesTypeOK
  <1>4. ASSUME NEW u \in Users, RefreshResumed(u)
        PROVE  TypeOK'
    <2>1. bstate' \in [Backfills -> BackfillStates]
      BY <1>4, RefreshTypes DEF RefreshResumed
    <2>2. control' \in [Users -> Control \cup {None}]
      BY <1>4 DEF RefreshResumed, TypeOK
    <2> QED
      BY <1>4, <1>a, <2>1, <2>2, TypesKept DEF RefreshResumed, TypeOK, TablesTypeOK
  <1>5. ASSUME NEW s \in Switchable, SetPolicy(s)
        PROVE  TypeOK'
    BY <1>5, <1>a, SettingFacts, TypesKept DEF SetPolicy, TypeOK, TablesTypeOK, workers
  <1> QED
    BY <1>1, <1>2, <1>3, <1>4, <1>5 DEF ControlStep

LEMMA OtherStepTypes ==
  ASSUME TypeOK, ApprovalStep \/ Stop \/ Start
  PROVE  TypeOK'
  <1>a. setting \in Settings
    BY DEF TypeOK, TablesTypeOK
  <1>b. approval # None => [approval EXCEPT !.step = "refresh"] \in Approval
    BY DEF TypeOK, Approval
  <1>1. ASSUME NEW s \in Sources, NEW v \in Videos, Approve(s, v)
        PROVE  TypeOK'
    <2>1. approval' \in Approval
      BY <1>1 DEF Approve, Approval
    <2> QED
      BY <1>1, <1>a, <2>1, TypesKept DEF Approve, TypeOK, TablesTypeOK, tables
  <1>2. CASE ProcessApproved
    <2>1. approval' \in Approval \cup {None}
      BY <1>2, <1>b DEF ProcessApproved
    <2>2. PICK r \in Results : r \in {"error", "missing"} \/ status' =
            [s \in Sources |-> [status[s] EXCEPT ![approval.video] =
               IF s = approval.source \/ @ = "awaiting_review" THEN r ELSE @]]
      BY <1>2 DEF ProcessApproved
    <2>3. status' \in [Sources -> [Videos -> Statuses]]
      <3>1. CASE status' = status
        BY <3>1 DEF TypeOK, TablesTypeOK
      <3>2. ASSUME NEW x \in Results \ {"error", "missing"},
                   status' = [s \in Sources |-> [status[s] EXCEPT ![approval.video] =
                     IF s = approval.source \/ @ = "awaiting_review" THEN x ELSE @]]
            PROVE  status' \in [Sources -> [Videos -> Statuses]]
        <4>1. x \in Statuses
          BY ResultsAssumption DEF Statuses
        <4> QED
          BY <3>2, <4>1 DEF TypeOK, TablesTypeOK
      <3> QED
        BY <1>2, <3>1, <3>2 DEF ProcessApproved
    <2> QED
      BY <1>2, <1>a, <2>1, <2>3, TypesKept DEF ProcessApproved, TypeOK, TablesTypeOK
  <1>3. CASE RefreshApproved
    <2>1. PICK B : Refresh(B)
      BY <1>3 DEF RefreshApproved
    <2>2. bstate' \in [Backfills -> BackfillStates]
      BY <1>3, <2>1, RefreshTypes DEF RefreshApproved
    <2> QED
      BY <1>3, <1>a, <2>2, TypesKept DEF RefreshApproved, TypeOK, TablesTypeOK
  <1>4. CASE Stop
    <2>1. faults' \in 0..MaxFaults
      BY <1>4, SettingFacts DEF Stop, TypeOK
    <2> QED
      BY <1>4, <1>a, <2>1, TypesKept DEF Stop, TypeOK, TablesTypeOK, tables, Origins
  <1>5. CASE Start
    <2>1. "queued" \in Statuses
      BY DEF Statuses, Pending
    <2>2. status' \in [Sources -> [Videos -> Statuses]]
      BY <1>5, <2>1 DEF Start, TypeOK, TablesTypeOK
    <2> QED
      BY <1>5, <1>a, <2>2, TypesKept DEF Start, TypeOK, TablesTypeOK
  <1> QED
    BY <1>1, <1>2, <1>3, <1>4, <1>5 DEF ApprovalStep

\* Types are kept, whoever else changes item rows.
LEMMA TypedStays ==
  ASSUME Typed, [Next]_vars
  PROVE  Typed'
  <1>1. CASE DiscoveryStep \/ DiscoveryFails
    <2>1. job' = job
      BY <1>1 DEF DiscoveryStep, DiscoveryFails, PickBackfill, ListingFails, ReadState, LookUp,
         RecordEntry, DecideEntry, MarkEntry, CountSnapshot, RefreshSnapshot
    <2> QED
      BY <1>1, <2>1, DiscoveryStepTypes, PlacedStays DEF Typed, Settled
  <1>2. CASE DispatcherStep \/ ProcessingFails \/ DispatcherFails
    <2>1. discovery' = discovery
      BY <1>2 DEF DispatcherStep, ProcessingFails, DispatcherFails, ClaimNew, ClaimHistory,
         Claimed,
         AdmitClaimed, ProcessClaimed, SettleElsewhere, RefreshForItem
    <2> QED
      BY <1>2, <2>1, DispatcherStepTypes DEF Typed, Placed
  <1>3. CASE \/ \E b \in Backfills : StartBackfill(b)
             \/ \E u \in Users : ControlStep(u)
             \/ \E s \in Switchable : SetPolicy(s)
    <2>1. discovery' = discovery /\ job' = job
      BY <1>3 DEF StartBackfill, ControlStep, ReadForControl, WriteControl, RefreshResumed,
         SetPolicy, workers
    <2> QED
      BY <1>3, <2>1, UserStepTypes DEF Typed, Placed, Settled
  <1>4. CASE ApprovalStep \/ Stop \/ Start
    <2>1. (discovery' = discovery /\ job' = job) \/ (discovery' = None /\ job' = None)
      BY <1>4 DEF ApprovalStep, Approve, ProcessApproved, RefreshApproved, Stop, Start
    <2> QED
      BY <1>4, <2>1, OtherStepTypes DEF Typed, Placed, Settled
  <1>5. CASE UNCHANGED vars
    BY <1>5, TypesKept DEF Typed, TypeOK, TablesTypeOK, Placed, Settled, vars, tables, workers
  <1> QED
    BY <1>1, <1>2, <1>3, <1>4, <1>5 DEF Next

---------------------------------------------------------------------------
(* What every step but those of the discovery worker leaves alone.         *)

RowsMove ==
  \A s \in Sources, v \in Videos :
    \/ status'[s][v] = status[s][v]
    \/ /\ status[s][v] \notin Unhandled
       /\ status'[s][v] \notin Unhandled \cup {"awaiting_review"}
       /\ status[s][v] \notin Pending => status'[s][v] \notin Pending
       /\ Separate /\ status[s][v] \notin Pending \cup {"awaiting_review"} =>
            status'[s][v] = "failed" /\ faults' # faults

RequestsMove ==
  \A b \in Backfills :
    \/ bstate'[b] = bstate[b]
    \/ bstate[b] = "absent" /\ bstate'[b] = "discovering"
    \/ bstate[b] \in Live /\ bstate'[b] \in Live \cup {"partial", "completed"}
    \/ \E u \in Users : /\ Steers(u, b) /\ control' # control
                       /\ bstate'[b] = StateAfter(control[u].action)

ControlsMove ==
  \A u \in Users, b \in Backfills : Steers(u, b)' =>
    \/ control'[u] = control[u]
    \/ /\ control'[u].action \in Actions
       /\ bstate[b] \in Allowed(control'[u].action) /\ bstate'[b] = bstate[b]

Frame ==
  /\ UNCHANGED <<setting, selected>>
  /\ automatic' = automatic \/ (automatic' \subseteq automatic \cup Switchable /\ Switchable # {})
  /\ faults' \in Nat /\ faults' >= faults
  /\ discovery' = discovery \/ (discovery' = None /\ faults' # 0)
  /\ RowsMove /\ RequestsMove /\ ControlsMove

LEMMA StaticFacts ==
  ASSUME setting' = setting
  PROVE  /\ SourceOf' = SourceOf /\ ScopeOf' = ScopeOf /\ Backfills' = Backfills
         /\ Listings' = Listings /\ Switchable' = Switchable /\ Automatic' = Automatic
         /\ Excluded' = Excluded /\ Trusted' = Trusted /\ Separate' = Separate
         /\ \A b : Repeatable(b)' = Repeatable(b)
         /\ \A b, v : AnyPlace(b, v)' = AnyPlace(b, v)
  BY DEF SourceOf, ScopeOf, Backfills, Listings, Switchable, Automatic, Excluded, Trusted,
         Separate, Repeatable, AnyPlace

\* A row that was handled stays so, and no row disappears.
LEMMA FrameRows ==
  ASSUME IInv, Frame
  PROVE  /\ \A b \in Backfills : Complete(b) => Complete(b)'
         /\ \A b \in Backfills, v \in Videos : Handled(b, v) => Handled(b, v)'
         /\ \A b \in Backfills : Sure(b)' => Sure(b)
         /\ \A s \in Sources, v \in Videos : AllowedBy(s, v) => AllowedBy(s, v)'
  <1> USE StaticFacts DEF Frame
  <1>1. \A b \in Backfills : SourceOf[b] \in Sources /\ selected[b] \subseteq Videos
    BY SettingFacts DEF IInv, Typed, TypeOK, TablesTypeOK
  <1>2. \A b \in Backfills, v \in Videos : Handled(b, v) => Handled(b, v)'
    BY <1>1 DEF RowsMove, Handled, RowOf
  <1>3. faults \in Nat
    BY SettingFacts DEF IInv, Typed, TypeOK
  <1>4. \A b \in Backfills : Sure(b)' => Sure(b)
    BY <1>3 DEF Sure
  <1>5. \A b \in Backfills : Complete(b) => Complete(b)'
    BY <1>1, <1>2, <1>4 DEF Complete
  <1>6. Trusted \subseteq Sources
    BY SettingFacts DEF IInv, Typed, Trusted
  <1>7. \A o \in Sources, v \in Videos : RowOf(o, v) # "absent" => RowOf(o, v)' # "absent"
    BY DEF RowsMove, RowOf, Unhandled
  <1>8. \A s \in Sources, v \in Videos : AllowedBy(s, v) => AllowedBy(s, v)'
    BY <1>6, <1>7 DEF AllowedBy
  <1> QED
    BY <1>2, <1>4, <1>5, <1>8

LEMMA FrameRequests ==
  ASSUME IInv, Frame
  PROVE  ListingSound' /\ ControlSound'
  <1> USE StaticFacts DEF Frame
  <1>0. /\ \A b \in Backfills : bstate[b] \in BackfillStates
        /\ \A u \in Users : control[u] \in Control \cup {None}
    BY DEF IInv, Typed, TypeOK, TablesTypeOK
  <1>1. \A u \in Users, b \in Backfills : Steers(u, b) => control[u].action \in Actions
    BY <1>0 DEF Steers, Control
  <1>2. \A b \in Backfills : bstate'[b] \in {"absent", "discovering"} =>
          bstate[b] \in {"absent", "discovering"}
    BY <1>1 DEF RequestsMove, Live, StateAfter, Actions
  <1>3. ListingSound'
    <2> SUFFICES ASSUME discovery' # None
                 PROVE  ListingSound'
      BY DEF ListingSound
    <2>0. discovery' = discovery /\ discovery # None
      OBVIOUS
    <2> DEFINE b == discovery.backfill
    <2>1. b \in Backfills /\ DiscoverySource \in Sources
      BY <2>0, ListingFacts DEF IInv, Typed
    <2>2. discovery.step \in Recording \cup {"list"} =>
            /\ bstate'[b] \in {"discovering", "canceled"}
            /\ \A u \in Users : Steers(u, b)' => control'[u].action = "cancel"
      <3> SUFFICES ASSUME discovery.step \in Recording \cup {"list"}
                   PROVE  /\ bstate'[b] \in {"discovering", "canceled"}
                          /\ \A u \in Users : Steers(u, b)' => control'[u].action = "cancel"
        OBVIOUS
      <3>1. /\ bstate[b] \in {"discovering", "canceled"}
            /\ \A u \in Users : Steers(u, b) => control[u].action = "cancel"
        BY <2>0 DEF IInv, Typed, ListingSound
      <3>2. bstate'[b] \in {"discovering", "canceled"}
        BY <2>1, <3>1 DEF RequestsMove, Live, StateAfter
      <3>3. ASSUME NEW u \in Users, Steers(u, b)'
            PROVE  control'[u].action = "cancel"
        <4>1. CASE control'[u] = control[u]
          BY <4>1, <3>1, <3>3 DEF Steers
        <4>2. CASE control'[u].action \in Actions /\ bstate[b] \in Allowed(control'[u].action)
          BY <4>2, <3>1 DEF Allowed, Actions
        <4> QED
          BY <4>1, <4>2, <2>1, <3>3 DEF ControlsMove
      <3> QED
        BY <3>2, <3>3
    <2>3. discovery.step = "refresh" => bstate'[b] \notin {"absent", "discovering"}
      BY <2>0, <2>1, <1>2 DEF IInv, Typed, ListingSound
    <2>4. discovery.canceled /\ discovery.step \in Recording => bstate'[b] = "canceled"
      <3>1. SUFFICES ASSUME discovery.canceled, discovery.step \in Recording
                     PROVE  bstate'[b] = "canceled"
        OBVIOUS
      <3>2. /\ bstate[b] = "canceled"
            /\ \A u \in Users : Steers(u, b) => control[u].action = "cancel"
        BY <2>0, <3>1 DEF IInv, Typed, ListingSound
      <3> QED
        BY <2>1, <3>2 DEF RequestsMove, Live, StateAfter
    <2>5. DiscoverySource' = DiscoverySource
      BY <2>0 DEF DiscoverySource
    <2>6. /\ discovery.step = "count" => discovery.at > Len(discovery.listing)
          /\ discovery.own => DiscoverySource \in Trusted
      BY <2>0 DEF IInv, Typed, ListingSound
    <2> QED
      BY <2>0, <2>2, <2>3, <2>4, <2>5, <2>6 DEF ListingSound
  <1>4. ControlSound'
    <2> SUFFICES ASSUME NEW u \in Users, NEW b \in Backfills, Steers(u, b)',
                        control'[u].action # "cancel"
                 PROVE  bstate'[b] \notin {"absent", "discovering"} /\ Complete(b)'
      BY DEF ControlSound
    <2>1. CASE control'[u] = control[u]
      <3>1. Steers(u, b)
        BY <2>1 DEF Steers
      <3> QED
        BY <2>1, <3>1, <1>2, FrameRows DEF IInv, Typed, ControlSound
    <2>2. CASE /\ control'[u].action \in Actions
               /\ bstate[b] \in Allowed(control'[u].action) /\ bstate'[b] = bstate[b]
      <3>1. bstate[b] \in {"running", "paused"}
        BY <2>2 DEF Allowed, Actions
      <3> QED
        BY <2>2, <3>1, FrameRows DEF IInv, Typed, SelectionSound
    <2> QED
      BY <2>1, <2>2 DEF ControlsMove
  <1> QED
    BY <1>3, <1>4

LEMMA FrameSelections ==
  ASSUME IInv, Frame
  PROVE  SelectionSound'
  <1> USE StaticFacts DEF Frame
  <1>0. /\ \A b \in Backfills : bstate[b] \in BackfillStates
        /\ \A u \in Users : control[u] \in Control \cup {None}
    BY DEF IInv, Typed, TypeOK, TablesTypeOK
  <1>1. \A u \in Users, b \in Backfills : Steers(u, b) => control[u].action \in Actions
    BY <1>0 DEF Steers, Control
  <1>2. ASSUME NEW b \in Backfills,
               bstate'[b] \notin {"absent", "discovering", "failed", "canceled"}
        PROVE  Complete(b)'
    <2>1. CASE bstate'[b] = bstate[b] \/ bstate[b] \in Live
      BY <1>2, <2>1, FrameRows DEF IInv, Typed, SelectionSound, Live
    <2>2. CASE \E u \in Users : Steers(u, b) /\ bstate'[b] = StateAfter(control[u].action)
      <3>1. PICK u \in Users : Steers(u, b) /\ bstate'[b] = StateAfter(control[u].action)
        BY <2>2
      <3>2. control[u].action # "cancel"
        BY <1>2, <3>1 DEF StateAfter
      <3> QED
        BY <3>1, <3>2, FrameRows DEF IInv, Typed, ControlSound
    <2> QED
      BY <1>2, <2>1, <2>2 DEF RequestsMove
  <1>3. ASSUME NEW b \in Backfills, faults' = 0, bstate'[b] \in {"absent", "discovering"},
               discovery' # None => discovery'.backfill # b \/ discovery'.step = "list"
        PROVE  selected'[b] = {}
    <2>1. bstate[b] \in {"absent", "discovering"}
      BY <1>1, <1>3 DEF RequestsMove, Live, StateAfter, Actions
    <2>2. faults = 0 /\ discovery' = discovery
      BY <1>3, SettingFacts DEF IInv, Typed, TypeOK
    <2> QED
      BY <1>3, <2>1, <2>2 DEF IInv, Typed, SelectionSound
  <1>4. ASSUME NEW b \in Backfills, Repeatable(b), NEW v \in selected[b]
        PROVE  AnyPlace(b, v) /\ \A l \in Listings : \E i \in DOMAIN l : l[i] = v
    BY <1>4 DEF IInv, Typed, SelectionSound
  <1>5. ASSUME discovery' # None, discovery'.step \in Recording, ~discovery'.canceled,
               Sure(discovery.backfill)', NEW v \in selected'[discovery'.backfill]
        PROVE  Handled(discovery.backfill, v)' \/ ToCome(v)'
    <2>1. discovery' = discovery /\ discovery # None
      BY <1>5
    <2>2. discovery.backfill \in Backfills /\ v \in Videos
      BY <2>1, <1>5, ListingFacts DEF IInv, Typed, TypeOK, TablesTypeOK
    <2>3. Handled(discovery.backfill, v) \/ ToCome(v)
      BY <1>5, <2>1, <2>2, FrameRows DEF IInv, Typed, SelectionSound
    <2>4. ToCome(v)' = ToCome(v)
      BY <2>1 DEF ToCome, Listed, InScope, Selects
    <2> QED
      BY <2>1, <2>2, <2>3, <2>4, FrameRows
  <1> QED
    BY <1>2, <1>3, <1>4, <1>5 DEF SelectionSound

LEMMA FrameReview ==
  ASSUME IInv, Frame
  PROVE  ReviewSound' /\ SeparateRows'
  <1> USE StaticFacts DEF Frame
  <1>1. automatic' \subseteq Trusted
    BY DEF IInv, Typed, ReviewSound, Trusted
  <1>2. \A s \in Sources, v \in Videos :
          /\ status'[s][v] \in Pending => status[s][v] \in Pending
          /\ status[s][v] # "absent" => status'[s][v] # "absent"
          /\ status'[s][v] = "awaiting_review" => status[s][v] = "awaiting_review"
    BY DEF RowsMove, Unhandled
  <1>3. ReviewFirstHolds'
    <2> SUFFICES ASSUME NEW s \in Sources, NEW v \in Videos, status'[s][v] \in Pending
                 PROVE  s \in Trusted \/ \E o \in Trusted \ {s} : status'[o][v] # "absent"
      BY DEF ReviewFirstHolds
    <2>1. s \in Trusted \/ \E o \in Trusted \ {s} : status[o][v] # "absent"
      BY <1>2 DEF IInv, Typed, ReviewSound, ReviewFirstHolds
    <2>2. Trusted \subseteq Sources
      BY SettingFacts DEF IInv, Typed, Trusted
    <2> QED
      BY <1>2, <2>1, <2>2
  <1>4. SeparateRows'
    <2>1. Separate => Switchable = {}
      BY DEF Separate
    <2> QED
      BY <1>2, <2>1 DEF IInv, Typed, SeparateRows, RowOf
  <1> QED
    BY <1>1, <1>3, <1>4 DEF ReviewSound

LEMMA FrameEntry ==
  ASSUME IInv, Frame
  PROVE  EntrySound' /\ SeparateListing'
  <1> USE StaticFacts DEF Frame
  <1> SUFFICES ASSUME discovery' # None
               PROVE  EntrySound' /\ SeparateListing'
    BY DEF EntrySound, SeparateListing
  <1>0. discovery' = discovery /\ discovery # None
    OBVIOUS
  <1>1. DiscoverySource' = DiscoverySource /\ Listed' = Listed /\ InScope' = InScope
    BY <1>0 DEF DiscoverySource, Listed, InScope, Selects
  <1>2. DiscoverySource \in Sources /\ (discovery.step \in AtEntry => Listed \in Videos)
    BY <1>0, ListingFacts DEF IInv, Typed, Placed
  <1>3. discovery.step \in AtEntry =>
          \/ CurrentRow' = CurrentRow
          \/ /\ CurrentRow \notin Unhandled
             /\ CurrentRow' \notin Unhandled \cup {"awaiting_review"}
             /\ CurrentRow \notin Pending => CurrentRow' \notin Pending
             /\ Separate /\ CurrentRow \notin Pending \cup {"awaiting_review"} =>
                  CurrentRow' = "failed"
    BY <1>1, <1>2 DEF RowsMove, CurrentRow, RowOf
  <1>4. AllowedBy(DiscoverySource, Listed) /\ discovery.step \in AtEntry =>
          AllowedBy(DiscoverySource, Listed)'
    BY <1>1, <1>2, FrameRows
  <1>5. EntrySound
    BY DEF IInv, Typed
  <1>6. EntrySound'
    BY <1>0, <1>1, <1>3, <1>4, <1>5 DEF EntrySound, AtEntry, Unhandled
  <1>7. SeparateListing'
    BY <1>0, <1>1, <1>3, <1>5 DEF IInv, Typed, SeparateListing, EntrySound, AtEntry, Pending
  <1> QED
    BY <1>6, <1>7

\* What is left to show of a step that is none of the discovery worker's.
LEMMA FrameKeeps ==
  ASSUME IInv, Frame, Typed', JobSound', ApprovalSound'
  PROVE  IInv' /\ ResultsStand
  <1>1. IInv'
    BY FrameRequests, FrameSelections, FrameReview, FrameEntry DEF IInv, Typed
  <1>2. \A b \in Backfills :
          bstate[b] \in {"canceled", "paused"} /\ UNCHANGED control => bstate'[b] = bstate[b]
    BY DEF Frame, RequestsMove, Live
  <1>3. \A s \in Sources, v \in Videos :
          Separate /\ status[s][v] = "indexed" => status'[s][v] = "indexed" \/ faults' # faults
    BY DEF Frame, RowsMove, Pending
  <1> QED
    BY <1>1, <1>2, <1>3 DEF ResultsStand

---------------------------------------------------------------------------
(* Every step of the dispatcher, of users and of the server.               *)

\* What a step that leaves a table alone does to it.
LEMMA Untouched ==
  /\ status' = status => RowsMove
  /\ bstate' = bstate => RequestsMove
  /\ control' = control => ControlsMove
  /\ setting' = setting /\ bstate' = bstate /\ IInv => bstate' \in [Backfills -> BackfillStates]
  BY DEF RowsMove, RequestsMove, ControlsMove, Steers, IInv, Typed, TypeOK, TablesTypeOK

LEMMA FrameOf ==
  ASSUME IInv, setting' = setting, selected' = selected,
         automatic' = automatic \/ (automatic' \subseteq automatic \cup Switchable /\ Switchable # {}),
         faults' = faults \/ faults' = faults + 1,
         discovery' = discovery \/ (discovery' = None /\ faults' = faults + 1),
         RowsMove, RequestsMove, ControlsMove
  PROVE  Frame
  <1>1. faults \in Nat
    BY SettingFacts DEF IInv, Typed, TypeOK
  <1>2. faults' \in Nat /\ faults' >= faults /\ (faults' = faults + 1 => faults' # 0)
    BY <1>1
  <1> QED
    BY <1>2 DEF Frame

\* Approvals and the dispatcher do not meet: no row waits while there is a job.
LEMMA NoMeeting ==
  ASSUME IInv, Separate
  PROVE  /\ \A o, s \in Sources, v \in Videos :
              s \in Automatic => RowOf(o, v) # "awaiting_review"
         /\ job # None => \A o \in Sources, v \in Videos : RowOf(o, v) # "awaiting_review"
  <1>1. \A o, s \in Sources, v \in Videos : s \in Automatic => RowOf(o, v) # "awaiting_review"
    BY DEF IInv, Typed, SeparateRows, Separate
  <1>2. job # None => job.source \in Automatic /\ job.source \in Sources /\ job.video \in Videos
    BY DEF IInv, Typed, JobSound, TypeOK, Job
  <1> QED
    BY <1>1, <1>2

\* The rows that were acted upon stay so.
HandledStay == \A s \in Sources, v \in Videos :
  status[s][v] \notin Unhandled => status'[s][v] \notin Unhandled

LEMMA JobIsKept ==
  ASSUME IInv, HandledStay, setting' = setting, job' \in {job, None}, job' # None => up',
         Separate => \A s \in Sources, v \in Videos :
                       status[s][v] = "running" => status'[s][v] = "running"
  PROVE  JobSound'
  <1> SUFFICES ASSUME job' # None
               PROVE  JobSound'
    BY DEF JobSound
  <1>1. job' = job /\ job # None /\ job \in Job
    BY DEF IInv, Typed, TypeOK
  <1>2. job.source \in Sources /\ job.video \in Videos
    BY <1>1 DEF Job
  <1>3. Separate' = Separate /\ Automatic' = Automatic
    BY StaticFacts
  <1>4. RowOf(job.source, job.video)' \notin Unhandled
    BY <1>1, <1>2 DEF IInv, Typed, JobSound, HandledStay, RowOf
  <1>5. Separate =>
          /\ job.source \in Automatic
          /\ job.step \in {"admit", "process"} => RowOf(job.source, job.video) = "running"
    BY <1>1 DEF IInv, Typed, JobSound
  <1>6. Separate /\ job.step \in {"admit", "process"} => RowOf(job.source, job.video)' = "running"
    BY <1>5, <1>2 DEF RowOf
  <1> QED
    BY <1>1, <1>3, <1>4, <1>5, <1>6 DEF JobSound, RowOf

LEMMA ApprovalIsKept ==
  ASSUME IInv, HandledStay, setting' = setting, approval' \in {approval, None},
         Separate => \A s \in Sources, v \in Videos :
                       status[s][v] = "awaiting_review" => status'[s][v] = "awaiting_review"
  PROVE  ApprovalSound'
  <1> SUFFICES ASSUME approval' # None
               PROVE  ApprovalSound'
    BY DEF ApprovalSound
  <1>1. approval' = approval /\ approval # None /\ approval \in Approval
    BY DEF IInv, Typed, TypeOK
  <1>2. approval.source \in Sources /\ approval.video \in Videos
    BY <1>1 DEF Approval
  <1>3. Separate' = Separate
    BY StaticFacts
  <1>4. RowOf(approval.source, approval.video)' \notin Unhandled
    BY <1>1, <1>2 DEF IInv, Typed, ApprovalSound, HandledStay, RowOf
  <1>5. Separate /\ approval.step = "process" =>
          RowOf(approval.source, approval.video)' = "awaiting_review"
    BY <1>1, <1>2 DEF IInv, Typed, ApprovalSound, RowOf
  <1> QED
    BY <1>1, <1>3, <1>4, <1>5 DEF ApprovalSound, RowOf

LEMMA JobStays ==
  ASSUME IInv, RowsMove, setting' = setting, job' \in {job, None}, job' # None => up',
         Separate => \A s \in Sources, v \in Videos :
                       status[s][v] = "running" => status'[s][v] = "running"
  PROVE  JobSound'
  BY JobIsKept DEF RowsMove, HandledStay

LEMMA ApprovalStays ==
  ASSUME IInv, RowsMove, setting' = setting, approval' \in {approval, None},
         Separate => \A s \in Sources, v \in Videos :
                       status[s][v] = "awaiting_review" => status'[s][v] = "awaiting_review"
  PROVE  ApprovalSound'
  BY ApprovalIsKept DEF RowsMove, HandledStay

\* A refresh moves only requests that are live.
LEMMA RefreshMove ==
  ASSUME IInv, NEW B, Refresh(B), setting' = setting
  PROVE  RequestsMove /\ bstate' \in [Backfills -> BackfillStates]
  <1>1. Backfills' = Backfills
    BY StaticFacts
  <1> QED
    BY <1>1, RefreshEffect DEF IInv, Typed, RequestsMove

\* The dispatcher writes what has become of its video.
LEMMA JobMark ==
  ASSUME IInv, job # None, NEW st \in Statuses, Mark(job.source, job.video, st),
         st \notin Unhandled \cup Pending \cup {"awaiting_review"},
         job.step \in {"admit", "process"} \/ (st = "failed" /\ faults' # faults)
  PROVE  /\ status' \in [Sources -> [Videos -> Statuses]]
         /\ RowsMove
         /\ status'[job.source][job.video] = st
         /\ Separate => \A s \in Sources, v \in Videos :
              status[s][v] = "awaiting_review" => status'[s][v] = "awaiting_review"
  <1>1. job.source \in Sources /\ job.video \in Videos
    BY DEF IInv, Typed, TypeOK, Job
  <1>2. /\ status' \in [Sources -> [Videos -> Statuses]]
        /\ status'[job.source][job.video] = st
        /\ \A o \in Sources, w \in Videos :
             o # job.source \/ w # job.video => status'[o][w] = status[o][w]
    BY <1>1, MarkEffect DEF IInv, Typed
  <1>3. /\ RowOf(job.source, job.video) \notin Unhandled
        /\ Separate /\ job.step \in {"admit", "process"} => RowOf(job.source, job.video) = "running"
    BY DEF IInv, Typed, JobSound
  <1>4. RowsMove
    BY <1>2, <1>3 DEF RowsMove, RowOf, Pending
  <1>5. Separate => \A s \in Sources, v \in Videos : status[s][v] # "awaiting_review"
    BY NoMeeting DEF RowOf
  <1> QED
    BY <1>2, <1>4, <1>5 DEF RowOf

LEMMA DispatcherKeeps ==
  ASSUME IInv, DispatcherStep \/ ProcessingFails \/ DispatcherFails
  PROVE  IInv' /\ ResultsStand
  <1> USE DEF Origins
  <1>t. Typed'
    BY TypedStays DEF IInv, Next
  <1>a. TypeOK /\ setting \in Settings
    BY DEF IInv, Typed, TypeOK, TablesTypeOK
  <1>b. job # None => /\ job \in Job /\ job.source \in Sources /\ job.video \in Videos
                      /\ job.step \in {"admit", "process", "settle", "refresh"}
    BY <1>a DEF TypeOK, Job
  <1>c. \A x \in {"process", "settle", "refresh"} : job # None => [job EXCEPT !.step = x] \in Job
    BY <1>b DEF Job
  <1>1. ASSUME NEW s \in Sources, NEW v \in Videos, NEW class \in Origins,
               status[s][v] = "queued", Idle, Claimed(class, s, v), turn' \in Origins
        PROVE  IInv' /\ ResultsStand
    <2>1. /\ status' \in [Sources -> [Videos -> Statuses]]
          /\ status'[s][v] = "running"
          /\ \A o \in Sources, w \in Videos : o # s \/ w # v => status'[o][w] = status[o][w]
      BY <1>1, <1>a, MarkEffect DEF Claimed, Statuses, Pending
    <2>2. job' \in Job
      BY <1>1 DEF Claimed, Job
    <2>4. RowsMove
      BY <1>1, <2>1 DEF RowsMove, Unhandled, Pending
    <2>5. Frame
      BY <1>1, <2>4, FrameOf, Untouched DEF Claimed
    <2>6. JobSound'
      <3>1. up' /\ job' = [source |-> s, video |-> v, class |-> class, step |-> "admit", verdict |-> None]
        BY <1>1 DEF Claimed, Idle
      <3>2. Separate => s \in Automatic
        BY <1>1 DEF IInv, Typed, SeparateRows, RowOf, Pending
      <3>3. Separate' = Separate /\ Automatic' = Automatic
        BY <1>1, StaticFacts DEF Claimed
      <3> QED
        BY <2>1, <3>1, <3>2, <3>3 DEF JobSound, RowOf, Unhandled
    <2>7. ApprovalSound'
      BY <1>1, <2>1, <2>4, ApprovalStays DEF Claimed
    <2> QED
      BY <1>t, <2>5, <2>6, <2>7, FrameKeeps
  <1>2. CASE ClaimNew
    <2>1. PICK e \in QueuedNew : Claimed("new", e[1], e[2])
      BY <1>2 DEF ClaimNew
    <2>2. e[1] \in Sources /\ e[2] \in Videos /\ status[e[1]][e[2]] = "queued"
      BY DEF QueuedNew
    <2> QED
      BY <1>1, <1>2, <2>1, <2>2 DEF ClaimNew
  <1>3. CASE ClaimHistory
    <2>1. PICK e \in QueuedHistory : Claimed("history", SourceOf[e[1]], e[2])
      BY <1>3 DEF ClaimHistory
    <2>2. e[1] \in Backfills /\ e[2] \in Videos /\ status[SourceOf[e[1]]][e[2]] = "queued"
      BY DEF QueuedHistory
    <2>3. SourceOf[e[1]] \in Sources
      BY <1>a, <2>2, SettingFacts
    <2> QED
      BY <1>1, <1>3, <2>1, <2>2, <2>3 DEF ClaimHistory
  <1>4. CASE AdmitClaimed
    <2>1. job # None /\ job.step = "admit" /\ up' = up /\ up /\ setting' = setting
      BY <1>4 DEF AdmitClaimed, InJob
    <2>2. CASE status' = status /\ job' = [job EXCEPT !.step = "process"]
      <3>1. job' \in Job
        BY <1>c, <2>1, <2>2
      <3>3. RowsMove
        BY <2>2, Untouched
      <3>4. Frame
        BY <1>4, <3>3, FrameOf, Untouched DEF AdmitClaimed
      <3>5. JobSound'
        <4>1. job'.source = job.source /\ job'.video = job.video /\ job'.step = "process"
          BY <1>b, <2>1, <2>2 DEF Job
        <4>2. Separate' = Separate /\ Automatic' = Automatic
          BY <2>1, StaticFacts
        <4> QED
          BY <2>1, <2>2, <4>1, <4>2 DEF IInv, Typed, JobSound, RowOf
      <3>6. ApprovalSound'
        BY <1>4, <2>2, <3>3, ApprovalStays DEF AdmitClaimed
      <3> QED
        BY <1>t, <3>4, <3>5, <3>6, FrameKeeps
    <2>3. CASE /\ \E st \in ProcessedElsewhere(job.source, job.video) : Mark(job.source, job.video, st)
               /\ job' = [job EXCEPT !.step = "refresh"]
      <3>1. PICK st \in Processed : Mark(job.source, job.video, st)
        BY <2>3 DEF ProcessedElsewhere
      <3>2. st \in Statuses /\ st \notin Unhandled \cup Pending \cup {"awaiting_review"}
        BY DEF Processed, Statuses, Outcomes, Unhandled, Pending
      <3>3. /\ status' \in [Sources -> [Videos -> Statuses]]
            /\ RowsMove
            /\ status'[job.source][job.video] = st
            /\ Separate => \A s \in Sources, v \in Videos :
                 status[s][v] = "awaiting_review" => status'[s][v] = "awaiting_review"
        BY <2>1, <3>1, <3>2, JobMark
      <3>4. job' \in Job
        BY <1>c, <2>1, <2>3
      <3>6. Frame
        BY <1>4, <3>3, FrameOf, Untouched DEF AdmitClaimed
      <3>7. JobSound'
        <4>1. job'.source = job.source /\ job'.video = job.video /\ job'.step = "refresh"
          BY <1>b, <2>1, <2>3 DEF Job
        <4>2. Separate' = Separate /\ Automatic' = Automatic
          BY <2>1, StaticFacts
        <4> QED
          BY <2>1, <3>2, <3>3, <4>1, <4>2 DEF IInv, Typed, JobSound, RowOf
      <3>8. ApprovalSound'
        BY <1>4, <3>3, ApprovalStays DEF AdmitClaimed
      <3> QED
        BY <1>t, <3>6, <3>7, <3>8, FrameKeeps
    <2> QED
      BY <1>4, <2>2, <2>3 DEF AdmitClaimed
  <1>5. CASE ProcessClaimed
    <2>1. job # None /\ job.step = "process" /\ up' = up /\ up /\ setting' = setting
      BY <1>5 DEF ProcessClaimed, InJob
    <2>2. PICK r \in Results :
            /\ Mark(job.source, job.video, StatusFor(r))
            /\ job' = IF r \in Outcomes THEN [job EXCEPT !.step = "settle", !.verdict = r]
                                        ELSE [job EXCEPT !.step = "refresh"]
      BY <1>5 DEF ProcessClaimed
    <2>3. /\ StatusFor(r) \in Statuses
          /\ StatusFor(r) \notin Unhandled \cup Pending \cup {"awaiting_review"}
      BY ResultsAssumption DEF StatusFor, Outcomes, Processed, Statuses, Unhandled, Pending
    <2>4. /\ status' \in [Sources -> [Videos -> Statuses]]
          /\ RowsMove
          /\ status'[job.source][job.video] = StatusFor(r)
          /\ Separate => \A s \in Sources, v \in Videos :
               status[s][v] = "awaiting_review" => status'[s][v] = "awaiting_review"
      BY <2>1, <2>2, <2>3, JobMark
    <2>5. /\ job' \in Job /\ job'.source = job.source /\ job'.video = job.video
          /\ job'.step \in {"settle", "refresh"}
      <3>1. CASE r \in Outcomes
        BY <1>b, <2>1, <2>2, <3>1 DEF Job
      <3>2. CASE r \notin Outcomes
        BY <1>b, <2>1, <2>2, <3>2 DEF Job
      <3> QED
        BY <3>1, <3>2
    <2>7. Frame
      BY <1>5, <2>4, FrameOf, Untouched DEF ProcessClaimed
    <2>8. JobSound'
      <3>1. Separate' = Separate /\ Automatic' = Automatic
        BY <2>1, StaticFacts
      <3> QED
        BY <2>1, <2>3, <2>4, <2>5, <3>1 DEF IInv, Typed, JobSound, RowOf
    <2>9. ApprovalSound'
      BY <1>5, <2>4, ApprovalStays DEF ProcessClaimed
    <2> QED
      BY <1>t, <2>7, <2>8, <2>9, FrameKeeps
  <1>6. CASE SettleElsewhere
    <2>1. job # None /\ job.step = "settle" /\ up' = up /\ up /\ setting' = setting
      BY <1>6 DEF SettleElsewhere, InJob
    <2>2. job.verdict \in Outcomes
      BY <2>1 DEF IInv, Typed, Settled
    <2>3. status' = [s \in Sources |->
               [status[s] EXCEPT ![job.video] = IF @ = "awaiting_review" THEN job.verdict ELSE @]]
      BY <1>6 DEF SettleElsewhere, SettlePending
    <2>4. status' \in [Sources -> [Videos -> Statuses]]
      <3>1. job.verdict \in Statuses
        BY <2>2 DEF Statuses
      <3>2. \A s \in Sources : status[s] \in [Videos -> Statuses]
        BY <1>a DEF TypeOK, TablesTypeOK
      <3>3. \A s \in Sources :
              [status[s] EXCEPT ![job.video] = IF @ = "awaiting_review" THEN job.verdict ELSE @]
                \in [Videos -> Statuses]
        BY <3>1, <3>2
      <3> QED
        BY <2>3, <3>3
    <2>5. \A s \in Sources, v \in Videos :
            \/ status'[s][v] = status[s][v]
            \/ status[s][v] = "awaiting_review" /\ status'[s][v] = job.verdict
      <3>1. ASSUME NEW s \in Sources, NEW v \in Videos
            PROVE  status'[s][v] = IF v = job.video /\ status[s][v] = "awaiting_review"
                                     THEN job.verdict ELSE status[s][v]
        BY <1>a, <2>3 DEF TypeOK, TablesTypeOK
      <3> QED
        BY <3>1
    <2>6. RowsMove
      <3>1. job.verdict \notin Unhandled \cup Pending \cup {"awaiting_review"}
        BY <2>2 DEF Outcomes, Processed, Unhandled, Pending
      <3> QED
        BY <2>5, <3>1 DEF RowsMove, Unhandled, Pending
    <2>7. job' \in Job /\ job'.source = job.source /\ job'.video = job.video /\ job'.step = "refresh"
      BY <1>6, <1>b, <2>1 DEF SettleElsewhere, Job
    <2>9. Frame
      BY <1>6, <2>6, FrameOf, Untouched DEF SettleElsewhere
    <2>10. JobSound'
      <3>1. Separate' = Separate /\ Automatic' = Automatic
        BY <2>1, StaticFacts
      <3>2. RowOf(job.source, job.video) \notin Unhandled
        BY <2>1 DEF IInv, Typed, JobSound
      <3>3. status'[job.source][job.video] \notin Unhandled
        BY <1>b, <2>1, <2>6, <3>2 DEF RowsMove, RowOf
      <3> QED
        BY <2>1, <2>7, <3>1, <3>3 DEF IInv, Typed, JobSound, RowOf
    <2>11. ApprovalSound'
      <3>1. Separate => \A s \in Sources, v \in Videos : status[s][v] # "awaiting_review"
        BY <2>1, NoMeeting DEF RowOf
      <3> QED
        BY <1>6, <2>6, <3>1, ApprovalStays DEF SettleElsewhere
    <2> QED
      BY <1>t, <2>9, <2>10, <2>11, FrameKeeps
  <1>7. CASE RefreshForItem
    <2>1. PICK B : Refresh(B)
      BY <1>7 DEF RefreshForItem
    <2>2. RequestsMove /\ bstate' \in [Backfills -> BackfillStates]
      BY <1>7, <2>1, RefreshMove DEF RefreshForItem
    <2>3. RowsMove
      BY <1>7, Untouched DEF RefreshForItem
    <2>5. Frame
      BY <1>7, <2>2, <2>3, FrameOf, Untouched DEF RefreshForItem
    <2>6. JobSound'
      BY <1>7 DEF RefreshForItem, JobSound
    <2>7. ApprovalSound'
      BY <1>7, <2>3, ApprovalStays DEF RefreshForItem
    <2> QED
      BY <1>t, <2>5, <2>6, <2>7, FrameKeeps
  <1>8. CASE ProcessingFails
    <2>1. job # None /\ up' = up /\ up /\ setting' = setting
      BY <1>8 DEF ProcessingFails
    <2>2. /\ "failed" \in Statuses
          /\ "failed" \notin Unhandled \cup Pending \cup {"awaiting_review"}
      BY DEF Statuses, Outcomes, Unhandled, Pending
    <2>3. /\ status' \in [Sources -> [Videos -> Statuses]]
          /\ RowsMove
          /\ status'[job.source][job.video] = "failed"
          /\ Separate => \A s \in Sources, v \in Videos :
               status[s][v] = "awaiting_review" => status'[s][v] = "awaiting_review"
      <3>1. faults' # faults
        BY <1>8, <1>a, SettingFacts DEF ProcessingFails, TypeOK
      <3> QED
        BY <1>8, <2>1, <2>2, <3>1, JobMark DEF ProcessingFails
    <2>4. job' \in Job /\ job'.source = job.source /\ job'.video = job.video /\ job'.step = "refresh"
      BY <1>8, <1>b, <2>1 DEF ProcessingFails, Job
    <2>5. faults' \in 0..MaxFaults
      BY <1>8, <1>a, SettingFacts DEF ProcessingFails, TypeOK
    <2>7. Frame
      BY <1>8, <2>3, FrameOf, Untouched DEF ProcessingFails
    <2>8. JobSound'
      <3>1. Separate' = Separate /\ Automatic' = Automatic
        BY <2>1, StaticFacts
      <3> QED
        BY <2>1, <2>2, <2>3, <2>4, <3>1 DEF IInv, Typed, JobSound, RowOf
    <2>9. ApprovalSound'
      BY <1>8, <2>3, ApprovalStays DEF ProcessingFails
    <2> QED
      BY <1>t, <2>7, <2>8, <2>9, FrameKeeps
  <1>9. CASE DispatcherFails
    <2>1. RowsMove
      BY <1>9, Untouched DEF DispatcherFails, tables
    <2>2. faults' \in 0..MaxFaults
      BY <1>9, <1>a, SettingFacts DEF DispatcherFails, TypeOK
    <2>4. Frame
      BY <1>9, <2>1, FrameOf, Untouched DEF DispatcherFails, tables
    <2>5. JobSound'
      BY <1>9 DEF DispatcherFails, JobSound
    <2>6. ApprovalSound'
      BY <1>9, <2>1, ApprovalStays DEF DispatcherFails, tables
    <2> QED
      BY <1>t, <2>4, <2>5, <2>6, FrameKeeps
  <1> QED
    BY <1>2, <1>3, <1>4, <1>5, <1>6, <1>7, <1>8, <1>9 DEF DispatcherStep

LEMMA UsersKeep ==
  ASSUME IInv,
         \/ \E b \in Backfills : StartBackfill(b)
         \/ \E u \in Users : ControlStep(u)
         \/ \E s \in Switchable : SetPolicy(s)
  PROVE  IInv' /\ ResultsStand
  <1>t. Typed'
    BY TypedStays DEF IInv, Next
  <1>a. TypeOK /\ setting \in Settings
    BY DEF IInv, Typed, TypeOK, TablesTypeOK
  <1>b. ASSUME NEW u \in Users, control[u] # None
        PROVE  /\ control[u] \in Control /\ control[u].backfill \in Backfills
               /\ control[u].action \in Actions
               /\ [control[u] EXCEPT !.step = "refresh"] \in Control
    <2>1. control[u] \in Control
      BY <1>a, <1>b DEF TypeOK
    <2> QED
      BY <2>1 DEF Control
  <1>1. ASSUME NEW b \in Backfills, StartBackfill(b)
        PROVE  IInv' /\ ResultsStand
    <2>1. bstate' \in [Backfills -> BackfillStates] /\ RequestsMove
      BY <1>1, <1>a DEF StartBackfill, TypeOK, TablesTypeOK, BackfillStates, RequestsMove
    <2>3. RowsMove /\ ControlsMove
      BY <1>1, Untouched DEF StartBackfill, workers
    <2>4. Frame
      BY <1>1, <2>1, <2>3, FrameOf DEF StartBackfill, workers
    <2>5. JobSound'
      BY <1>1, <2>3, JobStays DEF StartBackfill, workers, IInv, Typed, JobSound
    <2>6. ApprovalSound'
      BY <1>1, <2>3, ApprovalStays DEF StartBackfill, workers
    <2> QED
      BY <1>t, <2>4, <2>5, <2>6, FrameKeeps
  <1>2. ASSUME NEW u \in Users, NEW b \in Backfills, NEW a \in Actions, ReadForControl(u, b, a)
        PROVE  IInv' /\ ResultsStand
    <2>1. control' = [control EXCEPT ![u] = [backfill |-> b, action |-> a, step |-> "write"]]
      BY <1>2 DEF ReadForControl
    <2>2. [backfill |-> b, action |-> a, step |-> "write"] \in Control
      BY DEF Control
    <2>3. control' \in [Users -> Control \cup {None}]
      BY <1>a, <2>1, <2>2 DEF TypeOK
    <2>5. ControlsMove
      <3> SUFFICES ASSUME NEW w \in Users, NEW o \in Backfills, Steers(w, o)', w = u
                   PROVE  /\ control'[w].action \in Actions
                          /\ bstate[o] \in Allowed(control'[w].action) /\ bstate'[o] = bstate[o]
        BY <1>a, <2>1 DEF ControlsMove, TypeOK
      <3>1. control'[u] = [backfill |-> b, action |-> a, step |-> "write"]
        BY <1>a, <2>1 DEF TypeOK
      <3>2. o = b
        BY <3>1 DEF Steers
      <3> QED
        BY <1>2, <3>1, <3>2 DEF ReadForControl, tables
    <2>6. RowsMove /\ RequestsMove
      BY <1>2, Untouched DEF ReadForControl, tables
    <2>7. Frame
      BY <1>2, <2>5, <2>6, FrameOf DEF ReadForControl, tables
    <2>8. JobSound'
      BY <1>2, <2>6, JobStays DEF ReadForControl, tables, IInv, Typed, JobSound
    <2>9. ApprovalSound'
      BY <1>2, <2>6, ApprovalStays DEF ReadForControl, tables
    <2> QED
      BY <1>t, <2>7, <2>8, <2>9, FrameKeeps
  <1>3. ASSUME NEW u \in Users, WriteControl(u)
        PROVE  IInv' /\ ResultsStand
    <2> DEFINE b == control[u].backfill
    <2> DEFINE a == control[u].action
    <2>1. control[u] # None /\ control[u].step = "write" /\ b \in Backfills /\ a \in Actions
      BY <1>3, <1>b DEF WriteControl
    <2>2. bstate' = [bstate EXCEPT ![b] = StateAfter(a)]
      BY <1>3 DEF WriteControl
    <2>3. StateAfter(a) \in BackfillStates
      BY <2>1 DEF StateAfter, Actions, BackfillStates, Live
    <2>4. bstate' \in [Backfills -> BackfillStates] /\ RequestsMove
      <3>1. bstate' \in [Backfills -> BackfillStates]
        BY <1>a, <2>1, <2>2, <2>3 DEF TypeOK, TablesTypeOK
      <3>2. Steers(u, b)
        BY <2>1 DEF Steers
      <3>3. \A o \in Backfills : o # b => bstate'[o] = bstate[o]
        BY <1>a, <2>2 DEF TypeOK, TablesTypeOK
      <3>4. bstate'[b] = StateAfter(control[u].action)
        BY <1>a, <2>1, <2>2 DEF TypeOK, TablesTypeOK
      <3>5. control' # control
        <4>1. control'[u] # control[u]
          BY <1>3, <1>a, <1>b, <2>1 DEF WriteControl, TypeOK, Control
        <4> QED
          BY <4>1
      <3> QED
        BY <3>1, <3>2, <3>3, <3>4, <3>5 DEF RequestsMove
    <2>5. control' = [control EXCEPT ![u] =
                        IF a = "resume" THEN [control[u] EXCEPT !.step = "refresh"] ELSE None]
      BY <1>3 DEF WriteControl
    <2>6. control' \in [Users -> Control \cup {None}]
      BY <1>a, <1>b, <2>1, <2>5 DEF TypeOK
    <2>7. ControlsMove
      <3>1. ~ (control'[u] # None /\ control'[u].step = "write")
        <4>1. CASE a = "resume"
          <5>1. control'[u] = [control[u] EXCEPT !.step = "refresh"]
            BY <1>a, <2>5, <4>1 DEF TypeOK
          <5>2. control[u] \in Control
            BY <2>1, <1>b
          <5> QED
            BY <5>1, <5>2 DEF Control
        <4>2. CASE a # "resume"
          BY <1>a, <2>5, <4>2 DEF TypeOK
        <4> QED
          BY <4>1, <4>2
      <3>2. \A w \in Users : w # u => control'[w] = control[w]
        BY <1>a, <2>5 DEF TypeOK
      <3> QED
        BY <3>1, <3>2 DEF ControlsMove, Steers
    <2>8. SourceOf[b] \in Sources
      BY <1>a, <2>1, SettingFacts
    <2>9. \A s \in Sources, v \in Videos :
            \/ status'[s][v] = status[s][v]
            \/ status[s][v] = "queued" /\ status'[s][v] = "canceled"
      <3>1. CASE a = "cancel"
        <4>1. Release(b)
          BY <1>3, <3>1 DEF WriteControl
        <4>2. PICK W : status' = [status EXCEPT ![SourceOf[b]] =
                   [v \in Videos |-> IF v \in {w \in frozen[b] \cup NotStarted(b) :
                        status[SourceOf[b]][w] = "queued" /\ origin[SourceOf[b]][w] = "history"} \ W
                      THEN "canceled" ELSE @[v]]]
          BY <4>1 DEF Release
        <4> QED
          BY <1>a, <2>8, <4>2 DEF TypeOK, TablesTypeOK
      <3>2. CASE a # "cancel"
        BY <1>3, <3>2 DEF WriteControl
      <3> QED
        BY <3>1, <3>2
    <2>10. status' \in [Sources -> [Videos -> Statuses]] /\ frozen' \in [Backfills -> SUBSET Videos]
      <3>1. CASE a = "cancel"
        <4>1. Release(b)
          BY <1>3, <3>1 DEF WriteControl
        <4>2. NotStarted(b) \subseteq Videos
          BY <1>a, <2>1 DEF NotStarted, Wanted, TypeOK, TablesTypeOK
        <4>3. frozen' \in [Backfills -> SUBSET Videos]
          BY <1>a, <2>1, <4>1, <4>2 DEF Release, TypeOK, TablesTypeOK
        <4>4. "canceled" \in Statuses
          BY DEF Statuses
        <4>5. status' \in [Sources -> [Videos -> Statuses]]
          BY <1>a, <2>8, <4>1, <4>4 DEF Release, TypeOK, TablesTypeOK
        <4> QED
          BY <4>3, <4>5
      <3>2. CASE a # "cancel"
        BY <1>3, <1>a, <3>2 DEF WriteControl, TypeOK, TablesTypeOK
      <3> QED
        BY <3>1, <3>2
    <2>11. setting' = setting
      BY <1>3 DEF WriteControl
    <2>13. RowsMove
      BY <2>9 DEF RowsMove, Unhandled, Pending
    <2>14. Frame
      BY <1>3, <2>4, <2>7, <2>13, FrameOf DEF WriteControl
    <2>15. JobSound'
      BY <1>3, <2>9, <2>13, JobStays DEF WriteControl, IInv, Typed, JobSound
    <2>16. ApprovalSound'
      BY <1>3, <2>9, <2>13, ApprovalStays DEF WriteControl
    <2> QED
      BY <1>t, <2>14, <2>15, <2>16, FrameKeeps
  <1>4. ASSUME NEW u \in Users, RefreshResumed(u)
        PROVE  IInv' /\ ResultsStand
    <2>1. RequestsMove /\ bstate' \in [Backfills -> BackfillStates]
      BY <1>4, RefreshMove DEF RefreshResumed
    <2>2. control' \in [Users -> Control \cup {None}]
      BY <1>4, <1>a DEF RefreshResumed, TypeOK
    <2>3. ControlsMove
      BY <1>4, <1>a DEF RefreshResumed, ControlsMove, Steers, TypeOK
    <2>5. RowsMove
      BY <1>4, Untouched DEF RefreshResumed
    <2>6. Frame
      BY <1>4, <2>1, <2>3, <2>5, FrameOf DEF RefreshResumed
    <2>7. JobSound'
      BY <1>4, <2>5, JobStays DEF RefreshResumed, IInv, Typed, JobSound
    <2>8. ApprovalSound'
      BY <1>4, <2>5, ApprovalStays DEF RefreshResumed
    <2> QED
      BY <1>t, <2>6, <2>7, <2>8, FrameKeeps
  <1>5. ASSUME NEW s \in Switchable, SetPolicy(s)
        PROVE  IInv' /\ ResultsStand
    <2>1. s \in Sources
      BY <1>a, SettingFacts
    <2>3. RowsMove /\ RequestsMove /\ ControlsMove
      BY <1>5, Untouched DEF SetPolicy, workers
    <2>4. automatic' \subseteq automatic \cup Switchable /\ Switchable # {}
      BY <1>5 DEF SetPolicy
    <2>5. Frame
      BY <1>5, <2>3, <2>4, FrameOf DEF SetPolicy, workers
    <2>6. JobSound'
      BY <1>5, <2>3, JobStays DEF SetPolicy, workers, IInv, Typed, JobSound
    <2>7. ApprovalSound'
      BY <1>5, <2>3, ApprovalStays DEF SetPolicy, workers
    <2> QED
      BY <1>t, <2>5, <2>6, <2>7, FrameKeeps
  <1> QED
    BY <1>1, <1>2, <1>3, <1>4, <1>5 DEF ControlStep

LEMMA ApprovalKeeps ==
  ASSUME IInv, ApprovalStep
  PROVE  IInv' /\ ResultsStand
  <1>t. Typed'
    BY TypedStays DEF IInv, Next
  <1>a. TypeOK /\ setting \in Settings
    BY DEF IInv, Typed, TypeOK, TablesTypeOK
  <1>b. approval # None => /\ approval \in Approval
                           /\ approval.source \in Sources /\ approval.video \in Videos
                           /\ [approval EXCEPT !.step = "refresh"] \in Approval
    BY <1>a DEF TypeOK, Approval
  <1>1. ASSUME NEW s \in Sources, NEW v \in Videos, Approve(s, v)
        PROVE  IInv' /\ ResultsStand
    <2>1. approval' = [source |-> s, video |-> v, step |-> "process"] /\ approval' \in Approval
      BY <1>1 DEF Approve, Approval
    <2>3. RowsMove /\ RequestsMove /\ ControlsMove
      BY <1>1, Untouched DEF Approve, tables
    <2>4. Frame
      BY <1>1, <2>3, FrameOf DEF Approve, tables
    <2>5. JobSound'
      BY <1>1, <2>3, JobStays DEF Approve, tables, IInv, Typed, JobSound
    <2>6. ApprovalSound'
      BY <1>1, <2>1 DEF Approve, tables, ApprovalSound, RowOf, Unhandled
    <2> QED
      BY <1>t, <2>4, <2>5, <2>6, FrameKeeps
  <1>2. CASE ProcessApproved
    <2>1. /\ approval # None /\ approval.step = "process" /\ setting' = setting
          /\ up' = up /\ job' = job
      BY <1>2 DEF ProcessApproved
    <2>2. PICK r \in Results :
            IF r = "error"
              THEN approval' = None /\ UNCHANGED status
              ELSE /\ approval' = [approval EXCEPT !.step = "refresh"]
                   /\ IF r = "missing" THEN UNCHANGED status
                      ELSE status' = [s \in Sources |-> [status[s] EXCEPT ![approval.video] =
                             IF s = approval.source \/ @ = "awaiting_review" THEN r ELSE @]]
      BY <1>2 DEF ProcessApproved
    <2>3. approval' = None \/ (approval' = [approval EXCEPT !.step = "refresh"])
      BY <2>2
    <2>4. approval' \in Approval \cup {None}
      BY <1>b, <2>1, <2>3
    <2>5. /\ status' \in [Sources -> [Videos -> Statuses]]
          /\ \A s \in Sources, v \in Videos :
               \/ status'[s][v] = status[s][v]
               \/ /\ status'[s][v] \in Outcomes
                  /\ \/ status[s][v] = "awaiting_review"
                     \/ s = approval.source /\ v = approval.video
      <3>1. CASE status' = status
        BY <1>a, <3>1 DEF TypeOK, TablesTypeOK
      <3>2. CASE /\ r \notin {"error", "missing"}
                 /\ status' = [s \in Sources |-> [status[s] EXCEPT ![approval.video] =
                        IF s = approval.source \/ @ = "awaiting_review" THEN r ELSE @]]
        <4>1. r \in Outcomes /\ r \in Statuses
          BY <3>2, ResultsAssumption DEF Statuses
        <4>2. status' \in [Sources -> [Videos -> Statuses]]
          <5>1. \A s \in Sources : status[s] \in [Videos -> Statuses]
            BY <1>a DEF TypeOK, TablesTypeOK
          <5>2. \A s \in Sources : [status[s] EXCEPT ![approval.video] =
                        IF s = approval.source \/ @ = "awaiting_review" THEN r ELSE @]
                  \in [Videos -> Statuses]
            BY <4>1, <5>1
          <5> QED
            BY <3>2, <5>2
        <4>3. ASSUME NEW s \in Sources, NEW v \in Videos
              PROVE  status'[s][v] = IF /\ v = approval.video
                                        /\ s = approval.source \/ status[s][v] = "awaiting_review"
                                       THEN r ELSE status[s][v]
          BY <1>a, <3>2 DEF TypeOK, TablesTypeOK
        <4> QED
          BY <4>1, <4>2, <4>3
      <3> QED
        BY <2>2, <3>1, <3>2
    <2>6. /\ RowOf(approval.source, approval.video) \notin Unhandled
          /\ Separate => RowOf(approval.source, approval.video) = "awaiting_review"
      BY <2>1 DEF IInv, Typed, ApprovalSound
    <2>7. RowsMove
      BY <2>5, <2>6 DEF RowsMove, RowOf, Outcomes, Processed, Unhandled, Pending
    <2>9. Frame
      BY <1>2, <2>7, FrameOf, Untouched DEF ProcessApproved
    <2>10. JobSound'
      <3>1. Separate => \A s \in Sources, v \in Videos :
              status[s][v] = "running" => status'[s][v] = "running"
        BY <2>5, <2>6 DEF RowOf
      <3> QED
        BY <2>1, <2>7, <3>1, JobStays DEF IInv, Typed, JobSound
    <2>11. ApprovalSound'
      <3> SUFFICES ASSUME approval' # None
                   PROVE  ApprovalSound'
        BY DEF ApprovalSound
      <3>1. /\ approval'.step = "refresh" /\ approval'.source = approval.source
            /\ approval'.video = approval.video
        BY <1>b, <2>1, <2>3 DEF Approval
      <3>2. status'[approval.source][approval.video] \notin Unhandled
        BY <1>b, <2>1, <2>6, <2>7 DEF RowsMove, RowOf
      <3> QED
        BY <3>1, <3>2 DEF ApprovalSound, RowOf
    <2> QED
      BY <1>t, <2>9, <2>10, <2>11, FrameKeeps
  <1>3. CASE RefreshApproved
    <2>1. PICK B : Refresh(B)
      BY <1>3 DEF RefreshApproved
    <2>2. RequestsMove /\ bstate' \in [Backfills -> BackfillStates]
      BY <1>3, <2>1, RefreshMove DEF RefreshApproved
    <2>4. RowsMove
      BY <1>3, Untouched DEF RefreshApproved
    <2>5. Frame
      BY <1>3, <2>2, <2>4, FrameOf, Untouched DEF RefreshApproved
    <2>6. JobSound'
      BY <1>3, <2>4, JobStays DEF RefreshApproved, IInv, Typed, JobSound
    <2>7. ApprovalSound'
      BY <1>3 DEF RefreshApproved, ApprovalSound
    <2> QED
      BY <1>t, <2>5, <2>6, <2>7, FrameKeeps
  <1> QED
    BY <1>1, <1>2, <1>3 DEF ApprovalStep

LEMMA ServerKeeps ==
  ASSUME IInv, Stop \/ Start \/ DiscoveryFails
  PROVE  IInv' /\ ResultsStand
  <1>t. Typed'
    BY TypedStays DEF IInv, Next
  <1>a. TypeOK /\ setting \in Settings
    BY DEF IInv, Typed, TypeOK, TablesTypeOK
  <1>1. CASE Stop
    <2>1. faults' \in 0..MaxFaults
      BY <1>1, <1>a, SettingFacts DEF Stop, TypeOK
    <2>3. ControlsMove
      BY <1>1 DEF Stop, ControlsMove, Steers
    <2>4. RowsMove /\ RequestsMove
      BY <1>1, Untouched DEF Stop, tables
    <2>5. Frame
      BY <1>1, <2>3, <2>4, FrameOf DEF Stop, tables
    <2> QED
      BY <1>1, <1>t, <2>5, FrameKeeps DEF Stop, JobSound, ApprovalSound
  <1>2. CASE Start
    <2>1. job = None /\ job' = None
      BY <1>2 DEF Start, IInv, Typed, JobSound
    <2>2. \A s \in Sources, v \in Videos :
            status'[s][v] = IF status[s][v] = "running" THEN "queued" ELSE status[s][v]
      BY <1>2 DEF Start
    <2>3. status' \in [Sources -> [Videos -> Statuses]]
      <3>1. "queued" \in Statuses
        BY DEF Statuses, Pending
      <3> QED
        BY <1>2, <1>a, <3>1 DEF Start, TypeOK, TablesTypeOK
    <2>5. RowsMove
      BY <2>2 DEF RowsMove, Unhandled, Pending
    <2>6. Frame
      BY <1>2, <2>5, FrameOf, Untouched DEF Start
    <2>7. JobSound'
      BY <2>1 DEF JobSound
    <2>8. ApprovalSound'
      BY <1>2, <2>2, <2>5, ApprovalStays DEF Start
    <2> QED
      BY <1>t, <2>6, <2>7, <2>8, FrameKeeps
  <1>3. CASE DiscoveryFails
    <2>2. RowsMove
      BY <1>3, Untouched DEF DiscoveryFails, tables
    <2>3. Frame
      BY <1>3, <2>2, FrameOf, Untouched DEF DiscoveryFails, tables
    <2>4. JobSound'
      BY <1>3, <2>2, JobStays DEF DiscoveryFails, tables, IInv, Typed, JobSound
    <2>5. ApprovalSound'
      BY <1>3, <2>2, ApprovalStays DEF DiscoveryFails, tables
    <2> QED
      BY <1>t, <2>3, <2>4, <2>5, FrameKeeps
  <1> QED
    BY <1>1, <1>2, <1>3

---------------------------------------------------------------------------
(* The discovery worker's steps.                                           *)

\* What they all leave alone.
DiscoveryFrame ==
  /\ UNCHANGED <<setting, automatic, up, job, control, approval, faults>>
  /\ HandledStay
  /\ \A s \in Sources, v \in Videos :
       \/ status'[s][v] = status[s][v]
       \/ /\ status[s][v] \notin Pending /\ status'[s][v] # "absent"
          /\ Separate => status[s][v] \notin {"awaiting_review", "indexed"}
          /\ status'[s][v] \in Pending => AllowedBy(s, v)
          /\ Separate /\ status'[s][v] = "awaiting_review" => s \notin Automatic

LEMMA AllowedMeansAutomatic ==
  ASSUME IInv, Separate, NEW s \in Sources, NEW v \in Videos, AllowedBy(s, v)
  PROVE  s \in Automatic
  <1>1. Trusted = Automatic /\ Automatic \subseteq Sources
    BY SettingFacts DEF Trusted, Separate, IInv, Typed
  <1> QED
    BY <1>1 DEF AllowedBy, Separate

LEMMA DiscoveryFrameKeeps ==
  ASSUME IInv, DiscoveryFrame
  PROVE  JobSound' /\ ApprovalSound' /\ ReviewSound' /\ SeparateRows'
  <1> USE StaticFacts DEF DiscoveryFrame
  <1>1. JobSound'
    <2>1. Separate => \A s \in Sources, v \in Videos :
            status[s][v] = "running" => status'[s][v] = "running"
      BY DEF Pending
    <2> QED
      BY <2>1, JobIsKept DEF IInv, Typed, JobSound
  <1>2. ApprovalSound'
    BY ApprovalIsKept
  <1>3. \A o \in Sources, v \in Videos : status[o][v] # "absent" => status'[o][v] # "absent"
    OBVIOUS
  <1>4. Trusted \subseteq Sources
    BY SettingFacts DEF IInv, Typed, Trusted
  <1>5. ReviewSound'
    <2> SUFFICES ASSUME NEW s \in Sources, NEW v \in Videos, status'[s][v] \in Pending
                 PROVE  s \in Trusted \/ \E o \in Trusted \ {s} : status'[o][v] # "absent"
      BY DEF ReviewFirstHolds, ReviewSound, IInv, Typed
    <2>1. s \in Trusted \/ \E o \in Trusted \ {s} : status[o][v] # "absent"
      BY DEF IInv, Typed, ReviewSound, ReviewFirstHolds, AllowedBy, RowOf
    <2> QED
      BY <1>3, <1>4, <2>1
  <1>6. SeparateRows'
    BY AllowedMeansAutomatic DEF IInv, Typed, SeparateRows, RowOf
  <1> QED
    BY <1>1, <1>2, <1>5, <1>6

\* Where no row changes.
LEMMA NoRowChanges ==
  ASSUME UNCHANGED <<setting, automatic, up, job, control, approval, faults, status>>
  PROVE  DiscoveryFrame
  BY DEF DiscoveryFrame, HandledStay

\* Controls and finished requests, where no request is moved.
LEMMA ControlIsKept ==
  ASSUME IInv, DiscoveryFrame, selected' = selected, bstate' = bstate
  PROVE  /\ ControlSound'
         /\ \A b \in Backfills : Complete(b) => Complete(b)'
         /\ \A b \in Backfills, v \in Videos : Handled(b, v) => Handled(b, v)'
  <1> USE StaticFacts DEF DiscoveryFrame
  <1>1. \A b \in Backfills : SourceOf[b] \in Sources /\ selected[b] \subseteq Videos
    BY SettingFacts DEF IInv, Typed, TypeOK, TablesTypeOK
  <1>2. \A b \in Backfills, v \in Videos : Handled(b, v) => Handled(b, v)'
    BY <1>1 DEF HandledStay, Handled, RowOf
  <1>3. \A b \in Backfills : Sure(b)' = Sure(b)
    BY DEF Sure
  <1>4. \A b \in Backfills : Complete(b) => Complete(b)'
    BY <1>1, <1>2, <1>3 DEF Complete
  <1>5. ControlSound'
    BY <1>4 DEF IInv, Typed, ControlSound, Steers
  <1> QED
    BY <1>2, <1>4, <1>5

\* The listing in hand: what is known of the request and of its entry.
LEMMA InHand ==
  ASSUME IInv, discovery # None
  PROVE  /\ discovery \in Discovery /\ discovery.backfill \in Backfills
         /\ DiscoverySource \in Sources /\ DiscoverySource = SourceOf[discovery.backfill]
         /\ Len(discovery.listing) \in Nat /\ discovery.at \in Nat
         /\ discovery.canceled \in BOOLEAN /\ discovery.own \in BOOLEAN
         /\ discovery.step \in AtEntry => Listed \in Videos /\ discovery.at \in 1..Len(discovery.listing)
  BY ListingFacts, DiscoveryTypes DEF IInv, Typed, Placed, DiscoverySource

LEMMA PickKeeps ==
  ASSUME IInv, PickBackfill
  PROVE  IInv' /\ DiscoveryFrame
  <1>1. UNCHANGED <<tables, up, turn, job, control, approval, faults>> /\ discovery = None
    BY DEF PickBackfill
  <1>2. DiscoveryFrame
    BY <1>1, NoRowChanges DEF tables
  <1>3. Typed'
    BY TypedStays DEF IInv, Next, DiscoveryStep
  <1>4. PICK b \in Discovering :
          /\ discovery'.backfill = b /\ discovery'.step = "list" /\ discovery'.at = 1
          /\ ~discovery'.canceled /\ ~discovery'.own
    BY DEF PickBackfill
  <1>5. b \in Backfills /\ bstate[b] = "discovering"
    BY DEF Discovering
  <1>6. ListingSound'
    BY <1>1, <1>4, <1>5 DEF ListingSound, AtEntry, Recording, IInv, Typed, ControlSound,
       Steers, tables
  <1>7. EntrySound' /\ SeparateListing'
    BY <1>4 DEF EntrySound, SeparateListing, AtEntry, Recording
  <1>8. SelectionSound'
    <2>1. discovery'.step \notin Recording
      BY <1>4 DEF Recording, AtEntry
    <2>2. ASSUME NEW o \in Backfills, faults = 0, bstate[o] \in {"absent", "discovering"}
          PROVE  selected[o] = {}
      BY <1>1, <2>2 DEF IInv, Typed, SelectionSound
    <2>3. \A o \in Backfills : Complete(o)' = Complete(o)
      BY <1>1, StaticFacts DEF Complete, Sure, Handled, RowOf, tables
    <2> QED
      BY <1>1, <2>1, <2>2, <2>3, StaticFacts DEF IInv, Typed, SelectionSound, tables
  <1> QED
    BY <1>1, <1>2, <1>3, <1>6, <1>7, <1>8, DiscoveryFrameKeeps, ControlIsKept DEF IInv, Typed,
       tables

LEMMA ListingFailsKeeps ==
  ASSUME IInv, ListingFails
  PROVE  IInv' /\ DiscoveryFrame
  <1> DEFINE b == discovery.backfill
  <1>1. /\ discovery # None /\ discovery.step = "list" /\ discovery' = None
        /\ UNCHANGED <<setting, automatic, status, selected, up, job, control, approval, faults>>
    BY DEF ListingFails, InDiscovery
  <1>2. DiscoveryFrame
    BY <1>1, NoRowChanges
  <1>3. Typed'
    BY TypedStays DEF IInv, Next, DiscoveryStep
  <1>4. /\ b \in Backfills /\ bstate[b] \in {"discovering", "canceled"}
        /\ \A u \in Users : Steers(u, b) => control[u].action = "cancel"
    BY <1>1, InHand DEF IInv, Typed, ListingSound, Recording
  <1>5. /\ bstate'[b] \in {"failed", "canceled"}
        /\ \A o \in Backfills : o # b => bstate'[o] = bstate[o]
    BY <1>4 DEF ListingFails, StateAfterFailedListing, IInv, Typed, TypeOK, TablesTypeOK
  <1>6. \A o \in Backfills : Complete(o)' = Complete(o)
    BY <1>1, StaticFacts DEF Complete, Sure, Handled, RowOf
  <1>7. ControlSound'
    BY <1>1, <1>4, <1>5, <1>6, StaticFacts DEF IInv, Typed, ControlSound, Steers
  <1>8. SelectionSound'
    <2>1. ASSUME NEW o \in Backfills, faults = 0, bstate'[o] \in {"absent", "discovering"}
          PROVE  selected[o] = {}
      BY <1>1, <1>5, <2>1 DEF IInv, Typed, SelectionSound
    <2>2. \A o \in Backfills :
            bstate'[o] \notin {"absent", "discovering", "failed", "canceled"} => Complete(o)
      BY <1>5 DEF IInv, Typed, SelectionSound
    <2> QED
      BY <1>1, <1>6, <2>1, <2>2, StaticFacts DEF IInv, Typed, SelectionSound
  <1> QED
    BY <1>1, <1>2, <1>3, <1>7, <1>8, DiscoveryFrameKeeps
    DEF IInv, Typed, ListingSound, EntrySound, SeparateListing

LEMMA ReadStateKeeps ==
  ASSUME IInv, ReadState
  PROVE  IInv' /\ DiscoveryFrame
  <1> DEFINE b == discovery.backfill
  <1>1. /\ discovery # None /\ discovery.step = "list"
        /\ UNCHANGED <<tables, up, turn, job, control, approval, faults>>
    BY DEF ReadState, InDiscovery
  <1>2. DiscoveryFrame
    BY <1>1, NoRowChanges DEF tables
  <1>3. Typed'
    BY TypedStays DEF IInv, Next, DiscoveryStep
  <1>4. /\ discovery'.backfill = b /\ discovery'.listing = discovery.listing
        /\ discovery'.at = discovery.at /\ discovery'.step = StepAt(1)
        /\ discovery'.canceled = (bstate[b] = "canceled")
        /\ discovery'.own = (SourceOf[b] \in automatic)
    BY <1>1, InHand DEF ReadState, Discovery, Listing, DiscoverySteps
  <1>5. /\ b \in Backfills /\ bstate[b] \in {"discovering", "canceled"} /\ discovery.at = 1
        /\ \A u \in Users : Steers(u, b) => control[u].action = "cancel"
        /\ Len(discovery.listing) \in Nat /\ discovery.listing \in Listings
    BY <1>1, InHand DEF IInv, Typed, Placed, ListingSound, Recording, Discovery, Listing
  <1>6. /\ StepAt(1) = "look" => 1 \in 1..Len(discovery.listing)
        /\ StepAt(1) = "count" => 1 > Len(discovery.listing)
        /\ StepAt(1) \in {"look", "count"}
    BY <1>5 DEF StepAt
  <1>7. DiscoverySource' = SourceOf[b]
    BY <1>1, <1>4, StaticFacts DEF DiscoverySource, tables
  <1>8. ListingSound'
    BY <1>1, <1>4, <1>5, <1>6, <1>7, StaticFacts
    DEF ListingSound, AtEntry, Recording, IInv, Typed, ReviewSound, Steers, tables
  <1>9. EntrySound'
    BY <1>4, <1>6 DEF EntrySound
  <1>10. SeparateListing'
    BY <1>1, <1>4, <1>6, <1>7, StaticFacts DEF SeparateListing, SeparateRows, IInv, Typed,
       tables
  <1>11. \A o \in Backfills : Complete(o)' = Complete(o)
    BY <1>1, StaticFacts DEF Complete, Sure, Handled, RowOf, tables
  <1>12. SelectionSound'
    <2>1. ASSUME NEW o \in Backfills, faults = 0, bstate[o] \in {"absent", "discovering"}
          PROVE  selected[o] = {}
      BY <1>1, <2>1 DEF IInv, Typed, SelectionSound
    <2>2. ASSUME ~discovery'.canceled, Sure(b), NEW v \in selected[b]
          PROVE  ToCome(v)'
      <3>1. bstate[b] = "discovering"
        BY <1>4, <1>5, <2>2
      <3>2. CASE Repeatable(b)
        <4>1. \E i \in DOMAIN discovery.listing : discovery.listing[i] = v
          BY <1>5, <2>2, <3>2 DEF IInv, Typed, SelectionSound
        <4>2. DOMAIN discovery.listing = 1..Len(discovery.listing)
          BY <1>5, SettingFacts DEF IInv, Typed
        <4> QED
          BY <1>1, <1>4, <1>5, <3>2, <4>1, <4>2, StaticFacts DEF ToCome, tables
      <3>3. CASE faults = 0
        BY <1>5, <2>1, <2>2, <3>1, <3>3
      <3> QED
        BY <2>2, <3>2, <3>3 DEF Sure
    <2>3. Sure(b)' = Sure(b)
      BY <1>1, <1>4 DEF Sure, Repeatable, ScopeOf, Listings, tables
    <2> QED
      BY <1>1, <1>4, <1>11, <2>1, <2>2, <2>3, StaticFacts DEF IInv, Typed, SelectionSound,
         tables
  <1> QED
    BY <1>1, <1>2, <1>3, <1>8, <1>9, <1>10, <1>12, DiscoveryFrameKeeps, ControlIsKept
       DEF IInv, Typed, tables

\* The rows a step at an entry may change: that of the entry.
LEMMA EntryRow ==
  ASSUME IInv, discovery # None, discovery.step \in AtEntry, NEW st \in Statuses,
         Mark(DiscoverySource, Listed, st)
  PROVE  /\ status'[DiscoverySource][Listed] = st
         /\ \A s \in Sources, v \in Videos :
              s # DiscoverySource \/ v # Listed => status'[s][v] = status[s][v]
  BY InHand, MarkEffect DEF IInv, Typed

\* The selections, while the worker goes through the listing.
LEMMA SelectionIsKept ==
  ASSUME IInv, DiscoveryFrame, bstate' = bstate, selected' = selected,
         discovery # None, discovery' # None, discovery.step \in AtEntry,
         discovery'.backfill = discovery.backfill, discovery'.canceled = discovery.canceled,
         discovery'.step # "list",
         ~discovery.canceled /\ Sure(discovery.backfill) => \A v \in selected[discovery.backfill] :
           Handled(discovery.backfill, v) \/ Handled(discovery.backfill, v)' \/ ToCome(v)'
  PROVE  SelectionSound'
  <1> DEFINE b == discovery.backfill
  <1> USE StaticFacts DEF DiscoveryFrame
  <1>1. b \in Backfills /\ selected[b] \subseteq Videos /\ SourceOf[b] \in Sources
    BY InHand, SettingFacts DEF IInv, Typed, TypeOK, TablesTypeOK
  <1>2. \A o \in Backfills : Complete(o) => Complete(o)'
    BY ControlIsKept
  <1>3. Sure(b)' = Sure(b)
    BY DEF Sure, Repeatable, ScopeOf, Listings
  <1>4. ASSUME NEW v \in Videos, Handled(b, v)
        PROVE  Handled(b, v)'
    BY <1>1, <1>4 DEF Handled, RowOf, HandledStay
  <1>5. ~discovery.canceled /\ Sure(b)' => \A v \in selected[b] : Handled(b, v)' \/ ToCome(v)'
    BY <1>1, <1>3, <1>4
  <1>6. ASSUME NEW o \in Backfills, faults = 0, bstate[o] \in {"absent", "discovering"},
               b # o \/ discovery'.step = "list"
        PROVE  selected[o] = {}
    BY <1>6 DEF IInv, Typed, SelectionSound
  <1>7. \A o \in Backfills :
          bstate[o] \notin {"absent", "discovering", "failed", "canceled"} => Complete(o)'
    BY <1>2 DEF IInv, Typed, SelectionSound
  <1>8. \A o \in Backfills : Repeatable(o) => \A v \in selected[o] :
          AnyPlace(o, v) /\ \A l \in Listings : \E i \in DOMAIN l : l[i] = v
    BY DEF IInv, Typed, SelectionSound
  <1> QED
    BY <1>5, <1>6, <1>7, <1>8 DEF SelectionSound

LEMMA LookUpKeeps ==
  ASSUME IInv, LookUp
  PROVE  IInv' /\ DiscoveryFrame
  <1> DEFINE b == discovery.backfill
  <1>1. /\ discovery # None /\ discovery.step = "look" /\ discovery.step \in AtEntry
        /\ UNCHANGED <<setting, automatic, origin, bstate, note, position, selected, frozen,
                       up, turn, job, control, approval, faults>>
    BY DEF LookUp, InDiscovery, AtEntry
  <1>2. Typed'
    BY TypedStays DEF IInv, Next, DiscoveryStep
  <1>3. /\ discovery \in Discovery /\ b \in Backfills
        /\ DiscoverySource \in Sources /\ Listed \in Videos
    BY <1>1, InHand
  <1>4. /\ status'[DiscoverySource][Listed] = IF CurrentRow = "absent" THEN "discovered" ELSE CurrentRow
        /\ \A s \in Sources, v \in Videos :
             s # DiscoverySource \/ v # Listed => status'[s][v] = status[s][v]
    BY <1>3, UpsertEffect DEF LookUp, IInv, Typed, CurrentRow, RowOf
  <1>5. DiscoveryFrame
    BY <1>1, <1>3, <1>4 DEF DiscoveryFrame, HandledStay, CurrentRow, RowOf, Unhandled, Pending
  <1>6. discovery' = [discovery EXCEPT !.step = "entry", !.seen = CurrentRow]
    BY DEF LookUp, CurrentRow, RowOf
  <1>7. /\ discovery' # None
        /\ discovery'.backfill = b /\ discovery'.listing = discovery.listing
        /\ discovery'.at = discovery.at /\ discovery'.step = "entry"
        /\ discovery'.canceled = discovery.canceled /\ discovery'.own = discovery.own
        /\ discovery'.seen = CurrentRow
    <2>1. CurrentRow \in Statuses
      BY <1>3 DEF IInv, Typed, TypeOK, TablesTypeOK, CurrentRow, RowOf
    <2>2. discovery' \in Discovery
      BY <1>3, <1>6, <2>1, DiscoveryTypes
    <2> QED
      BY <1>3, <1>6, <2>2, DiscoveryIsSome DEF Discovery, Listing, DiscoverySteps, IInv, Typed
  <1>8. /\ DiscoverySource' = DiscoverySource /\ Listed' = Listed
        /\ CurrentRow' = IF CurrentRow = "absent" THEN "discovered" ELSE CurrentRow
    BY <1>1, <1>4, <1>7, StaticFacts DEF DiscoverySource, Listed, CurrentRow, RowOf
  <1>9. ListingSound'
    BY <1>1, <1>7, <1>8, StaticFacts DEF ListingSound, AtEntry, Recording, IInv, Typed, Steers
  <1>10. EntrySound'
    BY <1>7, <1>8 DEF EntrySound, Fresh, Unhandled, Pending
  <1>11. SeparateListing'
    <2>1. Separate /\ CurrentRow = "awaiting_review" => DiscoverySource \notin Automatic
      BY <1>3 DEF IInv, Typed, SeparateRows, CurrentRow
    <2>2. Separate => (discovery.own <=> DiscoverySource \in Automatic)
      BY <1>1 DEF IInv, Typed, SeparateListing, Recording
    <2> QED
      BY <1>1, <1>7, <1>8, <2>1, <2>2, StaticFacts DEF SeparateListing
  <1>12. SelectionSound'
    <2>1. ASSUME ~discovery.canceled, Sure(b), NEW v \in selected[b]
          PROVE  Handled(b, v) \/ (Repeatable(b) /\ ToCome(v))
      BY <1>1, <2>1 DEF IInv, Typed, SelectionSound, ToCome, Recording, AtEntry
    <2>2. ASSUME NEW v, Repeatable(b), ToCome(v)
          PROVE  ToCome(v)'
      BY <1>1, <1>7, <2>2, StaticFacts DEF ToCome
    <2> QED
      BY <1>1, <1>3, <1>5, <1>7, <2>1, <2>2, SelectionIsKept
  <1> QED
    BY <1>1, <1>2, <1>5, <1>9, <1>10, <1>11, <1>12, DiscoveryFrameKeeps, ControlIsKept
       DEF IInv, Typed

\* A step of the worker to "queue" or "mark", or on to the next entry.
LEMMA NextEntryFacts ==
  ASSUME IInv, discovery # None, discovery.step \in AtEntry, discovery' = NextEntry, setting' = setting
  PROVE  /\ discovery' # None
         /\ discovery'.backfill = discovery.backfill /\ discovery'.listing = discovery.listing
         /\ discovery'.at = discovery.at + 1 /\ discovery'.step \in {"look", "count"}
         /\ discovery'.canceled = discovery.canceled /\ discovery'.own = discovery.own
         /\ discovery'.step = "look" => discovery'.at \in 1..Len(discovery.listing)
         /\ discovery'.step = "count" => discovery'.at > Len(discovery.listing)
         /\ DiscoverySource' = DiscoverySource
  <1>1. /\ discovery \in Discovery /\ discovery.at \in Nat /\ Len(discovery.listing) \in Nat
        /\ discovery.at \in 1..Len(discovery.listing)
    BY InHand
  <1>2. discovery' # None
    BY NextEntryTypes, DiscoveryIsSome DEF IInv, Typed
  <1>3. /\ discovery'.backfill = discovery.backfill /\ discovery'.listing = discovery.listing
        /\ discovery'.at = discovery.at + 1 /\ discovery'.step = StepAt(discovery.at + 1)
        /\ discovery'.canceled = discovery.canceled /\ discovery'.own = discovery.own
    BY <1>1 DEF NextEntry, Discovery, Listing, DiscoverySteps
  <1>4. /\ StepAt(discovery.at + 1) = "look" => discovery.at + 1 \in 1..Len(discovery.listing)
        /\ StepAt(discovery.at + 1) = "count" => discovery.at + 1 > Len(discovery.listing)
        /\ StepAt(discovery.at + 1) \in {"look", "count"}
    BY <1>1 DEF StepAt
  <1>5. DiscoverySource' = DiscoverySource
    BY <1>3, StaticFacts DEF DiscoverySource
  <1> QED
    BY <1>2, <1>3, <1>4, <1>5

\* The invariant of the listing, while the worker goes through it.
LEMMA ListingIsKept ==
  ASSUME IInv, discovery # None, discovery.step \in AtEntry, setting' = setting,
         bstate' = bstate, control' = control,
         discovery'.backfill = discovery.backfill, discovery'.listing = discovery.listing,
         discovery'.canceled = discovery.canceled, discovery'.own = discovery.own,
         discovery'.step \in Recording,
         discovery'.step \in AtEntry => discovery'.at \in 1..Len(discovery.listing),
         discovery'.step = "count" => discovery'.at > Len(discovery.listing)
  PROVE  ListingSound'
  <1>1. DiscoverySource' = DiscoverySource
    BY StaticFacts DEF DiscoverySource
  <1> QED
    BY <1>1, StaticFacts DEF ListingSound, AtEntry, Recording, IInv, Typed, Steers

\* A selected video is selected wherever it is listed.
LEMMA SelectedAnywhere ==
  ASSUME IInv, discovery # None, Repeatable(discovery.backfill),
         Listed \in selected[discovery.backfill]
  PROVE  InScope
  <1>1. discovery.backfill \in Backfills
    BY InHand
  <1>2. AnyPlace(discovery.backfill, Listed)
    BY <1>1 DEF IInv, Typed, SelectionSound
  <1> QED
    BY <1>2 DEF AnyPlace, InScope, Selects

LEMMA DecideKeeps ==
  ASSUME IInv, DecideEntry
  PROVE  IInv' /\ DiscoveryFrame
  <1> DEFINE b == discovery.backfill
  <1>1. /\ discovery # None /\ discovery.step = "queue" /\ discovery.step \in AtEntry
        /\ UNCHANGED <<tables, up, turn, job, control, approval, faults>>
    BY DEF DecideEntry, InDiscovery, AtEntry
  <1>2. DiscoveryFrame
    BY <1>1, NoRowChanges DEF tables
  <1>3. Typed'
    BY TypedStays DEF IInv, Next, DiscoveryStep
  <1>4. /\ discovery \in Discovery /\ b \in Backfills
        /\ DiscoverySource \in Sources /\ Listed \in Videos
        /\ discovery.at \in 1..Len(discovery.listing) /\ Len(discovery.listing) \in Nat
        /\ discovery.seen \in Statuses
    BY <1>1, InHand, DiscoveryTypes
  <1>5. /\ discovery.seen \in Fresh => CurrentRow = "discovered"
        /\ discovery.seen \notin Unhandled => CurrentRow \notin Unhandled
        /\ discovery.seen \notin Pending => CurrentRow \notin Pending
    BY <1>1 DEF IInv, Typed, EntrySound
  <1>6. CASE /\ discovery' = NextEntry
             /\ InScope /\ ~discovery.canceled => ~Candidate(discovery.seen, discovery.own)
    <2>1. /\ discovery' # None
          /\ discovery'.backfill = b /\ discovery'.listing = discovery.listing
          /\ discovery'.at = discovery.at + 1 /\ discovery'.step \in {"look", "count"}
          /\ discovery'.canceled = discovery.canceled /\ discovery'.own = discovery.own
          /\ discovery'.step = "look" => discovery'.at \in 1..Len(discovery.listing)
          /\ discovery'.step = "count" => discovery'.at > Len(discovery.listing)
          /\ DiscoverySource' = DiscoverySource
      BY <1>1, <1>6, NextEntryFacts DEF tables
    <2>2. ListingSound'
      BY <1>1, <2>1, ListingIsKept DEF Recording, AtEntry, tables
    <2>3. EntrySound'
      BY <2>1 DEF EntrySound
    <2>4. SeparateListing'
      BY <1>1, <2>1, StaticFacts DEF IInv, Typed, SeparateListing, Recording, AtEntry, tables
    <2>5. ASSUME ~discovery.canceled, Sure(b), NEW v \in selected[b]
          PROVE  Handled(b, v) \/ ToCome(v)'
      <3>1. Handled(b, v) \/ ToCome(v)
        BY <1>1, <2>5 DEF IInv, Typed, SelectionSound, Recording
      <3>2. ASSUME v = Listed, InScope
            PROVE  Handled(b, v)
        BY <1>5, <1>6, <2>5, <3>2 DEF Handled, CurrentRow, RowOf, DiscoverySource, Candidate,
           Unhandled
      <3>3. CASE Repeatable(b) /\ ToCome(v)
        <4>1. PICK i \in discovery.at..Len(discovery.listing) : discovery.listing[i] = v
          BY <3>3 DEF ToCome
        <4>2. CASE i = discovery.at
          <5>1. v = Listed
            BY <4>1, <4>2 DEF Listed
          <5> QED
            BY <1>1, <2>5, <3>2, <3>3, <5>1, SelectedAnywhere
        <4>3. CASE i # discovery.at
          <5>1. i \in (discovery.at + 1)..Len(discovery.listing)
            BY <1>4, <4>1, <4>3
          <5>2. setting' = setting
            BY <1>1 DEF tables
          <5> QED
            BY <2>1, <3>3, <4>1, <5>1, <5>2, StaticFacts DEF ToCome
        <4> QED
          BY <4>2, <4>3
      <3>4. CASE ~Repeatable(b) /\ ToCome(v)
        BY <3>2, <3>4 DEF ToCome
      <3> QED
        BY <3>1, <3>3, <3>4
    <2>6. SelectionSound'
      BY <1>1, <1>2, <2>1, <2>5, SelectionIsKept DEF tables
    <2> QED
      BY <1>1, <1>2, <1>3, <2>2, <2>3, <2>4, <2>6, DiscoveryFrameKeeps, ControlIsKept
         DEF IInv, Typed, tables
  <1>7. ASSUME NEW d \in Statuses, discovery' = [discovery EXCEPT !.step = "mark", !.seen = d],
               \/ /\ InScope /\ ~discovery.canceled /\ Candidate(discovery.seen, discovery.own)
                  /\ d \in Decision(DiscoverySource, Listed, discovery.own)
               \/ /\ ~(InScope /\ ~discovery.canceled)
                  /\ discovery.seen \in Fresh /\ d = "not_selected"
        PROVE  IInv' /\ DiscoveryFrame
    <2>0. discovery' \in Discovery
      BY <1>4, <1>7, DiscoveryTypes
    <2>1. /\ discovery' # None
          /\ discovery'.backfill = b /\ discovery'.listing = discovery.listing
          /\ discovery'.at = discovery.at /\ discovery'.step = "mark" /\ discovery'.seen = d
          /\ discovery'.canceled = discovery.canceled /\ discovery'.own = discovery.own
      BY <1>4, <1>7, <2>0, DiscoveryIsSome DEF Discovery, Listing, DiscoverySteps, IInv, Typed
    <2>2. DiscoverySource' = DiscoverySource /\ Listed' = Listed /\ CurrentRow' = CurrentRow
      BY <1>1, <2>1, StaticFacts DEF DiscoverySource, Listed, CurrentRow, RowOf, tables
    <2>3. InScope' = InScope
      BY <1>1, <2>1, <2>2, StaticFacts DEF InScope, Selects, tables
    <2>4. ListingSound'
      BY <1>1, <1>4, <2>1, ListingIsKept DEF Recording, AtEntry, tables
    <2>5. d \in {"filtered", "queued", "awaiting_review", "indexed", "skipped", "not_selected"}
      BY <1>4, <1>7, DecisionTypes DEF IInv, Typed
    <2>6. CurrentRow \notin Pending
      BY <1>5, <1>7 DEF Candidate, Fresh, Pending
    <2>7. d = "not_selected" => CurrentRow = "discovered" /\ ~(InScope /\ ~discovery.canceled)
      BY <1>4, <1>5, <1>7, DecisionTypes DEF IInv, Typed
    <2>8. /\ d = "queued" => AllowedBy(DiscoverySource, Listed)
          /\ d = "awaiting_review" => ~discovery.own
      <3>1. SUFFICES ASSUME d \in {"queued", "awaiting_review"}
                     PROVE  /\ d = "queued" => AllowedBy(DiscoverySource, Listed)
                            /\ d = "awaiting_review" => ~discovery.own
        OBVIOUS
      <3>2. PICK x \in Admission(DiscoverySource, Listed, discovery.own) :
              d = IF x = "process" THEN "queued" ELSE x
        BY <1>7, <3>1 DEF Decision
      <3>3. CASE ProcessedElsewhere(DiscoverySource, Listed) # {}
        BY <3>1, <3>2, <3>3 DEF Admission, ProcessedElsewhere, Processed
      <3>4. CASE ProcessedElsewhere(DiscoverySource, Listed) = {}
        <4>1. d = "queued" =>
                discovery.own \/ AutomaticElsewhere(DiscoverySource, Listed)
          BY <3>2, <3>4 DEF Admission
        <4>2. discovery.own => DiscoverySource \in Trusted
          BY <1>1 DEF IInv, Typed, ListingSound
        <4>3. AutomaticElsewhere(DiscoverySource, Listed) => AllowedBy(DiscoverySource, Listed)
          BY DEF AutomaticElsewhere, AllowedBy, RowOf, IInv, Typed, ReviewSound
        <4>4. d = "awaiting_review" => ~discovery.own
          BY <3>2, <3>4 DEF Admission
        <4> QED
          BY <4>1, <4>2, <4>3, <4>4 DEF AllowedBy
      <3> QED
        BY <3>3, <3>4
    <2>9. EntrySound'
      <3>1. AllowedBy(DiscoverySource, Listed)' = AllowedBy(DiscoverySource, Listed)
        BY <1>1, <2>2, StaticFacts DEF AllowedBy, RowOf, tables
      <3> QED
        BY <2>1, <2>2, <2>3, <2>5, <2>6, <2>7, <2>8, <3>1 DEF EntrySound, Fresh
    <2>10. SeparateListing'
      <3> SUFFICES ASSUME Separate
                   PROVE  SeparateListing'
        BY <1>1, StaticFacts DEF SeparateListing, tables
      <3>1. /\ discovery.own <=> DiscoverySource \in Automatic
            /\ discovery.seen \notin Pending \cup {"awaiting_review", "indexed"}
                 => CurrentRow \notin {"indexed", "awaiting_review"}
            /\ discovery.seen = "awaiting_review" => DiscoverySource \notin Automatic
        BY <1>1 DEF IInv, Typed, SeparateListing, Recording, AtEntry
      <3>2. discovery.seen \notin Pending \cup {"awaiting_review", "indexed"}
        BY <1>7, <3>1 DEF Candidate, Fresh, Pending
      <3> QED
        BY <1>1, <2>1, <2>2, <2>8, <3>1, <3>2, StaticFacts DEF SeparateListing, tables
    <2>11. SelectionSound'
      <3>1. ASSUME ~discovery.canceled, Sure(b), NEW v \in selected[b]
            PROVE  Handled(b, v) \/ ToCome(v)
        BY <1>1, <3>1 DEF IInv, Typed, SelectionSound, Recording
      <3>2. ASSUME NEW v, ToCome(v)
            PROVE  ToCome(v)'
        BY <1>1, <2>1, <2>2, <2>3, <3>2 DEF ToCome, Repeatable, ScopeOf, Listings, tables
      <3> QED
        BY <1>1, <1>2, <2>1, <3>1, <3>2, SelectionIsKept DEF tables
    <2> QED
      BY <1>1, <1>2, <1>3, <2>4, <2>9, <2>10, <2>11, DiscoveryFrameKeeps, ControlIsKept
      DEF IInv, Typed, tables
  <1>8. Decision(DiscoverySource, Listed, discovery.own) # {}
    BY DEF Decision, Admission
  <1>9. \A d \in Decision(DiscoverySource, Listed, discovery.own) : d \in Statuses
    BY <1>4, DecisionTypes DEF IInv, Typed, Statuses, Outcomes, Processed, Pending
  <1>10. "not_selected" \in Statuses
    BY DEF Statuses
  <1>11. CASE InScope /\ ~discovery.canceled
    BY <1>6, <1>7, <1>8, <1>9, <1>11 DEF DecideEntry
  <1>12. CASE ~(InScope /\ ~discovery.canceled)
    BY <1>6, <1>7, <1>10, <1>12 DEF DecideEntry, Fresh
  <1> QED
    BY <1>11, <1>12

LEMMA RecordKeeps ==
  ASSUME IInv, RecordEntry
  PROVE  IInv' /\ DiscoveryFrame
  <1> DEFINE b == discovery.backfill
  <1>1. /\ discovery # None /\ discovery.step = "entry" /\ discovery.step \in AtEntry
        /\ UNCHANGED <<setting, automatic, status, origin, bstate, note, frozen,
                       up, turn, job, control, approval, faults>>
    BY DEF RecordEntry, InDiscovery, AtEntry
  <1>2. DiscoveryFrame
    BY <1>1, NoRowChanges
  <1>3. Typed'
    BY TypedStays DEF IInv, Next, DiscoveryStep
  <1>4. /\ discovery \in Discovery /\ b \in Backfills /\ Listed \in Videos
        /\ discovery.at \in 1..Len(discovery.listing) /\ Len(discovery.listing) \in Nat
        /\ discovery.listing \in Listings
    BY <1>1, InHand, DiscoveryTypes
  <1>5. discovery' = [discovery EXCEPT !.step = "queue"]
    BY DEF RecordEntry
  <1>6. /\ discovery' # None
        /\ discovery'.backfill = b /\ discovery'.listing = discovery.listing
        /\ discovery'.at = discovery.at /\ discovery'.step = "queue"
        /\ discovery'.seen = discovery.seen
        /\ discovery'.canceled = discovery.canceled /\ discovery'.own = discovery.own
    <2>1. discovery' \in Discovery
      BY <1>4, <1>5, DiscoveryTypes DEF DiscoverySteps
    <2> QED
      BY <1>4, <1>5, <2>1, DiscoveryIsSome DEF Discovery, Listing, DiscoverySteps, IInv, Typed
  <1>7. DiscoverySource' = DiscoverySource /\ Listed' = Listed /\ CurrentRow' = CurrentRow
    BY <1>1, <1>6, StaticFacts DEF DiscoverySource, Listed, CurrentRow, RowOf
  <1>8. InScope' = InScope
    BY <1>1, <1>6, <1>7, StaticFacts DEF InScope, Selects
  <1>9. ListingSound'
    BY <1>1, <1>4, <1>6, ListingIsKept DEF Recording, AtEntry
  <1>10. EntrySound'
    BY <1>1, <1>6, <1>7 DEF IInv, Typed, EntrySound
  <1>11. SeparateListing'
    BY <1>1, <1>6, <1>7, StaticFacts DEF IInv, Typed, SeparateListing, Recording, AtEntry
  <1>12. /\ \A o \in Backfills : o # b => selected'[o] = selected[o]
         /\ \A v \in selected'[b] : v \in selected[b] \/ (v = Listed /\ InScope)
    <2>1. \/ selected' = selected
          \/ InScope /\ selected' = [selected EXCEPT ![b] = @ \cup {Listed}]
      BY DEF RecordEntry
    <2>2. DOMAIN selected = Backfills
      BY DEF IInv, Typed, TypeOK, TablesTypeOK
    <2> QED
      BY <1>4, <2>1, <2>2
  <1>13. /\ bstate[b] \in {"discovering", "canceled"}
         /\ \A u \in Users : Steers(u, b) => control[u].action = "cancel"
    BY <1>1 DEF IInv, Typed, ListingSound, Recording, AtEntry
  <1>14. \A o \in Backfills : o # b => Complete(o)' = Complete(o)
    BY <1>1, <1>12, StaticFacts DEF Complete, Sure, Handled, RowOf
  <1>15. ControlSound'
    BY <1>1, <1>13, <1>14, StaticFacts DEF IInv, Typed, ControlSound, Steers
  <1>16. SelectionSound'
    <2>1. \A o \in Backfills :
            bstate[o] \notin {"absent", "discovering", "failed", "canceled"} => Complete(o)'
      BY <1>13, <1>14 DEF IInv, Typed, SelectionSound
    <2>2. ASSUME NEW o \in Backfills, faults = 0, bstate[o] \in {"absent", "discovering"}, o # b
          PROVE  selected'[o] = {}
      BY <1>12, <2>2 DEF IInv, Typed, SelectionSound
    <2>3. ASSUME NEW o \in Backfills, Repeatable(o), NEW v \in selected'[o]
          PROVE  AnyPlace(o, v) /\ \A l \in Listings : \E i \in DOMAIN l : l[i] = v
      <3>1. CASE v \in selected[o]
        BY <2>3, <3>1 DEF IInv, Typed, SelectionSound
      <3>2. CASE o = b /\ v = Listed /\ InScope
        <4>1. AnyPlace(b, v)
          BY <2>3, <3>2 DEF AnyPlace, InScope, Selects, Repeatable
        <4>2. discovery.at \in DOMAIN discovery.listing
          BY <1>4, SettingFacts DEF IInv, Typed
        <4> QED
          BY <1>4, <2>3, <3>2, <4>1, <4>2 DEF Repeatable, Listed
      <3> QED
        BY <1>12, <2>3, <3>1, <3>2
    <2>4. ASSUME ~discovery.canceled, Sure(b), NEW v \in selected'[b]
          PROVE  Handled(b, v) \/ ToCome(v)'
      <3>1. CASE v \in selected[b]
        <4>1. Handled(b, v) \/ (Repeatable(b) /\ ToCome(v))
          BY <1>1, <2>4, <3>1 DEF IInv, Typed, SelectionSound, ToCome, Recording, AtEntry
        <4>2. Repeatable(b) /\ ToCome(v) => ToCome(v)'
          BY <1>1, <1>6, StaticFacts DEF ToCome
        <4> QED
          BY <4>1, <4>2
      <3>2. CASE v = Listed /\ InScope
        BY <1>1, <1>4, <1>6, <1>7, <1>8, <3>2 DEF ToCome, Listed
      <3> QED
        BY <1>12, <2>4, <3>1, <3>2
    <2>5. Sure(b)' = Sure(b)
      BY <1>1, <1>6 DEF Sure, Repeatable, ScopeOf, Listings
    <2>6. \A v : Handled(b, v)' = Handled(b, v)
      BY <1>1, <1>6, StaticFacts DEF Handled, RowOf
    <2> QED
      BY <1>1, <1>6, <2>1, <2>2, <2>3, <2>4, <2>5, <2>6, StaticFacts DEF SelectionSound
  <1> QED
    BY <1>1, <1>2, <1>3, <1>9, <1>10, <1>11, <1>15, <1>16, DiscoveryFrameKeeps DEF IInv, Typed

LEMMA MarkKeeps ==
  ASSUME IInv, MarkEntry
  PROVE  IInv' /\ DiscoveryFrame
  <1> DEFINE b == discovery.backfill
  <1>1. /\ discovery # None /\ discovery.step = "mark" /\ discovery.step \in AtEntry
        /\ discovery' = NextEntry
        /\ UNCHANGED <<setting, automatic, bstate, note, position, selected, frozen,
                       up, turn, job, control, approval, faults>>
    BY DEF MarkEntry, InDiscovery, AtEntry
  <1>2. Typed'
    BY TypedStays DEF IInv, Next, DiscoveryStep
  <1>3. /\ discovery \in Discovery /\ b \in Backfills
        /\ DiscoverySource \in Sources /\ Listed \in Videos
        /\ discovery.at \in 1..Len(discovery.listing) /\ Len(discovery.listing) \in Nat
        /\ discovery.seen \in Statuses
    BY <1>1, InHand, DiscoveryTypes
  <1>4. /\ CurrentRow \notin Pending
        /\ discovery.seen \notin Fresh \cup {"running"}
        /\ discovery.seen = "not_selected" =>
             CurrentRow = "discovered" /\ ~(InScope /\ ~discovery.canceled)
        /\ discovery.seen = "queued" => AllowedBy(DiscoverySource, Listed)
    BY <1>1 DEF IInv, Typed, EntrySound
  <1>5. Mark(DiscoverySource, Listed, discovery.seen)
    BY DEF MarkEntry, Queue
  <1>6. /\ status'[DiscoverySource][Listed] = discovery.seen
        /\ \A s \in Sources, v \in Videos :
             s # DiscoverySource \/ v # Listed => status'[s][v] = status[s][v]
    BY <1>1, <1>3, <1>5, EntryRow
  <1>7. DiscoveryFrame
    <2>1. HandledStay
      BY <1>3, <1>4, <1>6 DEF HandledStay, CurrentRow, RowOf, Fresh, Unhandled
    <2>2. /\ Separate => CurrentRow \notin {"awaiting_review", "indexed"}
          /\ Separate /\ discovery.seen = "awaiting_review" => DiscoverySource \notin Automatic
      BY <1>1 DEF IInv, Typed, SeparateListing
    <2>3. discovery.seen \in Pending => discovery.seen = "queued"
      BY <1>4 DEF Pending
    <2> QED
      BY <1>1, <1>3, <1>4, <1>6, <2>1, <2>2, <2>3 DEF DiscoveryFrame, CurrentRow, RowOf, Fresh
  <1>8. /\ discovery' # None
        /\ discovery'.backfill = b /\ discovery'.listing = discovery.listing
        /\ discovery'.at = discovery.at + 1 /\ discovery'.step \in {"look", "count"}
        /\ discovery'.canceled = discovery.canceled /\ discovery'.own = discovery.own
        /\ discovery'.step = "look" => discovery'.at \in 1..Len(discovery.listing)
        /\ discovery'.step = "count" => discovery'.at > Len(discovery.listing)
        /\ DiscoverySource' = DiscoverySource
    BY <1>1, NextEntryFacts
  <1>9. ListingSound'
    BY <1>1, <1>8, ListingIsKept DEF Recording, AtEntry
  <1>10. EntrySound'
    BY <1>8 DEF EntrySound
  <1>11. SeparateListing'
    BY <1>1, <1>8, StaticFacts DEF IInv, Typed, SeparateListing, Recording, AtEntry
  <1>12. ASSUME ~discovery.canceled, Sure(b), NEW v \in selected[b]
         PROVE  Handled(b, v) \/ Handled(b, v)' \/ ToCome(v)'
    <2>1. Handled(b, v) \/ ToCome(v)
      BY <1>1, <1>12 DEF IInv, Typed, SelectionSound, Recording
    <2>2. ASSUME v = Listed, InScope
          PROVE  Handled(b, v)'
      <3>1. discovery.seen \notin Unhandled
        BY <1>4, <1>12, <2>2 DEF Fresh, Unhandled
      <3>2. SourceOf'[discovery'.backfill] = DiscoverySource
        BY <1>1, <1>8, StaticFacts DEF DiscoverySource
      <3> QED
        BY <1>6, <2>2, <3>1, <3>2 DEF Handled, RowOf
    <2>3. CASE Repeatable(b) /\ ToCome(v)
      <3>1. PICK i \in discovery.at..Len(discovery.listing) : discovery.listing[i] = v
        BY <2>3 DEF ToCome
      <3>2. CASE i = discovery.at
        <4>1. v = Listed
          BY <3>1, <3>2 DEF Listed
        <4> QED
          BY <1>1, <1>12, <2>2, <2>3, <4>1, SelectedAnywhere
      <3>3. CASE i # discovery.at
        <4>1. i \in (discovery.at + 1)..Len(discovery.listing)
          BY <1>3, <3>1, <3>3
        <4> QED
          BY <1>1, <1>8, <2>3, <3>1, <4>1, StaticFacts DEF ToCome
      <3> QED
        BY <3>2, <3>3
    <2>4. CASE ~Repeatable(b) /\ ToCome(v)
      BY <2>2, <2>4 DEF ToCome
    <2> QED
      BY <2>1, <2>3, <2>4
  <1>13. SelectionSound'
    BY <1>1, <1>7, <1>8, <1>12, SelectionIsKept
  <1> QED
    BY <1>1, <1>2, <1>7, <1>9, <1>10, <1>11, <1>13, DiscoveryFrameKeeps, ControlIsKept
       DEF IInv, Typed

LEMMA CountKeeps ==
  ASSUME IInv, CountSnapshot
  PROVE  IInv' /\ DiscoveryFrame
  <1> DEFINE b == discovery.backfill
  <1>1. /\ discovery # None /\ discovery.step = "count"
        /\ UNCHANGED <<setting, automatic, status, selected, up, turn, job, control, approval, faults>>
    BY DEF CountSnapshot, InDiscovery
  <1>2. DiscoveryFrame
    BY <1>1, NoRowChanges
  <1>3. Typed'
    BY TypedStays DEF IInv, Next, DiscoveryStep
  <1>4. /\ discovery \in Discovery /\ b \in Backfills
        /\ bstate[b] \in {"discovering", "canceled"}
        /\ \A u \in Users : Steers(u, b) => control[u].action = "cancel"
        /\ discovery.canceled => bstate[b] = "canceled"
        /\ discovery.at > Len(discovery.listing)
        /\ discovery.at \in Nat /\ Len(discovery.listing) \in Nat
        /\ discovery.own => DiscoverySource \in Trusted
    BY <1>1, InHand DEF IInv, Typed, ListingSound, Recording
  <1>5. /\ bstate'[b] = StateAfterSnapshot(bstate[b])
        /\ \A o \in Backfills : o # b => bstate'[o] = bstate[o]
    BY <1>4 DEF CountSnapshot, IInv, Typed, TypeOK, TablesTypeOK
  <1>6. discovery' = [discovery EXCEPT !.step = "refresh"]
    BY DEF CountSnapshot
  <1>7. /\ discovery' # None
        /\ discovery'.backfill = b /\ discovery'.step = "refresh"
        /\ discovery'.canceled = discovery.canceled /\ discovery'.own = discovery.own
    <2>1. discovery' \in Discovery
      BY <1>4, <1>6, DiscoveryTypes DEF DiscoverySteps
    <2> QED
      BY <1>4, <1>6, <2>1, DiscoveryIsSome DEF Discovery, Listing, DiscoverySteps, IInv, Typed
  <1>8. DiscoverySource' = DiscoverySource
    BY <1>1, <1>7, StaticFacts DEF DiscoverySource
  <1>9. ListingSound'
    BY <1>1, <1>4, <1>5, <1>7, <1>8, StaticFacts
    DEF ListingSound, AtEntry, Recording, StateAfterSnapshot
  <1>10. EntrySound' /\ SeparateListing'
    BY <1>7 DEF EntrySound, SeparateListing, Recording, AtEntry
  <1>11. \A o \in Backfills : Complete(o)' = Complete(o)
    BY <1>1, StaticFacts DEF Complete, Sure, Handled, RowOf
  <1>12. bstate[b] = "discovering" => Complete(b)
    <2> SUFFICES ASSUME bstate[b] = "discovering", Sure(b), NEW v \in selected[b]
                 PROVE  Handled(b, v)
      BY DEF Complete
    <2>1. ~discovery.canceled
      BY <1>4
    <2>2. Handled(b, v) \/ ToCome(v)
      BY <1>1, <2>1 DEF IInv, Typed, SelectionSound, Recording
    <2>3. ~ToCome(v)
      BY <1>1, <1>4 DEF ToCome
    <2> QED
      BY <2>2, <2>3
  <1>13. ControlSound'
    BY <1>1, <1>4, <1>5, <1>11, StaticFacts DEF IInv, Typed, ControlSound, Steers
  <1>14. SelectionSound'
    <2>1. \A o \in Backfills :
            bstate'[o] \notin {"absent", "discovering", "failed", "canceled"} => Complete(o)
      BY <1>4, <1>5, <1>12 DEF IInv, Typed, SelectionSound, StateAfterSnapshot
    <2>2. ASSUME NEW o \in Backfills, faults = 0, bstate'[o] \in {"absent", "discovering"}
          PROVE  selected[o] = {}
      BY <1>4, <1>5, <2>2 DEF IInv, Typed, SelectionSound, StateAfterSnapshot
    <2>3. discovery'.step \notin Recording
      BY <1>7 DEF Recording, AtEntry
    <2> QED
      BY <1>1, <1>11, <2>1, <2>2, <2>3, StaticFacts DEF IInv, Typed, SelectionSound
  <1> QED
    BY <1>1, <1>2, <1>3, <1>9, <1>10, <1>13, <1>14, DiscoveryFrameKeeps DEF IInv, Typed

LEMMA RefreshSnapshotKeeps ==
  ASSUME IInv, RefreshSnapshot
  PROVE  IInv' /\ DiscoveryFrame
  <1> DEFINE b == discovery.backfill
  <1>1. /\ discovery # None /\ discovery.step = "refresh" /\ discovery' = None
        /\ UNCHANGED <<setting, automatic, status, selected, up, turn, job, control, approval, faults>>
        /\ Refresh(SnapshotRefreshes)
    BY DEF RefreshSnapshot, InDiscovery
  <1>2. DiscoveryFrame
    BY <1>1, NoRowChanges
  <1>3. Typed'
    BY TypedStays DEF IInv, Next, DiscoveryStep
  <1>4. \A o \in Backfills :
          \/ bstate'[o] = bstate[o]
          \/ bstate[o] \in Live /\ bstate'[o] \in Live \cup {"partial", "completed"}
    BY <1>1, RefreshEffect DEF IInv, Typed
  <1>5. b \in Backfills /\ bstate[b] \notin {"absent", "discovering"}
    BY <1>1, InHand DEF IInv, Typed, ListingSound
  <1>6. \A o \in Backfills : Complete(o)' = Complete(o)
    BY <1>1, StaticFacts DEF Complete, Sure, Handled, RowOf
  <1>7. ControlSound'
    BY <1>1, <1>4, <1>6, StaticFacts DEF IInv, Typed, ControlSound, Steers, Live
  <1>8. SelectionSound'
    <2>1. \A o \in Backfills :
            bstate'[o] \notin {"absent", "discovering", "failed", "canceled"} => Complete(o)
      BY <1>4 DEF IInv, Typed, SelectionSound, Live
    <2>2. ASSUME NEW o \in Backfills, faults = 0, bstate'[o] \in {"absent", "discovering"}
          PROVE  selected[o] = {}
      <3>1. bstate[o] \in {"absent", "discovering"} /\ o # b
        BY <1>4, <1>5, <2>2 DEF Live
      <3> QED
        BY <2>2, <3>1 DEF IInv, Typed, SelectionSound
    <2> QED
      BY <1>1, <1>6, <2>1, <2>2, StaticFacts DEF IInv, Typed, SelectionSound
  <1> QED
    BY <1>1, <1>2, <1>3, <1>7, <1>8, DiscoveryFrameKeeps
    DEF IInv, Typed, ListingSound, EntrySound, SeparateListing

---------------------------------------------------------------------------
(* The backfill workers.                                                   *)

LEMMA InitHolds ==
  ASSUME Init
  PROVE  IInv
  <1> USE DEF Init, TablesInit
  <1>1. setting \in Settings /\ IsSetting(setting)
    BY BackfillAssumption
  <1>2. \A s \in Sources, v \in Videos :
          /\ status[s][v] \in {"queued", "absent"}
          /\ status[s][v] = "queued" => s \in Automatic
    <2>1. Waiting \subseteq Automatic \X Videos
      BY <1>1 DEF IsSetting, Waiting, Automatic
    <2> QED
      BY <2>1
  <1>3. Automatic \subseteq Sources /\ MaxFaults \in Nat
    BY <1>1 DEF IsSetting, Automatic, MaxFaults
  <1>4. status \in [Sources -> [Videos -> Statuses]]
    <2>1. {"queued", "absent"} \subseteq Statuses
      BY DEF Statuses, Pending
    <2> QED
      BY <2>1
  <1>5. TypeOK
    BY <1>3, <1>4 DEF TypeOK, TablesTypeOK, Origins, BackfillStates
  <1>6. ReviewSound
    BY <1>2 DEF ReviewSound, ReviewFirstHolds, Trusted, Pending
  <1>7. SeparateRows
    BY <1>2 DEF SeparateRows, RowOf, Pending
  <1>8. SelectionSound /\ ControlSound
    BY DEF SelectionSound, ControlSound, Complete, Steers
  <1> QED
    BY <1>5, <1>6, <1>7, <1>8
    DEF IInv, Typed, Placed, Settled, ListingSound, EntrySound, JobSound, ApprovalSound,
        SeparateListing

LEMMA Unchanged ==
  ASSUME IInv, UNCHANGED vars
  PROVE  IInv'
  <1> USE DEF vars, tables, workers
  <1>1. DiscoveryFrame
    BY NoRowChanges
  <1>2. Typed'
    BY TypedStays DEF IInv
  <1>3. ReviewSound' /\ SeparateRows' /\ JobSound' /\ ApprovalSound' /\ ControlSound'
    BY <1>1, DiscoveryFrameKeeps, ControlIsKept
  <1>4. /\ DiscoverySource' = DiscoverySource /\ Listed' = Listed /\ CurrentRow' = CurrentRow
        /\ InScope' = InScope
    BY DEF DiscoverySource, Listed, CurrentRow, RowOf, SourceOf, InScope, Selects, ScopeOf
  <1>5. ListingSound'
    BY <1>4, StaticFacts DEF IInv, Typed, ListingSound, Steers
  <1>6. EntrySound'
    BY <1>4, StaticFacts DEF IInv, Typed, EntrySound, AllowedBy, RowOf
  <1>7. SeparateListing'
    BY <1>4, StaticFacts DEF IInv, Typed, SeparateListing
  <1>8. SelectionSound'
    <2>1. \A o \in Backfills : Complete(o)' = Complete(o)
      BY StaticFacts DEF Complete, Sure, Handled, RowOf
    <2>2. \A v : ToCome(v)' = ToCome(v)
      BY <1>4 DEF ToCome, Repeatable, ScopeOf, Listings
    <2>3. Sure(discovery.backfill)' = Sure(discovery.backfill)
      BY DEF Sure, Repeatable, ScopeOf, Listings
    <2>4. \A v : Handled(discovery.backfill, v)' = Handled(discovery.backfill, v)
      BY DEF Handled, RowOf, SourceOf
    <2> QED
      BY <2>1, <2>2, <2>3, <2>4, StaticFacts DEF IInv, Typed, SelectionSound
  <1> QED
    BY <1>2, <1>3, <1>5, <1>6, <1>7, <1>8 DEF IInv, Typed

LEMMA DiscoveryStands ==
  ASSUME IInv, DiscoveryStep, DiscoveryFrame
  PROVE  ResultsStand
  <1>1. \A s \in Sources, v \in Videos :
          Separate /\ status[s][v] = "indexed" => status'[s][v] = "indexed"
    BY DEF DiscoveryFrame
  <1>2. ASSUME NEW b \in Backfills, bstate[b] \in {"canceled", "paused"}
        PROVE  bstate'[b] = bstate[b]
    <2>1. CASE ListingFails
      <3>1. /\ discovery.backfill \in Backfills
            /\ bstate[discovery.backfill] \in {"discovering", "canceled"}
        BY <2>1, InHand DEF ListingFails, InDiscovery, IInv, Typed, ListingSound, Recording
      <3> QED
        BY <1>2, <2>1, <3>1 DEF ListingFails, StateAfterFailedListing, IInv, Typed, TypeOK,
           TablesTypeOK
    <2>2. CASE CountSnapshot
      BY <1>2, <2>2 DEF CountSnapshot, StateAfterSnapshot, IInv, Typed, TypeOK, TablesTypeOK
    <2>3. CASE RefreshSnapshot
      BY <1>2, <2>3, RefreshEffect DEF RefreshSnapshot, IInv, Typed, Live
    <2>4. CASE bstate' = bstate
      BY <2>4
    <2> QED
      BY <2>1, <2>2, <2>3, <2>4 DEF DiscoveryStep, PickBackfill, ReadState, LookUp, RecordEntry,
         DecideEntry, MarkEntry, tables
  <1> QED
    BY <1>1, <1>2 DEF ResultsStand

LEMMA NextKeeps ==
  ASSUME IInv, [Next]_vars
  PROVE  IInv' /\ ResultsStand
  <1>1. CASE DiscoveryStep
    BY <1>1, PickKeeps, ListingFailsKeeps, ReadStateKeeps, LookUpKeeps, RecordKeeps,
       DecideKeeps,
       MarkKeeps, CountKeeps, RefreshSnapshotKeeps, DiscoveryStands DEF DiscoveryStep
  <1>2. CASE ~DiscoveryStep /\ Next
    BY <1>2, DispatcherKeeps, UsersKeep, ApprovalKeeps, ServerKeeps DEF Next
  <1>3. CASE UNCHANGED vars
    <2>1. ResultsStand
      BY <1>3 DEF ResultsStand, vars, tables
    <2> QED
      BY <1>3, <2>1, Unchanged
  <1> QED
    BY <1>1, <1>2, <1>3

(* The invariant of the backfill workers, whatever is listed, approved,    *)
(* paused, canceled and interrupted in whichever order.                    *)
THEOREM Invariant == Spec => []IInv
  <1>1. IInv /\ [Next]_vars => IInv'
    BY NextKeeps
  <1> QED
    BY InitHolds, <1>1, PTL DEF Spec

(* record_snapshot and the queues: a video of a source that holds new      *)
(* uploads for review is queued or processed only when a source that is    *)
(* trusted lists it as well, and otherwise waits for a user's approval.    *)
THEOREM ReviewIsFirst == Spec => []ReviewFirstHolds
  <1>1. IInv => ReviewFirstHolds
    BY DEF IInv, Typed, ReviewSound
  <1> QED
    BY <1>1, Invariant, PTL

(* claim and process_claimed: the row the dispatcher works on stays        *)
(* 'running' until its report is written, where nobody approves the same   *)
(* video for another source.                                               *)
THEOREM DispatcherKeepsItsVideo == Spec => []HeldVideoIsRunning
  <1>1. IInv => HeldVideoIsRunning
    BY DEF IInv, Typed, JobSound, HeldVideoIsRunning, RowOf
  <1> QED
    BY <1>1, Invariant, PTL

(* record_snapshot: once the listing of a request is recorded, every video *)
(* it selected has been queued, filtered, held or settled, even when the   *)
(* listing broke off and was repeated, for the scopes that select the same *)
(* videos again.                                                           *)
THEOREM SelectionsAreHandled == Spec => []SelectedIsHandled
  <1>1. IInv => SelectedIsHandled
    BY DEF IInv, Typed, SelectionSound, SelectedIsHandled, Complete, Sure, Handled, RowOf
  <1> QED
    BY <1>1, Invariant, PTL

(* control_backfill and the workers: no step but a user's own undoes a     *)
(* pause or a cancel, and an indexed video stays indexed up to a fault.    *)
THEOREM ResultsDoStand == Spec => [][ResultsStand]_vars
  <1>1. IInv /\ [Next]_vars => [ResultsStand]_vars
    BY NextKeeps
  <1> QED
    BY <1>1, Invariant, PTL DEF Spec

---------------------------------------------------------------------------
(* The checks.                                                             *)

\* The checks of a source that run, and the one that may start.
Margin(s) == Cardinality(Checking(s)) + IF claimed[s] = "held" THEN 0 ELSE 1

\* A claim that is lost lets one more check in.  A stopped server has yet to release
\* the claims when it starts; without the CLI no check is left by then.
ClaimSound(s) ==
  IF "cli" \in Kinds
  THEN Margin(s) + (IF up THEN 0 ELSE 1) <= 1 + stales + faults
  ELSE Margin(s) <= 1 + stales /\ (up \/ Checking(s) = {})

ClaimsSound == \A s \in Sources : ClaimSound(s)

\* A check marks what it has decided on.
VerdictTyped(r) == r.step = "mark" => r.video \in Videos /\ r.verdict \in Statuses

VerdictsTyped == \A c \in Checkers : check[c] # None => VerdictTyped(check[c])

CheckInv ==
  /\ ChecksTypeOK /\ Typed /\ ClaimsSound /\ VerdictsTyped
  /\ Checkers = {} => IInv

LEMMA CheckSettings ==
  ASSUME setting' = setting
  PROVE  /\ Checkers' = Checkers /\ Kinds' = Kinds /\ MaxStale' = MaxStale /\ MaxFaults' = MaxFaults
         /\ CheckListings' = CheckListings /\ Check' = Check
  BY DEF Checkers, Kinds, MaxStale, MaxFaults, CheckListings, Check

\* What a check can become.
LEMMA CheckTypes ==
  ASSUME ChecksTypeOK, NEW c \in Checkers, check[c] # None
  PROVE  /\ check[c] \in Check /\ check[c].source \in Sources
         /\ check[c].todo \subseteq Videos /\ check[c].next \subseteq Videos
         /\ \A st \in {"look", "admit", "queue"}, V \in SUBSET Videos :
              /\ Passing(check[c], st, V) \in Check
              /\ Passing(check[c], st, V).source = check[c].source
              /\ VerdictTyped(Passing(check[c], st, V))
         /\ \A v \in Videos, V \in SUBSET Videos :
              /\ Decided(check[c], v, V) \in Check
              /\ Decided(check[c], v, V).source = check[c].source
              /\ VerdictTyped(Decided(check[c], v, V))
  <1> DEFINE r == check[c]
  <1>1. r \in Check
    BY DEF ChecksTypeOK
  <1>2. r.source \in Sources /\ r.todo \subseteq Videos /\ r.next \subseteq Videos
    BY <1>1 DEF Check
  <1>3. ASSUME NEW st \in {"look", "admit", "queue"}, NEW V \in SUBSET Videos
        PROVE  /\ Passing(r, st, V) \in Check
               /\ Passing(r, st, V).source = r.source
               /\ Passing(r, st, V).step # "mark"
    BY <1>1 DEF Passing, Check
  <1>4. ASSUME NEW v \in Videos, NEW V \in SUBSET Videos
        PROVE  /\ Decided(r, v, V) \in Check
               /\ Decided(r, v, V).source = r.source
               /\ Decided(r, v, V).step # "mark"
    <2>1. CASE r.todo = {v}
      <3>1. /\ Passing(r, "queue", V) \in Check /\ Passing(r, "queue", V).source = r.source
            /\ Passing(r, "queue", V).step # "mark"
        BY <1>3
      <3>2. \A q \in Check : /\ [q EXCEPT !.video = None, !.verdict = None] \in Check
                             /\ [q EXCEPT !.video = None, !.verdict = None].source = q.source
                             /\ [q EXCEPT !.video = None, !.verdict = None].step = q.step
        BY DEF Check
      <3> QED
        BY <2>1, <3>1, <3>2 DEF Decided
    <2>2. CASE r.todo # {v}
      BY <1>1, <2>2 DEF Decided, Check
    <2> QED
      BY <2>1, <2>2
  <1> QED
    BY <1>1, <1>2, <1>3, <1>4 DEF VerdictTyped

\* The checks of a source are finitely many, and the counters natural numbers.
LEMMA Counted ==
  ASSUME ChecksTypeOK, NEW s \in Sources
  PROVE  /\ IsFiniteSet(Checking(s)) /\ Cardinality(Checking(s)) \in Nat
         /\ stales \in Nat /\ faults \in Nat
         /\ \A S \in SUBSET Checking(s) :
              Cardinality(S) \in Nat /\ Cardinality(S) <= Cardinality(Checking(s))
  <1>1. setting \in Settings
    BY DEF ChecksTypeOK, TypeOK, TablesTypeOK
  <1>2. IsFiniteSet(Checkers) /\ MaxStale \in Nat
    BY <1>1, CheckAssumption DEF Checkers, MaxStale
  <1>3. IsFiniteSet(Checking(s))
    BY <1>2, FS_Subset DEF Checking
  <1>4. \A S \in SUBSET Checking(s) :
          Cardinality(S) \in Nat /\ Cardinality(S) <= Cardinality(Checking(s))
    BY <1>3, FS_Subset, FS_CardinalityType
  <1>5. Cardinality(Checking(s)) \in Nat
    BY <1>3, FS_CardinalityType
  <1> QED
    BY <1>2, <1>3, <1>4, <1>5 DEF ChecksTypeOK, TypeOK

\* While no claim changes and no check starts, nothing is lost.
LEMMA ClaimsStay ==
  ASSUME ChecksTypeOK, ClaimsSound, up' = up, stales' = stales, claimed' = claimed,
         faults' \in {faults, faults + 1}, setting' = setting,
         \A s \in Sources : Checking(s)' \subseteq Checking(s)
  PROVE  ClaimsSound'
  <1> SUFFICES ASSUME NEW s \in Sources
               PROVE  ClaimSound(s)'
    BY DEF ClaimsSound
  <1>1. Checking(s)' \in SUBSET Checking(s) /\ Kinds' = Kinds
    BY CheckSettings
  <1>2. /\ Cardinality(Checking(s)') \in Nat
        /\ Cardinality(Checking(s)') <= Cardinality(Checking(s))
        /\ Cardinality(Checking(s)) \in Nat /\ stales \in Nat /\ faults \in Nat
    BY <1>1, Counted
  <1>3. Cardinality(Checking(s))' <= Cardinality(Checking(s))
    BY <1>2
  <1>4. /\ Cardinality(Checking(s))' \in Nat
        /\ Margin(s)' <= Margin(s) /\ Margin(s) \in Nat /\ Margin(s)' \in Nat
    BY <1>2, <1>3 DEF Margin
  <1>5. ClaimSound(s)
    BY DEF ClaimsSound
  <1> QED
    BY <1>1, <1>2, <1>4, <1>5 DEF ClaimSound

\* A step of one check: it stays a check of its source, or ends.
LEMMA CheckMoves ==
  ASSUME CheckInv, NEW c \in Checkers, NEW r \in Check, check[c] # None,
         r.source = check[c].source, VerdictTyped(r), Continue(c, r),
         status' \in [Sources -> [Videos -> Statuses]],
         origin' \in [Sources -> [Videos -> Origins]],
         UNCHANGED <<setting, automatic, bstate, note, position, selected, frozen, workers,
                     claimed, due, checked, stales>>
  PROVE  CheckInv'
  <1> USE CheckSettings
  <1>1. Typed'
    <2>1. TypeOK'
      BY TypesKept DEF CheckInv, Typed, TypeOK, TablesTypeOK, workers
    <2> QED
      BY <2>1 DEF CheckInv, Typed, Placed, Settled, workers
  <1>2. check' = [check EXCEPT ![c] = r]
    BY DEF Continue
  <1>3. ChecksTypeOK'
    <2>1. check' \in [Checkers -> Check \cup {None}]
      BY <1>2 DEF CheckInv, ChecksTypeOK
    <2> QED
      BY <1>1, <2>1 DEF CheckInv, ChecksTypeOK, Typed
  <1>4. ClaimsSound'
    <2>1. \A s \in Sources : Checking(s)' \subseteq Checking(s)
      BY <1>2 DEF CheckInv, ChecksTypeOK, Checking
    <2> QED
      BY <2>1, ClaimsStay DEF CheckInv, workers
  <1>5. VerdictsTyped'
    <2>1. \A d \in Checkers : check'[d] = IF d = c THEN r ELSE check[d]
      BY <1>2 DEF CheckInv, ChecksTypeOK
    <2> QED
      BY <2>1 DEF CheckInv, VerdictsTyped, VerdictTyped
  <1> QED
    BY <1>1, <1>3, <1>4, <1>5 DEF CheckInv

LEMMA CheckStepKeeps ==
  ASSUME CheckInv, NEW c \in Checkers, CheckStep(c)
  PROVE  CheckInv'
  <1> DEFINE r == check[c]
  <1> USE CheckSettings
  <1>1. check[c] # None
    BY DEF CheckStep, PassGate, ListUploads, LookAtUpload, AdmitUpload, MarkUpload,
       EnqueueUpload,
       IngestUpload, CheckFails, FinishCheck, In
  <1>2. /\ ChecksTypeOK /\ TypeOK /\ Typed /\ setting \in Settings
        /\ status \in [Sources -> [Videos -> Statuses]]
        /\ origin \in [Sources -> [Videos -> Origins]]
    BY DEF CheckInv, Typed, TypeOK, TablesTypeOK
  <1>3. /\ r \in Check /\ r.source \in Sources /\ r.todo \subseteq Videos /\ r.next \subseteq Videos
        /\ \A st \in {"look", "admit", "queue"}, V \in SUBSET Videos :
             /\ Passing(r, st, V) \in Check /\ Passing(r, st, V).source = r.source
             /\ VerdictTyped(Passing(r, st, V))
        /\ \A v \in Videos, V \in SUBSET Videos :
             /\ Decided(r, v, V) \in Check /\ Decided(r, v, V).source = r.source
             /\ VerdictTyped(Decided(r, v, V))
    BY <1>1, <1>2, CheckTypes
  <1>4. \A x \in Check : Continue(c, x) /\ x.source = r.source /\ VerdictTyped(x)
          /\ UNCHANGED <<vars, claimed, due, checked, stales>> => CheckInv'
    BY <1>1, <1>2, CheckMoves DEF vars, tables
  <1>5. CASE PassGate(c)
    <2>1. \A st \in {"wait", "list"} : /\ [r EXCEPT !.step = st] \in Check
                                       /\ [r EXCEPT !.step = st].source = r.source
                                       /\ [r EXCEPT !.step = st].step = st
      BY <1>3 DEF Check
    <2>2. PICK st \in {"wait", "list"} : Continue(c, [r EXCEPT !.step = st])
      BY <1>5 DEF PassGate
    <2> QED
      BY <1>4, <1>5, <2>1, <2>2 DEF PassGate, VerdictTyped
  <1>6. CASE ListUploads(c)
    <2>1. CheckListings \subseteq SUBSET Videos
      BY <1>2, CheckAssumption DEF CheckListings
    <2>2. PICK l \in CheckListings : Continue(c, Passing(check[c], "look", l))
      BY <1>6 DEF ListUploads
    <2> QED
      BY <1>3, <1>4, <1>6, <2>1, <2>2 DEF ListUploads
  <1>7. CASE LookAtUpload(c)
    <2>1. PICK v \in r.todo :
            LET wanted == Wants(r, status[r.source][v])
                rejected == <<r.source, v>> \in Excluded
                passed == IF wanted /\ ~rejected THEN r.next \cup {v} ELSE r.next
            IN  /\ IF wanted /\ rejected THEN Mark(r.source, v, "filtered") ELSE Upsert(r.source, v)
                /\ Continue(c, IF r.todo = {v} THEN Passing(r, "admit", passed)
                               ELSE [r EXCEPT !.todo = @ \ {v}, !.next = passed])
      BY <1>7 DEF LookAtUpload
    <2>2. v \in Videos /\ "filtered" \in Statuses
      BY <1>3 DEF Statuses
    <2>3. status' \in [Sources -> [Videos -> Statuses]]
      BY <1>2, <1>3, <2>1, <2>2, MarkEffect, UpsertEffect
    <2>4. \A V \in SUBSET Videos : /\ [r EXCEPT !.todo = @ \ {v}, !.next = V] \in Check
                                   /\ [r EXCEPT !.todo = @ \ {v}, !.next = V].source = r.source
                                   /\ [r EXCEPT !.todo = @ \ {v}, !.next = V].step = r.step
      BY <1>3 DEF Check
    <2>5. PICK V \in SUBSET Videos :
            Continue(c, IF r.todo = {v} THEN Passing(r, "admit", V)
                        ELSE [r EXCEPT !.todo = @ \ {v}, !.next = V])
      BY <1>3, <2>1, <2>2
    <2>6. r.step # "mark"
      BY <1>7 DEF LookAtUpload, In
    <2>7. PICK x \in Check : Continue(c, x) /\ x.source = r.source /\ VerdictTyped(x)
      BY <1>3, <2>4, <2>5, <2>6 DEF VerdictTyped
    <2> QED
      BY <1>1, <1>2, <1>7, <2>3, <2>7, CheckMoves DEF LookAtUpload
  <1>8. CASE AdmitUpload(c)
    <2>1. PICK v \in r.todo :
            \E a \in Admission(r.source, v, r.own) :
              Continue(c, IF a = "process" THEN Decided(r, v, r.next \cup {v})
                          ELSE [r EXCEPT !.step = "mark", !.video = v, !.verdict = a])
      BY <1>8 DEF AdmitUpload
    <2>2. PICK a \in Admission(r.source, v, r.own) :
            Continue(c, IF a = "process" THEN Decided(r, v, r.next \cup {v})
                        ELSE [r EXCEPT !.step = "mark", !.video = v, !.verdict = a])
      BY <2>1
    <2>3. v \in Videos /\ (a # "process" => a \in Statuses)
      BY <1>3 DEF Admission, ProcessedElsewhere, Processed, Statuses, Outcomes
    <2>4. CASE a = "process"
      BY <1>3, <1>4, <1>8, <2>2, <2>3, <2>4 DEF AdmitUpload
    <2>5. CASE a # "process"
      <3>1. \A x \in Statuses :
              /\ [r EXCEPT !.step = "mark", !.video = v, !.verdict = x] \in Check
              /\ [r EXCEPT !.step = "mark", !.video = v, !.verdict = x].source = r.source
              /\ [r EXCEPT !.step = "mark", !.video = v, !.verdict = x].video = v
              /\ [r EXCEPT !.step = "mark", !.video = v, !.verdict = x].verdict = x
        BY <1>3, <2>3 DEF Check
      <3> QED
        BY <1>4, <1>8, <2>2, <2>3, <2>5, <3>1 DEF AdmitUpload, VerdictTyped
    <2> QED
      BY <2>4, <2>5
  <1>9. CASE MarkUpload(c)
    <2>1. Mark(r.source, r.video, r.verdict) /\ Continue(c, Decided(r, r.video, r.next))
      BY <1>9 DEF MarkUpload
    <2>2. r.video \in Videos /\ r.verdict \in Statuses
      BY <1>1, <1>9 DEF MarkUpload, In, CheckInv, VerdictsTyped, VerdictTyped
    <2>3. status' \in [Sources -> [Videos -> Statuses]]
      BY <1>2, <1>3, <2>1, <2>2, MarkEffect
    <2> QED
      BY <1>1, <1>2, <1>3, <1>9, <2>1, <2>2, <2>3, CheckMoves DEF MarkUpload
  <1>10. CASE EnqueueUpload(c)
    <2>1. PICK v \in r.todo :
            Queue(r.source, v, "new") /\ Continue(c, Passing(r, "queue", r.todo \ {v}))
      BY <1>10 DEF EnqueueUpload
    <2>2. v \in Videos /\ "new" \in Origins
      BY <1>3 DEF Origins
    <2>3. /\ status' \in [Sources -> [Videos -> Statuses]]
          /\ origin' \in [Sources -> [Videos -> Origins]]
      <3>1. Mark(r.source, v, "queued") /\ origin' \in [Sources -> [Videos -> Origins]]
        BY <1>2, <1>3, <2>1, <2>2, QueueEffect
      <3>2. "queued" \in Statuses
        BY DEF Statuses, Pending
      <3> QED
        BY <1>2, <1>3, <2>2, <3>1, <3>2, MarkEffect
    <2> QED
      BY <1>1, <1>2, <1>3, <1>10, <2>1, <2>2, <2>3, CheckMoves DEF EnqueueUpload
  <1>11. CASE IngestUpload(c)
    <2>1. PICK v \in r.todo, o \in Results \cap Outcomes :
            /\ status' = [s \in Sources |-> [status[s] EXCEPT ![v] =
                 IF s = r.source \/ @ = "awaiting_review" THEN o ELSE @]]
            /\ Continue(c, Passing(r, "queue", r.todo \ {v}))
      BY <1>11 DEF IngestUpload
    <2>2. v \in Videos /\ o \in Statuses
      BY <1>3, <2>1 DEF Outcomes, Statuses
    <2>3. status' \in [Sources -> [Videos -> Statuses]]
      <3>1. \A s \in Sources : status[s] \in [Videos -> Statuses]
        BY <1>2
      <3>2. \A s \in Sources : [status[s] EXCEPT ![v] =
              IF s = r.source \/ @ = "awaiting_review" THEN o ELSE @] \in [Videos -> Statuses]
        BY <2>2, <3>1
      <3> QED
        BY <2>1, <3>2
    <2> QED
      BY <1>1, <1>2, <1>3, <1>11, <2>1, <2>3, CheckMoves DEF IngestUpload
  <1>12. CASE CheckFails(c)
    <2>1. /\ [r EXCEPT !.step = "finish", !.todo = {}, !.next = {}, !.video = None, !.verdict = None]
               \in Check
          /\ [r EXCEPT !.step = "finish", !.todo = {}, !.next = {}, !.video = None,
                       !.verdict = None].source = r.source
          /\ [r EXCEPT !.step = "finish", !.todo = {}, !.next = {}, !.video = None,
                       !.verdict = None].step = "finish"
      BY <1>3 DEF Check
    <2> QED
      BY <1>4, <1>12, <2>1 DEF CheckFails, VerdictTyped
  <1>13. CASE FinishCheck(c)
    <2>1. /\ claimed' = [claimed EXCEPT ![r.source] = "free"]
          /\ check' = [check EXCEPT ![c] = None]
          /\ due' \subseteq due /\ checked' \subseteq checked \cup {r.source}
          /\ UNCHANGED <<vars, stales>>
      BY <1>13 DEF FinishCheck
    <2>2. setting' = setting
      BY <2>1 DEF vars, tables
    <2>3. Typed' /\ TypeOK'
      BY <1>2, <2>1, TypedStays DEF Typed
    <2>4. ChecksTypeOK'
      BY <1>2, <1>3, <2>1, <2>2, <2>3 DEF ChecksTypeOK
    <2>5. VerdictsTyped'
      BY <2>1, <2>2 DEF CheckInv, VerdictsTyped, VerdictTyped, ChecksTypeOK
    <2>6. ClaimsSound'
      <3> SUFFICES ASSUME NEW s \in Sources
                   PROVE  ClaimSound(s)'
        BY DEF ClaimsSound
      <3>1. Checking(s)' = Checking(s) \ {c} /\ Kinds' = Kinds
        BY <2>1, <2>2 DEF CheckInv, ChecksTypeOK, Checking
      <3>2. s = r.source => c \in Checking(s)
        BY <1>1 DEF Checking
      <3>3. /\ IsFiniteSet(Checking(s)) /\ Cardinality(Checking(s)) \in Nat
            /\ stales \in Nat /\ faults \in Nat
        BY <1>2, Counted
      <3>4. /\ Cardinality(Checking(s) \ {c}) \in Nat
            /\ Cardinality(Checking(s) \ {c}) = IF c \in Checking(s)
                 THEN Cardinality(Checking(s)) - 1 ELSE Cardinality(Checking(s))
        BY <3>3, FS_RemoveElement, FS_CardinalityType
      <3>5. claimed'[s] = IF s = r.source THEN "free" ELSE claimed[s]
        BY <1>2, <2>1 DEF ChecksTypeOK
      <3>6. c \in Checking(s) => s = r.source
        BY DEF Checking
      <3>7. Cardinality(Checking(s))' = Cardinality(Checking(s) \ {c})
        BY <3>1
      <3>8. Margin(s)' <= Margin(s) /\ Margin(s) \in Nat /\ Margin(s)' \in Nat
        BY <3>2, <3>3, <3>4, <3>5, <3>6, <3>7 DEF Margin
      <3>9. ClaimSound(s) /\ up' = up /\ faults' = faults /\ stales' = stales
        BY <2>1 DEF CheckInv, ClaimsSound, vars, workers
      <3> QED
        BY <3>1, <3>3, <3>8, <3>9 DEF ClaimSound
    <2> QED
      BY <2>3, <2>4, <2>5, <2>6, <2>2 DEF CheckInv
  <1> QED
    BY <1>5, <1>6, <1>7, <1>8, <1>9, <1>10, <1>11, <1>12, <1>13 DEF CheckStep

LEMMA ChecksBegin ==
  ASSUME ChecksInit
  PROVE  CheckInv
  <1>1. IInv
    BY InitHolds DEF ChecksInit
  <1>2. Typed /\ TypeOK /\ setting \in Settings
    BY <1>1 DEF IInv, Typed, TypeOK, TablesTypeOK
  <1>3. MaxStale \in Nat
    BY <1>2, CheckAssumption DEF MaxStale
  <1>4. ClaimsSound
    <2>1. \A s \in Sources : Checking(s) = {} /\ claimed[s] = "free"
      BY DEF ChecksInit, Checking
    <2>2. up /\ stales = 0 /\ faults = 0
      BY DEF ChecksInit, Init
    <2> QED
      BY <2>1, <2>2, FS_EmptySet DEF ClaimsSound, ClaimSound, Margin
  <1> QED
    BY <1>1, <1>2, <1>3, <1>4 DEF ChecksInit, CheckInv, ChecksTypeOK, VerdictsTyped, Init

LEMMA ClaimKeeps ==
  ASSUME CheckInv, NEW c \in Checkers, NEW s \in Sources, NEW kind \in Kinds,
         ClaimCheck(c, s, kind), up \/ kind = "cli"
  PROVE  CheckInv'
  <1> DEFINE q == [source |-> s, kind |-> kind, own |-> s \in automatic,
                   step |-> "gate", todo |-> {}, next |-> {}, video |-> None, verdict |-> None]
  <1>1. /\ Unclaimed(s) /\ check[c] = None
        /\ claimed' = [claimed EXCEPT ![s] = "held"]
        /\ check' = [check EXCEPT ![c] = q]
        /\ UNCHANGED <<vars, due, checked, stales>>
    BY DEF ClaimCheck
  <1>2. q \in Check /\ q.source = s /\ q.step = "gate"
    BY DEF Check
  <1> HIDE DEF q
  <1>3. setting' = setting
    BY <1>1 DEF vars, tables
  <1> USE <1>3, CheckSettings
  <1>4. Typed' /\ TypeOK'
    BY <1>1, TypedStays DEF CheckInv, Typed
  <1>5. ChecksTypeOK'
    BY <1>1, <1>2, <1>4 DEF CheckInv, ChecksTypeOK
  <1>6. VerdictsTyped'
    <2>1. \A d \in Checkers : check'[d] = IF d = c THEN q ELSE check[d]
      BY <1>1 DEF CheckInv, ChecksTypeOK
    <2> QED
      BY <1>2, <2>1 DEF CheckInv, VerdictsTyped, VerdictTyped
  <1>7. ClaimsSound'
    <2> SUFFICES ASSUME NEW o \in Sources
                 PROVE  ClaimSound(o)'
      BY DEF ClaimsSound
    <2>1. /\ Checking(o)' \subseteq IF o = s THEN Checking(o) \cup {c} ELSE Checking(o)
          /\ c \notin Checking(o) /\ Kinds' = Kinds
      BY <1>1, <1>2 DEF CheckInv, ChecksTypeOK, Checking
    <2>2. /\ IsFiniteSet(Checking(o)) /\ Cardinality(Checking(o)) \in Nat
          /\ stales \in Nat /\ faults \in Nat
      BY Counted DEF CheckInv
    <2>3. /\ IsFiniteSet(Checking(o) \cup {c})
          /\ Cardinality(Checking(o) \cup {c}) = Cardinality(Checking(o)) + 1
      BY <2>1, <2>2, FS_AddElement
    <2>4. /\ Cardinality(Checking(o)') \in Nat
          /\ Cardinality(Checking(o)') <= Cardinality(Checking(o)) + IF o = s THEN 1 ELSE 0
      BY <2>1, <2>2, <2>3, FS_Subset, FS_CardinalityType
    <2>5. /\ claimed'[o] = IF o = s THEN "held" ELSE claimed[o]
          /\ claimed[s] # "held"
      BY <1>1 DEF CheckInv, ChecksTypeOK, Unclaimed
    <2>6. Cardinality(Checking(o))' = Cardinality(Checking(o)')
      OBVIOUS
    <2>7. Margin(o)' <= Margin(o) /\ Margin(o) \in Nat /\ Margin(o)' \in Nat
      BY <2>2, <2>4, <2>5, <2>6 DEF Margin
    <2>8. /\ ClaimSound(o) /\ up' = up /\ faults' = faults /\ stales' = stales
          /\ up \/ "cli" \in Kinds
      BY <1>1 DEF CheckInv, ClaimsSound, vars, workers
    <2> QED
      BY <2>1, <2>2, <2>7, <2>8 DEF ClaimSound
  <1> QED
    BY <1>4, <1>5, <1>6, <1>7 DEF CheckInv

\* A step of the backfill workers, as the checks see it.
LEMMA BackfillMoves ==
  ASSUME BackfillStep \/ \E s \in Sources : RecordBaseline(s)
  PROVE  Next /\ up' = up /\ setting' = setting /\ faults' \in {faults, faults + 1}
  <1>1. CASE DiscoveryStep \/ DiscoveryFails
    BY <1>1 DEF Next, DiscoveryStep, DiscoveryFails, PickBackfill, ListingFails, ReadState,
       LookUp,
       RecordEntry, DecideEntry, MarkEntry, CountSnapshot, RefreshSnapshot, tables
  <1>2. CASE DispatcherStep \/ ProcessingFails \/ DispatcherFails
    BY <1>2 DEF Next, DispatcherStep, ProcessingFails, DispatcherFails, ClaimNew, ClaimHistory,
       Claimed, AdmitClaimed, ProcessClaimed, SettleElsewhere, RefreshForItem, tables
  <1>3. CASE \E u \in Users : ControlStep(u)
    BY <1>3 DEF Next, ControlStep, ReadForControl, WriteControl, RefreshResumed, Release, tables
  <1>4. CASE ApprovalStep
    BY <1>4 DEF Next, ApprovalStep, Approve, ProcessApproved, RefreshApproved, tables
  <1>5. CASE \/ \E b \in Backfills : StartBackfill(b)
             \/ \E s \in Sources : RecordBaseline(s)
             \/ \E s \in Switchable : SetPolicy(s)
    BY <1>5 DEF Next, RecordBaseline, StartBackfill, SetPolicy, workers
  <1> QED
    BY <1>1, <1>2, <1>3, <1>4, <1>5 DEF BackfillStep

LEMMA BackfillKeepsChecks ==
  ASSUME CheckInv, Next, up' = up, setting' = setting, faults' \in {faults, faults + 1},
         UNCHANGED checkVars
  PROVE  CheckInv'
  <1> USE CheckSettings
  <1>1. Typed' /\ TypeOK'
    BY TypedStays DEF CheckInv, Typed
  <1>2. ChecksTypeOK' /\ VerdictsTyped'
    BY <1>1 DEF CheckInv, ChecksTypeOK, checkVars, VerdictsTyped, VerdictTyped
  <1>4. ClaimsSound'
    BY ClaimsStay DEF CheckInv, checkVars, Checking
  <1>3. Checkers = {} => IInv'
    BY NextKeeps DEF CheckInv
  <1> QED
    BY <1>1, <1>2, <1>3, <1>4 DEF CheckInv

LEMMA ServerKeepsChecks ==
  ASSUME CheckInv, StopServer \/ StartServer
  PROVE  CheckInv'
  <1>1. Next /\ setting' = setting
    BY DEF StopServer, StartServer, Stop, Start, Next, tables
  <1> USE <1>1, CheckSettings
  <1>2. Typed' /\ TypeOK'
    BY TypedStays DEF CheckInv, Typed
  <1>3. /\ \A c \in Checkers : check'[c] \in {check[c], None}
        /\ check' \in [Checkers -> Check \cup {None}]
        /\ claimed' \in [Sources -> {"free", "held", "stale"}]
        /\ UNCHANGED <<due, checked, stales>>
    BY DEF StopServer, StartServer, CheckInv, ChecksTypeOK
  <1>4. ChecksTypeOK' /\ VerdictsTyped'
    BY <1>2, <1>3 DEF CheckInv, ChecksTypeOK, VerdictsTyped, VerdictTyped
  <1>6. ClaimsSound'
    <2> SUFFICES ASSUME NEW s \in Sources
                 PROVE  ClaimSound(s)'
      BY DEF ClaimsSound
    <2>1. ClaimSound(s) /\ Kinds' = Kinds /\ stales' = stales
      BY <1>3 DEF CheckInv, ClaimsSound
    <2>2. Checking(s)' \in SUBSET Checking(s)
      BY <1>3 DEF Checking
    <2>3. /\ Cardinality(Checking(s)') \in Nat
          /\ Cardinality(Checking(s)') <= Cardinality(Checking(s))
          /\ Cardinality(Checking(s)) \in Nat /\ stales \in Nat /\ faults \in Nat
      BY <2>2, Counted DEF CheckInv
    <2>4. Cardinality(Checking(s))' = Cardinality(Checking(s)')
      OBVIOUS
    <2>5. CASE StopServer
      <3>1. up /\ ~up' /\ faults' = faults + 1 /\ claimed' = claimed
        BY <2>5 DEF StopServer, Stop
      <3>2. Margin(s)' <= Margin(s) /\ Margin(s) \in Nat /\ Margin(s)' \in Nat
        BY <2>3, <2>4, <3>1 DEF Margin
      <3>3. "cli" \notin Kinds => Checking(s)' = {}
        BY <2>5 DEF StopServer, Checking, CheckInv, ChecksTypeOK, Check
      <3> QED
        BY <2>1, <2>3, <3>1, <3>2, <3>3 DEF ClaimSound
    <2>6. CASE StartServer
      <3>1. ~up /\ up' /\ faults' = faults /\ claimed'[s] = "free" /\ check' = check
        BY <2>6 DEF StartServer, Start
      <3>2. Checking(s)' = Checking(s)
        BY <3>1 DEF Checking
      <3>3. Margin(s)' = Cardinality(Checking(s)) + 1 /\ Margin(s) >= Cardinality(Checking(s))
        BY <2>3, <2>4, <3>1, <3>2 DEF Margin
      <3>4. Checking(s) = {} => Cardinality(Checking(s)) = 0
        BY FS_EmptySet
      <3> QED
        BY <2>1, <2>3, <3>1, <3>2, <3>3, <3>4 DEF ClaimSound, Margin
    <2> QED
      BY <2>5, <2>6
  <1>7. Checkers = {} => IInv'
    BY NextKeeps DEF CheckInv
  <1> QED
    BY <1>2, <1>4, <1>6, <1>7 DEF CheckInv

LEMMA TimeKeepsChecks ==
  ASSUME CheckInv, ClaimsGoStale \/ (\E s \in Sources : BecomesDue(s)) \/ UNCHANGED allVars
  PROVE  CheckInv'
  <1>1. UNCHANGED vars
    BY DEF ClaimsGoStale, BecomesDue, allVars
  <1>2. setting' = setting /\ up' = up
    BY <1>1 DEF vars, tables, workers
  <1> USE <1>2, CheckSettings
  <1>3. Typed' /\ TypeOK'
    BY <1>1, TypedStays DEF CheckInv, Typed
  <1>4. CASE ClaimsGoStale
    <2>1. MaxStale \in Nat /\ stales \in 0..MaxStale /\ stales < MaxStale /\ stales' = stales + 1
      BY <1>4, CheckAssumption DEF ClaimsGoStale, CheckInv, ChecksTypeOK, TypeOK,
         TablesTypeOK, MaxStale
    <2>2. stales' \in 0..MaxStale
      BY <2>1
    <2>3. claimed' \in [Sources -> {"free", "held", "stale"}] /\ check' = check
      BY <1>4 DEF ClaimsGoStale, CheckInv, ChecksTypeOK
    <2>4. ChecksTypeOK'
      BY <1>3, <1>4, <2>2, <2>3 DEF ClaimsGoStale, CheckInv, ChecksTypeOK
    <2>5. VerdictsTyped'
      BY <2>3 DEF CheckInv, VerdictsTyped, VerdictTyped
    <2>6. ClaimsSound'
      <3> SUFFICES ASSUME NEW s \in Sources
                   PROVE  ClaimSound(s)'
        BY DEF ClaimsSound
      <3>1. Checking(s)' = Checking(s) /\ Kinds' = Kinds /\ faults' = faults
        BY <1>1, <2>3 DEF Checking, vars, workers
      <3>2. Cardinality(Checking(s)) \in Nat /\ faults \in Nat
        BY Counted DEF CheckInv
      <3>3. Margin(s)' <= Margin(s) + 1 /\ Margin(s)' \in Nat /\ Margin(s) \in Nat
        BY <3>1, <3>2 DEF Margin
      <3>4. ClaimSound(s)
        BY DEF CheckInv, ClaimsSound
      <3> QED
        BY <2>1, <3>1, <3>2, <3>3, <3>4 DEF ClaimSound
    <2>11. Checkers = {} => IInv'
      BY <1>1, Unchanged DEF CheckInv
    <2> QED
      BY <1>3, <2>4, <2>5, <2>6, <2>11 DEF CheckInv
  <1>5. CASE ~ClaimsGoStale
    <2>1. /\ due' \subseteq Sources
          /\ UNCHANGED <<check, claimed, checked, stales>>
      BY <1>5 DEF BecomesDue, allVars, checkVars, CheckInv, ChecksTypeOK
    <2>2. ChecksTypeOK' /\ VerdictsTyped'
      BY <1>3, <2>1 DEF CheckInv, ChecksTypeOK, VerdictsTyped, VerdictTyped
    <2>4. ClaimsSound'
      BY <1>1, <2>1, ClaimsStay DEF CheckInv, Checking, vars, workers
    <2>3. Checkers = {} => IInv'
      BY <1>1, Unchanged DEF CheckInv
    <2> QED
      BY <1>3, <2>2, <2>3, <2>4 DEF CheckInv
  <1> QED
    BY <1>4, <1>5

LEMMA ChecksKeep ==
  ASSUME CheckInv, [ChecksNext]_allVars
  PROVE  CheckInv'
  <1>1. CASE BackfillStep /\ UNCHANGED checkVars
    BY <1>1, BackfillMoves, BackfillKeepsChecks
  <1>2. CASE \E s \in Sources : RecordBaseline(s)
    BY <1>2, BackfillMoves, BackfillKeepsChecks DEF RecordBaseline
  <1>3. CASE \E c \in Checkers, s \in Sources : StartCheck(c, s)
    BY <1>3, ClaimKeeps DEF StartCheck, ScheduleCheck, DueSource, CheckNow, CheckByCli
  <1>4. CASE \E c \in Checkers : CheckStep(c)
    BY <1>4, CheckStepKeeps
  <1>5. CASE ClaimsGoStale \/ (\E s \in Sources : BecomesDue(s)) \/ UNCHANGED allVars
    BY <1>5, TimeKeepsChecks
  <1>6. CASE StopServer \/ StartServer
    BY <1>6, ServerKeepsChecks
  <1> QED
    BY <1>1, <1>2, <1>3, <1>4, <1>5, <1>6 DEF ChecksNext

\* Without checkers there are only steps of the backfill workers.
LEMMA OnlyBackfills ==
  ASSUME [ChecksNext]_allVars, Checkers = {}
  PROVE  [Next]_vars
  <1>1. CASE BackfillStep \/ \E s \in Sources : RecordBaseline(s)
    BY <1>1, BackfillMoves
  <1>2. CASE StopServer \/ StartServer
    BY <1>2 DEF StopServer, StartServer, Next
  <1>3. CASE ClaimsGoStale \/ (\E s \in Sources : BecomesDue(s)) \/ UNCHANGED allVars
    BY <1>3 DEF ClaimsGoStale, BecomesDue, allVars
  <1> QED
    BY <1>1, <1>2, <1>3 DEF ChecksNext

(* The invariant of the checks beside the backfill workers.                *)
THEOREM ChecksInvariant == ChecksSpec => []CheckInv
  <1> QED
    BY ChecksBegin, ChecksKeep, PTL DEF ChecksSpec

(* claim_check, finish_check and recover_interrupted_checks: each claim     *)
(* that is lost under a check lets one more check of its source run at     *)
(* most; while none is, a source is checked once at a time.                *)
THEOREM LostClaimsAreCounted == ChecksSpec => []ChecksDoNotPileUp
  <1>1. CheckInv => ChecksDoNotPileUp
    <2>1. SUFFICES ASSUME CheckInv, NEW s \in Sources
                   PROVE  Cardinality(Checking(s)) <= 1 + LostClaims
      BY DEF CheckInv, ChecksDoNotPileUp
    <2>2. Cardinality(Checking(s)) \in Nat /\ stales \in Nat /\ faults \in Nat
      BY <2>1, Counted DEF CheckInv
    <2>3. ClaimSound(s)
      BY <2>1 DEF CheckInv, ClaimsSound
    <2> QED
      BY <2>2, <2>3 DEF ClaimSound, Margin, LostClaims
  <1> QED
    BY <1>1, ChecksInvariant, PTL

(* Where nobody checks, the dispatcher keeps its video and every selection *)
(* is acted upon, with the baselines the scheduler records as well.        *)
THEOREM BackfillsStaySound == ChecksSpec => []BackfillsAreSound
  <1>1. CheckInv => BackfillsAreSound
    BY DEF CheckInv, BackfillsAreSound, IInv, Typed, JobSound, HeldVideoIsRunning,
       SelectionSound,
       SelectedIsHandled, Complete, Sure, Handled, RowOf
  <1> QED
    BY <1>1, ChecksInvariant, PTL

(* Nor does a step undo a user's pause or cancel, or a result, there.      *)
THEOREM NothingIsUndone == ChecksSpec => DecisionsAndResultsStand
  <1>1. CheckInv /\ [ChecksNext]_allVars => [Checkers = {} => ResultsStand]_allVars
    BY OnlyBackfills, NextKeeps DEF CheckInv
  <1> QED
    BY <1>1, ChecksInvariant, PTL DEF ChecksSpec, DecisionsAndResultsStand
---------------------------------------------------------------------------
(* What is set aside.                                                      *)

Before == {"absent", "discovering"}

\* The videos a check has let through and not yet queued.
HandedOn(r) == r.next \cup (IF r.step \in {"admit", "mark", "queue"} THEN r.todo ELSE {})

Past(s) ==
  /\ \E b \in Backfills : SourceOf[b] = s
  /\ \A b \in Backfills : SourceOf[b] = s => bstate[b] \notin Before

Unsteered == \A u \in Users : control[u] = None

\* Nobody cancels what is being listed.
ListingIsOpen ==
  discovery # None /\ discovery.step \in Recording \cup {"list"} =>
    bstate[discovery.backfill] = "discovering"

\* A check finds the history recorded; what it lets through is not set aside.
CheckIsRoutine(r) ==
  /\ Past(r.source)
  /\ r.step = "mark" => r.verdict \notin {"not_selected", "queued"}
  /\ \A v \in HandedOn(r) : status[r.source][v] # "not_selected"

ChecksAreRoutine == \A c \in Checkers : check[c] # None => CheckIsRoutine(check[c])

RoutineInv ==
  Routine =>
    /\ Unsteered /\ ListingIsOpen /\ ChecksAreRoutine
    /\ \A s \in checked : \E b \in Backfills : SourceOf[b] = s /\ bstate[b] # "absent"

\* Requests leave "absent" and then "discovering" for good; a listing is open until it ends.
Onward ==
  /\ \A b \in Backfills : bstate[b] # "absent" => bstate'[b] # "absent"
  /\ \A b \in Backfills : bstate[b] \notin Before => bstate'[b] \notin Before
  /\ Unsteered' /\ ListingIsOpen'

\* Rows are set aside by the listing of their source, and queued from there as history.
SetAside ==
  \A s \in Sources, v \in Videos :
    /\ status'[s][v] = "not_selected" =>
         \/ status[s][v] = "not_selected"
         \/ discovery # None /\ discovery.step = "mark" /\ s = DiscoverySource
    /\ status[s][v] = "not_selected" /\ status'[s][v] = "queued" => origin'[s][v] = "history"

LEMMA RoutineIsStatic ==
  ASSUME setting' = setting
  PROVE  /\ Routine' = Routine
         /\ SourceOf' = SourceOf /\ ScopeOf' = ScopeOf /\ Backfills' = Backfills
  BY DEF Routine, Kinds, SourceOf, ScopeOf, Backfills

LEMMA DecidingIsQuiet ==
  ASSUME Typed, DecideEntry
  PROVE  /\ discovery # None /\ discovery.step = "queue"
         /\ UNCHANGED <<setting, status, bstate, control>>
         /\ discovery'.backfill = discovery.backfill
  <1>1. InDiscovery("queue") /\ UNCHANGED <<tables, up, turn, job, control, approval, faults>>
    BY Zenon DEF DecideEntry
  <1>2. discovery # None /\ discovery.step = "queue"
    BY <1>1, Zenon DEF InDiscovery
  <1>3. UNCHANGED <<setting, status, bstate, control>>
    BY <1>1 DEF tables
  <1>4. discovery \in Discovery
    BY <1>2, ListingFacts DEF Typed
  <1>5. /\ NextEntry.backfill = discovery.backfill
        /\ \A d : [discovery EXCEPT !.step = "mark", !.seen = d].backfill = discovery.backfill
    BY <1>4, Zenon DEF NextEntry, Discovery, Listing
  <1>6. discovery' = NextEntry \/ \E d : discovery' = [discovery EXCEPT !.step = "mark", !.seen = d]
    BY Zenon DEF DecideEntry
  <1>7. discovery'.backfill = discovery.backfill
    BY <1>5, <1>6, Zenon
  <1> QED
    BY <1>2, <1>3, <1>7

LEMMA DiscoveryGoesOn ==
  ASSUME Typed, Unsteered, ListingIsOpen, DiscoveryStep \/ DiscoveryFails
  PROVE  Onward
  <1>1. setting' = setting /\ control' = control
    <2>1. CASE PickBackfill \/ ListingFails \/ ReadState \/ LookUp \/ RecordEntry \/ DiscoveryFails
      BY <2>1 DEF PickBackfill, ListingFails, ReadState, LookUp, RecordEntry, DiscoveryFails, tables
    <2>2. CASE CountSnapshot \/ RefreshSnapshot
      BY <2>2 DEF CountSnapshot, RefreshSnapshot
    <2>3. CASE DecideEntry
      BY <2>3, DecidingIsQuiet
    <2>4. CASE MarkEntry
      BY <2>4 DEF MarkEntry
    <2> QED
      BY <2>1, <2>2, <2>3, <2>4 DEF DiscoveryStep
  <1>0. Backfills' = Backfills
    BY <1>1, RoutineIsStatic
  <1> USE <1>0
  <1>2. Unsteered'
    BY <1>1 DEF Unsteered
  <1>3. discovery # None => discovery \in Discovery /\ discovery.backfill \in Backfills
    BY ListingFacts DEF Typed
  <1>4. bstate \in [Backfills -> BackfillStates]
    BY DEF Typed, TypeOK, TablesTypeOK
  <1>5. CASE PickBackfill
    <2>1. PICK b \in Discovering, l \in Listings, short \in BOOLEAN :
            discovery' = [backfill |-> b, step |-> "list", canceled |-> FALSE, own |-> FALSE,
                          short |-> short, listing |-> l, at |-> 1, seen |-> "absent"]
      BY <1>5 DEF PickBackfill
    <2>2. bstate' = bstate /\ discovery'.backfill = b /\ bstate[b] = "discovering"
      BY <1>5, <2>1 DEF PickBackfill, tables, Discovering
    <2> QED
      BY <1>1, <1>2, <2>2 DEF Onward, ListingIsOpen
  <1>6. CASE bstate' = bstate /\ discovery' = None
    BY <1>1, <1>2, <1>6 DEF Onward, ListingIsOpen
  <1>7. ASSUME bstate' = bstate, discovery # None, discovery.step \in Recording \cup {"list"},
               discovery'.backfill = discovery.backfill
        PROVE  Onward
    BY <1>1, <1>2, <1>7 DEF Onward, ListingIsOpen
  <1>8. CASE ReadState
    <2>1. discovery # None /\ discovery.step = "list" /\ bstate' = bstate
      BY <1>8 DEF ReadState, InDiscovery, tables
    <2>2. discovery'.backfill = discovery.backfill
      BY <1>3, <1>8, <2>1 DEF ReadState, Discovery, Listing
    <2> QED
      BY <1>7, <2>1, <2>2
  <1>9. CASE LookUp \/ RecordEntry
    <2>1. discovery # None /\ discovery.step \in Recording /\ bstate' = bstate
      BY <1>9 DEF LookUp, RecordEntry, InDiscovery, Recording, AtEntry
    <2>2. discovery'.backfill = discovery.backfill
      BY <1>3, <1>9, <2>1 DEF LookUp, RecordEntry, Discovery, Listing
    <2> QED
      BY <1>7, <2>1, <2>2
  <1>10. CASE DecideEntry \/ MarkEntry
    <2>1. /\ discovery # None /\ discovery.step \in {"queue", "mark"} /\ bstate' = bstate
          /\ discovery'.backfill = discovery.backfill
      <3>1. CASE DecideEntry
        BY <3>1, DecidingIsQuiet
      <3>2. CASE MarkEntry
        BY <1>3, <3>2 DEF MarkEntry, InDiscovery, NextEntry, Discovery, Listing
      <3> QED
        BY <1>10, <3>1, <3>2
    <2> QED
      BY <1>7, <2>1 DEF Recording, AtEntry
  <1>11. CASE ListingFails
    <2>1. discovery # None /\ discovery' = None
      BY <1>11 DEF ListingFails, InDiscovery
    <2>2. bstate' = [bstate EXCEPT ![discovery.backfill] = StateAfterFailedListing(@)]
      BY <1>11 DEF ListingFails
    <2>3. \A st : StateAfterFailedListing(st) \notin Before
      BY DEF StateAfterFailedListing, Before
    <2> QED
      BY <1>1, <1>2, <1>3, <1>4, <2>1, <2>2, <2>3 DEF Onward, ListingIsOpen, Before
  <1>12. CASE CountSnapshot
    <2>1. discovery # None /\ discovery'.step = "refresh"
      BY <1>12, <1>3 DEF CountSnapshot, InDiscovery, Discovery, Listing
    <2>2. bstate' = [bstate EXCEPT ![discovery.backfill] = StateAfterSnapshot(@)]
      BY <1>12 DEF CountSnapshot
    <2>3. \A st : st # "absent" => StateAfterSnapshot(st) \notin Before
      BY DEF StateAfterSnapshot, Before
    <2> QED
      BY <1>1, <1>2, <1>3, <1>4, <2>1, <2>2, <2>3 DEF Onward, ListingIsOpen, Before, Recording, AtEntry
  <1>13. CASE RefreshSnapshot
    <2>1. discovery' = None /\ Refresh(SnapshotRefreshes)
      BY <1>13 DEF RefreshSnapshot
    <2>2. \A b \in Backfills : bstate'[b] = bstate[b]
            \/ (bstate[b] \in Live /\ bstate'[b] \in Live \cup {"partial", "completed"})
      BY <1>1, <2>1, RefreshEffect DEF Typed
    <2> QED
      BY <1>1, <1>2, <2>1, <2>2 DEF Onward, ListingIsOpen, Before, Live
  <1>14. CASE DiscoveryFails
    BY <1>6, <1>14 DEF DiscoveryFails, tables
  <1> QED
    BY <1>5, <1>8, <1>9, <1>10, <1>11, <1>12, <1>13, <1>14 DEF DiscoveryStep

\* The others record requests, or refresh those that are no longer listed.
LEMMA OthersGoOn ==
  ASSUME Typed, Unsteered, ListingIsOpen, setting.users = {}, [Next]_vars,
         ~(DiscoveryStep \/ DiscoveryFails)
  PROVE  Onward
  <1> DEFINE Kept == /\ setting' = setting
                     /\ control' = control \/ control' = [u \in Users |-> None]
                     /\ discovery' \in {discovery, None}
             Recorded == \E b \in Backfills :
               bstate[b] = "absent" /\ bstate' = [bstate EXCEPT ![b] = "discovering"]
             Moved == bstate' = bstate \/ Recorded \/ \E B : Refresh(B)
  <1>2. ~\E u \in Users : ControlStep(u)
    BY DEF ControlStep, ReadForControl, WriteControl, RefreshResumed, Unsteered
  <1>3. Kept /\ Moved
    <2>1. CASE \E b \in Backfills : StartBackfill(b)
      BY <2>1 DEF StartBackfill, workers
    <2>2. CASE DispatcherStep
      <3>1. CASE RefreshForItem
        BY <3>1 DEF RefreshForItem
      <3>2. CASE ClaimNew \/ ClaimHistory
        BY <3>2 DEF ClaimNew, ClaimHistory, Claimed
      <3>3. CASE AdmitClaimed
        BY <3>3 DEF AdmitClaimed
      <3>4. CASE ProcessClaimed
        BY <3>4 DEF ProcessClaimed
      <3>5. CASE SettleElsewhere
        BY <3>5 DEF SettleElsewhere
      <3> QED
        BY <2>2, <3>1, <3>2, <3>3, <3>4, <3>5 DEF DispatcherStep
    <2>3. CASE ProcessingFails \/ DispatcherFails
      BY <2>3 DEF ProcessingFails, DispatcherFails, tables
    <2>4. CASE ApprovalStep
      <3>1. CASE RefreshApproved
        BY <3>1 DEF RefreshApproved
      <3>2. CASE ~RefreshApproved
        BY <2>4, <3>2 DEF ApprovalStep, Approve, ProcessApproved, tables
      <3> QED
        BY <3>1, <3>2
    <2>5. CASE \E s \in Switchable : SetPolicy(s)
      BY <2>5 DEF SetPolicy, workers
    <2>6. CASE Stop \/ Start
      BY <2>6 DEF Stop, Start, tables
    <2>7. CASE UNCHANGED vars
      BY <2>7 DEF vars, tables, workers
    <2> HIDE DEF Kept, Moved
    <2> QED
      BY <1>2, <2>1, <2>2, <2>3, <2>4, <2>5, <2>6, <2>7 DEF Next
  <1>1. setting' = setting /\ Backfills' = Backfills
    BY <1>3, RoutineIsStatic
  <1>4. Unsteered'
    BY <1>3 DEF Unsteered
  <1>5. bstate \in [Backfills -> BackfillStates] /\ TypeOK
    BY DEF Typed, TypeOK, TablesTypeOK
  <1>7. \A b \in Backfills :
          \/ bstate'[b] = bstate[b]
          \/ bstate[b] = "absent" /\ bstate'[b] = "discovering"
          \/ bstate[b] \in Live /\ bstate'[b] \in Live \cup {"partial", "completed"}
    <2>1. CASE \E B : Refresh(B)
      BY <1>1, <1>5, <2>1, RefreshEffect
    <2> QED
      BY <1>3, <1>5, <2>1
  <1>8. ListingIsOpen'
    <2>1. discovery # None => discovery.backfill \in Backfills
      BY ListingFacts DEF Typed
    <2> QED
      BY <1>3, <1>7, <2>1 DEF ListingIsOpen, Live
  <1> QED
    BY <1>1, <1>4, <1>7, <1>8 DEF Onward, Before, Live

\* One statement on a row.
LEMMA MarkSetsAside ==
  ASSUME TypeOK, NEW s \in Sources, NEW v \in Videos, NEW st \in Statuses, Mark(s, v, st),
         st = "not_selected" => (discovery # None /\ discovery.step = "mark" /\ s = DiscoverySource),
         st = "queued" => origin'[s][v] = "history"
  PROVE  SetAside
  BY MarkEffect DEF SetAside

LEMMA RowsGoOn ==
  ASSUME Typed, Unsteered, setting.users = {}, [Next]_vars
  PROVE  SetAside
  <1>0. /\ TypeOK /\ status \in [Sources -> [Videos -> Statuses]]
        /\ origin \in [Sources -> [Videos -> Origins]]
    BY DEF Typed, TypeOK, TablesTypeOK
  <1>1. CASE status' = status
    BY <1>1 DEF SetAside
  <1>2. CASE LookUp
    <2>1. discovery # None /\ discovery.step = "look" /\ Upsert(DiscoverySource, Listed)
      BY <1>2 DEF LookUp, InDiscovery
    <2>2. DiscoverySource \in Sources /\ Listed \in Videos
      BY <1>0, <2>1, ListingFacts DEF Typed, Placed, AtEntry
    <2> QED
      BY <1>0, <2>1, <2>2, UpsertEffect DEF SetAside
  <1>3. CASE MarkEntry
    <2>0. discovery # None /\ discovery.step = "mark"
      BY <1>3 DEF MarkEntry, InDiscovery
    <2>1. DiscoverySource \in Sources /\ Listed \in Videos /\ discovery \in Discovery
      BY <1>0, <2>0, ListingFacts DEF Typed, Placed, AtEntry
    <2>4. discovery.seen \in Statuses
      BY <2>1 DEF Discovery, Listing
    <2>2. CASE discovery.seen = "queued"
      <3>1. Queue(DiscoverySource, Listed, "history")
        BY <1>3, <2>2 DEF MarkEntry
      <3>2. origin'[DiscoverySource][Listed] = "history"
        BY <1>0, <2>1, <3>1 DEF Queue
      <3> QED
        BY <1>0, <2>1, <2>2, <2>4, <3>1, <3>2, MarkSetsAside DEF Queue
    <2>3. CASE discovery.seen # "queued"
      BY <1>0, <1>3, <2>0, <2>1, <2>3, <2>4, MarkSetsAside DEF MarkEntry
    <2> QED
      BY <2>2, <2>3
  <1>4. CASE ClaimNew \/ ClaimHistory
    <2>1. PICK s \in Sources, v \in Videos : Mark(s, v, "running")
      <3>1. \A b \in Backfills : SourceOf[b] \in Sources
        BY <1>0, SettingFacts DEF TypeOK, TablesTypeOK
      <3> QED
        BY <1>4, <3>1 DEF ClaimNew, ClaimHistory, Claimed, QueuedNew, QueuedHistory
    <2>2. "running" \in Statuses
      BY DEF Statuses, Pending
    <2> QED
      BY <1>0, <2>1, <2>2, MarkSetsAside
  <1>5. ASSUME NEW st \in {"filtered", "failed"} \cup Outcomes, job # None,
               Mark(job.source, job.video, st)
        PROVE  SetAside
    <2>1. job.source \in Sources /\ job.video \in Videos
      BY <1>0, <1>5 DEF TypeOK, Job
    <2>2. st \in Statuses /\ st # "not_selected" /\ st # "queued"
      BY <1>5 DEF Statuses, Outcomes, Processed
    <2> QED
      BY <1>0, <1>5, <2>1, <2>2, MarkSetsAside
  <1>6. CASE AdmitClaimed
    <2>1. SUFFICES ASSUME status' # status
                   PROVE  SetAside
      BY <1>1
    <2>2. PICK st \in ProcessedElsewhere(job.source, job.video) : Mark(job.source, job.video, st)
      BY <1>6, <2>1 DEF AdmitClaimed
    <2>3. st \in Outcomes /\ job # None
      BY <1>6 DEF AdmitClaimed, InJob, ProcessedElsewhere, Outcomes
    <2> QED
      BY <1>5, <2>2, <2>3
  <1>7. CASE ProcessClaimed
    <2>1. PICK r \in Results : Mark(job.source, job.video, StatusFor(r))
      BY <1>7 DEF ProcessClaimed
    <2>2. StatusFor(r) \in {"filtered", "failed"} \cup Outcomes /\ job # None
      BY <1>7, ResultsAssumption DEF StatusFor, ProcessClaimed, InJob
    <2> QED
      BY <1>5, <2>1, <2>2
  <1>8. CASE ProcessingFails
    BY <1>5, <1>8 DEF ProcessingFails
  <1>9. CASE SettleElsewhere
    <2>1. job.verdict \in Outcomes /\ SettlePending(job.video, job.verdict)
      BY <1>9 DEF SettleElsewhere, InJob, Typed, Settled
    <2>2. \A s \in Sources, v \in Videos : status'[s][v] \in {status[s][v], job.verdict}
      BY <1>0, <2>1 DEF SettlePending
    <2> QED
      BY <2>1, <2>2 DEF SetAside, Outcomes, Processed
  <1>10. CASE ProcessApproved
    <2>1. SUFFICES ASSUME status' # status
                   PROVE  SetAside
      BY <1>1
    <2>2. PICK r \in Results \ {"error", "missing"} :
            status' = [s \in Sources |-> [status[s] EXCEPT ![approval.video] =
                        IF s = approval.source \/ @ = "awaiting_review" THEN r ELSE @]]
      BY <1>10, <2>1 DEF ProcessApproved
    <2>3. r \in Outcomes
      BY <2>2, ResultsAssumption
    <2>4. \A s \in Sources, v \in Videos : status'[s][v] \in {status[s][v], r}
      BY <1>0, <2>2
    <2> QED
      BY <2>3, <2>4 DEF SetAside, Outcomes, Processed
  <1>11. CASE Start
    BY <1>0, <1>11 DEF Start, SetAside
  <1>12. ~\E u \in Users : ControlStep(u)
    BY DEF ControlStep, ReadForControl, WriteControl, RefreshResumed, Unsteered
  <1>13. CASE DiscoveryStep \/ DiscoveryFails
    <2>1. CASE PickBackfill \/ ListingFails \/ ReadState \/ RecordEntry \/ DiscoveryFails
      BY <1>1, <2>1 DEF PickBackfill, ListingFails, ReadState, RecordEntry, DiscoveryFails, tables
    <2>2. CASE CountSnapshot \/ RefreshSnapshot
      BY <1>1, <2>2 DEF CountSnapshot, RefreshSnapshot
    <2>3. CASE DecideEntry
      BY <1>1, <2>3, DecidingIsQuiet
    <2> QED
      BY <1>2, <1>3, <1>13, <2>1, <2>2, <2>3 DEF DiscoveryStep
  <1>14. CASE DispatcherStep \/ ProcessingFails \/ DispatcherFails
    <2>1. CASE RefreshForItem \/ DispatcherFails
      BY <1>1, <2>1 DEF RefreshForItem, DispatcherFails, tables
    <2> QED
      BY <1>4, <1>6, <1>7, <1>8, <1>9, <1>14, <2>1 DEF DispatcherStep
  <1>15. CASE ApprovalStep
    BY <1>1, <1>10, <1>15 DEF ApprovalStep, Approve, RefreshApproved, tables
  <1>16. CASE \/ \E b \in Backfills : StartBackfill(b)
              \/ \E s \in Switchable : SetPolicy(s)
              \/ Stop \/ UNCHANGED vars
    BY <1>1, <1>16 DEF StartBackfill, SetPolicy, Stop, vars, tables
  <1> QED
    BY <1>11, <1>12, <1>13, <1>14, <1>15, <1>16 DEF Next

\* The backfill workers take nothing back that a check has handed on.
LEMMA WorkersAreRoutine ==
  ASSUME CheckInv, RoutineInv, Routine, [Next]_vars, setting' = setting
  PROVE  /\ Onward /\ SetAside
         /\ \A r \in Check : CheckIsRoutine(r) => CheckIsRoutine(r)'
         /\ \A s : (\E b \in Backfills : SourceOf[b] = s /\ bstate[b] # "absent") =>
                     \E b \in Backfills' : SourceOf'[b] = s /\ bstate'[b] # "absent"
  <1>0. SourceOf' = SourceOf /\ Backfills' = Backfills
    BY RoutineIsStatic
  <1>1. /\ Typed /\ Unsteered /\ ListingIsOpen /\ setting.users = {}
    BY DEF CheckInv, RoutineInv, Routine
  <1>2. Onward
    BY <1>1, DiscoveryGoesOn, OthersGoOn
  <1>3. SetAside
    BY <1>1, RowsGoOn
  <1>4. ASSUME NEW r \in Check, CheckIsRoutine(r)
        PROVE  CheckIsRoutine(r)'
    <2>1. Past(r.source) /\ Past(r.source)'
      BY <1>0, <1>2, <1>4 DEF CheckIsRoutine, Past, Onward
    <2>2. ~(discovery # None /\ discovery.step = "mark" /\ r.source = DiscoverySource)
      <3>1. discovery # None => discovery.backfill \in Backfills
        BY <1>1, ListingFacts DEF Typed
      <3> QED
        BY <1>1, <2>1, <3>1 DEF ListingIsOpen, Past, Before, DiscoverySource, Recording, AtEntry
    <2>3. r.source \in Sources /\ HandedOn(r) \subseteq Videos
      BY <1>4 DEF Check, HandedOn
    <2>4. \A v \in HandedOn(r) : status'[r.source][v] # "not_selected"
      BY <1>3, <1>4, <2>2, <2>3 DEF SetAside, CheckIsRoutine
    <2> QED
      BY <1>4, <2>1, <2>4 DEF CheckIsRoutine
  <1> QED
    BY <1>0, <1>2, <1>3, <1>4 DEF Onward

\* What a claim, a server or time leaves of the checks.
LEMMA RoutineKept ==
  ASSUME CheckInv, RoutineInv, Routine, Onward, SetAside, setting' = setting,
         \A r \in Check : CheckIsRoutine(r) => CheckIsRoutine(r)',
         \A s : (\E b \in Backfills : SourceOf[b] = s /\ bstate[b] # "absent") =>
                  \E b \in Backfills' : SourceOf'[b] = s /\ bstate'[b] # "absent",
         checked' \subseteq checked,
         \A c \in Checkers : check'[c] # None =>
           check'[c] \in Check /\ (check'[c] = check[c] \/ CheckIsRoutine(check'[c]))
  PROVE  RoutineInv'
  <1>1. Checkers' = Checkers
    BY CheckSettings
  <1>2. ChecksAreRoutine'
    <2> SUFFICES ASSUME NEW c \in Checkers, check'[c] # None
                 PROVE  CheckIsRoutine(check[c])'
      BY <1>1 DEF ChecksAreRoutine
    <2>1. PICK r \in Check : r = check'[c] /\ CheckIsRoutine(r)
      BY DEF RoutineInv, ChecksAreRoutine
    <2>2. CheckIsRoutine(r)'
      BY <2>1
    <2> QED
      BY <2>1, <2>2 DEF CheckIsRoutine, HandedOn
  <1>3. /\ Unsteered' /\ ListingIsOpen'
        /\ \A s \in checked' : \E b \in Backfills' : SourceOf'[b] = s /\ bstate'[b] # "absent"
    BY DEF RoutineInv, Onward
  <1> QED
    BY <1>2, <1>3 DEF RoutineInv

\* A check is started where the history is recorded.
LEMMA RoutineStarts ==
  ASSUME CheckInv, RoutineInv, Routine, NEW c \in Checkers, NEW s \in Sources, StartCheck(c, s)
  PROVE  /\ UNCHANGED <<vars, due, checked, stales>>
         /\ \A d \in Checkers : d # c => check'[d] = check[d]
         /\ check'[c] \in Check /\ CheckIsRoutine(check'[c])
  <1> DEFINE q == [source |-> s, kind |-> "scheduled", own |-> s \in automatic,
                   step |-> "gate", todo |-> {}, next |-> {}, video |-> None, verdict |-> None]
  <1>1. ScheduleCheck(c, s)
    BY DEF StartCheck, Routine
  <1>2. /\ check' = [check EXCEPT ![c] = q]
        /\ UNCHANGED <<vars, due, checked, stales>>
        /\ ~HistoryPending(s) /\ ~NeedsBaseline(s)
    BY <1>1 DEF ScheduleCheck, ClaimCheck, DueSource
  <1>3. q \in Check /\ q.source = s /\ q.step = "gate" /\ q.next = {}
    BY DEF Check, Routine
  <1> HIDE DEF q
  <1>4. \E b \in Backfills : SourceOf[b] = s /\ bstate[b] # "absent"
    BY <1>2 DEF NeedsBaseline, RoutineInv
  <1>5. Past(s)
    BY <1>2, <1>4 DEF Past, Before, Routine, HistoryPending, Discovering
  <1>6. CheckIsRoutine(q)
    BY <1>3, <1>5 DEF CheckIsRoutine, HandedOn
  <1>7. check \in [Checkers -> Check \cup {None}]
    BY DEF CheckInv, ChecksTypeOK
  <1> QED
    BY <1>2, <1>3, <1>6, <1>7

\* What a check hands on as it goes.
LEMMA Passes ==
  ASSUME NEW r \in Check, NEW st \in {"look", "admit", "queue"}, NEW V
  PROVE  /\ Passing(r, st, V).source = r.source /\ Passing(r, st, V).step # "mark"
         /\ HandedOn(Passing(r, st, V)) \subseteq V
         /\ st = "look" => HandedOn(Passing(r, st, V)) = {}
  <1>1. /\ Passing(r, st, V).source = r.source /\ Passing(r, st, V).step # "mark"
        /\ Passing(r, st, V).todo = V /\ Passing(r, st, V).next = {}
        /\ st = "look" => Passing(r, st, V).step \in {"look", "finish"}
    BY DEF Passing, Check
  <1> QED
    BY <1>1 DEF HandedOn

LEMMA Decides ==
  ASSUME NEW r \in Check, NEW v, NEW V
  PROVE  /\ Decided(r, v, V).source = r.source /\ Decided(r, v, V).step # "mark"
         /\ HandedOn(Decided(r, v, V)) \subseteq V \cup (r.todo \ {v})
  <1>1. CASE r.todo = {v}
    <2> DEFINE q == Passing(r, "queue", V)
    <2>1. q.source = r.source /\ q.step # "mark" /\ HandedOn(q) \subseteq V
      BY Passes
    <2>2. Decided(r, v, V) = [q EXCEPT !.video = None, !.verdict = None]
      BY <1>1 DEF Decided
    <2>3. /\ DOMAIN q = DOMAIN r
      BY DEF Passing
    <2>4. {"source", "step", "todo", "next"} \subseteq DOMAIN r
      BY DEF Check
    <2> HIDE DEF q
    <2>5. /\ Decided(r, v, V).source = q.source /\ Decided(r, v, V).step = q.step
          /\ Decided(r, v, V).todo = q.todo /\ Decided(r, v, V).next = q.next
      BY <2>2, <2>3, <2>4
    <2> QED
      BY <2>1, <2>5 DEF HandedOn
  <1>2. CASE r.todo # {v}
    <2>1. /\ Decided(r, v, V).source = r.source /\ Decided(r, v, V).step = "admit"
          /\ Decided(r, v, V).todo = r.todo \ {v} /\ Decided(r, v, V).next = V
      BY <1>2 DEF Decided, Check
    <2> QED
      BY <2>1 DEF HandedOn
  <1> QED
    BY <1>1, <1>2

\* What a check leaves alone.
LEMMA ChecksKeepRequests ==
  ASSUME NEW c \in Checkers, CheckStep(c)
  PROVE  /\ UNCHANGED <<setting, bstate, discovery, control>>
         /\ \E x : Continue(c, x)
         /\ check[c] # None
         /\ \A s \in checked' : s \in checked \/ s = check[c].source
  <1>1. CASE PassGate(c) \/ ListUploads(c) \/ CheckFails(c)
    BY <1>1 DEF PassGate, ListUploads, CheckFails, In, vars, tables, workers
  <1>5. CASE AdmitUpload(c)
    <2>1. check[c] # None /\ UNCHANGED <<vars, checked>>
      BY <1>5, Zenon DEF AdmitUpload, In
    <2>2. \E x : Continue(c, x)
      BY <1>5, Zenon DEF AdmitUpload
    <2> QED
      BY <2>1, <2>2 DEF vars, tables, workers
  <1>2. CASE LookAtUpload(c)
    BY <1>2 DEF LookAtUpload, In, workers
  <1>3. CASE MarkUpload(c) \/ EnqueueUpload(c) \/ IngestUpload(c)
    BY <1>3 DEF MarkUpload, EnqueueUpload, IngestUpload, In, workers
  <1>4. CASE FinishCheck(c)
    BY <1>4 DEF FinishCheck, Continue, vars, tables, workers
  <1> QED
    BY <1>1, <1>2, <1>3, <1>4, <1>5 DEF CheckStep

\* A check in its steps: its own rows and what becomes of it.
Upheld(c) ==
  /\ \A v \in Videos, s \in Sources :
       /\ status'[s][v] = "not_selected" => status[s][v] = "not_selected"
       /\ status[s][v] = "not_selected" => status'[s][v] # "queued"
  /\ check'[c] # None =>
       /\ check'[c].source = check[c].source
       /\ check'[c].step = "mark" => check'[c].verdict \notin {"not_selected", "queued"}
       /\ \A v \in HandedOn(check'[c]) : v \in Videos /\ status'[check[c].source][v] # "not_selected"

LEMMA CheckUpholds ==
  ASSUME CheckInv, NEW c \in Checkers, CheckStep(c), CheckIsRoutine(check[c])
  PROVE  Upheld(c)
  <1> DEFINE r == check[c]
  <1>1. r # None
    BY ChecksKeepRequests
  <1>2. /\ TypeOK /\ status \in [Sources -> [Videos -> Statuses]]
        /\ check \in [Checkers -> Check \cup {None}]
    BY DEF CheckInv, Typed, TypeOK, TablesTypeOK, ChecksTypeOK
  <1>3. /\ r \in Check /\ r.source \in Sources /\ r.todo \subseteq Videos /\ r.next \subseteq Videos
        /\ HandedOn(r) \subseteq Videos /\ r.next \subseteq HandedOn(r)
    BY <1>1, <1>2 DEF Check, HandedOn
  <1>4. \A v \in HandedOn(r) : status[r.source][v] # "not_selected"
    BY DEF CheckIsRoutine
  <1>5. \A x : Continue(c, x) => check'[c] = x
    BY <1>2 DEF Continue
  \* Rows are left alone.
  <1>6. ASSUME NEW x, status' = status, check'[c] = x, x.source = r.source,
               x.step = "mark" => x.verdict \notin {"not_selected", "queued"},
               HandedOn(x) \subseteq HandedOn(r)
        PROVE  Upheld(c)
    BY <1>3, <1>4, <1>6 DEF Upheld
  <1>7. CASE PassGate(c)
    <2>1. PICK st \in {"wait", "list"} : check'[c] = [r EXCEPT !.step = st]
      BY <1>5, <1>7 DEF PassGate
    <2>2. /\ check'[c].source = r.source /\ check'[c].step = st /\ check'[c].next = r.next
      BY <1>3, <2>1 DEF Check
    <2>3. HandedOn(check'[c]) \subseteq HandedOn(r)
      BY <2>2 DEF HandedOn
    <2>4. status' = status
      BY <1>7 DEF PassGate, vars, tables
    <2> QED
      BY <1>6, <2>2, <2>3, <2>4
  <1>8. CASE ListUploads(c)
    <2>1. PICK l \in CheckListings : check'[c] = Passing(r, "look", l)
      BY <1>5, <1>8 DEF ListUploads
    <2>2. /\ check'[c].source = r.source /\ check'[c].step # "mark" /\ HandedOn(check'[c]) = {}
      BY <1>3, <2>1, Passes
    <2>3. status' = status
      BY <1>8 DEF ListUploads, vars, tables
    <2> QED
      BY <1>6, <2>2, <2>3
  <1>9. CASE CheckFails(c)
    <2>1. /\ check'[c].source = r.source /\ check'[c].step = "finish"
          /\ check'[c].next = {}
      BY <1>3, <1>5, <1>9 DEF CheckFails, Check
    <2>2. HandedOn(check'[c]) = {}
      BY <2>1 DEF HandedOn
    <2>3. status' = status
      BY <1>9 DEF CheckFails, vars, tables
    <2> QED
      BY <1>6, <2>1, <2>2, <2>3
  <1>10. CASE FinishCheck(c)
    <2>1. check'[c] = None /\ status' = status
      BY <1>2, <1>10 DEF FinishCheck, vars, tables
    <2> QED
      BY <2>1 DEF Upheld
  <1>11. CASE AdmitUpload(c)
    <2>1. r.step = "admit" /\ status' = status
      BY <1>11 DEF AdmitUpload, In, vars, tables
    <2>0. PICK v \in r.todo :
            \E a \in Admission(r.source, v, r.own) :
              Continue(c, IF a = "process" THEN Decided(r, v, r.next \cup {v})
                          ELSE [r EXCEPT !.step = "mark", !.video = v, !.verdict = a])
      BY <1>11, Zenon DEF AdmitUpload
    <2>2. PICK a \in Admission(r.source, v, r.own) :
            Continue(c, IF a = "process" THEN Decided(r, v, r.next \cup {v})
                        ELSE [r EXCEPT !.step = "mark", !.video = v, !.verdict = a])
      BY <2>0, Zenon
    <2>3. HandedOn(r) = r.next \cup r.todo
      BY <2>1 DEF HandedOn
    <2>4. CASE a = "process"
      <3>0. check'[c] = Decided(r, v, r.next \cup {v})
        BY <1>5, <2>2, <2>4
      <3>1. /\ check'[c].source = r.source /\ check'[c].step # "mark"
            /\ HandedOn(check'[c]) \subseteq (r.next \cup {v}) \cup (r.todo \ {v})
        BY <1>3, <3>0, Decides
      <3> QED
        BY <1>6, <2>1, <2>3, <3>1
    <2>5. CASE a # "process"
      <3>1. a \notin {"not_selected", "queued"}
        BY <2>2, <2>5 DEF Admission, ProcessedElsewhere, Processed
      <3>0. check'[c] = [r EXCEPT !.step = "mark", !.video = v, !.verdict = a]
        BY <1>5, <2>2, <2>5
      <3>2. /\ check'[c].source = r.source /\ check'[c].step = "mark" /\ check'[c].verdict = a
            /\ check'[c].next = r.next /\ check'[c].todo = r.todo
        BY <1>3, <3>0 DEF Check
      <3>3. HandedOn(check'[c]) = r.next \cup r.todo
        BY <3>2 DEF HandedOn
      <3> QED
        BY <1>6, <2>1, <2>3, <3>1, <3>2, <3>3
    <2> QED
      BY <2>4, <2>5
  <1>12. CASE MarkUpload(c)
    <2>1. /\ r.step = "mark" /\ Mark(r.source, r.video, r.verdict)
          /\ check'[c] = Decided(r, r.video, r.next)
      BY <1>5, <1>12 DEF MarkUpload, In
    <2>2. /\ r.video \in Videos /\ r.verdict \in Statuses
          /\ r.verdict \notin {"not_selected", "queued"}
      BY <1>1, <2>1 DEF CheckInv, VerdictsTyped, VerdictTyped, CheckIsRoutine
    <2>3. /\ status'[r.source][r.video] = r.verdict
          /\ \A o \in Sources, w \in Videos :
               o # r.source \/ w # r.video => status'[o][w] = status[o][w]
      BY <1>2, <1>3, <2>1, <2>2, MarkEffect
    <2>4. HandedOn(r) = r.next \cup r.todo
      BY <2>1 DEF HandedOn
    <2>5. /\ check'[c].source = r.source /\ check'[c].step # "mark"
          /\ HandedOn(check'[c]) \subseteq HandedOn(r)
      BY <1>3, <2>1, <2>4, Decides
    <2> QED
      BY <1>3, <1>4, <2>2, <2>3, <2>5 DEF Upheld
  <1>13. CASE EnqueueUpload(c)
    <2>1. PICK v \in r.todo : /\ Queue(r.source, v, "new")
                              /\ check'[c] = Passing(r, "queue", r.todo \ {v})
      BY <1>5, <1>13 DEF EnqueueUpload
    <2>2. HandedOn(r) = r.next \cup r.todo
      BY <1>13 DEF HandedOn, EnqueueUpload, In
    <2>3. "queued" \in Statuses /\ Mark(r.source, v, "queued")
      BY <2>1 DEF Statuses, Pending, Queue
    <2>4. /\ status'[r.source][v] = "queued"
          /\ \A o \in Sources, w \in Videos : o # r.source \/ w # v => status'[o][w] = status[o][w]
      BY <1>2, <1>3, <2>3, MarkEffect
    <2>5. status[r.source][v] # "not_selected"
      BY <1>4, <2>2
    <2>6. /\ check'[c].source = r.source /\ check'[c].step # "mark"
          /\ HandedOn(check'[c]) \subseteq HandedOn(r)
      BY <1>3, <2>1, <2>2, Passes
    <2> QED
      BY <1>3, <1>4, <2>4, <2>5, <2>6 DEF Upheld
  <1>14. CASE IngestUpload(c)
    <2>1. PICK v \in r.todo, o \in Results \cap Outcomes :
            /\ status' = [s \in Sources |-> [status[s] EXCEPT ![v] =
                 IF s = r.source \/ @ = "awaiting_review" THEN o ELSE @]]
            /\ check'[c] = Passing(r, "queue", r.todo \ {v})
      BY <1>5, <1>14 DEF IngestUpload
    <2>2. \A s \in Sources, w \in Videos : status'[s][w] \in {status[s][w], o}
      BY <1>2, <2>1
    <2>3. o \notin {"not_selected", "queued"}
      BY <2>1 DEF Outcomes, Processed
    <2>4. HandedOn(r) = r.next \cup r.todo
      BY <1>14 DEF HandedOn, IngestUpload, In
    <2>5. /\ check'[c].source = r.source /\ check'[c].step # "mark"
          /\ HandedOn(check'[c]) \subseteq HandedOn(r)
      BY <1>3, <2>1, <2>4, Passes
    <2> QED
      BY <1>3, <1>4, <2>2, <2>3, <2>5 DEF Upheld
  <1>15. CASE LookAtUpload(c)
    <2>1. PICK v \in r.todo :
            LET wanted == Wants(r, status[r.source][v])
                rejected == <<r.source, v>> \in Excluded
                passed == IF wanted /\ ~rejected THEN r.next \cup {v} ELSE r.next
            IN  /\ IF wanted /\ rejected THEN Mark(r.source, v, "filtered") ELSE Upsert(r.source, v)
                /\ Continue(c, IF r.todo = {v} THEN Passing(r, "admit", passed)
                               ELSE [r EXCEPT !.todo = @ \ {v}, !.next = passed])
      BY <1>15, Zenon DEF LookAtUpload
    <2>2. r.step = "look" /\ v \in Videos /\ "filtered" \in Statuses
      BY <1>3, <1>15 DEF LookAtUpload, In, Statuses
    <2>3. /\ \/ status'[r.source][v] = "filtered"
             \/ status'[r.source][v] = IF status[r.source][v] = "absent" THEN "discovered"
                                       ELSE status[r.source][v]
          /\ \A o \in Sources, w \in Videos : o # r.source \/ w # v => status'[o][w] = status[o][w]
      BY <1>2, <1>3, <2>1, <2>2, MarkEffect, UpsertEffect
    <2>4. Wants(r, status[r.source][v]) => status[r.source][v] # "not_selected"
      BY DEF Wants
    <2>5. PICK V \in {r.next, r.next \cup {v}} :
            /\ v \in V => v \in r.next \/ Wants(r, status[r.source][v])
            /\ Continue(c, IF r.todo = {v} THEN Passing(r, "admit", V)
                           ELSE [r EXCEPT !.todo = @ \ {v}, !.next = V])
      BY <2>1
    <2>6. /\ check'[c].source = r.source /\ check'[c].step # "mark"
          /\ HandedOn(check'[c]) \subseteq V
      <3>1. CASE r.todo = {v}
        <4>1. check'[c] = Passing(r, "admit", V)
          BY <1>5, <2>5, <3>1
        <4> QED
          BY <1>3, <4>1, Passes
      <3>2. CASE r.todo # {v}
        <4>0. check'[c] = [r EXCEPT !.todo = @ \ {v}, !.next = V]
          BY <1>5, <2>5, <3>2
        <4>1. /\ check'[c].source = r.source /\ check'[c].step = r.step
              /\ check'[c].next = V
          BY <1>3, <4>0 DEF Check
        <4> QED
          BY <2>2, <4>1 DEF HandedOn
      <3> QED
        BY <3>1, <3>2
    <2>7. \A w \in V : w \in Videos /\ status[r.source][w] # "not_selected"
      BY <1>3, <1>4, <2>2, <2>4, <2>5
    <2> QED
      BY <1>3, <2>3, <2>6, <2>7 DEF Upheld
  <1> QED
    BY <1>7, <1>8, <1>9, <1>10, <1>11, <1>12, <1>13, <1>14, <1>15 DEF CheckStep

LEMMA RoutineStep ==
  ASSUME CheckInv, CheckInv', RoutineInv, Routine, NEW c \in Checkers, CheckStep(c)
  PROVE  /\ RoutineInv'
         /\ \A s \in Sources, v \in Videos :
              status[s][v] = "not_selected" => status'[s][v] # "queued"
  <1>1. check[c] # None /\ UNCHANGED <<setting, bstate, discovery, control>>
    BY ChecksKeepRequests
  <1>2. SourceOf' = SourceOf /\ Backfills' = Backfills /\ Checkers' = Checkers
    BY <1>1, RoutineIsStatic, CheckSettings
  <1>3. CheckIsRoutine(check[c])
    BY <1>1 DEF RoutineInv, ChecksAreRoutine
  <1>4. Upheld(c)
    BY <1>3, CheckUpholds
  <1>5. \A d \in Checkers : d # c => check'[d] = check[d]
    BY ChecksKeepRequests DEF Continue, CheckInv, ChecksTypeOK
  <1>6. \A s : Past(s) => Past(s)'
    BY <1>1, <1>2 DEF Past
  <1>7. check'[c] # None => CheckIsRoutine(check[c])'
    BY <1>3, <1>4, <1>6 DEF Upheld, CheckIsRoutine, HandedOn
  <1>8. ASSUME NEW d \in Checkers, d # c, check'[d] # None
        PROVE  CheckIsRoutine(check[d])'
    <2>1. check'[d] = check[d] /\ CheckIsRoutine(check[d])
      BY <1>5, <1>8 DEF RoutineInv, ChecksAreRoutine
    <2>2. check[d] \in Check
      BY <1>5, <1>8 DEF CheckInv, ChecksTypeOK
    <2>3. check[d].source \in Sources /\ HandedOn(check[d]) \subseteq Videos
      BY <2>2 DEF Check, HandedOn
    <2>4. \A v \in HandedOn(check[d]) : status'[check[d].source][v] # "not_selected"
      BY <1>4, <2>1, <2>3 DEF Upheld, CheckIsRoutine
    <2> QED
      BY <1>6, <2>1, <2>4 DEF CheckIsRoutine, HandedOn
  <1>9. ChecksAreRoutine'
    BY <1>2, <1>7, <1>8 DEF ChecksAreRoutine
  <1>10. \A s \in checked' : \E b \in Backfills : SourceOf[b] = s /\ bstate[b] # "absent"
    BY <1>3, ChecksKeepRequests DEF RoutineInv, CheckIsRoutine, Past, Before
  <1>11. Unsteered' /\ ListingIsOpen'
    BY <1>1 DEF RoutineInv, Unsteered, ListingIsOpen
  <1> QED
    BY <1>1, <1>2, <1>4, <1>9, <1>10, <1>11 DEF RoutineInv, Upheld

\* Everyone else leaves the checks as they are, starts or drops one, or ages them.
LEMMA OthersAreRoutine ==
  ASSUME CheckInv, CheckInv', RoutineInv, Routine, [ChecksNext]_allVars,
         ~\E c \in Checkers : CheckStep(c)
  PROVE  RoutineInv' /\ SetAside
  <1>1. CASE \/ BackfillStep /\ UNCHANGED checkVars
             \/ \E s \in Sources : RecordBaseline(s)
    <2>1. Next /\ setting' = setting /\ UNCHANGED checkVars
      BY <1>1, BackfillMoves DEF RecordBaseline
    <2>2. /\ Onward /\ SetAside
          /\ \A r \in Check : CheckIsRoutine(r) => CheckIsRoutine(r)'
          /\ \A s : (\E b \in Backfills : SourceOf[b] = s /\ bstate[b] # "absent") =>
                      \E b \in Backfills' : SourceOf'[b] = s /\ bstate'[b] # "absent"
      BY <2>1, WorkersAreRoutine
    <2>3. checked' = checked /\ check' = check
      BY <2>1 DEF checkVars
    <2>4. \A c \in Checkers : check[c] # None => check[c] \in Check
      BY DEF CheckInv, ChecksTypeOK
    <2> QED
      BY <2>1, <2>2, <2>3, <2>4, RoutineKept
  <1>2. ASSUME [Next]_vars, setting' = setting, checked' = checked,
               \A c \in Checkers : check'[c] # None =>
                 check'[c] \in Check /\ (check'[c] = check[c] \/ CheckIsRoutine(check'[c]))
        PROVE  RoutineInv' /\ SetAside
    <2>1. /\ Onward /\ SetAside
          /\ \A r \in Check : CheckIsRoutine(r) => CheckIsRoutine(r)'
          /\ \A s : (\E b \in Backfills : SourceOf[b] = s /\ bstate[b] # "absent") =>
                      \E b \in Backfills' : SourceOf'[b] = s /\ bstate'[b] # "absent"
      BY <1>2, WorkersAreRoutine
    <2> QED
      BY <1>2, <2>1, RoutineKept
  <1>3. \A c \in Checkers : check[c] # None => check[c] \in Check /\ CheckIsRoutine(check[c])
    BY DEF CheckInv, ChecksTypeOK, RoutineInv, ChecksAreRoutine
  <1>4. ASSUME NEW c \in Checkers, NEW s \in Sources, StartCheck(c, s)
        PROVE  RoutineInv' /\ SetAside
    <2>1. /\ UNCHANGED <<vars, due, checked, stales>>
          /\ \A d \in Checkers : d # c => check'[d] = check[d]
          /\ check'[c] \in Check /\ CheckIsRoutine(check'[c])
      BY <1>4, RoutineStarts
    <2>2. setting' = setting
      BY <2>1 DEF vars, tables
    <2> QED
      BY <1>2, <1>3, <2>1, <2>2
  <1>5. CASE ClaimsGoStale \/ (\E s \in Sources : BecomesDue(s)) \/ UNCHANGED allVars
    <2>1. UNCHANGED <<vars, check, checked>>
      BY <1>5 DEF ClaimsGoStale, BecomesDue, allVars, checkVars
    <2>2. setting' = setting
      BY <2>1 DEF vars, tables
    <2> QED
      BY <1>2, <1>3, <2>1, <2>2
  <1>7. CASE StopServer \/ StartServer
    <2>1. Next /\ setting' = setting
      BY <1>7 DEF StopServer, StartServer, Stop, Start, Next, tables
    <2>2. checked' = checked /\ \A c \in Checkers : check'[c] # None => check'[c] = check[c]
      BY <1>7 DEF StopServer, StartServer
    <2> QED
      BY <1>2, <1>3, <2>1, <2>2
  <1> QED
    BY <1>1, <1>4, <1>5, <1>7 DEF ChecksNext

LEMMA RoutineKeeps ==
  ASSUME CheckInv, CheckInv', RoutineInv, [ChecksNext]_allVars
  PROVE  /\ RoutineInv'
         /\ \A s \in Sources, v \in Videos :
              Routine /\ status[s][v] = "not_selected" =>
                status'[s][v] # "queued" \/ origin'[s][v] # "new"
  <1>1. CASE ~Routine
    <2>1. setting' = setting
      <3>1. CASE BackfillStep \/ \E s \in Sources : RecordBaseline(s)
        BY <3>1, BackfillMoves
      <3>2. CASE \E c \in Checkers : CheckStep(c)
        BY <3>2, ChecksKeepRequests
      <3>3. CASE \E c \in Checkers, s \in Sources : StartCheck(c, s)
        BY <3>3 DEF StartCheck, ScheduleCheck, CheckNow, CheckByCli, ClaimCheck, vars, tables
      <3>4. CASE \/ ClaimsGoStale \/ (\E s \in Sources : BecomesDue(s)) \/ UNCHANGED allVars
                 \/ StopServer \/ StartServer
        BY <3>4 DEF ClaimsGoStale, BecomesDue, StopServer, StartServer, Stop, Start, allVars, vars,
           tables
      <3> QED
        BY <3>1, <3>2, <3>3, <3>4 DEF ChecksNext
    <2> QED
      BY <1>1, <2>1, RoutineIsStatic DEF RoutineInv
  <1>2. CASE Routine /\ \E c \in Checkers : CheckStep(c)
    BY <1>2, RoutineStep
  <1>3. CASE Routine /\ ~\E c \in Checkers : CheckStep(c)
    BY <1>3, OthersAreRoutine DEF SetAside
  <1> QED
    BY <1>1, <1>2, <1>3

(* check_subscription: what a recorded snapshot set aside is never queued  *)
(* as a new upload, however checks, listings, approvals, faults and stops  *)
(* fall together, where the scheduler checks and nobody cancels.           *)
THEOREM HistoryIsExcluded == ChecksSpec => HistoryStaysExcluded
  <1>1. ChecksInit => RoutineInv
    BY DEF ChecksInit, Init, RoutineInv, Unsteered, ListingIsOpen, ChecksAreRoutine
  <1>2. ChecksSpec => []RoutineInv
    BY <1>1, ChecksInvariant, RoutineKeeps, PTL DEF ChecksSpec
  <1> DEFINE Excludes == \A s \in Sources, v \in Videos :
        Routine /\ status[s][v] = "not_selected" => status'[s][v] # "queued" \/ origin'[s][v] # "new"
  <1>3. CheckInv /\ CheckInv' /\ RoutineInv /\ [ChecksNext]_allVars => [Excludes]_allVars
    BY RoutineKeeps
  <1>4. ChecksSpec => [][Excludes]_allVars
    BY <1>2, <1>3, ChecksInvariant, PTL DEF ChecksSpec
  <1> QED
    BY <1>4 DEF HistoryStaysExcluded
=============================================================================
