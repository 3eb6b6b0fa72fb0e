------------------------- MODULE CanonicalIdentities -------------------------
(***************************************************************************)
(* Canonical identities over corpus-local evidence (src/identities.rs).    *)
(* A unit is a mention group of one corpus or an inferred person of one    *)
(* corpus.  Resolution partitions the units by the evidence that joins     *)
(* them and links every unit to an identity; researchers confirm, merge,   *)
(* split and keep apart.  Both run under one advisory lock, but each of    *)
(* them is a transaction of its own, and the evidence changes meanwhile:   *)
(* extraction replaces mentions, matching creates and deletes people.      *)
(***************************************************************************)
EXTENDS Integers, FiniteSets

CONSTANTS
  Units,           \* the local units that may exist
  People,          \* those that are inferred people
  Key(_),          \* a unit's place in the order of the unit keys
  EntityType(_),   \* a unit's entity type
  NameKey(_),      \* its normalized name, or None for a person no name was found for
  Edges,           \* pairs of units that may share evidence, as the code orders a pair
  Identities,      \* the ids of canonical_identities rows
  None,
  MaxActs          \* bounds the changes of the evidence and the corrections together

ASSUME UnitsAssumption ==
  /\ IsFiniteSet(Units) /\ People \subseteq Units /\ Edges \subseteq Units \X Units
  /\ \A u \in Units : Key(u) \in Nat
  /\ \A u, v \in Units : Key(u) = Key(v) => u = v
  /\ \A e \in Edges : EntityType(e[1]) = EntityType(e[2])
ASSUME IdentitiesAssumption == Identities \subseteq Nat /\ None \notin Identities
ASSUME ActsAssumption == MaxActs \in Nat

VARIABLES
  present,    \* the units the corpora's evidence has now
  evidence,   \* the edges it has now
  of,         \* canonical_identity_links: unit |-> identity_id or None
  confirmed,  \* the units whose link is 'confirmed'
  rows,       \* canonical_identities: the ids that exist
  type,       \* their entity_type
  mergedInto, \* their merged_into, or None
  apart,      \* canonical_identity_rejections, as two-element sets
  cited,      \* the identities a historical event claim names
  phase,      \* how far the resolution is that holds the lock
  units, joins, before, fixed, component, assigned,   \* what it has read and decided
  settled,    \* history: whether the links reflect the present evidence and decisions
  acts

links == <<of, confirmed>>
registry == <<rows, type, mergedInto>>
work == <<units, joins, before, fixed, component, assigned>>
vars == <<present, evidence, links, registry, apart, cited, phase, work, settled, acts>>

Phases == {"idle", "people", "evidence", "join", "claim", "sweep"}
Types == {EntityType(u) : u \in Units}
Live == {i \in rows : mergedInto[i] = None}
UnitsOf(i) == {u \in Units : of[u] = i}
Pairs(S, T) == {{a, b} : a \in S, b \in T}
Unused == Identities \ (rows \cup {assigned[u] : u \in Units})
NextUnused == {i \in Unused : \A j \in Unused : i <= j}

IdentitiesTypeOK ==
  /\ present \subseteq Units /\ evidence \subseteq Edges
  /\ of \in [Units -> rows \cup {None}]
  /\ confirmed \subseteq {u \in Units : of[u] # None}
  /\ rows \subseteq Identities /\ cited \subseteq rows
  /\ type \in [Identities -> Types \cup {None}]
  /\ mergedInto \in [Identities -> rows \cup {None}]
  /\ apart \subseteq SUBSET Units
  /\ phase \in Phases
  /\ units \subseteq Units /\ joins \subseteq Edges /\ fixed \subseteq units
  /\ before \in [Units -> Identities \cup {None}]
  /\ component \in [Units -> SUBSET Units]
  /\ assigned \in [Units -> Identities \cup {None}]
  /\ settled \in {"no", "reading", "yes"}
  /\ acts \in 0..MaxActs

NoWork ==
  /\ units = {} /\ joins = {} /\ fixed = {}
  /\ before = [u \in Units |-> None] /\ assigned = [u \in Units |-> None]
  /\ component = [u \in Units |-> {u}]

\* The migration that adds identities meets corpora that already have evidence.
Init ==
  /\ present = Units /\ evidence \in SUBSET Edges
  /\ of = [u \in Units |-> None] /\ confirmed = {}
  /\ rows = {} /\ type = [i \in Identities |-> None]
  /\ mergedInto = [i \in Identities |-> None]
  /\ apart = {} /\ cited = {}
  /\ phase = "idle" /\ NoWork /\ settled = "no"
  /\ acts = 0

---------------------------------------------------------------------------
(* resolve_identities: one transaction under the lock.  Its statements read *)
(* one after the other, so the evidence may change between them.            *)

\* The mention groups, with the edges between groups that share a video.
ReadGroups ==
  /\ phase = "idle"
  /\ phase' = "people"
  /\ units' = present \ People
  /\ joins' = {e \in evidence : {e[1], e[2]} \subseteq present \ People}
  /\ settled' = IF settled = "yes" THEN "yes" ELSE "reading"
  /\ UNCHANGED <<present, evidence, links, registry, apart, cited, before, fixed, component,
                 assigned, acts>>

\* The inferred people.
ReadPeople ==
  /\ phase = "people"
  /\ phase' = "evidence"
  /\ units' = units \cup (present \cap People)
  /\ UNCHANGED <<present, evidence, links, registry, apart, cited, joins, before, fixed,
                 component, assigned, settled, acts>>

\* Mutant of Fixed: a confirmed link holds no more than an automatic one.
FixedNever(U) == {}

\* Confirmed links to a live identity hold; their units start out joined.
Fixed(U) == {u \in confirmed \cap U : of[u] \in Live}

StartingComponent(u, F) == IF u \in F THEN {v \in F : of[v] = of[u]} ELSE {u}

\* The edges of people, both ends of which must have been read; then the links, the
\* pairs kept apart and the live identities.
ReadEvidence ==
  /\ phase = "evidence"
  /\ phase' = "join"
  /\ joins' = joins \cup {e \in evidence : /\ {e[1], e[2]} \cap People # {}
                                           /\ {e[1], e[2]} \subseteq units}
  /\ before' = of
  /\ fixed' = Fixed(units)
  /\ component' = [u \in Units |-> StartingComponent(u, Fixed(units))]
  /\ UNCHANGED <<present, evidence, links, registry, apart, cited, units, assigned, settled,
                 acts>>

\* edges.sort(): by the first unit's key, then the second's.
Precedes(e, f) ==
  \/ Key(e[1]) < Key(f[1])
  \/ Key(e[1]) = Key(f[1]) /\ Key(e[2]) < Key(f[2])

ConfirmedApart(C, D) == \E m \in C \cap fixed, n \in D \cap fixed : before[m] # before[n]

\* Mutant of KeptApartBetween: only the two units the edge joins are compared.
KeptApartBetweenSingletons(C, D) ==
  Cardinality(C) = 1 /\ Cardinality(D) = 1 /\ Pairs(C, D) \cap apart # {}

KeptApartBetween(C, D) == Pairs(C, D) \cap apart # {}

\* The next edge joins its units' components unless a decision forbids it.
JoinNext ==
  /\ phase = "join" /\ joins # {}
  /\ \E e \in joins :
       /\ \A f \in joins \ {e} : Precedes(e, f)
       /\ joins' = joins \ {e}
       /\ LET C == component[e[1]]
              D == component[e[2]]
          IN component' =
               IF C = D \/ ConfirmedApart(C, D) \/ KeptApartBetween(C, D) THEN component
               ELSE [u \in Units |-> IF u \in C \cup D THEN C \cup D ELSE component[u]]
  /\ UNCHANGED <<present, evidence, links, registry, apart, cited, phase, units, before, fixed,
                 assigned, settled, acts>>

\* Components with a confirmed unit keep its identity; the others claim theirs after them.
KeepConfirmed ==
  /\ phase = "join" /\ joins = {}
  /\ phase' = "claim"
  /\ assigned' = [u \in Units |-> IF component[u] \cap fixed = {} THEN None
                                  ELSE before[CHOOSE m \in component[u] \cap fixed : TRUE]]
  /\ UNCHANGED <<present, evidence, links, registry, apart, cited, units, joins, before, fixed,
                 component, settled, acts>>

Unassigned == {u \in units : assigned[u] = None}
Votes(C, i) == Cardinality({u \in C \cap units : before[u] = i})

\* Mutant of Claimable: an identity another component has claimed can be claimed again.
ClaimableAgain(C) == {i \in Live : Votes(C, i) > 0}

Claimable(C) ==
  {i \in Live : Votes(C, i) > 0 /\ i \notin {assigned[u] : u \in Units}}

\* Mutant of MostVoted: every component gets a new identity.
MostVotedNever(C) == {}

\* A component takes the live identity most of its units had, if another one has not;
\* the least id breaks a tie, and ids say nothing of the order they were made in.
MostVoted(C) == {i \in Claimable(C) : \A j \in Claimable(C) : Votes(C, j) <= Votes(C, i)}

\* The component of the least unassigned unit claims an identity, or a new one.
ClaimNext ==
  /\ phase = "claim" /\ Unassigned # {}
  /\ \E u \in Unassigned :
       /\ \A v \in Unassigned : Key(u) <= Key(v)
       /\ LET C == component[u] IN
          \E i \in IF MostVoted(C) # {} THEN MostVoted(C) ELSE NextUnused :
            assigned' = [v \in Units |-> IF v \in C THEN i ELSE assigned[v]]
  /\ UNCHANGED <<present, evidence, links, registry, apart, cited, phase, units, joins, before,
                 fixed, component, settled, acts>>

\* The links to write name people that were deleted meanwhile: a foreign key refuses them.
MissingPerson == ((units \ fixed) \cap People) \ present # {}

WriteLinks ==
  /\ phase = "claim" /\ Unassigned = {} /\ ~MissingPerson
  /\ phase' = "sweep"
  /\ rows' = rows \cup {assigned[u] : u \in units}
  /\ type' = [i \in Identities |-> IF i \in rows \/ ~\E u \in units : assigned[u] = i THEN type[i]
                                   ELSE EntityType(CHOOSE u \in units : assigned[u] = i)]
  /\ of' = [u \in Units |-> IF u \notin units THEN None
                            ELSE IF u \in fixed THEN of[u] ELSE assigned[u]]
  /\ confirmed' = confirmed \cap fixed
  /\ UNCHANGED <<present, evidence, mergedInto, apart, cited, work, settled, acts>>

Release ==
  /\ phase' = "idle"
  /\ units' = {} /\ joins' = {} /\ fixed' = {}
  /\ before' = [u \in Units |-> None] /\ assigned' = [u \in Units |-> None]
  /\ component' = [u \in Units |-> {u}]

\* The write fails, or the connection is lost before it: nothing of it stays.
ResolutionFails ==
  /\ \/ phase \in {"people", "evidence", "join"}
     \/ phase = "claim" /\ Unassigned = {} /\ MissingPerson
  /\ Release
  /\ settled' = IF settled = "reading" THEN "no" ELSE settled
  /\ UNCHANGED <<present, evidence, links, registry, apart, cited, acts>>

Orphans == {i \in Live : UnitsOf(i) = {} /\ i \notin cited}

\* delete_orphans: what redirected to a deleted identity is live in the next round.
DeleteOrphans ==
  /\ phase = "sweep" /\ Orphans # {}
  /\ rows' = rows \ Orphans
  /\ type' = [i \in Identities |-> IF i \in Orphans THEN None ELSE type[i]]
  /\ mergedInto' = [i \in Identities |-> IF mergedInto[i] \in Orphans THEN None
                                         ELSE mergedInto[i]]
  /\ UNCHANGED <<present, evidence, links, apart, cited, phase, work, settled, acts>>

CommitResolution ==
  /\ phase = "sweep" /\ Orphans = {}
  /\ Release
  /\ settled' = IF settled = "no" THEN "no" ELSE "yes"
  /\ UNCHANGED <<present, evidence, links, registry, apart, cited, acts>>

---------------------------------------------------------------------------
(* correct_identity: one transaction under the lock; its resolution follows *)
(* in another, as any other resolution does.                                *)

Corrects ==
  /\ phase = "idle" /\ acts < MaxActs
  /\ acts' = acts + 1
  /\ settled' = "no"

Comparable(i, j) == i # j /\ type[i] = type[j]

Confirm(i) ==
  /\ Corrects
  /\ confirmed' = confirmed \cup UnitsOf(i)
  /\ UNCHANGED <<present, evidence, of, registry, apart, cited, phase, work>>

\* Redirects to the merged identity follow it to its new target.
Redirected(i, j) == [k \in Identities |-> IF k = j \/ mergedInto[k] = j THEN i ELSE mergedInto[k]]

Merge(i, j) ==
  /\ Corrects /\ Comparable(i, j)
  /\ apart' = apart \ Pairs(UnitsOf(i), UnitsOf(j))
  /\ of' = [u \in Units |-> IF of[u] = j THEN i ELSE of[u]]
  /\ confirmed' = confirmed \cup UnitsOf(i) \cup UnitsOf(j)
  /\ mergedInto' = Redirected(i, j)
  /\ UNCHANGED <<present, evidence, rows, type, cited, phase, work>>

Split(i, moved) ==
  /\ Corrects
  /\ moved # {} /\ moved # UnitsOf(i)
  /\ \E new \in NextUnused :
       /\ rows' = rows \cup {new}
       /\ type' = [type EXCEPT ![new] = type[i]]
       /\ of' = [u \in Units |-> IF u \in moved THEN new ELSE of[u]]
  /\ confirmed' = confirmed \cup UnitsOf(i)
  /\ apart' = apart \cup Pairs(moved, UnitsOf(i) \ moved)
  /\ UNCHANGED <<present, evidence, mergedInto, cited, phase, work>>

Reject(i, j) ==
  /\ Corrects /\ Comparable(i, j)
  /\ apart' = apart \cup Pairs(UnitsOf(i), UnitsOf(j))
  /\ UNCHANGED <<present, evidence, links, registry, cited, phase, work>>

Unreject(i, j) ==
  /\ Corrects /\ Comparable(i, j)
  /\ apart' = apart \ Pairs(UnitsOf(i), UnitsOf(j))
  /\ UNCHANGED <<present, evidence, links, registry, cited, phase, work>>

Correct ==
  \E i \in Live :
    \/ Confirm(i)
    \/ \E moved \in SUBSET UnitsOf(i) : Split(i, moved)
    \/ \E j \in Live : Merge(i, j) \/ Reject(i, j) \/ Unreject(i, j)

---------------------------------------------------------------------------
(* The evidence, which extraction, matching and naming change at any time.  *)

EvidenceChanges ==
  /\ acts < MaxActs
  /\ acts' = acts + 1
  /\ settled' = "no"
  /\ UNCHANGED <<registry, apart, cited, phase, work>>

\* A mention group returns under its key; a deleted person's id never does.
UnitAppears ==
  /\ EvidenceChanges
  /\ \E u \in Units \ (present \cup People) : present' = present \cup {u}
  /\ UNCHANGED <<evidence, links>>

\* A deleted person takes its link along.
UnitVanishes ==
  /\ EvidenceChanges
  /\ \E u \in present :
       /\ present' = present \ {u}
       /\ IF u \in People
          THEN of' = [of EXCEPT ![u] = None] /\ confirmed' = confirmed \ {u}
          ELSE UNCHANGED links
  /\ UNCHANGED evidence

EdgeAppears ==
  /\ EvidenceChanges
  /\ \E e \in Edges \ evidence : evidence' = evidence \cup {e}
  /\ UNCHANGED <<present, links>>

EdgeVanishes ==
  /\ EvidenceChanges
  /\ \E e \in evidence : evidence' = evidence \ {e}
  /\ UNCHANGED <<present, links>>

\* A claim names an identity, or the last one that does goes.
Cite ==
  /\ \/ \E i \in rows \ cited : cited' = cited \cup {i}
     \/ \E i \in cited : cited' = cited \ {i}
  /\ acts < MaxActs /\ acts' = acts + 1
  /\ UNCHANGED <<present, evidence, links, registry, apart, phase, work, settled>>

---------------------------------------------------------------------------
Resolve ==
  \/ ReadGroups \/ ReadPeople \/ ReadEvidence \/ JoinNext \/ KeepConfirmed \/ ClaimNext
  \/ WriteLinks \/ DeleteOrphans \/ CommitResolution \/ ResolutionFails

Next ==
  \/ Resolve \/ Correct
  \/ UnitAppears \/ UnitVanishes \/ EdgeAppears \/ EdgeVanishes \/ Cite

Spec == Init /\ [][Next]_vars

---------------------------------------------------------------------------
(* What readers are shown of the registry.                                 *)

\* The live identity a (possibly merged) id leads to; None once its row is gone.
LiveIdentity(id) ==
  LET reached[n \in 0..Cardinality(rows)] ==
        IF n = 0 THEN id
        ELSE LET i == reached[n - 1]
             IN IF i \in rows /\ mergedInto[i] # None THEN mergedInto[i] ELSE i
      last == reached[Cardinality(rows)]
  IN IF last \in Live THEN last ELSE None

\* list_identities: live identities with links, and what of their evidence is there.
Listed(ids) ==
  {[id |-> i, local_units |-> Cardinality(UnitsOf(i)),
    has_confirmed |-> UnitsOf(i) \cap confirmed # {},
    mentioned |-> (UnitsOf(i) \ People) \cap present, people |-> UnitsOf(i) \cap People] :
     i \in {j \in Live \cap ids : UnitsOf(j) # {}}}

KeptApartFrom(i) ==
  {of[b] : b \in {c \in Units : \E a \in UnitsOf(i) : {a, c} \in apart}} \ {i, None}

\* Namesakes of the same type: a reason to review, not proof.
Suggested(i) ==
  {of[b] : b \in {c \in Units : \E a \in UnitsOf(i) : /\ EntityType(a) = EntityType(c)
                                                     /\ NameKey(a) = NameKey(c)
                                                     /\ NameKey(a) # None}}
    \ ({i, None} \cup KeptApartFrom(i))

\* identity_profile: none for an identity that is gone or has no links.
IdentityProfiles(id) ==
  {[identity |-> row, units |-> UnitsOf(row.id), suggestions |-> Listed(Suggested(row.id)),
    kept_apart |-> Listed(KeptApartFrom(row.id))] : row \in Listed({LiveIdentity(id)})}

---------------------------------------------------------------------------
(* What researchers and readers may rely on.                               *)

\* A pair a researcher keeps apart never shares an identity, whatever evidence joins the
\* two, directly or through other units (resolve_identities, set_rejections).
KeptApart == \A a, b \in Units : {a, b} \in apart /\ of[a] # None => of[a] # of[b]

\* Resolution leaves the confirmed link of every unit it has read where it is.
ConfirmedStays ==
  [][phase # "idle" /\ UNCHANGED present =>
       \A u \in confirmed \cap units : u \in confirmed' /\ of'[u] = of[u]]_vars

\* Every redirect leads in one step to a live identity of its type, so that live_identity
\* ends; only live identities hold links, of their own type.
RedirectsLead ==
  /\ \A i \in rows : mergedInto[i] # None => /\ mergedInto[i] \in Live
                                             /\ type[mergedInto[i]] = type[i]
  /\ \A u \in Units : of[u] # None => of[u] \in Live /\ type[of[u]] = EntityType(u)

\* A unit set no evidence and no decision connects would not share an identity.
Connected(C) ==
  \A S \in (SUBSET C) \ {{}, C} :
    \/ \E a \in S, b \in C \ S : <<a, b>> \in evidence \/ <<b, a>> \in evidence
    \/ confirmed \cap S # {} /\ confirmed \cap (C \ S) # {}

\* Once the links reflect the evidence, two units with evidence in common share an identity
\* unless a decision keeps some of their units apart, and no unit shares one without evidence.
LinksFollowEvidence ==
  settled = "yes" =>
    /\ present = {u \in Units : of[u] # None}
    /\ \A e \in evidence :
         LET C == UnitsOf(of[e[1]])
             D == UnitsOf(of[e[2]])
         IN {e[1], e[2]} \subseteq present =>
              \/ C = D
              \/ Pairs(C, D) \cap apart # {}
              \/ confirmed \cap C # {} /\ confirmed \cap D # {}
    /\ \A i \in Live : Connected(UnitsOf(i))

\* Every linked unit is shown on one profile, which its identity and every id merged into it
\* open; namesakes on two profiles are shown to each other, either as a suggestion or as kept
\* apart, and never as both; a decision to keep two units apart is shown on both profiles.
\* Once the links reflect the evidence, no profile is without any.
ProfilesAreComplete ==
  LET profile == [i \in Live |-> IdentityProfiles(i)]
      ids(S) == {row.id : row \in S}
  IN /\ \A i \in rows : mergedInto[i] # None => IdentityProfiles(i) = profile[mergedInto[i]]
     /\ \A u \in Units : of[u] # None =>
          {i \in Live : \E p \in profile[i] : u \in p.units} = {of[u]}
     /\ \A i \in Live : \A p \in profile[i] :
          /\ ids(p.suggestions) \cap ids(p.kept_apart) = {}
          /\ \A j \in ids(p.suggestions) : \E q \in profile[j] : i \in ids(q.suggestions)
          /\ settled = "yes" => p.identity.mentioned \cup p.identity.people = p.units
     /\ \A a, b \in Units : {a, b} \in apart /\ of[a] # None /\ of[b] # None =>
          \E p \in profile[of[a]] : of[b] \in ids(p.kept_apart)

\* The registry as a whole: its types, its redirects, between corrections its links, and what
\* readers see of it.
RegistryIsSound ==
  IdentitiesTypeOK /\ RedirectsLead /\ LinksFollowEvidence /\ (phase = "idle" => ProfilesAreComplete)

\* "Idempotent": resolving again changes no link, so the address of a profile stays valid.
Idempotent == [][settled = "yes" /\ phase # "idle" /\ UNCHANGED present => UNCHANGED links]_vars
==============================================================================
