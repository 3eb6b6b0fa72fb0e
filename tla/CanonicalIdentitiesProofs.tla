---------------------- MODULE CanonicalIdentitiesProofs ----------------------
(***************************************************************************)
(* Theorems about canonical identities for every set of units, every       *)
(* evidence between them and every number of corrections: what a           *)
(* researcher decides holds, whatever the resolution finds and whenever    *)
(* the evidence changes under it; the links a resolution leaves reflect    *)
(* the evidence it read, readers see every identity complete, and          *)
(* resolving again changes nothing.                                        *)
(***************************************************************************)
EXTENDS CanonicalIdentities, TLAPS, FiniteSetTheorems, NaturalsInduction, WellFoundedInduction

\* Nothing is kept apart from itself.
NoSelfPair == \A u \in Units : {u, u} \notin apart

\* An identity without a row redirects nowhere.
NoStrayRedirect == \A i \in Identities \ rows : mergedInto[i] = None

\* Only live identities hold links; a redirect leads to a live identity.
LinksLive == \A u \in Units : of[u] # None => mergedInto[of[u]] = None
RedirectsOnce ==
  \A i \in Identities : mergedInto[i] # None => mergedInto[mergedInto[i]] = None

Decided == phase \in {"join", "claim"}

\* The components partition the units, and none holds a pair kept apart.
Partition ==
  Decided =>
    /\ \A u \in Units : u \in component[u]
    /\ \A u, v \in Units : v \in component[u] => component[v] = component[u]
    /\ \A u, v \in Units : v \in component[u] => {u, v} \notin apart

\* What was read of the confirmed links still holds: two of them are in one component
\* exactly when they name one identity, which is live.
FixedHold ==
  Decided =>
    /\ confirmed \cap units \subseteq fixed
    /\ \A u \in fixed : /\ before[u] \in Identities /\ mergedInto[before[u]] = None
                        /\ of[u] \in {before[u], None}
    /\ \A u, v \in fixed : v \in component[u] <=> before[v] = before[u]

\* A component has one identity, a live one, and no two components share it.
Claims ==
  phase = "claim" =>
    /\ \A u \in Units : assigned[u] # None => mergedInto[assigned[u]] = None
    /\ \A u \in fixed : assigned[u] = before[u]
    /\ \A u, v \in Units : v \in component[u] => assigned[v] = assigned[u]
    /\ \A u, v \in Units : assigned[u] # None /\ assigned[v] = assigned[u] => v \in component[u]

BeforeReading == phase \in {"idle", "people", "evidence"} => fixed = {}

IInv ==
  /\ IdentitiesTypeOK /\ KeptApart /\ NoSelfPair /\ NoStrayRedirect /\ LinksLive /\ RedirectsOnce
  /\ Partition /\ FixedHold /\ Claims /\ BeforeReading

---------------------------------------------------------------------------
LEMMA InitEstablishes == Init => IInv
  <1> SUFFICES ASSUME Init PROVE IInv
    OBVIOUS
  <1> USE DEF Init, NoWork
  <1>1. IdentitiesTypeOK
    BY ActsAssumption DEF IdentitiesTypeOK, Phases
  <1>2. KeptApart /\ NoSelfPair /\ NoStrayRedirect /\ LinksLive /\ RedirectsOnce
    BY DEF KeptApart, NoSelfPair, NoStrayRedirect, LinksLive, RedirectsOnce
  <1>3. Partition /\ FixedHold /\ Claims /\ BeforeReading
    BY DEF Partition, FixedHold, Claims, BeforeReading, Decided
  <1> QED
    BY <1>1, <1>2, <1>3 DEF IInv

---------------------------------------------------------------------------
(* The resolution, step by step.                                           *)

\* The registry, the links and the decisions as an action leaves them.
Decisions == <<links, registry, apart>>

LEMMA DecisionsKept ==
  ASSUME IInv, UNCHANGED Decisions
  PROVE  KeptApart' /\ NoSelfPair' /\ NoStrayRedirect' /\ LinksLive' /\ RedirectsOnce'
  BY DEF IInv, Decisions, links, registry, KeptApart, NoSelfPair, NoStrayRedirect, LinksLive,
         RedirectsOnce

LEMMA ReadGroupsStep == ASSUME IInv, ReadGroups PROVE IInv'
  <1> USE DEF ReadGroups
  <1>1. fixed = {}
    BY DEF IInv, BeforeReading
  <1>2. IdentitiesTypeOK'
    BY <1>1 DEF IInv, IdentitiesTypeOK, Phases, links, registry
  <1>3. Partition' /\ FixedHold' /\ Claims' /\ BeforeReading'
    BY <1>1 DEF Partition, FixedHold, Claims, BeforeReading, Decided
  <1> QED
    BY <1>2, <1>3, DecisionsKept DEF IInv, Decisions

LEMMA ReadPeopleStep == ASSUME IInv, ReadPeople PROVE IInv'
  <1> USE DEF ReadPeople
  <1>1. fixed = {}
    BY DEF IInv, BeforeReading
  <1>2. IdentitiesTypeOK'
    BY <1>1 DEF IInv, IdentitiesTypeOK, Phases, links, registry
  <1>3. Partition' /\ FixedHold' /\ Claims' /\ BeforeReading'
    BY <1>1 DEF Partition, FixedHold, Claims, BeforeReading, Decided
  <1> QED
    BY <1>2, <1>3, DecisionsKept DEF IInv, Decisions

LEMMA ReadEvidenceStep == ASSUME IInv, ReadEvidence PROVE IInv'
  <1> USE DEF ReadEvidence
  <1> DEFINE F == Fixed(units)
  <1>0. F \subseteq units /\ F \subseteq confirmed /\ units \subseteq Units
    BY DEF Fixed, IInv, IdentitiesTypeOK
  <1>1. confirmed \cap units \subseteq F
    <2> SUFFICES ASSUME NEW u \in confirmed \cap units PROVE u \in F
      OBVIOUS
    <2>1. u \in Units /\ of[u] # None /\ of[u] \in rows
      BY DEF IInv, IdentitiesTypeOK
    <2>2. mergedInto[of[u]] = None
      BY <2>1 DEF IInv, LinksLive
    <2> QED
      BY <2>1, <2>2 DEF Fixed, Live
  <1>2. \A u \in F : u \in Units /\ of[u] \in Identities /\ of[u] # None /\ mergedInto[of[u]] = None
    BY DEF Fixed, Live, IInv, IdentitiesTypeOK
  <1>3. \A u \in Units : component'[u] = IF u \in F THEN {v \in F : of[v] = of[u]} ELSE {u}
    BY DEF StartingComponent
  <1>4. fixed' = F /\ before' = of /\ F \subseteq Units
    BY <1>0
  <1> HIDE DEF F
  <1>5. IdentitiesTypeOK'
    <2>1. component' \in [Units -> SUBSET Units]
      BY <1>0, <1>3 DEF StartingComponent
    <2>2. before' \in [Units -> Identities \cup {None}]
      BY <1>4 DEF IInv, IdentitiesTypeOK
    <2> QED
      BY <1>0, <1>4, <2>1, <2>2 DEF IInv, IdentitiesTypeOK, Phases, links, registry
  <1>6. Partition'
    <2>1. \A u, v \in Units : v \in component'[u] =>
             v = u \/ (u \in F /\ v \in F /\ of[v] = of[u])
      BY <1>3
    <2>2. \A u, v \in Units : v \in component'[u] => {u, v} \notin apart
      BY <2>1, <1>2 DEF IInv, NoSelfPair, KeptApart
    <2>3. \A u \in Units : u \in component'[u]
      BY <1>2, <1>3
    <2>4. ASSUME NEW u \in Units, NEW v \in Units, v \in component'[u]
          PROVE  component'[v] = component'[u]
      <3>1. CASE u \in F /\ v \in F /\ of[v] = of[u]
        <4>1. component'[u] = {w \in F : of[w] = of[u]} /\ component'[v] = {w \in F : of[w] = of[v]}
          BY <1>3, <3>1
        <4> QED
          BY <3>1, <4>1
      <3> QED
        BY <2>1, <2>4, <3>1
    <2> QED
      BY <2>2, <2>3, <2>4 DEF Partition
  <1>7. FixedHold'
    BY <1>1, <1>2, <1>3, <1>4 DEF FixedHold, links, registry
  <1>8. Claims' /\ BeforeReading'
    BY DEF Claims, BeforeReading
  <1> QED
    BY <1>5, <1>6, <1>7, <1>8, DecisionsKept DEF IInv, Decisions

\* The component an edge yields, and what it can hold.
LEMMA JoinNextStep == ASSUME IInv, JoinNext PROVE IInv'
  <1> USE DEF JoinNext
  <1>1. PICK e \in joins :
          /\ joins' = joins \ {e}
          /\ LET C == component[e[1]]
                 D == component[e[2]]
             IN component' =
                  IF C = D \/ ConfirmedApart(C, D) \/ KeptApartBetween(C, D) THEN component
                  ELSE [u \in Units |-> IF u \in C \cup D THEN C \cup D ELSE component[u]]
    OBVIOUS
  <1> DEFINE C == component[e[1]]
             D == component[e[2]]
  <1>2. e[1] \in Units /\ e[2] \in Units
    BY UnitsAssumption DEF IInv, IdentitiesTypeOK
  <1>3. C \subseteq Units /\ D \subseteq Units
    BY <1>2 DEF IInv, IdentitiesTypeOK
  <1>4. /\ \A u \in Units : u \in component[u]
        /\ \A u, v \in Units : v \in component[u] => component[v] = component[u]
        /\ \A u, v \in Units : v \in component[u] => {u, v} \notin apart
    BY DEF IInv, Partition, Decided
  <1>5. CASE component' = component
    <2>1. IdentitiesTypeOK'
      BY <1>1, <1>5 DEF IInv, IdentitiesTypeOK, links, registry
    <2>2. Partition'
      BY <1>5 DEF IInv, Partition, Decided
    <2>3. FixedHold'
      BY <1>5 DEF IInv, FixedHold, Decided, links, registry
    <2>4. Claims' /\ BeforeReading'
      BY DEF IInv, Claims, BeforeReading
    <2> QED
      BY <2>1, <2>2, <2>3, <2>4, DecisionsKept DEF IInv, Decisions
  <1>6. CASE component' # component
    <2>1. /\ ~ConfirmedApart(C, D) /\ ~KeptApartBetween(C, D)
          /\ component' = [u \in Units |-> IF u \in C \cup D THEN C \cup D ELSE component[u]]
      BY <1>1, <1>6
    <2>2. \A m \in C, n \in D : {m, n} \notin apart
      BY <2>1 DEF KeptApartBetween, Pairs
    <2>3. \A u \in C, v \in C : {u, v} \notin apart
      BY <1>2, <1>3, <1>4
    <2>4. \A u \in D, v \in D : {u, v} \notin apart
      BY <1>2, <1>3, <1>4
    <2>5. \A u, v \in Units : {u, v} = {v, u}
      OBVIOUS
    <2>6. \A u, v \in C \cup D : {u, v} \notin apart
      BY <1>3, <2>2, <2>3, <2>4, <2>5
    <2>7. IdentitiesTypeOK'
      <3>1. component' \in [Units -> SUBSET Units]
        BY <1>3, <2>1 DEF IInv, IdentitiesTypeOK
      <3> QED
        BY <1>1, <3>1 DEF IInv, IdentitiesTypeOK, links, registry
    <2>8. Partition'
      <3>1. \A u \in C \cup D, v \in Units \ (C \cup D) : u \notin component[v]
        BY <1>2, <1>3, <1>4
      <3>2. \A u \in Units : u \in component'[u]
        BY <1>4, <2>1
      <3>3. \A u, v \in Units : v \in component'[u] => component'[v] = component'[u]
        BY <1>3, <1>4, <2>1, <3>1
      <3>4. \A u, v \in Units : v \in component'[u] => {u, v} \notin apart'
        BY <1>4, <2>1, <2>6
      <3> QED
        BY <3>2, <3>3, <3>4 DEF Partition
    <2>9. FixedHold'
      <3>1. /\ confirmed \cap units \subseteq fixed
            /\ \A u \in fixed : /\ before[u] \in Identities /\ mergedInto[before[u]] = None
                                /\ of[u] \in {before[u], None}
            /\ \A u, v \in fixed : v \in component[u] <=> before[v] = before[u]
        BY DEF IInv, FixedHold, Decided
      <3>2. \A m \in C \cap fixed, n \in D \cap fixed : before[m] = before[n]
        BY <2>1 DEF ConfirmedApart
      <3>3. fixed \subseteq Units
        BY DEF IInv, IdentitiesTypeOK
      <3>4. \A u, v \in C \cap fixed : before[v] = before[u]
        BY <1>2, <1>4, <3>1, <3>3
      <3>5. \A u, v \in D \cap fixed : before[v] = before[u]
        BY <1>2, <1>4, <3>1, <3>3
      <3>6. ASSUME NEW u \in fixed, NEW v \in fixed
            PROVE  v \in component'[u] <=> before[v] = before[u]
        <4>1. CASE u \in C \cup D
          <5>1. component'[u] = C \cup D
            BY <2>1, <3>3, <4>1
          <5>2. v \in C \cup D => before[v] = before[u]
            BY <3>2, <3>4, <3>5, <4>1
          <5>3. before[v] = before[u] => v \in component[u]
            BY <3>1
          <5>4. component[u] = C \/ component[u] = D
            BY <1>2, <1>4, <3>3, <4>1
          <5> QED
            BY <5>1, <5>2, <5>3, <5>4
        <4>2. CASE u \notin C \cup D
          BY <2>1, <3>1, <3>3, <4>2
        <4> QED
          BY <4>1, <4>2
      <3> QED
        BY <3>1, <3>6 DEF FixedHold, links, registry
    <2>10. Claims' /\ BeforeReading'
      BY DEF IInv, Claims, BeforeReading
    <2> QED
      BY <2>7, <2>8, <2>9, <2>10, DecisionsKept DEF IInv, Decisions
  <1> QED
    BY <1>5, <1>6

LEMMA KeepConfirmedStep == ASSUME IInv, KeepConfirmed PROVE IInv'
  <1> USE DEF KeepConfirmed
  <1> DEFINE held(u) == CHOOSE m \in component[u] \cap fixed : TRUE
  <1>1. \A u \in Units : assigned'[u] = IF component[u] \cap fixed = {} THEN None
                                        ELSE before[held(u)]
    OBVIOUS
  <1>2. \A u \in Units : component[u] \cap fixed # {} => held(u) \in component[u] \cap fixed
    OBVIOUS
  <1> HIDE DEF held
  <1>3. fixed \subseteq Units /\ component \in [Units -> SUBSET Units]
    BY DEF IInv, IdentitiesTypeOK
  <1>4. /\ \A u \in Units : u \in component[u]
        /\ \A u, v \in Units : v \in component[u] => component[v] = component[u]
    BY DEF IInv, Partition, Decided
  <1>5. /\ \A u \in fixed : before[u] \in Identities /\ mergedInto[before[u]] = None
        /\ \A u, v \in fixed : v \in component[u] <=> before[v] = before[u]
    BY DEF IInv, FixedHold, Decided
  <1>6. \A u \in Units : assigned'[u] # None =>
          /\ component[u] \cap fixed # {}
          /\ held(u) \in component[u] \cap fixed
          /\ assigned'[u] = before[held(u)]
    BY <1>1, <1>2
  <1>7. IdentitiesTypeOK'
    <2>1. assigned' \in [Units -> Identities \cup {None}]
      BY <1>1, <1>2, <1>3, <1>5
    <2> QED
      BY <2>1 DEF IInv, IdentitiesTypeOK, Phases, links, registry
  <1>8. Partition'
    BY DEF IInv, Partition, Decided
  <1>9. FixedHold'
    BY DEF IInv, FixedHold, Decided, links, registry
  <1>10. Claims'
    <2>1. \A u \in Units : assigned'[u] # None => mergedInto[assigned'[u]] = None
      BY <1>3, <1>5, <1>6
    <2>2. ASSUME NEW u \in fixed PROVE assigned'[u] = before[u]
      <3>1. u \in Units /\ u \in component[u] \cap fixed
        BY <1>3, <1>4
      <3>2. held(u) \in component[u] \cap fixed /\ assigned'[u] = before[held(u)]
        BY <1>1, <1>2, <3>1
      <3> QED
        BY <1>5, <3>1, <3>2
    <2>3. \A u, v \in Units : v \in component[u] => assigned'[v] = assigned'[u]
      <3> SUFFICES ASSUME NEW u \in Units, NEW v \in Units, v \in component[u]
                   PROVE  assigned'[v] = assigned'[u]
        OBVIOUS
      <3>1. component[v] = component[u]
        BY <1>4
      <3>2. held(v) = held(u)
        BY <3>1 DEF held
      <3> QED
        BY <1>1, <3>1, <3>2
    <2>4. ASSUME NEW u \in Units, NEW v \in Units, assigned'[u] # None,
                 assigned'[v] = assigned'[u]
          PROVE  v \in component[u]
      <3>1. /\ held(u) \in component[u] \cap fixed /\ assigned'[u] = before[held(u)]
            /\ held(v) \in component[v] \cap fixed /\ assigned'[v] = before[held(v)]
        BY <1>6, <2>4
      <3>2. held(v) \in component[held(u)]
        BY <1>5, <2>4, <3>1
      <3>3. component[held(u)] = component[u] /\ component[held(v)] = component[v]
        BY <1>3, <1>4, <3>1
      <3>4. component[held(v)] = component[held(u)]
        BY <1>3, <1>4, <3>1, <3>2
      <3> QED
        BY <1>4, <3>3, <3>4
    <2>5. /\ fixed' = fixed /\ before' = before /\ component' = component
          /\ mergedInto' = mergedInto
      BY DEF registry
    <2> HIDE DEF KeepConfirmed
    <2> QED
      BY <2>1, <2>2, <2>3, <2>4, <2>5 DEF Claims
  <1>11. BeforeReading'
    BY DEF BeforeReading
  <1> QED
    BY <1>7, <1>8, <1>9, <1>10, <1>11, DecisionsKept DEF IInv, Decisions

LEMMA ClaimNextStep == ASSUME IInv, ClaimNext PROVE IInv'
  <1> USE DEF ClaimNext
  <1>1. PICK u \in Unassigned :
          \E i \in IF MostVoted(component[u]) # {} THEN MostVoted(component[u]) ELSE NextUnused :
            assigned' = [v \in Units |-> IF v \in component[u] THEN i ELSE assigned[v]]
    OBVIOUS
  <1>2. PICK i \in IF MostVoted(component[u]) # {} THEN MostVoted(component[u]) ELSE NextUnused :
          assigned' = [v \in Units |-> IF v \in component[u] THEN i ELSE assigned[v]]
    BY <1>1
  <1>3. u \in Units /\ assigned[u] = None
    BY DEF Unassigned, IInv, IdentitiesTypeOK
  <1>4. i \in Identities /\ i # None /\ mergedInto[i] = None
        /\ \A v \in Units : assigned[v] # i
    <2>1. CASE i \in MostVoted(component[u])
      BY <2>1, IdentitiesAssumption DEF MostVoted, Claimable, Live, IInv, IdentitiesTypeOK
    <2>2. CASE i \in NextUnused
      BY <2>2, IdentitiesAssumption DEF NextUnused, Unused, IInv, NoStrayRedirect
    <2> QED
      BY <1>2, <2>1, <2>2
  <1>5. /\ \A v \in Units : v \in component[v]
        /\ \A v, w \in Units : w \in component[v] => component[w] = component[v]
    BY DEF IInv, Partition, Decided
  <1>6. /\ \A v \in Units : assigned[v] # None => mergedInto[assigned[v]] = None
        /\ \A v \in fixed : assigned[v] = before[v]
        /\ \A v, w \in Units : w \in component[v] => assigned[w] = assigned[v]
        /\ \A v, w \in Units : assigned[v] # None /\ assigned[w] = assigned[v]
                                 => w \in component[v]
    BY DEF IInv, Claims
  <1>7. /\ assigned \in [Units -> Identities \cup {None}]
        /\ component \in [Units -> SUBSET Units] /\ fixed \subseteq Units
    BY DEF IInv, IdentitiesTypeOK
  <1>8. IdentitiesTypeOK'
    <2>1. assigned' \in [Units -> Identities \cup {None}]
      BY <1>2, <1>4, <1>7
    <2> QED
      BY <2>1 DEF IInv, IdentitiesTypeOK, links, registry
  <1>9. Partition' /\ BeforeReading'
    BY DEF IInv, Partition, Decided, BeforeReading
  <1>10. FixedHold'
    BY DEF IInv, FixedHold, Decided, links, registry
  <1>11. Claims'
    <2>1. \A v \in Units : assigned'[v] # None => mergedInto[assigned'[v]] = None
      BY <1>2, <1>4, <1>6
    <2>2. \A v \in fixed : assigned'[v] = before[v]
      <3> SUFFICES ASSUME NEW v \in fixed PROVE v \notin component[u]
        BY <1>2, <1>6, <1>7
      <3>1. assigned[v] = before[v] /\ before[v] # None
        BY <1>6, IdentitiesAssumption DEF IInv, FixedHold, Decided
      <3> QED
        BY <1>3, <1>6, <1>7, <3>1
    <2>3. \A v, w \in Units : w \in component[v] => assigned'[w] = assigned'[v]
      BY <1>2, <1>3, <1>5, <1>6
    <2>4. \A v, w \in Units : assigned'[v] # None /\ assigned'[w] = assigned'[v]
                                => w \in component[v]
      <3> SUFFICES ASSUME NEW v \in Units, NEW w \in Units, assigned'[v] # None,
                          assigned'[w] = assigned'[v]
                   PROVE  w \in component[v]
        OBVIOUS
      <3>1. CASE v \in component[u] /\ w \in component[u]
        BY <1>3, <1>5, <3>1
      <3>2. CASE v \notin component[u] /\ w \notin component[u]
        BY <1>2, <1>6, <3>2
      <3>3. CASE (v \in component[u]) # (w \in component[u])
        BY <1>2, <1>4, <3>3
      <3> QED
        BY <3>1, <3>2, <3>3
    <2> QED
      BY <2>1, <2>2, <2>3, <2>4 DEF Claims, registry
  <1> QED
    BY <1>8, <1>9, <1>10, <1>11, DecisionsKept DEF IInv, Decisions

\* What the write leaves: a unit that was read has the identity of its component.
LEMMA WriteLinksStep == ASSUME IInv, WriteLinks PROVE IInv'
  <1> USE DEF WriteLinks
  <1>1. /\ units \subseteq Units /\ fixed \subseteq units
        /\ assigned \in [Units -> Identities \cup {None}]
        /\ of \in [Units -> rows \cup {None}] /\ rows \subseteq Identities
        /\ mergedInto \in [Identities -> rows \cup {None}]
        /\ confirmed \subseteq {u \in Units : of[u] # None}
        /\ type \in [Identities -> Types \cup {None}]
        /\ cited \subseteq rows
    BY DEF IInv, IdentitiesTypeOK
  <1>2. \A u \in units : assigned[u] \in Identities
    BY <1>1 DEF Unassigned
  <1>3. rows' = rows \cup {assigned[u] : u \in units} /\ rows' \subseteq Identities
    BY <1>1, <1>2
  <1>4. /\ \A u \in Units : assigned[u] # None => mergedInto[assigned[u]] = None
        /\ \A u \in fixed : assigned[u] = before[u]
        /\ \A u, v \in Units : assigned[u] # None /\ assigned[v] = assigned[u]
                                 => v \in component[u]
    BY DEF IInv, Claims
  <1>5. \A u \in fixed : of[u] \in {assigned[u], None}
    BY <1>4 DEF IInv, FixedHold, Decided
  <1>6. \A u \in Units : of'[u] # None => u \in units /\ of'[u] = assigned[u]
    BY <1>1, <1>5
  <1>7. IdentitiesTypeOK'
    <2>1. of' \in [Units -> rows' \cup {None}]
      BY <1>1, <1>3
    <2>2. type' \in [Identities -> Types \cup {None}]
      <3> SUFFICES ASSUME NEW i \in Identities PROVE type'[i] \in Types \cup {None}
        BY <1>1
      <3>1. CASE i \in rows \/ ~\E u \in units : assigned[u] = i
        BY <1>1, <3>1
      <3>2. CASE ~(i \in rows \/ ~\E u \in units : assigned[u] = i)
        <4>1. (CHOOSE u \in units : assigned[u] = i) \in Units
          BY <1>1, <3>2
        <4> QED
          BY <3>2, <4>1 DEF Types
      <3> QED
        BY <3>1, <3>2
    <2>3. mergedInto' \in [Identities -> rows' \cup {None}]
      BY <1>1, <1>3
    <2>4. confirmed' \subseteq {u \in Units : of'[u] # None}
      BY <1>1
    <2> QED
      BY <1>1, <1>3, <2>1, <2>2, <2>3, <2>4 DEF IInv, IdentitiesTypeOK, Phases, work
  <1>8. KeptApart'
    <2> SUFFICES ASSUME NEW a \in Units, NEW b \in Units, {a, b} \in apart, of'[a] # None
                 PROVE  of'[a] # of'[b]
      BY DEF KeptApart
    <2>1. of'[a] = assigned[a] /\ assigned[a] # None
      BY <1>6
    <2>2. ASSUME of'[b] = of'[a] PROVE FALSE
      <3>1. assigned[b] = assigned[a]
        BY <1>6, <2>1, <2>2
      <3>2. b \in component[a]
        BY <1>4, <2>1, <3>1
      <3> QED
        BY <3>2 DEF IInv, Partition, Decided
    <2> QED
      BY <2>2
  <1>9. NoSelfPair' /\ RedirectsOnce'
    BY DEF IInv, NoSelfPair, RedirectsOnce
  <1>10. NoStrayRedirect'
    BY <1>3 DEF IInv, NoStrayRedirect
  <1>11. LinksLive'
    BY <1>1, <1>4, <1>6 DEF LinksLive
  <1>12. Partition' /\ FixedHold' /\ Claims' /\ BeforeReading'
    BY DEF Partition, FixedHold, Claims, BeforeReading, Decided
  <1> QED
    BY <1>7, <1>8, <1>9, <1>10, <1>11, <1>12 DEF IInv

LEMMA DeleteOrphansStep == ASSUME IInv, DeleteOrphans PROVE IInv'
  <1> USE DEF DeleteOrphans
  <1>1. /\ of \in [Units -> rows \cup {None}] /\ rows \subseteq Identities
        /\ mergedInto \in [Identities -> rows \cup {None}]
        /\ type \in [Identities -> Types \cup {None}]
        /\ cited \subseteq rows
    BY DEF IInv, IdentitiesTypeOK
  <1>2. /\ Orphans \subseteq rows
        /\ \A i \in Orphans : mergedInto[i] = None /\ i \notin cited
        /\ \A u \in Units : of[u] \notin Orphans
    BY DEF Orphans, Live, UnitsOf
  <1>3. IdentitiesTypeOK'
    <2>1. of' \in [Units -> rows' \cup {None}]
      BY <1>1, <1>2 DEF links
    <2>2. mergedInto' \in [Identities -> rows' \cup {None}]
      BY <1>1
    <2>3. type' \in [Identities -> Types \cup {None}]
      BY <1>1
    <2>4. cited' \subseteq rows'
      BY <1>1, <1>2
    <2> QED
      BY <1>1, <2>1, <2>2, <2>3, <2>4 DEF IInv, IdentitiesTypeOK, links, work
  <1>4. KeptApart' /\ NoSelfPair'
    BY DEF IInv, KeptApart, NoSelfPair, links
  <1>5. NoStrayRedirect'
    BY <1>1, <1>2, IdentitiesAssumption DEF IInv, NoStrayRedirect
  <1>6. LinksLive'
    BY <1>1 DEF IInv, LinksLive, links
  <1>7. RedirectsOnce'
    BY <1>1 DEF IInv, RedirectsOnce
  <1>8. Partition' /\ FixedHold' /\ Claims' /\ BeforeReading'
    BY DEF Partition, FixedHold, Claims, BeforeReading, Decided
  <1> QED
    BY <1>3, <1>4, <1>5, <1>6, <1>7, <1>8 DEF IInv

\* The end of a transaction, committed or rolled back.
LEMMA ReleaseStep ==
  ASSUME IInv, Release, UNCHANGED <<present, evidence, links, registry, apart, cited, acts>>,
         settled' \in {"no", "reading", "yes"}
  PROVE  IInv'
  <1> USE DEF Release
  <1>1. IdentitiesTypeOK'
    BY DEF IInv, IdentitiesTypeOK, Phases, links, registry
  <1>2. Partition' /\ FixedHold' /\ Claims' /\ BeforeReading'
    BY DEF Partition, FixedHold, Claims, BeforeReading, Decided
  <1> QED
    BY <1>1, <1>2, DecisionsKept DEF IInv, Decisions

LEMMA ResolveStep == ASSUME IInv, Resolve PROVE IInv'
  <1>1. CASE ResolutionFails
    BY <1>1, ReleaseStep DEF ResolutionFails, IInv, IdentitiesTypeOK
  <1>2. CASE CommitResolution
    BY <1>2, ReleaseStep DEF CommitResolution
  <1> QED
    BY <1>1, <1>2, ReadGroupsStep, ReadPeopleStep, ReadEvidenceStep, JoinNextStep,
       KeepConfirmedStep, ClaimNextStep, WriteLinksStep, DeleteOrphansStep DEF Resolve

---------------------------------------------------------------------------
(* Corrections: none runs beside a resolution.                             *)

LEMMA NothingDecided ==
  ASSUME IInv, Corrects, UNCHANGED <<phase, work>>
  PROVE  Partition' /\ FixedHold' /\ Claims' /\ BeforeReading'
  BY DEF Corrects, work, IInv, Partition, FixedHold, Claims, BeforeReading, Decided

\* What a pair of units of two sets is.
LEMMA PairsApart ==
  ASSUME NEW S, NEW T, NEW a, NEW b, {a, b} \in Pairs(S, T)
  PROVE  (a \in S /\ b \in T) \/ (b \in S /\ a \in T)
  <1>1. PICK x \in S, y \in T : {a, b} = {x, y}
    BY DEF Pairs
  <1>2. a \in {x, y} /\ b \in {x, y} /\ x \in {a, b} /\ y \in {a, b}
    BY <1>1
  <1> QED
    BY <1>2

LEMMA ConfirmStep == ASSUME IInv, NEW i \in Live, Confirm(i) PROVE IInv'
  <1> USE DEF Confirm, Corrects
  <1>1. IdentitiesTypeOK'
    BY IdentitiesAssumption, ActsAssumption
       DEF IInv, IdentitiesTypeOK, UnitsOf, Live, registry, work
  <1>2. KeptApart' /\ NoSelfPair' /\ NoStrayRedirect' /\ LinksLive' /\ RedirectsOnce'
    BY DEF IInv, KeptApart, NoSelfPair, NoStrayRedirect, LinksLive, RedirectsOnce, registry
  <1> QED
    BY <1>1, <1>2, NothingDecided DEF IInv

LEMMA MergeStep == ASSUME IInv, NEW i \in Live, NEW j \in Live, Merge(i, j) PROVE IInv'
  <1> USE DEF Merge
  <1>1. /\ i \in rows /\ j \in rows /\ i # j /\ i # None /\ j # None
        /\ mergedInto[i] = None /\ mergedInto[j] = None
        /\ rows \subseteq Identities
        /\ of \in [Units -> rows \cup {None}]
        /\ mergedInto \in [Identities -> rows \cup {None}]
    BY IdentitiesAssumption DEF Comparable, Live, IInv, IdentitiesTypeOK
  <1>2. mergedInto' = [k \in Identities |-> IF k = j \/ mergedInto[k] = j THEN i ELSE mergedInto[k]]
    BY DEF Redirected
  <1>3. IdentitiesTypeOK'
    <2>1. of' \in [Units -> rows' \cup {None}]
      BY <1>1
    <2>2. mergedInto' \in [Identities -> rows' \cup {None}]
      BY <1>1, <1>2
    <2>3. confirmed' \subseteq {u \in Units : of'[u] # None}
      BY <1>1 DEF IInv, IdentitiesTypeOK, UnitsOf
    <2>4. apart' \subseteq SUBSET Units
      BY DEF IInv, IdentitiesTypeOK
    <2>5. phase = "idle" /\ acts' \in 0..MaxActs /\ settled' = "no" /\ rows' = rows /\ type' = type
      BY ActsAssumption DEF Corrects, IInv, IdentitiesTypeOK
    <2> QED
      BY <1>1, <2>1, <2>2, <2>3, <2>4, <2>5 DEF IInv, IdentitiesTypeOK, Types, work
  <1>4. KeptApart'
    <2> SUFFICES ASSUME NEW a \in Units, NEW b \in Units, {a, b} \in apart', of'[a] # None,
                        of'[a] = of'[b]
                 PROVE  FALSE
      BY DEF KeptApart
    <2>1. {a, b} \in apart /\ {a, b} \notin Pairs(UnitsOf(i), UnitsOf(j))
      OBVIOUS
    <2>2. of[a] # None /\ of[a] # of[b]
      BY <1>1, <2>1 DEF IInv, KeptApart
    <2>3. (of[a] = i /\ of[b] = j) \/ (of[a] = j /\ of[b] = i)
      BY <1>1, <2>2
    <2>4. {a, b} = {b, a}
      OBVIOUS
    <2> QED
      BY <2>1, <2>3, <2>4 DEF Pairs, UnitsOf
  <1>5. NoSelfPair'
    BY DEF IInv, NoSelfPair
  <1>6. NoStrayRedirect'
    BY <1>1, <1>2 DEF IInv, NoStrayRedirect
  <1>7. LinksLive'
    <2> SUFFICES ASSUME NEW u \in Units, of'[u] # None PROVE mergedInto'[of'[u]] = None
      BY DEF LinksLive
    <2>1. of[u] # None /\ of[u] \in Identities /\ mergedInto[of[u]] = None
      BY <1>1 DEF IInv, LinksLive
    <2> QED
      BY <1>1, <1>2, <2>1
  <1>8. RedirectsOnce'
    <2> SUFFICES ASSUME NEW k \in Identities, mergedInto'[k] # None
                 PROVE  mergedInto'[mergedInto'[k]] = None
      BY DEF RedirectsOnce
    <2>1. mergedInto'[i] = None
      BY <1>1, <1>2
    <2>2. CASE mergedInto'[k] = i
      BY <2>1, <2>2
    <2>3. CASE mergedInto'[k] # i
      <3>1. mergedInto'[k] = mergedInto[k] /\ mergedInto[k] # None /\ mergedInto[k] # j
        BY <1>1, <1>2, <2>3
      <3>2. mergedInto[k] \in Identities /\ mergedInto[mergedInto[k]] = None
        BY <1>1, <3>1 DEF IInv, RedirectsOnce
      <3> QED
        BY <1>1, <1>2, <3>1, <3>2
    <2> QED
      BY <2>2, <2>3
  <1> QED
    BY <1>3, <1>4, <1>5, <1>6, <1>7, <1>8, NothingDecided DEF IInv

LEMMA SplitStep ==
  ASSUME IInv, NEW i \in Live, NEW moved \in SUBSET UnitsOf(i), Split(i, moved)
  PROVE  IInv'
  <1> USE DEF Split
  <1>1. PICK new \in NextUnused :
          /\ rows' = rows \cup {new}
          /\ type' = [type EXCEPT ![new] = type[i]]
          /\ of' = [u \in Units |-> IF u \in moved THEN new ELSE of[u]]
    OBVIOUS
  <1>2. /\ i \in rows /\ new \in Identities \ rows /\ new # None /\ i # new
        /\ rows \subseteq Identities
        /\ of \in [Units -> rows \cup {None}]
        /\ mergedInto \in [Identities -> rows \cup {None}]
        /\ moved \subseteq Units /\ \A u \in moved : of[u] = i
        /\ \A u \in Units : of[u] # new
    BY IdentitiesAssumption DEF NextUnused, Unused, Live, UnitsOf, IInv, IdentitiesTypeOK
  <1>3. IdentitiesTypeOK'
    <2>1. of' \in [Units -> rows' \cup {None}]
      BY <1>1, <1>2
    <2>2. mergedInto' \in [Identities -> rows' \cup {None}] /\ rows' \subseteq Identities
      BY <1>1, <1>2
    <2>3. type' \in [Identities -> Types \cup {None}]
      BY <1>1, <1>2 DEF IInv, IdentitiesTypeOK
    <2>4. confirmed' \subseteq {u \in Units : of'[u] # None}
      BY <1>1, <1>2, IdentitiesAssumption DEF IInv, IdentitiesTypeOK, UnitsOf
    <2>5. apart' \subseteq SUBSET Units
      BY <1>2 DEF IInv, IdentitiesTypeOK, Pairs, UnitsOf
    <2>6. phase = "idle" /\ acts' \in 0..MaxActs /\ settled' = "no"
      BY ActsAssumption DEF Corrects, IInv, IdentitiesTypeOK
    <2>7. cited' \subseteq rows'
      BY <1>1 DEF IInv, IdentitiesTypeOK
    <2> QED
      BY <2>1, <2>2, <2>3, <2>4, <2>5, <2>6, <2>7 DEF IInv, IdentitiesTypeOK, Types, work
  <1>4. KeptApart'
    <2> SUFFICES ASSUME NEW a \in Units, NEW b \in Units, {a, b} \in apart', of'[a] # None
                 PROVE  of'[a] # of'[b]
      BY DEF KeptApart
    <2>1. CASE {a, b} \in apart
      <3>1. of[a] # None
        BY <1>1, <1>2, IdentitiesAssumption
      <3>2. of[a] # of[b]
        BY <2>1, <3>1 DEF IInv, KeptApart
      <3> QED
        BY <1>1, <1>2, <3>2
    <2>2. CASE {a, b} \in Pairs(moved, UnitsOf(i) \ moved)
      BY <1>1, <1>2, <2>2, PairsApart DEF UnitsOf
    <2> QED
      BY <2>1, <2>2
  <1>5. NoSelfPair'
    <2> SUFFICES ASSUME NEW u \in Units, {u, u} \in Pairs(moved, UnitsOf(i) \ moved) PROVE FALSE
      BY DEF IInv, NoSelfPair
    <2> DEFINE left == UnitsOf(i) \ moved
    <2>1. {u, u} \in Pairs(moved, left)
      OBVIOUS
    <2> HIDE DEF left
    <2>2. u \in moved /\ u \in left
      BY <2>1, PairsApart
    <2> QED
      BY <2>2 DEF left
  <1>6. NoStrayRedirect'
    BY <1>1 DEF IInv, NoStrayRedirect
  <1>7. LinksLive'
    BY <1>1, <1>2 DEF IInv, LinksLive, NoStrayRedirect
  <1>8. RedirectsOnce'
    BY DEF IInv, RedirectsOnce
  <1> QED
    BY <1>3, <1>4, <1>5, <1>6, <1>7, <1>8, NothingDecided DEF IInv

LEMMA RejectStep == ASSUME IInv, NEW i \in Live, NEW j \in Live, Reject(i, j) PROVE IInv'
  <1> USE DEF Reject, Comparable
  <1>1. IdentitiesTypeOK'
    BY ActsAssumption DEF Corrects, IInv, IdentitiesTypeOK, Pairs, UnitsOf, links, registry, work
  <1>2. KeptApart'
    <2> SUFFICES ASSUME NEW a \in Units, NEW b \in Units, {a, b} \in apart', of[a] # None
                 PROVE  of[a] # of[b]
      BY DEF KeptApart, links
    <2>1. CASE {a, b} \in apart
      BY <2>1 DEF IInv, KeptApart
    <2>2. CASE {a, b} \in Pairs(UnitsOf(i), UnitsOf(j))
      <3>1. (a \in UnitsOf(i) /\ b \in UnitsOf(j)) \/ (b \in UnitsOf(i) /\ a \in UnitsOf(j))
        BY <2>2, PairsApart
      <3> QED
        BY <3>1 DEF UnitsOf
    <2> QED
      BY <2>1, <2>2
  <1>3. NoSelfPair'
    <2> SUFFICES ASSUME NEW u \in Units, {u, u} \in Pairs(UnitsOf(i), UnitsOf(j)) PROVE FALSE
      BY DEF IInv, NoSelfPair
    <2>1. u \in UnitsOf(i) /\ u \in UnitsOf(j)
      BY PairsApart
    <2> QED
      BY <2>1 DEF UnitsOf
  <1>4. NoStrayRedirect' /\ LinksLive' /\ RedirectsOnce'
    BY DEF IInv, NoStrayRedirect, LinksLive, RedirectsOnce, links, registry
  <1> QED
    BY <1>1, <1>2, <1>3, <1>4, NothingDecided DEF IInv

LEMMA UnrejectStep == ASSUME IInv, NEW i \in Live, NEW j \in Live, Unreject(i, j) PROVE IInv'
  <1> USE DEF Unreject
  <1>1. IdentitiesTypeOK'
    BY ActsAssumption DEF Corrects, IInv, IdentitiesTypeOK, links, registry, work
  <1>2. KeptApart' /\ NoSelfPair'
    BY DEF IInv, KeptApart, NoSelfPair, links
  <1>3. NoStrayRedirect' /\ LinksLive' /\ RedirectsOnce'
    BY DEF IInv, NoStrayRedirect, LinksLive, RedirectsOnce, links, registry
  <1> QED
    BY <1>1, <1>2, <1>3, NothingDecided DEF IInv

LEMMA CorrectStep == ASSUME IInv, Correct PROVE IInv'
  BY ConfirmStep, MergeStep, SplitStep, RejectStep, UnrejectStep DEF Correct

---------------------------------------------------------------------------
(* The evidence may change at any point of a resolution.                   *)

LEMMA EvidenceStep ==
  ASSUME IInv, UnitAppears \/ UnitVanishes \/ EdgeAppears \/ EdgeVanishes \/ Cite
  PROVE  IInv'
  <1>1. /\ UNCHANGED <<registry, apart, phase, work>>
        /\ \A u \in Units : of'[u] \in {of[u], None}
        /\ confirmed' \subseteq confirmed
        /\ of' \in [Units -> rows \cup {None}]
    BY DEF UnitAppears, UnitVanishes, EdgeAppears, EdgeVanishes, Cite, EvidenceChanges, links,
           IInv, IdentitiesTypeOK
  <1>2. IdentitiesTypeOK'
    <2>1. confirmed' \subseteq {u \in Units : of'[u] # None}
      BY DEF UnitAppears, UnitVanishes, EdgeAppears, EdgeVanishes, Cite, EvidenceChanges, links,
             IInv, IdentitiesTypeOK
    <2>2. /\ present' \subseteq Units /\ evidence' \subseteq Edges /\ cited' \subseteq rows
          /\ settled' \in {"no", "reading", "yes"} /\ acts' \in 0..MaxActs
      BY ActsAssumption DEF UnitAppears, UnitVanishes, EdgeAppears, EdgeVanishes, Cite,
             EvidenceChanges, IInv, IdentitiesTypeOK
    <2> QED
      BY <1>1, <2>1, <2>2 DEF IInv, IdentitiesTypeOK, registry, work
  <1>3. KeptApart'
    BY <1>1 DEF IInv, KeptApart
  <1>4. NoSelfPair' /\ NoStrayRedirect' /\ RedirectsOnce'
    BY <1>1 DEF IInv, NoSelfPair, NoStrayRedirect, RedirectsOnce, registry
  <1>5. LinksLive'
    BY <1>1 DEF IInv, LinksLive, registry
  <1>6. Partition'
    BY <1>1 DEF IInv, Partition, Decided, work
  <1>7. FixedHold'
    <2>1. fixed \subseteq Units
      BY DEF IInv, IdentitiesTypeOK
    <2> QED
      BY <1>1, <2>1 DEF IInv, FixedHold, Decided, work, registry
  <1>8. Claims' /\ BeforeReading'
    BY <1>1 DEF IInv, Claims, BeforeReading, work, registry
  <1> QED
    BY <1>2, <1>3, <1>4, <1>5, <1>6, <1>7, <1>8 DEF IInv

LEMMA StutterStep == ASSUME IInv, UNCHANGED vars PROVE IInv'
  BY DEF vars, IInv, IdentitiesTypeOK, KeptApart, NoSelfPair, NoStrayRedirect, LinksLive,
         RedirectsOnce, Partition, FixedHold, Claims, BeforeReading, Decided, links, registry,
         work

---------------------------------------------------------------------------
(* The theorems.                                                           *)

LEMMA Invariance == Spec => []IInv
  <1>1. Init => IInv
    BY InitEstablishes
  <1>2. IInv /\ [Next]_vars => IInv'
    BY ResolveStep, CorrectStep, EvidenceStep, StutterStep DEF Next
  <1> QED
    BY <1>1, <1>2, PTL DEF Spec

\* The tables hold what their columns and foreign keys allow, at every step of a resolution.
THEOREM IdentitiesTypeCorrect == Spec => []IdentitiesTypeOK
  <1>1. IInv => IdentitiesTypeOK
    BY DEF IInv
  <1> QED
    BY <1>1, Invariance, PTL

\* A pair a researcher keeps apart never shares an identity.
THEOREM PairsStayApart == Spec => []KeptApart
  <1>1. IInv => KeptApart
    BY DEF IInv
  <1> QED
    BY <1>1, Invariance, PTL

\* No step of a resolution moves a confirmed link or takes its confirmation.
THEOREM DecisionsStay == Spec => ConfirmedStays
  <1>1. IInv /\ [Next]_vars =>
          [phase # "idle" /\ UNCHANGED present =>
             \A u \in confirmed \cap units : u \in confirmed' /\ of'[u] = of[u]]_vars
    <2> SUFFICES ASSUME IInv, Next, phase # "idle", present' = present,
                        NEW u \in confirmed \cap units
                 PROVE  u \in confirmed' /\ of'[u] = of[u]
      BY DEF vars
    <2>1. CASE WriteLinks
      <3>1. u \in fixed /\ u \in Units
        BY <2>1 DEF WriteLinks, IInv, FixedHold, Decided, IdentitiesTypeOK
      <3> QED
        BY <2>1, <3>1 DEF WriteLinks
    <2>2. CASE Resolve /\ ~WriteLinks
      BY <2>2 DEF Resolve, ReadGroups, ReadPeople, ReadEvidence, JoinNext, KeepConfirmed,
                  ClaimNext, DeleteOrphans, CommitResolution, ResolutionFails, links
    <2>3. CASE Correct
      BY <2>3 DEF Correct, Confirm, Merge, Split, Reject, Unreject, Corrects
    <2>4. CASE UnitAppears \/ EdgeAppears \/ EdgeVanishes \/ Cite
      BY <2>4 DEF UnitAppears, EdgeAppears, EdgeVanishes, Cite, links
    <2>5. CASE UnitVanishes
      BY <2>5 DEF UnitVanishes
    <2> QED
      BY <2>1, <2>2, <2>3, <2>4, <2>5 DEF Next
  <1> QED
    BY <1>1, Invariance, PTL DEF Spec, ConfirmedStays

---------------------------------------------------------------------------
(* Rows and units of one type.                                             *)

\* A link leads to an identity of the unit's type, a redirect to one of the same type.
LinksTyped == \A u \in Units : of[u] # None => type[of[u]] = EntityType(u)
RedirectsTyped ==
  \A i \in Identities : mergedInto[i] # None => type[mergedInto[i]] = type[i]

\* What a resolution has read and decided stays within one type.
BeforeTyped ==
  Decided => \A u \in Units : before[u] # None => before[u] \in rows
                                                  /\ type[before[u]] = EntityType(u)
ComponentsTyped ==
  Decided => \A u, v \in Units : v \in component[u] => EntityType(v) = EntityType(u)
ClaimsTyped ==
  phase = "claim" => \A u \in Units : assigned[u] \in rows => type[assigned[u]] = EntityType(u)

TypesInv ==
  /\ LinksTyped /\ RedirectsTyped /\ BeforeTyped /\ ComponentsTyped /\ ClaimsTyped
  /\ IsFiniteSet(rows)

\* A step of a resolution that only reads, or fails, or commits.
LEMMA ReadTypes ==
  ASSUME IInv, TypesInv, UNCHANGED <<links, registry>>, phase' \notin {"join", "claim"}
  PROVE  TypesInv'
  BY DEF TypesInv, LinksTyped, RedirectsTyped, BeforeTyped, ComponentsTyped, ClaimsTyped, Decided,
     links, registry

LEMMA ReadEvidenceTypes == ASSUME IInv, TypesInv, ReadEvidence PROVE TypesInv'
  <1> USE DEF ReadEvidence
  <1>1. /\ of \in [Units -> rows \cup {None}]
        /\ \A u \in Units : of[u] # None => type[of[u]] = EntityType(u)
    BY DEF IInv, IdentitiesTypeOK, TypesInv, LinksTyped
  <1>2. \A u \in Fixed(units) : u \in Units /\ of[u] # None
    BY IdentitiesAssumption DEF Fixed, IInv, IdentitiesTypeOK
  <1>3. ASSUME NEW u \in Units, NEW v \in Units, v \in component'[u]
        PROVE  EntityType(v) = EntityType(u)
    <2>1. v = u \/ (u \in Fixed(units) /\ v \in Fixed(units) /\ of[v] = of[u])
      BY <1>3 DEF StartingComponent
    <2> QED
      BY <1>1, <1>2, <2>1
  <1>4. BeforeTyped' /\ ClaimsTyped'
    BY <1>1 DEF BeforeTyped, ClaimsTyped, registry
  <1>5. LinksTyped' /\ RedirectsTyped' /\ IsFiniteSet(rows)'
    BY DEF TypesInv, LinksTyped, RedirectsTyped, links, registry
  <1> QED
    BY <1>3, <1>4, <1>5 DEF TypesInv, ComponentsTyped

LEMMA JoinNextTypes == ASSUME IInv, TypesInv, JoinNext PROVE TypesInv'
  <1> USE DEF JoinNext
  <1>1. PICK e \in joins :
          LET C == component[e[1]]
              D == component[e[2]]
          IN \/ component' = component
             \/ component' = [u \in Units |-> IF u \in C \cup D THEN C \cup D ELSE component[u]]
    OBVIOUS
  <1> DEFINE C == component[e[1]]
             D == component[e[2]]
  <1>2. e \in Edges /\ e[1] \in Units /\ e[2] \in Units /\ EntityType(e[1]) = EntityType(e[2])
    BY UnitsAssumption DEF IInv, IdentitiesTypeOK
  <1>3. C \subseteq Units /\ D \subseteq Units
    BY <1>2 DEF IInv, IdentitiesTypeOK
  <1>4. \A u, v \in Units : v \in component[u] => EntityType(v) = EntityType(u)
    BY DEF TypesInv, ComponentsTyped, Decided
  <1>5. \A u \in C \cup D : EntityType(u) = EntityType(e[1])
    BY <1>2, <1>3, <1>4
  <1>6. \A u, v \in Units : v \in component'[u] => EntityType(v) = EntityType(u)
    <2>1. CASE component' = component
      BY <1>4, <2>1
    <2>2. CASE component' = [u \in Units |-> IF u \in C \cup D THEN C \cup D ELSE component[u]]
      BY <1>4, <1>5, <2>2
    <2> QED
      BY <1>1, <2>1, <2>2
  <1>7. BeforeTyped' /\ ClaimsTyped'
    BY DEF TypesInv, BeforeTyped, ClaimsTyped, Decided, registry
  <1>8. LinksTyped' /\ RedirectsTyped' /\ IsFiniteSet(rows)'
    BY DEF TypesInv, LinksTyped, RedirectsTyped, links, registry
  <1> QED
    BY <1>6, <1>7, <1>8 DEF TypesInv, ComponentsTyped

LEMMA KeepConfirmedTypes == ASSUME IInv, TypesInv, KeepConfirmed PROVE TypesInv'
  <1> USE DEF KeepConfirmed
  <1>1. \A u \in Units : component[u] \subseteq Units
    BY DEF IInv, IdentitiesTypeOK
  <1>2. /\ \A u, v \in Units : v \in component[u] => EntityType(v) = EntityType(u)
        /\ \A u \in Units : before[u] # None => /\ before[u] \in rows
                                                /\ type[before[u]] = EntityType(u)
    BY DEF TypesInv, ComponentsTyped, BeforeTyped, Decided
  <1>3. None \notin rows
    BY IdentitiesAssumption DEF IInv, IdentitiesTypeOK
  <1>4. ASSUME NEW u \in Units, assigned'[u] \in rows
        PROVE  type[assigned'[u]] = EntityType(u)
    <2>1. \E m \in component[u] \cap fixed : assigned'[u] = before[m]
      <3>1. component[u] \cap fixed # {}
            /\ assigned'[u] = before[CHOOSE m \in component[u] \cap fixed : TRUE]
        BY <1>3, <1>4
      <3>2. (CHOOSE m \in component[u] \cap fixed : TRUE) \in component[u] \cap fixed
        BY <3>1
      <3> QED
        BY <3>1, <3>2
    <2> QED
      BY <1>1, <1>2, <1>3, <1>4, <2>1
  <1>5. BeforeTyped' /\ ComponentsTyped'
    BY DEF TypesInv, BeforeTyped, ComponentsTyped, Decided, registry
  <1>6. LinksTyped' /\ RedirectsTyped' /\ IsFiniteSet(rows)'
    BY DEF TypesInv, LinksTyped, RedirectsTyped, links, registry
  <1>7. rows' = rows /\ type' = type
    BY DEF registry
  <1> HIDE DEF KeepConfirmed
  <1> QED
    BY <1>4, <1>5, <1>6, <1>7 DEF TypesInv, ClaimsTyped

LEMMA ClaimNextTypes == ASSUME IInv, TypesInv, ClaimNext PROVE TypesInv'
  <1> USE DEF ClaimNext
  <1>1. PICK u \in Unassigned :
          \E i \in IF MostVoted(component[u]) # {} THEN MostVoted(component[u]) ELSE NextUnused :
            assigned' = [v \in Units |-> IF v \in component[u] THEN i ELSE assigned[v]]
    OBVIOUS
  <1>2. PICK i \in IF MostVoted(component[u]) # {} THEN MostVoted(component[u]) ELSE NextUnused :
          assigned' = [v \in Units |-> IF v \in component[u] THEN i ELSE assigned[v]]
    BY <1>1
  <1>3. u \in Units /\ component[u] \subseteq Units
    BY DEF Unassigned, IInv, IdentitiesTypeOK
  <1>4. /\ \A v, w \in Units : w \in component[v] => EntityType(w) = EntityType(v)
        /\ \A v \in Units : before[v] # None => /\ before[v] \in rows
                                                /\ type[before[v]] = EntityType(v)
        /\ \A v \in Units : assigned[v] \in rows => type[assigned[v]] = EntityType(v)
    BY DEF TypesInv, ComponentsTyped, BeforeTyped, ClaimsTyped, Decided
  <1>5. i \in rows => type[i] = EntityType(u)
    <2>1. CASE i \in MostVoted(component[u])
      <3>1. Votes(component[u], i) > 0 /\ i # None
        BY <2>1, IdentitiesAssumption DEF MostVoted, Claimable, Live, IInv, IdentitiesTypeOK
      <3>2. {v \in component[u] \cap units : before[v] = i} # {}
        BY <3>1, FS_EmptySet DEF Votes
      <3>3. PICK v \in component[u] : before[v] = i
        BY <3>2
      <3> QED
        BY <1>3, <1>4, <3>1, <3>3
    <2>2. CASE i \in NextUnused
      BY <2>2 DEF NextUnused, Unused
    <2> QED
      BY <1>2, <2>1, <2>2
  <1>6. \A v \in Units : assigned'[v] \in rows => type[assigned'[v]] = EntityType(v)
    BY <1>2, <1>3, <1>4, <1>5
  <1>7. BeforeTyped' /\ ComponentsTyped'
    BY DEF TypesInv, BeforeTyped, ComponentsTyped, Decided, registry
  <1>8. LinksTyped' /\ RedirectsTyped' /\ IsFiniteSet(rows)'
    BY DEF TypesInv, LinksTyped, RedirectsTyped, links, registry
  <1>9. rows' = rows /\ type' = type
    BY DEF registry
  <1> HIDE DEF ClaimNext
  <1> QED
    BY <1>6, <1>7, <1>8, <1>9 DEF TypesInv, ClaimsTyped

\* The identities a resolution assigns are finitely many.
LEMMA AssignedFinite ==
  ASSUME IInv
  PROVE  IsFiniteSet({assigned[u] : u \in units})
  <1> DEFINE S == {assigned[u] : u \in units}
             f == [u \in units |-> assigned[u]]
  <1>1. IsFiniteSet(units)
    BY UnitsAssumption, FS_Subset DEF IInv, IdentitiesTypeOK
  <1>2. f \in Surjection(units, S)
    BY DEF Surjection
  <1> QED
    BY <1>1, <1>2, FS_Surjection

LEMMA WriteLinksTypes == ASSUME IInv, TypesInv, WriteLinks PROVE TypesInv'
  <1> USE DEF WriteLinks
  <1>1. /\ units \subseteq Units /\ fixed \subseteq units
        /\ assigned \in [Units -> Identities \cup {None}]
        /\ of \in [Units -> rows \cup {None}] /\ rows \subseteq Identities
        /\ mergedInto \in [Identities -> rows \cup {None}]
    BY DEF IInv, IdentitiesTypeOK
  <1>2. /\ \A u \in fixed : assigned[u] = before[u]
        /\ \A u, v \in Units : assigned[u] # None /\ assigned[v] = assigned[u] => v \in component[u]
    BY DEF IInv, Claims
  <1>3. \A u \in fixed : of[u] \in {assigned[u], None}
    BY <1>2 DEF IInv, FixedHold, Decided
  <1>4. \A u \in Units : of'[u] # None => u \in units /\ of'[u] = assigned[u]
    BY <1>1, <1>3
  <1>5. \A i \in rows : type'[i] = type[i]
    BY <1>1
  <1>6. ASSUME NEW u \in Units, of'[u] # None
        PROVE  type'[of'[u]] = EntityType(u)
    <2>1. u \in units /\ of'[u] = assigned[u] /\ assigned[u] \in Identities
      BY <1>1, <1>4, <1>6
    <2>2. CASE assigned[u] \in rows
      BY <1>5, <2>1, <2>2 DEF TypesInv, ClaimsTyped
    <2>3. CASE assigned[u] \notin rows
      <3> DEFINE v == CHOOSE w \in units : assigned[w] = assigned[u]
      <3>1. v \in units /\ assigned[v] = assigned[u]
        BY <2>1
      <3>2. type'[assigned[u]] = EntityType(v)
        BY <2>1, <2>3
      <3> HIDE DEF v
      <3>3. v \in component[u]
        BY <1>1, <1>2, <1>6, <2>1, <3>1
      <3>4. EntityType(v) = EntityType(u)
        BY <1>1, <3>1, <3>3 DEF TypesInv, ComponentsTyped, Decided
      <3> QED
        BY <2>1, <3>2, <3>4
    <2> QED
      BY <2>2, <2>3
  <1>7. RedirectsTyped'
    <2> SUFFICES ASSUME NEW i \in Identities, mergedInto[i] # None
                 PROVE  type'[mergedInto[i]] = type'[i]
      BY DEF RedirectsTyped
    <2>1. i \in rows /\ mergedInto[i] \in rows
      BY <1>1 DEF IInv, NoStrayRedirect
    <2> QED
      BY <1>5, <2>1 DEF TypesInv, RedirectsTyped
  <1>8. IsFiniteSet(rows')
    BY AssignedFinite, FS_Union DEF TypesInv
  <1>9. phase' = "sweep"
    OBVIOUS
  <1> HIDE DEF WriteLinks
  <1> QED
    BY <1>6, <1>7, <1>8, <1>9 DEF TypesInv, LinksTyped, BeforeTyped, ComponentsTyped, ClaimsTyped,
       Decided

LEMMA DeleteOrphansTypes == ASSUME IInv, TypesInv, DeleteOrphans PROVE TypesInv'
  <1> USE DEF DeleteOrphans
  <1>1. /\ of \in [Units -> rows \cup {None}] /\ rows \subseteq Identities
        /\ mergedInto \in [Identities -> rows \cup {None}]
    BY DEF IInv, IdentitiesTypeOK
  <1>2. /\ Orphans \subseteq rows
        /\ \A i \in Orphans : mergedInto[i] = None
        /\ \A u \in Units : of[u] \notin Orphans
    BY DEF Orphans, Live, UnitsOf
  <1>3. LinksTyped'
    BY <1>1, <1>2 DEF TypesInv, LinksTyped, links
  <1>4. RedirectsTyped'
    BY <1>1, <1>2 DEF TypesInv, RedirectsTyped
  <1>5. IsFiniteSet(rows')
    BY FS_Subset DEF TypesInv
  <1> QED
    BY <1>3, <1>4, <1>5 DEF TypesInv, BeforeTyped, ComponentsTyped, ClaimsTyped, Decided

LEMMA ResolveTypes == ASSUME IInv, TypesInv, Resolve PROVE TypesInv'
  <1>1. CASE ReadGroups \/ ReadPeople \/ CommitResolution \/ ResolutionFails
    BY <1>1, ReadTypes DEF ReadGroups, ReadPeople, CommitResolution, ResolutionFails, Release
  <1> QED
    BY <1>1, ReadEvidenceTypes, JoinNextTypes, KeepConfirmedTypes, ClaimNextTypes, WriteLinksTypes,
       DeleteOrphansTypes DEF Resolve

LEMMA CorrectTypes == ASSUME IInv, TypesInv, Correct PROVE TypesInv'
  <1>1. phase = "idle" /\ phase' = "idle"
    BY DEF Correct, Confirm, Merge, Split, Reject, Unreject, Corrects
  <1>2. PICK i \in Live : \/ Confirm(i)
                          \/ \E moved \in SUBSET UnitsOf(i) : Split(i, moved)
                          \/ \E j \in Live : Merge(i, j) \/ Reject(i, j) \/ Unreject(i, j)
    BY DEF Correct
  <1>3. /\ of \in [Units -> rows \cup {None}] /\ rows \subseteq Identities
        /\ mergedInto \in [Identities -> rows \cup {None}]
        /\ type \in [Identities -> Types \cup {None}]
        /\ i \in rows /\ mergedInto[i] = None /\ None \notin Identities
    BY IdentitiesAssumption DEF IInv, IdentitiesTypeOK, Live
  <1>4. CASE Confirm(i) \/ \E j \in Live : Reject(i, j) \/ Unreject(i, j)
    BY <1>1, <1>4, ReadTypes DEF Confirm, Reject, Unreject, links, TypesInv, LinksTyped,
       RedirectsTyped, BeforeTyped, ComponentsTyped, ClaimsTyped, Decided, registry
  <1>5. CASE \E j \in Live : Merge(i, j)
    <2>1. PICK j \in Live : Merge(i, j)
      BY <1>5
    <2>2. /\ j \in rows /\ type[i] = type[j] /\ rows' = rows /\ type' = type
          /\ of' = [u \in Units |-> IF of[u] = j THEN i ELSE of[u]]
          /\ mergedInto' = [k \in Identities |->
                              IF k = j \/ mergedInto[k] = j THEN i ELSE mergedInto[k]]
      BY <2>1 DEF Merge, Comparable, Live, Redirected
    <2>3. LinksTyped'
      BY <1>3, <2>2 DEF TypesInv, LinksTyped
    <2>4. RedirectsTyped'
      BY <1>3, <2>2 DEF TypesInv, RedirectsTyped
    <2> QED
      BY <1>1, <2>2, <2>3, <2>4 DEF TypesInv, BeforeTyped, ComponentsTyped, ClaimsTyped, Decided
  <1>6. CASE \E moved \in SUBSET UnitsOf(i) : Split(i, moved)
    <2>1. PICK moved \in SUBSET UnitsOf(i) : Split(i, moved)
      BY <1>6
    <2>2. PICK new \in NextUnused :
            /\ rows' = rows \cup {new}
            /\ type' = [type EXCEPT ![new] = type[i]]
            /\ of' = [u \in Units |-> IF u \in moved THEN new ELSE of[u]]
      BY <2>1 DEF Split
    <2>3. /\ new \in Identities \ rows /\ mergedInto' = mergedInto
          /\ \A u \in moved : u \in Units /\ of[u] = i
      BY <2>1 DEF NextUnused, Unused, UnitsOf, Split
    <2>4. LinksTyped'
      BY <1>3, <2>2, <2>3 DEF TypesInv, LinksTyped
    <2>5. RedirectsTyped'
      <3> SUFFICES ASSUME NEW k \in Identities, mergedInto[k] # None
                   PROVE  type'[mergedInto[k]] = type'[k]
        BY <2>3 DEF RedirectsTyped
      <3>1. k \in rows /\ mergedInto[k] \in rows
        BY <1>3 DEF IInv, NoStrayRedirect
      <3> QED
        BY <1>3, <2>2, <2>3, <3>1 DEF TypesInv, RedirectsTyped
    <2>6. IsFiniteSet(rows')
      BY <2>2, FS_AddElement DEF TypesInv
    <2> QED
      BY <1>1, <2>4, <2>5, <2>6 DEF TypesInv, BeforeTyped, ComponentsTyped, ClaimsTyped, Decided
  <1> QED
    BY <1>2, <1>4, <1>5, <1>6

LEMMA EvidenceTypes ==
  ASSUME IInv, TypesInv, UnitAppears \/ UnitVanishes \/ EdgeAppears \/ EdgeVanishes \/ Cite
  PROVE  TypesInv'
  <1>1. /\ UNCHANGED <<registry, phase, work>>
        /\ \A u \in Units : of'[u] \in {of[u], None}
    BY DEF UnitAppears, UnitVanishes, EdgeAppears, EdgeVanishes, Cite, EvidenceChanges, links,
           IInv, IdentitiesTypeOK
  <1> QED
    BY <1>1 DEF TypesInv, LinksTyped, RedirectsTyped, BeforeTyped, ComponentsTyped, ClaimsTyped,
       Decided, registry, work

LEMMA TypesKept == ASSUME IInv, TypesInv, [Next]_vars PROVE TypesInv'
  <1>1. CASE UNCHANGED vars
    BY <1>1 DEF vars, TypesInv, LinksTyped, RedirectsTyped, BeforeTyped, ComponentsTyped,
       ClaimsTyped, Decided, links, registry, work
  <1> QED
    BY <1>1, ResolveTypes, CorrectTypes, EvidenceTypes DEF Next

---------------------------------------------------------------------------
(* What a resolution reads and decides, while nothing has changed since.   *)

Within(e, S) == e[1] \in S /\ e[2] \in S
Current == settled # "no"

\* Both ends of an edge are in one component, or a decision keeps theirs apart.
Handled(e) ==
  LET C == component[e[1]]
      D == component[e[2]]
  IN C = D \/ ConfirmedApart(C, D) \/ KeptApartBetween(C, D)

\* However a component is cut in two, evidence or two confirmed units hold it together.
Held(C, S, F) ==
  \/ \E a \in S, b \in C \ S : <<a, b>> \in evidence \/ <<b, a>> \in evidence
  \/ F \cap S # {} /\ F \cap (C \ S) # {}
Holding(C, F) == \A S \in (SUBSET C) \ {{}, C} : Held(C, S, F)

GroupsRead ==
  Current /\ phase \in {"people", "evidence"} =>
    /\ units = IF phase = "people" THEN present \ People ELSE present
    /\ joins = {e \in evidence : Within(e, present \ People)}

ReadNow == units = present /\ before = of /\ fixed = confirmed \cap units
EdgesHandled ==
  /\ \A e \in joins : e \in evidence /\ Within(e, units)
  /\ \A e \in evidence : Within(e, units) => e \in joins \/ Handled(e)
ComponentsHold ==
  /\ \A u \in units : component[u] \subseteq units
  /\ \A u \in Units : Holding(component[u], fixed)
DecidedRead == Current /\ Decided => ReadNow /\ EdgesHandled /\ ComponentsHold

AllJoined == phase = "claim" => joins = {}

\* What LinksFollowEvidence asks of the links.
AsRead == present = {u \in Units : of[u] # None}
Joined(e) ==
  LET C == UnitsOf(of[e[1]])
      D == UnitsOf(of[e[2]])
  IN \/ C = D
     \/ Pairs(C, D) \cap apart # {}
     \/ confirmed \cap C # {} /\ confirmed \cap D # {}
LinksFollow ==
  /\ AsRead
  /\ \A e \in evidence : Within(e, present) => Joined(e)
  /\ \A i \in Identities : Connected(UnitsOf(i))
Written == settled = "yes" \/ (Current /\ phase = "sweep") => LinksFollow

FollowInv == GroupsRead /\ DecidedRead /\ AllJoined /\ Written

LEMMA PairsGrow ==
  ASSUME NEW S, NEW T, NEW V, NEW W, S \subseteq V, T \subseteq W
  PROVE  Pairs(S, T) \subseteq Pairs(V, W)
  <1> SUFFICES ASSUME NEW p \in Pairs(S, T) PROVE p \in Pairs(V, W)
    OBVIOUS
  <1>1. PICK a \in S, b \in T : p = {a, b}
    BY DEF Pairs
  <1> QED
    BY <1>1 DEF Pairs

LEMMA FollowKept ==
  ASSUME LinksFollow, UNCHANGED <<present, evidence, links, apart>>
  PROVE  LinksFollow'
  <1>1. of' = of /\ confirmed' = confirmed
    BY DEF links
  <1>2. AsRead'
    BY <1>1 DEF LinksFollow, AsRead
  <1>3. \A i : UnitsOf(i)' = UnitsOf(i)
    BY <1>1 DEF UnitsOf
  <1>4. \A C : Connected(C)' <=> Connected(C)
    BY <1>1 DEF Connected
  <1>5. \A e : Joined(e)' <=> Joined(e)
    BY <1>1 DEF Joined, UnitsOf
  <1> QED
    BY <1>2, <1>3, <1>4, <1>5 DEF LinksFollow, Within

\* A correction, or a change of the evidence: the links reflect neither until resolution has run.
LEMMA Outdated ==
  ASSUME FollowInv, settled' = "no", phase' = "claim" => joins' = joins /\ phase = phase'
  PROVE  FollowInv'
  BY DEF FollowInv, GroupsRead, DecidedRead, AllJoined, Written, Current

LEMMA ReadGroupsFollows == ASSUME IInv, FollowInv, ReadGroups PROVE FollowInv'
  <1> USE DEF ReadGroups
  <1>1. GroupsRead'
    BY DEF GroupsRead, Within
  <1>2. DecidedRead' /\ AllJoined'
    BY DEF DecidedRead, AllJoined, Decided
  <1>3. Written'
    BY FollowKept DEF FollowInv, Written, links
  <1> QED
    BY <1>1, <1>2, <1>3 DEF FollowInv

LEMMA ReadPeopleFollows == ASSUME IInv, FollowInv, ReadPeople PROVE FollowInv'
  <1> USE DEF ReadPeople
  <1>1. GroupsRead'
    BY DEF FollowInv, GroupsRead, Current, Within
  <1>2. DecidedRead' /\ AllJoined'
    BY DEF DecidedRead, AllJoined, Decided
  <1>3. Written'
    BY FollowKept DEF FollowInv, Written, links
  <1> QED
    BY <1>1, <1>2, <1>3 DEF FollowInv

LEMMA ReadEvidenceFollows == ASSUME IInv, FollowInv, ReadEvidence PROVE FollowInv'
  <1> USE DEF ReadEvidence
  <1> DEFINE F == Fixed(units)
  <1>1. SUFFICES ASSUME Current, Current' PROVE DecidedRead'
    BY FollowKept DEF FollowInv, GroupsRead, DecidedRead, AllJoined, Written, links, Current
  <1>2. /\ units = present /\ units \subseteq Units
        /\ joins = {e \in evidence : Within(e, present \ People)}
    BY <1>1 DEF FollowInv, GroupsRead, IInv, IdentitiesTypeOK
  <1>3. F = confirmed \cap units
    <2> SUFFICES ASSUME NEW u \in confirmed \cap units PROVE of[u] \in Live
      BY DEF Fixed
    <2>1. u \in Units /\ of[u] # None /\ of[u] \in rows
      BY DEF IInv, IdentitiesTypeOK
    <2>2. mergedInto[of[u]] = None
      BY <2>1 DEF IInv, LinksLive
    <2> QED
      BY <2>1, <2>2 DEF Live
  <1>4. ReadNow'
    BY <1>2, <1>3 DEF ReadNow, links
  <1>5. EdgesHandled'
    <2>1. joins' = {e \in evidence : Within(e, units)}
      BY <1>2 DEF Within
    <2> QED
      BY <2>1 DEF EdgesHandled, Within
  <1>6. \A u \in Units : component'[u] = IF u \in F THEN {v \in F : of[v] = of[u]} ELSE {u}
    BY DEF StartingComponent
  <1>7. F \subseteq units /\ fixed' = F
    BY <1>3
  <1> HIDE DEF F
  <1>8. \A u \in units : component'[u] \subseteq units
    BY <1>2, <1>6, <1>7
  <1>9. ASSUME NEW u \in Units
        PROVE  Holding(component[u], fixed)'
    <2>1. \/ component'[u] = {u}
          \/ component'[u] \subseteq F
      BY <1>6
    <2>2. CASE component'[u] = {u}
      BY <2>2 DEF Holding
    <2>3. CASE component'[u] \subseteq F
      BY <2>3, <1>7 DEF Holding, Held
    <2> QED
      BY <2>1, <2>2, <2>3
  <1> QED
    BY <1>4, <1>5, <1>8, <1>9 DEF DecidedRead, ComponentsHold

\* Two components an edge joins hold together: a cut of the union cuts one of them or the edge.
LEMMA UnionHolds ==
  ASSUME NEW C, NEW D, NEW F, NEW e \in evidence, e = <<e[1], e[2]>>,
         e[1] \in C, e[2] \in D, Holding(C, F), Holding(D, F)
  PROVE  Holding(C \cup D, F)
  <1> SUFFICES ASSUME NEW S \in SUBSET (C \cup D), S # {}, S # C \cup D
               PROVE  Held(C \cup D, S, F)
    BY DEF Holding
  <1>1. CASE S \cap C \notin {{}, C}
    <2>1. Held(C, S \cap C, F)
      BY <1>1 DEF Holding
    <2> QED
      BY <2>1 DEF Held
  <1>2. CASE S \cap D \notin {{}, D}
    <2>1. Held(D, S \cap D, F)
      BY <1>2 DEF Holding
    <2> QED
      BY <2>1 DEF Held
  <1>3. CASE S \cap C \in {{}, C} /\ S \cap D \in {{}, D}
    <2>1. \/ e[1] \in S /\ e[2] \notin S
          \/ e[2] \in S /\ e[1] \notin S
      BY <1>3
    <2> QED
      BY <2>1 DEF Held
  <1> QED
    BY <1>1, <1>2, <1>3

LEMMA JoinNextFollows == ASSUME IInv, FollowInv, JoinNext PROVE FollowInv'
  <1> USE DEF JoinNext
  <1>1. SUFFICES ASSUME Current, Current' PROVE DecidedRead'
    BY FollowKept DEF FollowInv, GroupsRead, DecidedRead, AllJoined, Written, links, Current
  <1>2. ReadNow /\ EdgesHandled /\ ComponentsHold
    BY <1>1 DEF FollowInv, DecidedRead, Decided
  <1>3. PICK e \in joins :
          /\ joins' = joins \ {e}
          /\ LET C == component[e[1]]
                 D == component[e[2]]
             IN component' =
                  IF C = D \/ ConfirmedApart(C, D) \/ KeptApartBetween(C, D) THEN component
                  ELSE [u \in Units |-> IF u \in C \cup D THEN C \cup D ELSE component[u]]
    OBVIOUS
  <1> DEFINE C == component[e[1]]
             D == component[e[2]]
  <1>4. e \in evidence /\ e[1] \in units /\ e[2] \in units /\ e = <<e[1], e[2]>>
    BY <1>2, UnitsAssumption DEF EdgesHandled, Within, IInv, IdentitiesTypeOK
  <1>5. /\ units \subseteq Units
        /\ \A u \in Units : component[u] \subseteq Units
        /\ \A u \in Units : u \in component[u]
        /\ \A u, v \in Units : v \in component[u] => component[v] = component[u]
    BY DEF IInv, IdentitiesTypeOK, Partition, Decided
  <1>6. ReadNow'
    BY <1>2 DEF ReadNow, links
  <1>7. UNCHANGED <<evidence, units, fixed, before, apart>>
    OBVIOUS
  <1>8. \A f \in joins' : f \in evidence' /\ Within(f, units')
    BY <1>2, <1>3, <1>7 DEF EdgesHandled
  <1>9. CASE component' = component
    <2>1. Handled(e)
      <3> SUFFICES ASSUME ~(C = D \/ ConfirmedApart(C, D) \/ KeptApartBetween(C, D)) PROVE FALSE
        BY DEF Handled
      <3>1. component'[e[1]] = C \cup D /\ component'[e[2]] = C \cup D
        BY <1>3, <1>4, <1>5
      <3> QED
        BY <1>9, <3>1
    <2>2. \A f \in evidence' : Within(f, units') => f \in joins' \/ Handled(f)'
      BY <1>2, <1>3, <1>7, <1>9, <2>1 DEF EdgesHandled, Handled, ConfirmedApart, KeptApartBetween
    <2>3. ComponentsHold'
      BY <1>2, <1>7, <1>9 DEF ComponentsHold, Holding, Held
    <2> QED
      BY <1>6, <1>8, <2>2, <2>3 DEF DecidedRead, EdgesHandled
  <1>10. CASE component' # component
    <2>1. component' = [u \in Units |-> IF u \in C \cup D THEN C \cup D ELSE component[u]]
      BY <1>3, <1>10
    <2>2. \A u \in Units : component[u] \subseteq component'[u]
      BY <1>4, <1>5, <2>1
    <2>3. ASSUME NEW f \in evidence, Within(f, units), f \notin joins'
          PROVE  Handled(f)'
      <3>1. f[1] \in Units /\ f[2] \in Units
        BY <1>5, <2>3 DEF Within
      <3>2. CASE f = e
        BY <1>4, <1>5, <2>1, <3>2 DEF Handled
      <3>3. CASE f # e
        <4>1. Handled(f)
          BY <1>2, <1>3, <2>3, <3>3 DEF EdgesHandled
        <4>2. CASE component[f[1]] = component[f[2]]
          <5>1. f[1] \in C \cup D <=> f[2] \in C \cup D
            BY <1>4, <1>5, <3>1, <4>2
          <5> QED
            BY <2>1, <3>1, <4>2, <5>1 DEF Handled
        <4>3. CASE ConfirmedApart(component[f[1]], component[f[2]])
          BY <1>7, <2>2, <3>1, <4>3 DEF Handled, ConfirmedApart
        <4>4. CASE KeptApartBetween(component[f[1]], component[f[2]])
          <5>1. Pairs(component[f[1]], component[f[2]])
                  \subseteq Pairs(component'[f[1]], component'[f[2]])
            BY <2>2, <3>1, PairsGrow
          <5>2. Pairs(component[f[1]], component[f[2]]) \cap apart # {}
            BY <4>4 DEF KeptApartBetween
          <5>3. KeptApartBetween(component[f[1]], component[f[2]])'
            BY <1>7, <5>1, <5>2 DEF KeptApartBetween
          <5> QED
            BY <5>3 DEF Handled
        <4> QED
          BY <4>1, <4>2, <4>3, <4>4 DEF Handled
      <3> QED
        BY <3>2, <3>3
    <2>4. C \subseteq units /\ D \subseteq units
      BY <1>2, <1>4 DEF ComponentsHold
    <2>5. \A u \in units : component'[u] \subseteq units
      BY <1>2, <1>5, <2>1, <2>4 DEF ComponentsHold
    <2>6. Holding(C \cup D, fixed)
      BY <1>2, <1>4, <1>5, UnionHolds DEF ComponentsHold
    <2>7. \A u \in Units : Holding(component'[u], fixed)
      BY <1>2, <2>1, <2>6 DEF ComponentsHold
    <2>8. \A u \in Units : Holding(component[u], fixed)'
      BY <1>7, <2>7 DEF Holding, Held
    <2>9. ComponentsHold'
      BY <1>7, <2>5, <2>8 DEF ComponentsHold
    <2>10. EdgesHandled'
      BY <1>7, <1>8, <2>3 DEF EdgesHandled, Within
    <2> QED
      BY <1>6, <2>9, <2>10 DEF DecidedRead
  <1> QED
    BY <1>9, <1>10

LEMMA KeepConfirmedFollows == ASSUME IInv, FollowInv, KeepConfirmed PROVE FollowInv'
  <1> USE DEF KeepConfirmed
  <1>1. UNCHANGED <<units, before, fixed, component, joins, present, evidence, links, apart,
                    settled>>
    OBVIOUS
  <1>2. DecidedRead' /\ AllJoined'
    BY <1>1 DEF FollowInv, DecidedRead, ReadNow, EdgesHandled, ComponentsHold, Handled, Holding,
       Held, Within, ConfirmedApart, KeptApartBetween, AllJoined, Decided, Current, links
  <1> QED
    BY <1>1, <1>2, FollowKept DEF FollowInv, GroupsRead, Written, links, Current

LEMMA ClaimNextFollows == ASSUME IInv, FollowInv, ClaimNext PROVE FollowInv'
  <1> USE DEF ClaimNext
  <1>1. UNCHANGED <<units, before, fixed, component, joins, present, evidence, links, apart,
                    settled, phase>>
    OBVIOUS
  <1>2. DecidedRead' /\ AllJoined'
    BY <1>1 DEF FollowInv, DecidedRead, ReadNow, EdgesHandled, ComponentsHold, Handled, Holding,
       Held, Within, ConfirmedApart, KeptApartBetween, AllJoined, Decided, Current, links
  <1> QED
    BY <1>1, <1>2, FollowKept DEF FollowInv, GroupsRead, Written, links, Current

\* A component that holds together is a set of units that are connected.
LEMMA HoldingConnects ==
  ASSUME NEW C, Holding(C, confirmed)
  PROVE  Connected(C)
  BY DEF Holding, Held, Connected

\* The links a resolution writes give every component it found an identity of its own.
LEMMA WriteLinksFollows == ASSUME IInv, FollowInv, WriteLinks PROVE FollowInv'
  <1> USE DEF WriteLinks
  <1>1. SUFFICES ASSUME Current PROVE LinksFollow'
    BY DEF FollowInv, GroupsRead, DecidedRead, AllJoined, Written, Current, Decided
  <1>2. ReadNow /\ EdgesHandled /\ ComponentsHold /\ joins = {}
    BY <1>1 DEF FollowInv, DecidedRead, AllJoined, Decided
  <1>3. /\ units \subseteq Units /\ fixed \subseteq units
        /\ assigned \in [Units -> Identities \cup {None}]
        /\ component \in [Units -> SUBSET Units]
        /\ \A u \in Units : u \in component[u]
        /\ \A u, v \in Units : v \in component[u] => component[v] = component[u]
    BY DEF IInv, IdentitiesTypeOK, Partition, Decided
  <1>4. /\ \A u \in fixed : assigned[u] = before[u]
        /\ \A u, v \in Units : v \in component[u] => assigned[v] = assigned[u]
        /\ \A u, v \in Units : assigned[u] # None /\ assigned[v] = assigned[u] => v \in component[u]
    BY DEF IInv, Claims
  <1>5. \A u \in units : of'[u] = assigned[u] /\ assigned[u] # None
    BY <1>2, <1>3, <1>4 DEF ReadNow, Unassigned
  <1>6. \A u \in Units \ units : of'[u] = None
    OBVIOUS
  <1>7. UNCHANGED <<present, evidence, apart>> /\ confirmed' = fixed
    BY <1>2 DEF ReadNow
  <1> HIDE DEF WriteLinks
  <1>8. AsRead'
    BY <1>2, <1>3, <1>5, <1>6, <1>7 DEF AsRead, ReadNow
  <1>9. ASSUME NEW u \in units
        PROVE  {v \in Units : of'[v] = of'[u]} = component[u]
    <2>1. \A v \in Units : of'[v] = of'[u] <=> v \in units /\ assigned[v] = assigned[u]
      BY <1>3, <1>5, <1>6
    <2>2. \A v \in Units : v \in component[u] <=> v \in units /\ assigned[v] = assigned[u]
      BY <1>2, <1>3, <1>4, <1>5 DEF ComponentsHold
    <2>3. component[u] \subseteq Units
      BY <1>3
    <2> QED
      BY <2>1, <2>2, <2>3
  <1>10. ASSUME NEW e \in evidence', Within(e, present)'
         PROVE  Joined(e)'
    <2>1. e[1] \in units /\ e[2] \in units /\ Handled(e)
      BY <1>2, <1>7, <1>10 DEF ReadNow, EdgesHandled, Within
    <2>2. /\ UnitsOf(of[e[1]])' = component[e[1]]
          /\ UnitsOf(of[e[2]])' = component[e[2]]
      BY <1>9, <2>1 DEF UnitsOf
    <2>3. CASE component[e[1]] = component[e[2]]
      BY <2>2, <2>3 DEF Joined
    <2>4. CASE KeptApartBetween(component[e[1]], component[e[2]])
      BY <1>7, <2>2, <2>4 DEF Joined, KeptApartBetween
    <2>5. CASE ConfirmedApart(component[e[1]], component[e[2]])
      <3>1. /\ component[e[1]] \cap fixed # {}
            /\ component[e[2]] \cap fixed # {}
        BY <2>5 DEF ConfirmedApart
      <3> QED
        BY <1>7, <2>2, <3>1 DEF Joined
    <2> QED
      BY <2>1, <2>3, <2>4, <2>5 DEF Handled
  <1>11. ASSUME NEW i \in Identities
         PROVE  Connected(UnitsOf(i))'
    <2>1. CASE UnitsOf(i)' = {}
      BY <2>1 DEF Connected
    <2>2. CASE UnitsOf(i)' # {}
      <3>1. PICK u \in Units : of'[u] = i
        BY <2>2 DEF UnitsOf
      <3>2. u \in units
        BY <1>6, <3>1, IdentitiesAssumption
      <3>3. UnitsOf(i)' = component[u] /\ Holding(component[u], fixed)
        BY <1>2, <1>3, <1>9, <3>1, <3>2 DEF ComponentsHold, UnitsOf
      <3> QED
        BY <1>7, <3>3 DEF Holding, Held, Connected
    <2> QED
      BY <2>1, <2>2
  <1> QED
    BY <1>8, <1>10, <1>11 DEF LinksFollow

LEMMA SweepFollows ==
  ASSUME IInv, FollowInv, DeleteOrphans \/ CommitResolution \/ ResolutionFails
  PROVE  FollowInv'
  <1>1. /\ UNCHANGED <<present, evidence, links, apart>>
        /\ phase' \in {"sweep", "idle"}
        /\ phase' = "sweep" => phase = "sweep" /\ settled' = settled
        /\ settled' = "yes" => settled = "yes" \/ (settled # "no" /\ phase = "sweep")
    BY DEF DeleteOrphans, CommitResolution, ResolutionFails, Release, IInv, IdentitiesTypeOK
  <1>2. GroupsRead' /\ DecidedRead' /\ AllJoined'
    BY <1>1 DEF GroupsRead, DecidedRead, AllJoined, Decided
  <1>3. Written'
    BY <1>1, FollowKept DEF FollowInv, Written, Current
  <1> QED
    BY <1>2, <1>3 DEF FollowInv

\* Nothing a resolution reads, decides or writes has changed.
LEMMA WorkFollows ==
  ASSUME FollowInv, UNCHANGED <<present, evidence, links, apart, phase, work, settled>>
  PROVE  FollowInv'
  <1>1. UNCHANGED <<of, confirmed, units, joins, before, fixed, component>>
    BY DEF links, work
  <1>2. GroupsRead' /\ AllJoined'
    BY <1>1 DEF FollowInv, GroupsRead, AllJoined, Current, Within
  <1>3. ReadNow => ReadNow'
    BY <1>1 DEF ReadNow
  <1>4. EdgesHandled => EdgesHandled'
    BY <1>1 DEF EdgesHandled, Handled, Within, ConfirmedApart, KeptApartBetween
  <1>5. ComponentsHold => ComponentsHold'
    BY <1>1 DEF ComponentsHold, Holding, Held
  <1>6. DecidedRead'
    BY <1>3, <1>4, <1>5 DEF FollowInv, DecidedRead, Decided, Current
  <1> QED
    BY <1>2, <1>6, FollowKept DEF FollowInv, Written, Current

LEMMA LinksKeepFollowing == ASSUME IInv, FollowInv, [Next]_vars PROVE FollowInv'
  <1>1. CASE UNCHANGED vars \/ Cite
    BY <1>1, WorkFollows DEF vars, Cite
  <1>2. CASE Resolve
    BY <1>2, ReadGroupsFollows, ReadPeopleFollows, ReadEvidenceFollows, JoinNextFollows,
       KeepConfirmedFollows, ClaimNextFollows, WriteLinksFollows, SweepFollows DEF Resolve
  <1>3. CASE Correct
    <2>1. settled' = "no" /\ phase' = "idle"
      BY <1>3 DEF Correct, Confirm, Merge, Split, Reject, Unreject, Corrects
    <2> QED
      BY <2>1, Outdated
  <1>4. CASE UnitAppears \/ UnitVanishes \/ EdgeAppears \/ EdgeVanishes
    <2>1. settled' = "no" /\ phase' = phase /\ joins' = joins
      BY <1>4 DEF UnitAppears, UnitVanishes, EdgeAppears, EdgeVanishes, EvidenceChanges, work
    <2> QED
      BY <2>1, Outdated
  <1> QED
    BY <1>1, <1>2, <1>3, <1>4 DEF Next

LEMMA LinksReflect == ASSUME IInv, FollowInv PROVE LinksFollowEvidence
  <1> SUFFICES ASSUME settled = "yes" PROVE LinksFollow => LinksFollowEvidence
    BY DEF FollowInv, Written, LinksFollowEvidence
  <1>1. Live \subseteq Identities
    BY DEF Live, IInv, IdentitiesTypeOK
  <1> QED
    BY <1>1 DEF LinksFollow, AsRead, Joined, Within, LinksFollowEvidence

---------------------------------------------------------------------------
(* What readers are shown.                                                 *)

LEMMA RedirectsKnown == ASSUME IInv, TypesInv PROVE RedirectsLead
  <1>1. /\ of \in [Units -> rows \cup {None}] /\ rows \subseteq Identities
        /\ mergedInto \in [Identities -> rows \cup {None}]
    BY DEF IInv, IdentitiesTypeOK
  <1>2. ASSUME NEW i \in rows, mergedInto[i] # None
        PROVE  mergedInto[i] \in Live /\ type[mergedInto[i]] = type[i]
    BY <1>1, <1>2 DEF Live, IInv, RedirectsOnce, TypesInv, RedirectsTyped
  <1>3. ASSUME NEW u \in Units, of[u] # None
        PROVE  of[u] \in Live /\ type[of[u]] = EntityType(u)
    BY <1>1, <1>3 DEF Live, IInv, LinksLive, TypesInv, LinksTyped
  <1> QED
    BY <1>2, <1>3 DEF RedirectsLead

Preceding == {p \in Nat \X Nat : p[1] < p[2]}

\* Induction over the natural numbers, for a set: what holds of zero and of every successor.
LEMMA NaturalsOneByOne ==
  ASSUME NEW S, 0 \in S, \A n \in Nat : n \in S => n + 1 \in S
  PROVE  \A n \in Nat : n \in S
  <1> DEFINE Missing == {n \in Nat : n \notin S}
  <1>1. SUFFICES ASSUME Missing # {} PROVE FALSE
    OBVIOUS
  <1>2. IsWellFoundedOn(Preceding, Nat)
    BY NatLessThanWellFounded DEF OpToRel, Preceding
  <1>3. PICK x \in Missing : \A y \in Missing : <<y, x>> \notin Preceding
    BY <1>1, <1>2, WFMin
  <1>4. x # 0 /\ x - 1 \in Nat
    BY <1>3
  <1>5. x - 1 \in Missing
    BY <1>3, <1>4
  <1>6. <<x - 1, x>> \in Preceding
    BY <1>4 DEF Preceding
  <1> QED
    BY <1>3, <1>5, <1>6

\* A row's id leads to itself, or to the identity it was merged into, however long
\* live_identity goes on from there.
LEMMA LiveReached ==
  ASSUME RedirectsLead, IsFiniteSet(rows), NEW id \in rows
  PROVE  LiveIdentity(id) = IF mergedInto[id] = None THEN id ELSE mergedInto[id]
  <1> DEFINE N == Cardinality(rows)
             to == IF mergedInto[id] = None THEN id ELSE mergedInto[id]
             Step(i) == IF i \in rows /\ mergedInto[i] # None THEN mergedInto[i] ELSE i
             Path == [n \in 0..N |-> IF n = 0 THEN id ELSE to]
             Leads(g) == g = [n \in 0..N |-> IF n = 0 THEN id ELSE Step(g[n - 1])]
  <1>1. N \in Nat /\ N # 0
    BY FS_CardinalityType, FS_EmptySet
  <1>2. to \in Live /\ Step(id) = to
    BY DEF RedirectsLead, Live
  <1>3. Step(to) = to
    BY <1>2 DEF Live
  <1> HIDE DEF N, to, Step
  <1>4. Leads(Path)
    <2>1. \A n \in 0..N : n # 0 => n - 1 \in 0..N /\ Path[n - 1] \in {id, to}
      BY <1>1
    <2>2. \A n \in 0..N : n # 0 => Step(Path[n - 1]) = to
      BY <1>2, <1>3, <2>1
    <2> QED
      BY <2>2
  <1>5. ASSUME NEW g, Leads(g)
        PROVE  g[N] = to
    <2> DEFINE S == {n \in Nat : n + 1 \in 0..N => g[n + 1] = to}
    <2>1. g[0] = id /\ \A n \in 1..N : g[n] = Step(g[n - 1])
      BY <1>1, <1>5
    <2>2. 0 \in S
      BY <1>1, <1>2, <2>1
    <2>3. ASSUME NEW n \in Nat, n \in S
          PROVE  n + 1 \in S
      <3> SUFFICES ASSUME n + 2 \in 0..N PROVE g[n + 2] = to
        OBVIOUS
      <3>1. n + 2 \in 1..N /\ n + 1 \in 0..N /\ (n + 2) - 1 = n + 1
        BY <1>1
      <3>2. g[n + 2] = Step(g[n + 1])
        BY <2>1, <3>1
      <3> QED
        BY <1>3, <2>3, <3>1, <3>2
    <2> HIDE DEF S
    <2>4. \A n \in Nat : n \in S
      BY <2>2, <2>3, NaturalsOneByOne
    <2>5. N - 1 \in S /\ (N - 1) + 1 = N /\ N \in 0..N
      BY <1>1, <2>4
    <2> QED
      BY <1>1, <2>5 DEF S
  <1>6. (CHOOSE g : Leads(g))[N] = to
    <2>1. Leads(CHOOSE g : Leads(g))
      BY <1>4
    <2> QED
      BY <1>5, <2>1
  <1>7. LiveIdentity(id) =
          IF (CHOOSE g : Leads(g))[N] \in Live THEN (CHOOSE g : Leads(g))[N] ELSE None
    BY DEF LiveIdentity, N, Step
  <1> QED
    BY <1>2, <1>6, <1>7 DEF to

\* The row of the list that stands for an identity, and the profile that opens from it.
RowOf(i) ==
  [id |-> i, local_units |-> Cardinality(UnitsOf(i)),
   has_confirmed |-> UnitsOf(i) \cap confirmed # {},
   mentioned |-> (UnitsOf(i) \ People) \cap present, people |-> UnitsOf(i) \cap People]
ProfileOf(i) ==
  [identity |-> RowOf(i), units |-> UnitsOf(i), suggestions |-> Listed(Suggested(i)),
   kept_apart |-> Listed(KeptApartFrom(i))]

LEMMA RowsListed ==
  ASSUME NEW ids
  PROVE  Listed(ids) = {RowOf(i) : i \in {j \in Live \cap ids : UnitsOf(j) # {}}}
  BY DEF Listed, RowOf

LEMMA IdsListed ==
  ASSUME NEW ids
  PROVE  {row.id : row \in Listed(ids)} = {j \in Live \cap ids : UnitsOf(j) # {}}
  <1>1. \A i : RowOf(i).id = i
    BY DEF RowOf
  <1> QED
    BY <1>1, RowsListed

LEMMA ProfilesOpen ==
  ASSUME RedirectsLead, IsFiniteSet(rows), NEW i \in Live
  PROVE  IdentityProfiles(i) = IF UnitsOf(i) = {} THEN {} ELSE {ProfileOf(i)}
  <1>1. LiveIdentity(i) = i
    BY LiveReached DEF Live
  <1>2. Listed({i}) = IF UnitsOf(i) = {} THEN {} ELSE {RowOf(i)}
    BY RowsListed
  <1>3. RowOf(i).id = i
    BY DEF RowOf
  <1>4. IdentityProfiles(i) =
          {[identity |-> row, units |-> UnitsOf(row.id), suggestions |-> Listed(Suggested(row.id)),
            kept_apart |-> Listed(KeptApartFrom(row.id))] : row \in Listed({i})}
    BY <1>1 DEF IdentityProfiles
  <1> QED
    BY <1>2, <1>3, <1>4 DEF ProfileOf

\* What one profile suggests or keeps apart, the other does.
LEMMA SuggestedBack ==
  ASSUME RedirectsLead, None \notin rows, NEW i \in Live, NEW j \in Suggested(i)
  PROVE  i \in Suggested(j)
  <1>1. PICK c \in Units, a \in UnitsOf(i) :
          /\ of[c] = j /\ EntityType(a) = EntityType(c) /\ NameKey(a) = NameKey(c)
          /\ NameKey(a) # None
    BY DEF Suggested
  <1>2. j \notin {i, None} /\ j \notin KeptApartFrom(i)
    BY DEF Suggested
  <1>3. c \in UnitsOf(j) /\ a \in Units /\ of[a] = i /\ i # None
    BY <1>1 DEF UnitsOf, Live
  <1>4. i \notin KeptApartFrom(j)
    <2> SUFFICES ASSUME i \in KeptApartFrom(j) PROVE FALSE
      OBVIOUS
    <2>1. PICK b \in Units, d \in UnitsOf(j) : of[b] = i /\ {d, b} \in apart
      BY DEF KeptApartFrom
    <2>2. b \in UnitsOf(i) /\ d \in Units /\ of[d] = j /\ {b, d} = {d, b}
      BY <2>1 DEF UnitsOf
    <2>3. j \in KeptApartFrom(i)
      BY <1>2, <2>1, <2>2 DEF KeptApartFrom
    <2> QED
      BY <1>2, <2>3
  <1> QED
    BY <1>1, <1>2, <1>3, <1>4 DEF Suggested

LEMMA Shown == ASSUME IInv, TypesInv, FollowInv PROVE ProfilesAreComplete
  <1> DEFINE profile == [i \in Live |-> IdentityProfiles(i)]
             ids(S) == {row.id : row \in S}
  <1>1. RedirectsLead /\ IsFiniteSet(rows) /\ None \notin rows
    BY RedirectsKnown, IdentitiesAssumption DEF TypesInv, IInv, IdentitiesTypeOK
  <1>2. \A i \in Live : profile[i] = IF UnitsOf(i) = {} THEN {} ELSE {ProfileOf(i)}
    BY <1>1, ProfilesOpen
  <1>3. \A u \in Units : of[u] # None => of[u] \in Live /\ u \in UnitsOf(of[u])
    BY <1>1 DEF RedirectsLead, UnitsOf
  <1>4. \A S : ids(Listed(S)) = {j \in Live \cap S : UnitsOf(j) # {}}
    BY IdsListed
  <1>5. \A i : /\ ProfileOf(i).units = UnitsOf(i) /\ ProfileOf(i).identity = RowOf(i)
               /\ ProfileOf(i).suggestions = Listed(Suggested(i))
               /\ ProfileOf(i).kept_apart = Listed(KeptApartFrom(i))
               /\ RowOf(i).mentioned = (UnitsOf(i) \ People) \cap present
               /\ RowOf(i).people = UnitsOf(i) \cap People
    BY DEF ProfileOf, RowOf
  <1>6. ASSUME NEW i \in rows, mergedInto[i] # None
        PROVE  IdentityProfiles(i) = profile[mergedInto[i]]
    <2>1. mergedInto[i] \in Live /\ mergedInto[i] \in rows /\ mergedInto[mergedInto[i]] = None
      BY <1>1, <1>6 DEF RedirectsLead, Live
    <2>2. LiveIdentity(i) = mergedInto[i] /\ LiveIdentity(mergedInto[i]) = mergedInto[i]
      BY <1>1, <1>6, <2>1, LiveReached
    <2> QED
      BY <2>1, <2>2 DEF IdentityProfiles
  <1> HIDE DEF profile, ids
  <1>7. ASSUME NEW u \in Units, of[u] # None
        PROVE  {i \in Live : \E p \in profile[i] : u \in p.units} = {of[u]}
    <2>1. \A i \in Live : (\E p \in profile[i] : u \in p.units) <=> u \in UnitsOf(i)
      BY <1>2, <1>5
    <2>2. \A i : u \in UnitsOf(i) <=> i = of[u]
      BY DEF UnitsOf
    <2> QED
      BY <1>3, <1>7, <2>1, <2>2
  <1>8. ASSUME NEW i \in Live, NEW p \in profile[i]
        PROVE  /\ ids(p.suggestions) \cap ids(p.kept_apart) = {}
               /\ \A j \in ids(p.suggestions) : \E q \in profile[j] : i \in ids(q.suggestions)
               /\ settled = "yes" => p.identity.mentioned \cup p.identity.people = p.units
    <2>1. UnitsOf(i) # {} /\ p = ProfileOf(i)
      BY <1>2, <1>8
    <2>2. /\ ids(p.suggestions) = {j \in Live \cap Suggested(i) : UnitsOf(j) # {}}
          /\ ids(p.kept_apart) = {j \in Live \cap KeptApartFrom(i) : UnitsOf(j) # {}}
      BY <1>4, <1>5, <2>1
    <2>3. Suggested(i) \cap KeptApartFrom(i) = {}
      BY DEF Suggested
    <2>4. ASSUME NEW j \in ids(p.suggestions)
          PROVE  \E q \in profile[j] : i \in ids(q.suggestions)
      <3>1. j \in Live /\ j \in Suggested(i) /\ UnitsOf(j) # {}
        BY <2>2
      <3>2. i \in Suggested(j)
        BY <1>1, <3>1, SuggestedBack
      <3>3. ProfileOf(j) \in profile[j]
        BY <1>2, <3>1
      <3>4. ids(Listed(Suggested(j))) = {k \in Live \cap Suggested(j) : UnitsOf(k) # {}}
        BY <1>4
      <3>5. i \in ids(Listed(Suggested(j))) /\ ProfileOf(j).suggestions = Listed(Suggested(j))
        BY <1>5, <2>1, <3>2, <3>4
      <3> QED
        BY <3>3, <3>5
    <2>5. ASSUME settled = "yes"
          PROVE  p.identity.mentioned \cup p.identity.people = p.units
      <3>1. UnitsOf(i) \subseteq present
        BY <2>5, IdentitiesAssumption
           DEF FollowInv, Written, LinksFollow, AsRead, UnitsOf, Live, IInv, IdentitiesTypeOK
      <3> QED
        BY <1>5, <2>1, <3>1
    <2> QED
      BY <2>2, <2>3, <2>4, <2>5
  <1>9. ASSUME NEW a \in Units, NEW b \in Units, {a, b} \in apart, of[a] # None, of[b] # None
        PROVE  \E p \in profile[of[a]] : of[b] \in ids(p.kept_apart)
    <2>1. of[a] # of[b]
      BY <1>9 DEF IInv, KeptApart
    <2>2. /\ of[a] \in Live /\ a \in UnitsOf(of[a])
          /\ of[b] \in Live /\ b \in UnitsOf(of[b])
      BY <1>3, <1>9
    <2>3. of[b] \in KeptApartFrom(of[a])
      BY <1>9, <2>1, <2>2 DEF KeptApartFrom
    <2>4. ProfileOf(of[a]) \in profile[of[a]]
      BY <1>2, <2>2
    <2>5. ids(Listed(KeptApartFrom(of[a])))
            = {k \in Live \cap KeptApartFrom(of[a]) : UnitsOf(k) # {}}
      BY <1>4
    <2>6. /\ of[b] \in ids(Listed(KeptApartFrom(of[a])))
          /\ ProfileOf(of[a]).kept_apart = Listed(KeptApartFrom(of[a]))
      BY <1>5, <2>2, <2>3, <2>5
    <2> QED
      BY <2>4, <2>6
  <1> QED
    BY <1>6, <1>7, <1>8, <1>9 DEF ProfilesAreComplete, profile, ids

---------------------------------------------------------------------------
(* Resolving again: the same evidence in the same order, so the same components. *)

Bound == confirmed \cap present
EdgesNow == {e \in evidence : Within(e, present)}
BoundApart(C, D) == \E m \in C \cap Bound, n \in D \cap Bound : of[m] # of[n]

\* A state of the joining, as the edges left and the components so far.
States == (SUBSET Edges) \X [Units -> SUBSET Units]
Beginning == <<EdgesNow, [u \in Units |-> StartingComponent(u, Bound)]>>
JoinedBy(K, e) ==
  LET C == K[e[1]]
      D == K[e[2]]
  IN IF C = D \/ BoundApart(C, D) \/ KeptApartBetween(C, D) THEN K
     ELSE [u \in Units |-> IF u \in C \cup D THEN C \cup D ELSE K[u]]
Leads(p, q) ==
  \E e \in p[1] : /\ \A f \in p[1] \ {e} : Precedes(e, f)
                  /\ q = <<p[1] \ {e}, JoinedBy(p[2], e)>>
Course(h, n) == h[0] = Beginning /\ \A k \in 0..(n - 1) : Leads(h[k], h[k + 1])
Reached(p) == \E n \in Nat : \E h \in [0..n -> States] : Course(h, n) /\ h[n] = p

\* The components the links stand for.
Linked == [u \in Units |-> IF of[u] = None THEN {u} ELSE UnitsOf(of[u])]

OthersAlone == Current /\ Decided => \A u \in Units \ units : component[u] = {u}
Retraced == Current /\ Decided => \E p \in States : p = <<joins, component>> /\ Reached(p)
WrittenSo ==
  settled = "yes" \/ (Current /\ phase = "sweep") =>
    \E p \in States : p = <<{}, Linked>> /\ Reached(p)
ClaimsKeep ==
  settled = "yes" /\ phase = "claim" => \A u \in Units : assigned[u] \in {None, of[u]}
AgainInv == OthersAlone /\ Retraced /\ WrittenSo /\ ClaimsKeep

LEMMA FurtherReached ==
  ASSUME NEW p \in States, Reached(p), NEW q \in States, Leads(p, q)
  PROVE  Reached(q)
  <1>1. PICK n \in Nat : \E h \in [0..n -> States] : Course(h, n) /\ h[n] = p
    BY DEF Reached
  <1>2. PICK h \in [0..n -> States] : Course(h, n) /\ h[n] = p
    BY <1>1
  <1> DEFINE g == [k \in 0..(n + 1) |-> IF k = n + 1 THEN q ELSE h[k]]
  <1>3. g \in [0..(n + 1) -> States] /\ g[n + 1] = q /\ \A k \in 0..n : g[k] = h[k]
    OBVIOUS
  <1> HIDE DEF g
  <1>4. g[0] = Beginning
    BY <1>2, <1>3 DEF Course
  <1>5. ASSUME NEW k \in 0..((n + 1) - 1)
        PROVE  Leads(g[k], g[k + 1])
    <2>1. CASE k = n
      BY <1>2, <1>3, <2>1
    <2>2. CASE k # n
      <3>1. k \in 0..(n - 1) /\ k \in 0..n /\ k + 1 \in 0..n
        BY <2>2
      <3>2. Leads(h[k], h[k + 1])
        BY <1>2, <3>1 DEF Course
      <3> QED
        BY <1>3, <3>1, <3>2
    <2> QED
      BY <2>1, <2>2
  <1>6. Course(g, n + 1)
    BY <1>4, <1>5 DEF Course
  <1> QED
    BY <1>3, <1>6 DEF Reached

LEMMA BeginningReached == ASSUME Beginning \in States PROVE Reached(Beginning)
  <1> DEFINE h == [k \in 0..0 |-> Beginning]
  <1>1. h \in [0..0 -> States] /\ h[0] = Beginning
    OBVIOUS
  <1> HIDE DEF h
  <1>2. Course(h, 0)
    BY <1>1 DEF Course
  <1> QED
    BY <1>1, <1>2 DEF Reached

\* The keys order the edges, so that there is one next edge.
LEMMA OneNext ==
  ASSUME NEW p \in States, NEW q, NEW r, Leads(p, q), Leads(p, r)
  PROVE  q = r
  <1>1. PICK e \in p[1] : /\ \A f \in p[1] \ {e} : Precedes(e, f)
                          /\ q = <<p[1] \ {e}, JoinedBy(p[2], e)>>
    BY DEF Leads
  <1>2. PICK d \in p[1] : /\ \A f \in p[1] \ {d} : Precedes(d, f)
                          /\ r = <<p[1] \ {d}, JoinedBy(p[2], d)>>
    BY DEF Leads
  <1>3. e = d
    <2> SUFFICES ASSUME e # d PROVE FALSE
      OBVIOUS
    <2>1. Precedes(e, d) /\ Precedes(d, e)
      BY <1>1, <1>2
    <2>2. p[1] \subseteq Edges
      BY DEF States
    <2>3. /\ Key(e[1]) \in Nat /\ Key(e[2]) \in Nat
          /\ Key(d[1]) \in Nat /\ Key(d[2]) \in Nat
      BY <2>2, UnitsAssumption
    <2> QED
      BY <2>1, <2>3 DEF Precedes
  <1> QED
    BY <1>1, <1>2, <1>3

LEMMA CoursesAgree ==
  ASSUME NEW n \in Nat, NEW m \in Nat, n <= m,
         NEW h \in [0..n -> States], NEW g \in [0..m -> States], Course(h, n), Course(g, m)
  PROVE  h[n] = g[n]
  <1> DEFINE S == {k \in Nat : k <= n => h[k] = g[k]}
  <1>1. 0 \in S
    BY DEF Course
  <1>2. ASSUME NEW k \in Nat, k \in S
        PROVE  k + 1 \in S
    <2> SUFFICES ASSUME k + 1 <= n PROVE h[k + 1] = g[k + 1]
      OBVIOUS
    <2>1. k \in 0..(n - 1) /\ k \in 0..(m - 1) /\ k \in 0..n /\ h[k] = g[k]
      BY <1>2
    <2>2. Leads(h[k], h[k + 1]) /\ Leads(g[k], g[k + 1])
      BY <2>1 DEF Course
    <2>3. h[k] \in States
      BY <2>1
    <2> QED
      BY <2>1, <2>2, <2>3, OneNext
  <1> HIDE DEF S
  <1>3. \A k \in Nat : k \in S
    BY <1>1, <1>2, NaturalsOneByOne
  <1> QED
    BY <1>3 DEF S

\* The edges come to an end once.
LEMMA OneEnd ==
  ASSUME NEW p \in States, NEW q \in States, p[1] = {}, q[1] = {}, Reached(p), Reached(q)
  PROVE  p = q
  <1>1. PICK n \in Nat : \E h \in [0..n -> States] : Course(h, n) /\ h[n] = p
    BY DEF Reached
  <1>2. PICK h \in [0..n -> States] : Course(h, n) /\ h[n] = p
    BY <1>1
  <1>3. PICK m \in Nat : \E g \in [0..m -> States] : Course(g, m) /\ g[m] = q
    BY DEF Reached
  <1>4. PICK g \in [0..m -> States] : Course(g, m) /\ g[m] = q
    BY <1>3
  <1>5. n <= m => h[n] = g[n]
    BY <1>2, <1>4, CoursesAgree
  <1>6. m <= n => g[m] = h[m]
    BY <1>2, <1>4, CoursesAgree
  <1>7. ~(n < m)
    <2> SUFFICES ASSUME n < m PROVE FALSE
      OBVIOUS
    <2>1. n \in 0..(m - 1) /\ g[n] = p
      BY <1>2, <1>5
    <2>2. Leads(g[n], g[n + 1])
      BY <1>4, <2>1 DEF Course
    <2> QED
      BY <2>1, <2>2 DEF Leads
  <1>8. ~(m < n)
    <2> SUFFICES ASSUME m < n PROVE FALSE
      OBVIOUS
    <2>1. m \in 0..(n - 1) /\ h[m] = q
      BY <1>4, <1>6
    <2>2. Leads(h[m], h[m + 1])
      BY <1>2, <2>1 DEF Course
    <2> QED
      BY <2>1, <2>2 DEF Leads
  <1>9. n = m
    BY <1>7, <1>8
  <1> QED
    BY <1>2, <1>4, <1>5, <1>9

\* The course depends on the evidence and the decisions alone.
LEMMA CourseKept ==
  ASSUME UNCHANGED <<present, evidence, apart>>, Bound' = Bound,
         \A u \in Bound : of'[u] = of[u], NEW p, Reached(p)
  PROVE  Reached(p)'
  <1>1. Beginning' = Beginning
    <2>1. EdgesNow' = EdgesNow
      BY DEF EdgesNow, Within
    <2>2. \A u \in Units : StartingComponent(u, Bound)' = StartingComponent(u, Bound)
      BY DEF StartingComponent
    <2> QED
      BY <2>1, <2>2 DEF Beginning
  <1>2. \A C, D : BoundApart(C, D)' <=> BoundApart(C, D)
    BY DEF BoundApart
  <1>3. \A C, D : KeptApartBetween(C, D)' <=> KeptApartBetween(C, D)
    BY DEF KeptApartBetween
  <1>4. \A K, e : JoinedBy(K, e)' = JoinedBy(K, e)
    BY <1>2, <1>3 DEF JoinedBy
  <1>5. \A a, b : Leads(a, b)' <=> Leads(a, b)
    BY <1>4 DEF Leads
  <1>6. \A h, n : Course(h, n)' <=> Course(h, n)
    BY <1>1, <1>5 DEF Course
  <1> QED
    BY <1>6 DEF Reached

LEMMA AgainKept ==
  ASSUME AgainInv, UNCHANGED <<present, evidence, links, apart>>,
         settled' = "yes" \/ (settled' # "no" /\ phase' = "sweep") =>
           settled = "yes" \/ (Current /\ phase = "sweep")
  PROVE  WrittenSo'
  <1>1. of' = of /\ confirmed' = confirmed
    BY DEF links
  <1>2. Linked' = Linked
    BY <1>1 DEF Linked, UnitsOf
  <1>3. Bound' = Bound
    BY <1>1 DEF Bound
  <1>4. \A p : Reached(p) => Reached(p)'
    BY <1>1, <1>3, CourseKept
  <1> QED
    BY <1>2, <1>4 DEF AgainInv, WrittenSo, Current

LEMMA ReadEvidenceAgain == ASSUME IInv, FollowInv, AgainInv, ReadEvidence PROVE AgainInv'
  <1>1. FollowInv'
    BY ReadEvidenceFollows
  <1> USE DEF ReadEvidence
  <1>2. WrittenSo' /\ ClaimsKeep'
    BY AgainKept DEF ClaimsKeep, Current, links
  <1>3. SUFFICES ASSUME Current, Current' PROVE OthersAlone' /\ Retraced'
    BY <1>2 DEF AgainInv, OthersAlone, Retraced, Current
  <1>4. /\ units = present /\ units \subseteq Units
        /\ joins = {e \in evidence : Within(e, present \ People)}
    BY <1>3 DEF FollowInv, GroupsRead, IInv, IdentitiesTypeOK
  <1>5. joins' = EdgesNow
    BY <1>4 DEF EdgesNow, Within
  <1>6. fixed' = Bound /\ fixed' = Fixed(units)
    BY <1>1, <1>3, <1>4 DEF FollowInv, DecidedRead, ReadNow, Decided, Bound, links
  <1>7. component' = [u \in Units |-> StartingComponent(u, Bound)]
    BY <1>6
  <1>8. <<joins', component'>> = Beginning
    BY <1>5, <1>7 DEF Beginning
  <1>9. Beginning \in States
    <2>1. EdgesNow \in SUBSET Edges
      BY DEF EdgesNow, IInv, IdentitiesTypeOK
    <2>2. \A u \in Units : StartingComponent(u, Bound) \in SUBSET Units
      BY DEF StartingComponent, Bound, IInv, IdentitiesTypeOK
    <2> QED
      BY <2>1, <2>2 DEF Beginning, States
  <1>10. \A u \in Units \ units : component'[u] = {u}
    BY <1>4, <1>7 DEF StartingComponent, Bound
  <1>11. Bound' = Bound /\ of' = of /\ UNCHANGED <<present, evidence, apart, units>>
    BY DEF Bound, links
  <1> HIDE DEF ReadEvidence
  <1>12. PICK p \in States : p = <<joins', component'>> /\ Reached(p)
    BY <1>8, <1>9, BeginningReached
  <1>13. Reached(p)'
    BY <1>11, <1>12, CourseKept
  <1> QED
    BY <1>10, <1>11, <1>12, <1>13 DEF OthersAlone, Retraced

LEMMA JoinNextAgain == ASSUME IInv, FollowInv, AgainInv, JoinNext PROVE AgainInv'
  <1> USE DEF JoinNext
  <1>1. WrittenSo' /\ ClaimsKeep'
    BY AgainKept DEF ClaimsKeep, Current, links
  <1>2. SUFFICES ASSUME Current PROVE OthersAlone' /\ Retraced'
    BY <1>1 DEF AgainInv, OthersAlone, Retraced, Current
  <1>3. ReadNow /\ EdgesHandled /\ ComponentsHold
    BY <1>2 DEF FollowInv, DecidedRead, Decided
  <1>4. PICK p \in States : p = <<joins, component>> /\ Reached(p)
    BY <1>2 DEF AgainInv, Retraced, Decided
  <1>5. fixed = Bound /\ before = of
    BY <1>3 DEF ReadNow, Bound
  <1>6. PICK e \in joins :
          /\ \A f \in joins \ {e} : Precedes(e, f)
          /\ joins' = joins \ {e}
          /\ LET C == component[e[1]]
                 D == component[e[2]]
             IN component' =
                  IF C = D \/ ConfirmedApart(C, D) \/ KeptApartBetween(C, D) THEN component
                  ELSE [u \in Units |-> IF u \in C \cup D THEN C \cup D ELSE component[u]]
    OBVIOUS
  <1>7. component' = JoinedBy(component, e)
    <2>1. \A C, D : ConfirmedApart(C, D) <=> BoundApart(C, D)
      BY <1>5 DEF BoundApart, ConfirmedApart
    <2> QED
      BY <1>6, <2>1 DEF JoinedBy
  <1> DEFINE q == <<joins', component'>>
  <1>8. q \in States
    <2>1. joins \subseteq Edges /\ component \in [Units -> SUBSET Units] /\ e \in Edges
      BY <1>6 DEF IInv, IdentitiesTypeOK
    <2>2. e[1] \in Units /\ e[2] \in Units
      BY <2>1, UnitsAssumption
    <2>3. component' \in [Units -> SUBSET Units]
      BY <1>6, <2>1, <2>2
    <2> QED
      BY <1>6, <2>1, <2>3 DEF States
  <1>9. Leads(p, q)
    BY <1>4, <1>6, <1>7 DEF Leads
  <1>10. Reached(q)
    BY <1>4, <1>8, <1>9, FurtherReached
  <1>11. PICK r \in States : r = <<joins', component'>> /\ Reached(r)
    BY <1>8, <1>10
  <1>12. e[1] \in units /\ e[2] \in units /\ units' = units
    BY <1>3, <1>6 DEF EdgesHandled, Within
  <1>13. component[e[1]] \subseteq units /\ component[e[2]] \subseteq units
    BY <1>3, <1>12 DEF ComponentsHold
  <1>14. \A u \in Units \ units : component'[u] = component[u]
    BY <1>6, <1>13
  <1>15. Bound' = Bound /\ of' = of /\ UNCHANGED <<present, evidence, apart>>
    BY DEF Bound, links
  <1> HIDE DEF JoinNext
  <1>16. Reached(r)'
    BY <1>11, <1>15, CourseKept
  <1>17. OthersAlone'
    BY <1>2, <1>12, <1>14 DEF AgainInv, OthersAlone, Decided, JoinNext
  <1> QED
    BY <1>11, <1>16, <1>17 DEF Retraced

\* Resolving again, the components are those the links stand for.
LEMMA SameComponents ==
  ASSUME FollowInv, AgainInv, settled = "yes", Decided, joins = {}
  PROVE  component = Linked
  <1>1. PICK p \in States : p = <<joins, component>> /\ Reached(p)
    BY DEF AgainInv, Retraced, Current
  <1>2. PICK q \in States : q = <<{}, Linked>> /\ Reached(q)
    BY DEF AgainInv, WrittenSo
  <1>3. p = q
    BY <1>1, <1>2, OneEnd
  <1> QED
    BY <1>1, <1>2, <1>3

\* Deciding on identities leaves what was read as it is.
LEMMA DecidingAgain ==
  ASSUME AgainInv, Decided,
         UNCHANGED <<present, evidence, links, apart, units, component, joins, settled>>,
         phase' = "claim"
  PROVE  OthersAlone' /\ Retraced' /\ WrittenSo'
  <1>1. WrittenSo'
    BY AgainKept DEF Current
  <1>2. Bound' = Bound /\ of' = of
    BY DEF Bound, links
  <1>3. \A p : Reached(p) => Reached(p)'
    BY <1>2, CourseKept
  <1>4. OthersAlone'
    BY DEF AgainInv, OthersAlone, Current
  <1>5. Retraced'
    BY <1>3 DEF AgainInv, Retraced, Current
  <1> QED
    BY <1>1, <1>4, <1>5

LEMMA KeepConfirmedAgain == ASSUME IInv, FollowInv, AgainInv, KeepConfirmed PROVE AgainInv'
  <1> USE DEF KeepConfirmed
  <1>1. OthersAlone' /\ Retraced' /\ WrittenSo'
    BY DecidingAgain DEF Decided
  <1>2. ASSUME settled = "yes", NEW u \in Units, assigned'[u] # None
        PROVE  assigned'[u] = of[u]
    <2>1. component = Linked /\ ReadNow
      BY <1>2, SameComponents DEF Decided, FollowInv, DecidedRead, Current
    <2>2. PICK m \in component[u] \cap fixed : assigned'[u] = before[m]
      <3>1. component[u] \cap fixed # {}
            /\ assigned'[u] = before[CHOOSE m \in component[u] \cap fixed : TRUE]
        BY <1>2
      <3> QED
        BY <3>1
    <2>3. of[m] # None
      BY <2>1, <2>2 DEF ReadNow, IInv, IdentitiesTypeOK
    <2>4. of[m] = of[u]
      BY <2>1, <2>2, <2>3 DEF Linked, UnitsOf
    <2> QED
      BY <2>1, <2>2, <2>4 DEF ReadNow
  <1>3. of' = of /\ settled' = settled
    BY DEF links
  <1> HIDE DEF KeepConfirmed
  <1>4. ClaimsKeep'
    BY <1>2, <1>3 DEF ClaimsKeep
  <1> QED
    BY <1>1, <1>4 DEF AgainInv

LEMMA ClaimNextAgain == ASSUME IInv, TypesInv, FollowInv, AgainInv, ClaimNext PROVE AgainInv'
  <1> USE DEF ClaimNext
  <1>1. OthersAlone' /\ Retraced' /\ WrittenSo'
    BY DecidingAgain DEF Decided
  <1>2. PICK u \in Unassigned :
          \E i \in IF MostVoted(component[u]) # {} THEN MostVoted(component[u]) ELSE NextUnused :
            assigned' = [v \in Units |-> IF v \in component[u] THEN i ELSE assigned[v]]
    OBVIOUS
  <1>3. ASSUME settled = "yes"
        PROVE  \A v \in Units : assigned'[v] \in {None, of[v]}
    <2> DEFINE C == component[u]
    <2>1. /\ component = Linked /\ ReadNow /\ LinksFollow
          /\ \A v \in Units : assigned[v] \in {None, of[v]}
      BY <1>3, SameComponents
         DEF Decided, FollowInv, DecidedRead, AllJoined, Written, Current, AgainInv, ClaimsKeep
    <2>2. u \in units /\ u \in Units /\ assigned[u] = None /\ of[u] # None
      BY <2>1 DEF Unassigned, ReadNow, LinksFollow, AsRead, IInv, IdentitiesTypeOK
    <2>3. C = UnitsOf(of[u])
      BY <2>1, <2>2 DEF Linked
    <2>4. \A v \in C : v \in Units /\ of[v] = of[u] /\ assigned[v] = None
      <3>1. \A v \in C : v \in Units /\ of[v] = of[u]
        BY <2>3 DEF UnitsOf
      <3>2. \A v \in C : assigned[v] = assigned[u]
        BY <2>2, <3>1 DEF IInv, Claims
      <3> QED
        BY <2>2, <3>1, <3>2
    <2>5. of[u] \in Live
      BY <2>2, RedirectsKnown DEF RedirectsLead
    <2>6. of[u] \notin {assigned[v] : v \in Units}
      <3> SUFFICES ASSUME NEW v \in Units, assigned[v] = of[u] PROVE FALSE
        OBVIOUS
      <3>1. v \in C
        BY <2>1, <2>2, <2>3 DEF UnitsOf
      <3> QED
        BY <2>2, <2>4, <3>1
    <2>7. \A i : {v \in C \cap units : before[v] = i} = {} \/ i = of[u]
      BY <2>1, <2>4 DEF ReadNow
    <2>8. Votes(C, of[u]) > 0
      <3>1. IsFiniteSet({v \in C \cap units : before[v] = of[u]})
        BY UnitsAssumption, FS_Subset DEF IInv, IdentitiesTypeOK
      <3>2. u \in {v \in C \cap units : before[v] = of[u]}
        BY <2>1, <2>2, <2>3 DEF ReadNow, UnitsOf
      <3> QED
        BY <3>1, <3>2, FS_EmptySet, FS_CardinalityType DEF Votes
    <2>9. \A i : Votes(C, i) > 0 => i = of[u]
      BY <2>7, FS_EmptySet DEF Votes
    <2>10. Claimable(C) = {of[u]}
      BY <2>5, <2>6, <2>8, <2>9 DEF Claimable
    <2>11. MostVoted(C) = {of[u]}
      <3>1. Votes(C, of[u]) <= Votes(C, of[u])
        <4>1. IsFiniteSet({v \in C \cap units : before[v] = of[u]})
          BY UnitsAssumption, FS_Subset DEF IInv, IdentitiesTypeOK
        <4> QED
          BY <4>1, FS_CardinalityType DEF Votes
      <3> QED
        BY <2>10, <3>1 DEF MostVoted
    <2>12. assigned' = [v \in Units |-> IF v \in C THEN of[u] ELSE assigned[v]]
      BY <1>2, <2>11
    <2> QED
      BY <2>1, <2>4, <2>12
  <1>4. of' = of /\ settled' = settled
    BY DEF links
  <1> HIDE DEF ClaimNext
  <1>5. ClaimsKeep'
    BY <1>3, <1>4 DEF ClaimsKeep
  <1> QED
    BY <1>1, <1>5 DEF AgainInv

\* The links a resolution writes stand for the components it found.
LEMMA WriteLinksAgain == ASSUME IInv, FollowInv, AgainInv, WriteLinks PROVE AgainInv'
  <1> USE DEF WriteLinks
  <1>1. OthersAlone' /\ Retraced' /\ ClaimsKeep'
    BY DEF OthersAlone, Retraced, ClaimsKeep, Decided
  <1>2. SUFFICES ASSUME Current PROVE \E p \in States : p = <<{}, Linked'>> /\ Reached(p)'
    BY <1>1 DEF AgainInv, WrittenSo, Current
  <1>3. ReadNow /\ ComponentsHold /\ joins = {}
    BY <1>2 DEF FollowInv, DecidedRead, AllJoined, Decided
  <1>4. PICK p \in States : p = <<joins, component>> /\ Reached(p)
    BY <1>2 DEF AgainInv, Retraced, Decided
  <1>5. \A u \in Units \ units : component[u] = {u}
    BY <1>2 DEF AgainInv, OthersAlone, Decided
  <1>6. /\ units \subseteq Units /\ fixed \subseteq units
        /\ component \in [Units -> SUBSET Units]
        /\ \A u \in Units : u \in component[u]
    BY DEF IInv, IdentitiesTypeOK, Partition, Decided
  <1>7. /\ \A u \in fixed : assigned[u] = before[u]
        /\ \A u, v \in Units : v \in component[u] => assigned[v] = assigned[u]
        /\ \A u, v \in Units : assigned[u] # None /\ assigned[v] = assigned[u] => v \in component[u]
    BY DEF IInv, Claims
  <1>8. \A u \in units : of'[u] = assigned[u] /\ assigned[u] # None
    BY <1>3, <1>6, <1>7 DEF ReadNow, Unassigned
  <1>9. \A u \in Units \ units : of'[u] = None
    OBVIOUS
  <1>10. UNCHANGED <<present, evidence, apart>> /\ confirmed' = fixed /\ fixed = Bound
    BY <1>3 DEF ReadNow, Bound
  <1>11. \A u \in Bound : of'[u] = of[u]
    BY <1>6, <1>10 DEF IInv, IdentitiesTypeOK
  <1>12. Bound' = Bound
    BY <1>3, <1>6, <1>10 DEF Bound, ReadNow
  <1> HIDE DEF WriteLinks
  <1>13. Reached(p)'
    BY <1>4, <1>10, <1>11, <1>12, CourseKept
  <1>14. ASSUME NEW u \in Units
         PROVE  (IF of'[u] = None THEN {u} ELSE {v \in Units : of'[v] = of'[u]}) = component[u]
    <2>1. CASE u \notin units
      BY <1>5, <1>9, <2>1
    <2>2. CASE u \in units
      <3>1. \A v \in Units : of'[v] = of'[u] <=> v \in units /\ assigned[v] = assigned[u]
        BY <1>6, <1>8, <1>9, <2>2
      <3>2. \A v \in Units : v \in component[u] <=> v \in units /\ assigned[v] = assigned[u]
        BY <1>3, <1>6, <1>7, <1>8, <2>2 DEF ComponentsHold
      <3>3. component[u] \subseteq Units
        BY <1>6
      <3> QED
        BY <1>8, <2>2, <3>1, <3>2, <3>3
    <2> QED
      BY <2>1, <2>2
  <1>15. Linked' = component
    BY <1>6, <1>14 DEF Linked, UnitsOf
  <1> QED
    BY <1>3, <1>4, <1>13, <1>15

\* Nothing the joining depends on changes, and no claim is made.
LEMMA ReadingAgain ==
  ASSUME FollowInv, AgainInv,
         ReadGroups \/ ReadPeople \/ DeleteOrphans \/ CommitResolution \/ ResolutionFails
  PROVE  AgainInv'
  <1>1. /\ UNCHANGED <<present, evidence, links, apart>> /\ ~Decided' /\ phase' # "claim"
        /\ settled' = "yes" \/ (settled' # "no" /\ phase' = "sweep") =>
             settled = "yes" \/ (Current /\ phase = "sweep")
    BY DEF ReadGroups, ReadPeople, DeleteOrphans, CommitResolution, ResolutionFails, Release,
           Decided, Current
  <1>2. WrittenSo'
    BY <1>1, AgainKept
  <1> QED
    BY <1>1, <1>2 DEF AgainInv, OthersAlone, Retraced, ClaimsKeep

LEMMA WorkAgain ==
  ASSUME AgainInv, UNCHANGED <<present, evidence, links, apart, phase, work, settled>>
  PROVE  AgainInv'
  <1>1. UNCHANGED <<of, confirmed, units, joins, component, assigned>>
    BY DEF links, work
  <1>2. Bound' = Bound
    BY <1>1 DEF Bound
  <1>3. \A p : Reached(p) => Reached(p)'
    BY <1>1, <1>2, CourseKept
  <1>4. WrittenSo'
    BY AgainKept DEF Current
  <1>5. OthersAlone' /\ ClaimsKeep'
    BY <1>1 DEF AgainInv, OthersAlone, ClaimsKeep, Current, Decided
  <1>6. Retraced'
    BY <1>1, <1>3 DEF AgainInv, Retraced, Current, Decided
  <1> QED
    BY <1>4, <1>5, <1>6 DEF AgainInv

LEMMA AgainSteps == ASSUME IInv, TypesInv, FollowInv, AgainInv, [Next]_vars PROVE AgainInv'
  <1>1. CASE UNCHANGED vars \/ Cite
    BY <1>1, WorkAgain DEF vars, Cite
  <1>2. CASE Resolve
    BY <1>2, ReadingAgain, ReadEvidenceAgain, JoinNextAgain, KeepConfirmedAgain, ClaimNextAgain,
       WriteLinksAgain DEF Resolve
  <1>3. CASE Correct \/ UnitAppears \/ UnitVanishes \/ EdgeAppears \/ EdgeVanishes
    <2>1. settled' = "no"
      BY <1>3 DEF Correct, Confirm, Merge, Split, Reject, Unreject, Corrects, UnitAppears,
         UnitVanishes, EdgeAppears, EdgeVanishes, EvidenceChanges
    <2> QED
      BY <2>1 DEF AgainInv, OthersAlone, Retraced, WrittenSo, ClaimsKeep, Current
  <1> QED
    BY <1>1, <1>2, <1>3 DEF Next

---------------------------------------------------------------------------
LEMMA RegistryInvariance == Spec => [](IInv /\ TypesInv /\ FollowInv /\ AgainInv)
  <1>1. Init => TypesInv /\ FollowInv /\ AgainInv
    <2> SUFFICES ASSUME Init PROVE TypesInv /\ FollowInv /\ AgainInv
      OBVIOUS
    <2>1. TypesInv
      BY FS_EmptySet DEF Init, TypesInv, LinksTyped, RedirectsTyped, BeforeTyped, ComponentsTyped,
         ClaimsTyped, Decided
    <2>2. FollowInv
      BY DEF Init, FollowInv, GroupsRead, DecidedRead, AllJoined, Written, Current
    <2>3. AgainInv
      BY DEF Init, AgainInv, OthersAlone, Retraced, WrittenSo, ClaimsKeep, Current
    <2> QED
      BY <2>1, <2>2, <2>3
  <1>2. IInv /\ TypesInv /\ FollowInv /\ AgainInv /\ [Next]_vars
          => (TypesInv /\ FollowInv /\ AgainInv)'
    BY TypesKept, LinksKeepFollowing, AgainSteps
  <1> QED
    BY <1>1, <1>2, Invariance, PTL DEF Spec

\* The links reflect the evidence and the decisions whenever they say so, every redirect leads to
\* a live identity of its type, and readers are shown every identity complete, for every number of
\* units, corrections and resolutions.
THEOREM RegistrySound == Spec => []RegistryIsSound
  <1>1. IInv /\ TypesInv /\ FollowInv => RegistryIsSound
    BY RedirectsKnown, LinksReflect, Shown DEF RegistryIsSound, IInv
  <1> QED
    BY <1>1, RegistryInvariance, PTL

\* Resolving again, with nothing changed, changes no link: it meets the same evidence in the same
\* order, finds the components the links stand for, and each claims the identity it had.
THEOREM ResolvingIsIdempotent == Spec => Idempotent
  <1>1. IInv /\ TypesInv /\ FollowInv /\ AgainInv /\ [Next]_vars =>
          [settled = "yes" /\ phase # "idle" /\ UNCHANGED present => UNCHANGED links]_vars
    <2> SUFFICES ASSUME IInv, TypesInv, FollowInv, AgainInv, Next, settled = "yes",
                        phase # "idle", present' = present
                 PROVE  UNCHANGED links
      BY DEF vars
    <2>1. CASE WriteLinks
      <3> USE DEF WriteLinks
      <3>1. ReadNow /\ LinksFollow
        BY <2>1 DEF FollowInv, DecidedRead, Written, Decided, Current
      <3>2. /\ of \in [Units -> rows \cup {None}] /\ units \subseteq Units /\ fixed \subseteq units
            /\ confirmed \subseteq {u \in Units : of[u] # None}
        BY DEF IInv, IdentitiesTypeOK
      <3>3. units = {u \in Units : of[u] # None} /\ fixed = confirmed \cap units
        BY <3>1 DEF ReadNow, LinksFollow, AsRead
      <3>4. confirmed' = confirmed
        BY <2>1, <3>2, <3>3
      <3>5. \A u \in units : assigned[u] = of[u]
        BY <2>1, <3>2 DEF AgainInv, ClaimsKeep, Unassigned
      <3>6. \A u \in Units : of'[u] = of[u]
        BY <2>1, <3>2, <3>3, <3>5
      <3>7. of' = [u \in Units |-> of'[u]]
        BY <2>1
      <3> QED
        BY <3>2, <3>4, <3>6, <3>7 DEF links
    <2>2. CASE Resolve /\ ~WriteLinks
      BY <2>2 DEF Resolve, ReadGroups, ReadPeople, ReadEvidence, JoinNext, KeepConfirmed,
                  ClaimNext, DeleteOrphans, CommitResolution, ResolutionFails, links
    <2>3. CASE Correct
      BY <2>3 DEF Correct, Confirm, Merge, Split, Reject, Unreject, Corrects
    <2>4. CASE UnitAppears \/ EdgeAppears \/ EdgeVanishes \/ Cite
      BY <2>4 DEF UnitAppears, EdgeAppears, EdgeVanishes, Cite, links
    <2>5. CASE UnitVanishes
      BY <2>5 DEF UnitVanishes
    <2> QED
      BY <2>1, <2>2, <2>3, <2>4, <2>5 DEF Next
  <1> QED
    BY <1>1, RegistryInvariance, PTL DEF Spec, Idempotent
==============================================================================
