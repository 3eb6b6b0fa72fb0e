---------------------------- MODULE CorpusPeople ----------------------------
(***************************************************************************)
(* The people of a corpus: automatic face and voice matching               *)
(* (src/face_matching.rs, src/voice_matching.rs), the inference of their   *)
(* names (src/person_names.rs) and what researchers correct in all three.  *)
(* Each of the three serializes its own work by an advisory lock of the    *)
(* corpus: a matching run reads, plans and writes in one transaction, and  *)
(* so do the corrections of its kind; nothing keeps the three kinds of     *)
(* work apart.  A person's clusters are its members here.  Similarity      *)
(* scores are a relation: two tracks are alike or not, and every score of  *)
(* alike tracks lies within the margin of every other.                     *)
(***************************************************************************)
EXTENDS Integers, FiniteSets

CONSTANTS
  Faces, Voices,  \* tracks, numbered in the order the matching takes them
  VideoOf(_),
  RunOf(_),       \* the processing run of the track's video that made it: 1 or 2
  AlikeSets,      \* the sets of tracks that are alike
  Seen(_),        \* voice |-> the faces on screen while it speaks
  Says(_),        \* track |-> the names that clearly belong to whoever it shows or is heard
  Announces(_),   \* voice |-> the names it introduces as somebody else's
  Keys,           \* name keys
  People,         \* ids of people, in the order they are made
  None,
  MaxActs         \* bounds what researchers do and the new processing runs together

Tracks == Faces \cup Voices

ASSUME TracksAssumption ==
  /\ IsFiniteSet(Tracks) /\ Tracks \subseteq Nat \ {0} /\ Faces \cap Voices = {}
  /\ IsFiniteSet(People) /\ People \subseteq Nat
  /\ People \cap Tracks = {} /\ None \notin People \cup Keys \cup Tracks
ASSUME EvidenceAssumption ==
  /\ \A t \in Tracks : RunOf(t) \in 1..2 /\ Says(t) \subseteq Keys
  /\ \A v \in Voices : Seen(v) \subseteq Faces /\ Announces(v) \subseteq Keys
ASSUME PeopleBounds == MaxActs \in Nat

VARIABLES
  reprocessed, \* videos and kinds of track whose second run is complete
  people,      \* rows of people
  made,        \* the people ever made
  members,     \* who holds which track: pairs of a person and a track
  decided,     \* track |-> the researcher's decision
  apart,       \* face_match_rejections and voice_match_rejections: sets of two tracks
  suggested,   \* person_face_voice_links that are unverified, and
  refused,     \* those that are rejected: pairs of a face person and a voice person
  name,        \* person |-> its person_name_attributions row, or None
  rejected,    \* person_name_rejections: pairs of a person and a key
  job,         \* kind of work |-> the plan its running transaction has made, or None
  acts

matchVars == <<people, made, members, decided, apart, suggested, refused>>
nameVars == <<name, rejected>>
peopleVars == <<reprocessed, matchVars, nameVars, job, acts>>

Kinds == {"face", "voice"}
TracksOf(k) == IF k = "face" THEN Faces ELSE Voices
KindOf(t) == IF t \in Faces THEN "face" ELSE "voice"
Slots == {<<VideoOf(t), KindOf(t)>> : t \in Tracks}
Statuses == {"inferred", "confirmed", "user_provided"}
Names == [key : Keys, status : Statuses]
MatchPlans == [joins : SUBSET (People \X Tracks), groups : SUBSET SUBSET Tracks]
NamePlans == [seen : SUBSET People, given : SUBSET ((People \cup Voices) \X Keys)]

PeopleTypeOK ==
  /\ reprocessed \subseteq Slots
  /\ people \subseteq made /\ made \subseteq People
  /\ members \subseteq people \X Tracks
  /\ decided \in [Tracks -> {"none", "unlink", "placed"}]
  /\ \A pair \in apart : \E a, b \in Tracks : a # b /\ pair = {a, b}
  /\ suggested \subseteq people \X people /\ refused \subseteq people \X people
  /\ name \in [People -> Names \cup {None}]
  /\ \A p \in People \ people : name[p] = None
  /\ rejected \subseteq people \X Keys
  /\ \A k \in Kinds : job[k] = None \/ job[k] \in MatchPlans
  /\ job["names"] = None \/ job["names"] \in NamePlans
  /\ acts \in 0..MaxActs

PeopleInit ==
  /\ reprocessed = {} /\ people = {} /\ made = {} /\ members = {}
  /\ decided = [t \in Tracks |-> "none"]
  /\ apart = {} /\ suggested = {} /\ refused = {}
  /\ name = [p \in People |-> None] /\ rejected = {}
  /\ job = [j \in Kinds \cup {"names"} |-> None] /\ acts = 0

Acts == acts < MaxActs /\ acts' = acts + 1

---------------------------------------------------------------------------
(* The tracks and who holds them.                                           *)

Newest(slot) == IF slot \in reprocessed THEN 2 ELSE 1
Present(t) == RunOf(t) <= Newest(<<VideoOf(t), KindOf(t)>>)
Current(t) == RunOf(t) = Newest(<<VideoOf(t), KindOf(t)>>)
HeldIn(m, p, k) == {t \in TracksOf(k) : <<p, t>> \in m}
Holders(t) == {p \in people : <<p, t>> \in members}
Videos(S) == {VideoOf(t) : t \in S}

\* Similarity, undefined for a pair a researcher keeps apart.
Alike(t, u) == \E S \in AlikeSets : {t, u} \subseteq S
Similar(t, u) == Alike(t, u) /\ {t, u} \notin apart

\* What an automatic matching may place: nothing a researcher has placed.
Eligible(k) ==
  {t \in TracksOf(k) : Current(t) /\ decided[t] # "placed" /\ Holders(t) = {}}

\* The ids of n new people, and which of them a group of tracks gets: groups in the order
\* of their first tracks.
Fresh(n) == {p \in People \ made : Cardinality({q \in People \ made : q < p}) < n}
Least(S) == CHOOSE t \in S : \A u \in S : t <= u
PersonOf(group, groups) ==
  CHOOSE p \in Fresh(Cardinality(groups)) :
    Cardinality({q \in Fresh(Cardinality(groups)) : q < p})
      = Cardinality({g \in groups : Least(g) < Least(group)})
Founded(groups) == UNION {{PersonOf(g, groups)} \X g : g \in groups}
\* Every assignment of a plan becomes a member of its person's cluster of the algorithm.
Assigned(plan) == plan.joins \cup Founded(plan.groups)
Founders(groups) == {PersonOf(g, groups) : g \in groups}

---------------------------------------------------------------------------
(* Planning.  Eligible tracks are taken in order, each seeing what those    *)
(* before it have joined: a plan is a function over the tracks' numbers.    *)

Last == CHOOSE n \in Tracks \cup {0} : \A t \in Tracks : t <= n

\* People whose every face is like this one, at least one of them in another video.
FacePeople(t, m) ==
  {p \in people : LET held == HeldIn(m, p, "face") IN
     /\ \E u \in held : VideoOf(u) # VideoOf(t)
     /\ \A u \in held : Similar(t, u)}

\* A face joins the only person it fits; one that fits several stays unresolved and one
\* that fits none is pending.
FacePlan[n \in 0..Last] ==
  IF n = 0 THEN [members |-> members, pending |-> {}]
  ELSE LET before == FacePlan[n - 1]
           fits == FacePeople(n, before.members)
       IN IF n \notin Eligible("face") THEN before
          ELSE IF fits = {} THEN [before EXCEPT !.pending = @ \cup {n}]
          ELSE IF Cardinality(fits) > 1 THEN before
          ELSE [before EXCEPT !.members = @ \cup (fits \X {n})]

\* Complete-link agglomeration: two pending faces come together when no third is like
\* one of them only, and no person fits either.
FaceGroups(plan) ==
  LET Near(t) == {u \in plan.pending : u = t \/ Similar(t, u)}
      free == {t \in plan.pending : FacePeople(t, plan.members) = {}}
      clusters == {{u \in free : Near(u) = Near(t)} : t \in free}
  IN {c \in clusters : Cardinality(Videos(c)) >= 2}

\* A voice may join whoever is like it and holds no voice it is kept apart from.
VoiceFitsButRejected(t, held) == held # {} /\ \A u \in held : Alike(t, u)
VoiceFits(t, held) ==
  held # {} /\ (\A u \in held : {t, u} \notin apart) /\ \A u \in held : Alike(t, u)

VoicePlan[n \in 0..Last] ==
  IF n = 0 THEN [members |-> members, groups |-> {}]
  ELSE LET before == VoicePlan[n - 1]
           fits == {p \in people : VoiceFits(n, HeldIn(before.members, p, "voice"))}
           groups == {g \in before.groups : VoiceFits(n, g)}
       IN IF n \notin Eligible("voice") THEN before
          ELSE CASE fits = {} /\ groups = {} -> [before EXCEPT !.groups = @ \cup {{n}}]
                 [] Cardinality(fits) + Cardinality(groups) > 1 -> before
                 [] groups = {} /\ Cardinality(fits) = 1 ->
                      [before EXCEPT !.members = @ \cup (fits \X {n})]
                 [] fits = {} /\ Cardinality(groups) = 1 ->
                      [before EXCEPT !.groups = (@ \ groups) \cup {g \cup {n} : g \in groups}]

\* A new person needs the voice in at least two videos.
VoiceGroups(plan) == {g \in plan.groups : Cardinality(Videos(g)) >= 2}

PlanOf(k) ==
  IF k = "face" THEN [joins |-> FacePlan[Last].members \ members,
                      groups |-> FaceGroups(FacePlan[Last])]
  ELSE [joins |-> VoicePlan[Last].members \ members, groups |-> VoiceGroups(VoicePlan[Last])]

\* match_corpus_faces and match_corpus_voices: what the transaction reads, and plans from.
ReadMatches(k) ==
  /\ job[k] = None
  /\ job' = [job EXCEPT ![k] = PlanOf(k)]
  /\ UNCHANGED <<reprocessed, matchVars, nameVars, acts>>

---------------------------------------------------------------------------
(* What a matching writes.                                                  *)

\* Members of older runs that a member of the current run has replaced: never one a
\* researcher has decided on.
Replaced(m, k) ==
  {e \in m : /\ e[2] \in TracksOf(k) /\ decided[e[2]] = "none"
             /\ \E t \in HeldIn(m, e[1], k) :
                  Current(t) /\ VideoOf(t) = VideoOf(e[2]) /\ RunOf(t) # RunOf(e[2])}

\* Face-only people on screen while a voice-only person speaks: suggested when no other is,
\* and in two videos at least.
Shared(m, f, v) ==
  {VideoOf(t) : t \in {u \in HeldIn(m, v, "voice") : Seen(u) \cap HeldIn(m, f, "face") # {}}}
Supported(m, ids) ==
  LET only(k, other) == {p \in ids : HeldIn(m, p, k) # {} /\ HeldIn(m, p, other) = {}}
      near(v) == {f \in only("face", "voice") : Shared(m, f, v) # {}}
  IN {l \in only("face", "voice") \X only("voice", "face") :
        near(l[2]) = {l[1]} /\ Cardinality(Shared(m, l[1], l[2])) >= 2}

\* The upsert leaves a rejected link alone; unverified ones without support go.
LinksReopened(supported) == supported
LinksAfter(supported) == supported \ refused

Joined(plan) == members \cup Assigned(plan)

\* The write fails as a whole if somebody it adds to is gone.
WriteMatches(k) ==
  /\ job[k] # None
  /\ Cardinality(People \ made) >= Cardinality(job[k].groups)
  /\ LET plan == job[k]
         kept == Joined(plan) \ Replaced(Joined(plan), k)
     IN IF {e[1] : e \in plan.joins} \subseteq people
        THEN /\ people' = people \cup Founders(plan.groups)
             /\ made' = made \cup Founders(plan.groups)
             /\ members' = kept
             /\ suggested' = IF k = "voice" THEN LinksAfter(Supported(kept, people'))
                             ELSE suggested
        ELSE UNCHANGED <<people, made, members, suggested>>
  /\ job' = [job EXCEPT ![k] = None]
  /\ UNCHANGED <<reprocessed, decided, apart, refused, nameVars, acts>>

\* A complete run over a video again: its tracks are the current ones from now on.
Reprocess ==
  /\ Acts
  /\ \E slot \in {<<VideoOf(t), KindOf(t)>> : t \in {u \in Tracks : RunOf(u) = 2}} \ reprocessed :
       reprocessed' = reprocessed \cup {slot}
  /\ UNCHANGED <<matchVars, nameVars, job>>

---------------------------------------------------------------------------
(* Corrections of one kind of track wait for the matching of that kind.     *)

\* Tracks that leave a person are kept apart from those that stay behind; placing tracks
\* with a person supersedes what kept them apart from it and from each other.
Left(selected, k) ==
  {{c[1], c[2]} : c \in {d \in selected \X (TracksOf(k) \ selected) :
                           Holders(d[1]) \cap Holders(d[2]) # {}}}
Superseded(selected, p, k) ==
  {pair \in apart : /\ pair \subseteq HeldIn(members, p, k) \cup selected
                    /\ pair \cap selected # {}}
MovedBesides(selected, to) == members \cup (to \X selected)
Moved(selected, to) == {e \in members : e[2] \notin selected} \cup (to \X selected)

Correct(k, selected, decision) ==
  /\ job[k] = None /\ Acts
  /\ selected # {} /\ \A t \in selected : Present(t)
  /\ decided' = [t \in Tracks |-> IF t \in selected THEN decision ELSE decided[t]]
  /\ UNCHANGED <<reprocessed, suggested, refused, nameVars, job>>

Unlink(k) ==
  \E selected \in SUBSET TracksOf(k) :
    /\ \A t \in selected : Holders(t) # {}
    /\ Correct(k, selected, "unlink")
    /\ apart' = apart \cup Left(selected, k)
    /\ members' = Moved(selected, {})
    /\ UNCHANGED <<people, made>>

PlaceWith(p, k, selected) ==
  /\ Correct(k, selected, "placed")
  /\ apart' = (apart \cup Left(selected, k)) \ Superseded(selected, p, k)
  /\ members' = Moved(selected, {p})

Link(k) ==
  \E selected \in SUBSET TracksOf(k), p \in people :
    PlaceWith(p, k, selected) /\ UNCHANGED <<people, made>>

Split(k) ==
  \E selected \in SUBSET TracksOf(k), p \in Fresh(1) :
    PlaceWith(p, k, selected) /\ people' = people \cup {p} /\ made' = made \cup {p}

Confirm(k) ==
  \E p \in people :
    LET selected == HeldIn(members, p, k) IN
      /\ Correct(k, selected, "placed")
      /\ apart' = apart \ Superseded(selected, p, k)
      /\ members' = Moved(selected, {p})
      /\ UNCHANGED <<people, made>>

\* review_face_voice_link, under the lock of voice matching: only an open suggestion.
RefuseLink ==
  /\ job["voice"] = None /\ Acts
  /\ \E l \in suggested : suggested' = suggested \ {l} /\ refused' = refused \cup {l}
  /\ UNCHANGED <<reprocessed, people, made, members, decided, apart, nameVars, job>>

\* The voice person's voices move to the face person.  Then it is deleted, with whatever
\* else is by now its own.
ConfirmLink ==
  /\ job["voice"] = None /\ Acts
  /\ \E l \in suggested :
       LET Without(S) == {e \in S : l[2] \notin {e[1], e[2]}} IN
         /\ people' = people \ {l[2]}
         /\ members' = {e \in members : e[1] # l[2]}
                         \cup ({l[1]} \X HeldIn(members, l[2], "voice"))
         /\ suggested' = Without(suggested) /\ refused' = Without(refused)
         /\ name' = [name EXCEPT ![l[2]] = None]
         /\ rejected' = {e \in rejected : e[1] # l[2]}
  /\ UNCHANGED <<reprocessed, made, decided, apart, job>>

---------------------------------------------------------------------------
(* Names.  A subject is a person, or an eligible voice nobody holds, which  *)
(* becomes a person if its own introduction names it.                       *)

Protected(p) == name[p] # None /\ name[p].status # "inferred"

\* A track two people hold counts for the later of them.
OwnedBy(s) ==
  IF s \in People
  THEN {t \in Tracks : s \in Holders(t) /\ \A p \in Holders(t) : p <= s}
  ELSE {s} \cap Eligible("voice")

Announced(s) == UNION {Announces(t) : t \in OwnedBy(s) \cap Voices}
SaidOf(s) == UNION {Says(t) : t \in {u \in OwnedBy(s) : Current(u)}}
KeysOf(s) == {k \in SaidOf(s) : <<s, k>> \notin rejected} \ Announced(s)

Subjects == people \cup Eligible("voice")
Claimants(k) == {s \in Subjects : KeysOf(s) = {k}}
                  \cup {p \in people : Protected(p) /\ name[p].key = k}

\* Nobody else has a claim to the name; a voice nobody holds never takes it from a person.
Unrivalled(s, k) ==
  \A c \in Claimants(k) \ {s} : s \in people /\ c \notin people

\* What infer_person_names loads and plans, its reads taken together.
ReadNames ==
  /\ job["names"] = None
  /\ job' = [job EXCEPT !["names"] =
       [seen |-> {p \in people : ~Protected(p)},
        given |-> {g \in Subjects \X Keys :
                     /\ KeysOf(g[1]) = {g[2]} /\ Unrivalled(g[1], g[2])
                     /\ g[1] \in people => ~Protected(g[1])}]]
  /\ UNCHANGED <<reprocessed, matchVars, nameVars, acts>>

\* infer_person_names writes: who was there to name is named afresh, and every voice that
\* names itself becomes a person, whoever holds it by now.
WriteNames ==
  /\ job["names"] # None
  /\ LET plan == job["names"]
         groups == {{g[1]} : g \in {h \in plan.given : h[1] \in Voices}}
         Subject(g) == IF g[1] \in Voices THEN PersonOf({g[1]}, groups) ELSE g[1]
         given == {<<Subject(g), g[2]>> : g \in plan.given}
     IN /\ Cardinality(People \ made) >= Cardinality(groups)
        /\ IF {g[1] : g \in plan.given} \ Voices \subseteq people
           THEN /\ people' = people \cup Founders(groups) /\ made' = made \cup Founders(groups)
                /\ members' = members \cup Founded(groups)
                /\ name' = [p \in People |->
                     IF \E g \in given : g[1] = p
                     THEN [key |-> (CHOOSE g \in given : g[1] = p)[2], status |-> "inferred"]
                     ELSE IF p \in plan.seen THEN None ELSE name[p]]
           ELSE UNCHANGED <<people, made, members, name>>
  /\ job' = [job EXCEPT !["names"] = None]
  /\ UNCHANGED <<reprocessed, decided, apart, suggested, refused, rejected, acts>>

\* correct_person_name waits for an inference.
CorrectName(p) ==
  /\ job["names"] = None /\ Acts
  /\ UNCHANGED <<reprocessed, matchVars, job>>
Reject(p) == IF name[p] = None THEN {} ELSE {<<p, name[p].key>>}

ConfirmName(p) ==
  /\ CorrectName(p) /\ name[p] # None
  /\ name' = [name EXCEPT ![p].status = "confirmed"]
  /\ UNCHANGED rejected

RejectName(p) ==
  /\ CorrectName(p) /\ name[p] # None
  /\ rejected' = rejected \cup Reject(p)
  /\ name' = [name EXCEPT ![p] = None]

ReplaceName(p, k) ==
  /\ CorrectName(p)
  /\ rejected' = (rejected \cup Reject(p)) \ {<<p, k>>}
  /\ name' = [name EXCEPT ![p] = [key |-> k, status |-> "user_provided"]]

---------------------------------------------------------------------------
Match == \E k \in Kinds : ReadMatches(k) \/ WriteMatches(k)
Correction ==
  \/ \E k \in Kinds : Unlink(k) \/ Link(k) \/ Split(k) \/ Confirm(k)
  \/ RefuseLink
  \/ ConfirmLink
  \/ \E p \in people : \/ ConfirmName(p)
                       \/ RejectName(p)
                       \/ \E k \in Keys : ReplaceName(p, k)

PeopleNext == Match \/ ReadNames \/ WriteNames \/ Correction \/ Reprocess

PeopleSpec == PeopleInit /\ [][PeopleNext]_peopleVars

---------------------------------------------------------------------------
(* What researchers are shown.                                              *)

\* person_occurrences: every track of a person, of older runs too; nobody who is gone has any.
Occurrences(p) ==
  [shown |-> {f \in Faces : p \in Holders(f)}, heard |-> {v \in Voices : p \in Holders(v)},
   videos |-> {VideoOf(t) : t \in {u \in Tracks : p \in Holders(u)}}]

\* The suggestions are read with the review of voices.
FaceLinks(k) == IF k = "voice" THEN suggested ELSE {}

\* Current tracks nobody holds, and whether a researcher has taken them from somebody.
Unresolved(k) ==
  {[track |-> t, rejected |-> decided[t] # "none"] :
     t \in {u \in TracksOf(k) : Current(u) /\ Holders(u) = {}}}

\* review_face_matches and review_voice_matches: the people with their tracks, and the rest.
MatchReview(k) ==
  [groups |-> {[person |-> p, tracks |-> HeldIn(members, p, k)] :
                 p \in {q \in people : HeldIn(members, q, k) # {}}},
   unresolved |-> Unresolved(k), links |-> FaceLinks(k)]

\* Why a person has no name: names in conflict, a name somebody else has a claim to, or
\* names a researcher rejected or the person introduced as another's.
UnresolvedName(p) ==
  IF name[p] # None THEN {}
  ELSE IF Cardinality(KeysOf(p)) > 1 THEN KeysOf(p)
  ELSE IF KeysOf(p) = {} THEN SaidOf(p)
  ELSE {k \in KeysOf(p) : ~Unrivalled(p, k)}

NameReview(p) ==
  [name |-> name[p], candidates |-> UnresolvedName(p),
   rejected |-> {e[2] : e \in {r \in rejected : r[1] = p}}]

---------------------------------------------------------------------------
Together(t, u) == Holders(t) \cap Holders(u) # {}
Automatic == acts' = acts
\* An inference ends, and nobody it named is gone.
NamesAreWritten ==
  /\ job["names"] # None /\ job'["names"] = None
  /\ {g[1] : g \in job["names"].given} \ Voices \subseteq people

(* What a researcher has placed stays where it was put: neither matching   *)
(* nor naming nor a newer run of the video takes the track away, and no    *)
(* matching gives it to somebody else besides.  And tracks a researcher    *)
(* keeps apart never come together again, by any matching, naming or       *)
(* further correction, unless a researcher places them together, which     *)
(* ends the keeping apart.  The one exception is a link of a face person   *)
(* and a voice person: it may have been suggested before the voices were   *)
(* taken apart (the rejection tables and their readers).                   *)
PlacementsStand ==
  [][/\ Automatic => \A t \in Tracks : decided[t] = "placed" =>
          /\ Holders(t) \subseteq Holders(t)'
          /\ job'["names"] = job["names"] => Holders(t)' = Holders(t)
     /\ people \subseteq people' =>
          \A t, u \in Tracks : {t, u} \in apart /\ Together(t, u)' /\ t # u =>
            Together(t, u) \/ {t, u} \notin apart']_peopleVars

(* The reviews leave nothing out: a current face is shown once, with one    *)
(* person or as unresolved, a current voice at least once, and a person's   *)
(* occurrences are the groups it is shown in.  Whatever is unresolved the   *)
(* next matching may place, except faces placed with a voice person whom a  *)
(* link then deleted: a voice that was placed is always somebody's.  No     *)
(* name is shown to a person as both its own and rejected.                  *)
ReviewsAreComplete ==
  LET faces == MatchReview("face")
      voices == MatchReview("voice")
      shownIn(k, t) == {g.person : g \in {h \in (IF k = "face" THEN faces ELSE voices).groups :
                                            t \in h.tracks}}
      openFaces == {u.track : u \in faces.unresolved}
      openVoices == {u.track : u \in voices.unresolved}
  IN /\ \A f \in Faces : Current(f) =>
          Cardinality(shownIn("face", f)) = IF f \in openFaces THEN 0 ELSE 1
     /\ \A v \in Voices : Current(v) => (shownIn("voice", v) = {}) = (v \in openVoices)
     /\ \A p \in people : LET o == Occurrences(p) IN
          /\ o.shown = {f \in Faces : p \in shownIn("face", f)}
          /\ o.heard = {v \in Voices : p \in shownIn("voice", v)}
     /\ openVoices \subseteq Eligible("voice")
     /\ \A f \in openFaces \ Eligible("face") : decided[f] = "placed"
     /\ \A p \in people : LET shown == NameReview(p) IN
          shown.name # None => shown.name.key \notin shown.rejected /\ shown.candidates = {}

(* A plan not written yet changes no table: without it the tables come      *)
(* about just the same, and are looked at then.                             *)
Unplanned == \A j \in DOMAIN job : job[j] = None

(* The tables are consistent: only people who exist hold tracks, links,     *)
(* names and rejections (the foreign keys and their cascades), and a face   *)
(* belongs to one of them at most, whatever matching and corrections did;   *)
(* and what researchers review of them is complete.                         *)
OneFacePerson ==
  /\ PeopleTypeOK
  /\ \A f \in Faces : Cardinality(Holders(f)) <= 1
  /\ Unplanned => ReviewsAreComplete

(* The review of names stands: a rejected name is never inferred for that  *)
(* person again, and no inference touches a confirmed or provided one.  So *)
(* does the review of links: a rejected link of two people stays rejected  *)
(* while both exist, and is never offered again, however often the         *)
(* matching reruns.  And an inference names people unmistakably: after it  *)
(* no one else, by whatever right, has the name of a person it named.      *)
ReviewsStand ==
  [][/\ \A l \in refused : l \in people' \X people' => l \in refused' \ suggested'
     /\ \A p \in people : name'[p] # None /\ name'[p].status = "inferred" =>
           <<p, name'[p].key>> \notin rejected'
     /\ Automatic => \A p \in people : Protected(p) => name'[p] = name[p]
     /\ NamesAreWritten =>
          \A p, q \in people' :
            /\ p # q /\ name'[p] # None /\ name'[q] # None
            /\ name'[p].status = "inferred"
            => name'[p].key # name'[q].key]_peopleVars

=============================================================================
