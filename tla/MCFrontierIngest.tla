-------------------------- MODULE MCFrontierIngest --------------------------
(* Finite instance of FrontierIngest: a video, a channel its description   *)
(* links to, and a video of that channel.                                  *)
EXTENDS FrontierIngest, TLC

CONSTANTS video, channel, other

\* DiscoveryPolicy::default() with max_depth lowered from 3 to 1, so that two hops
\* already leave the crawl.
MCPolicy == [maxDepth |-> 1, minConfidence |-> 50, minRelevance |-> 0, minPriority |-> 3500]

MCLinks == (video :> {channel}) @@ (channel :> {}) @@ (other :> {video})

\* An admitted link, a shallower but less confident one the policy defers,
\* and a worthless one beyond the maximum depth.
Offers ==
  { [depth |-> 1, confidence |-> 100, relevance |-> 80, novelty |-> 70],
    [depth |-> 0, confidence |-> 40, relevance |-> 90, novelty |-> 80],
    [depth |-> 4, confidence |-> 0, relevance |-> 0, novelty |-> 0] }

MCRequests ==
  Offers \cup [depth : 0..4, confidence : {90, 100}, relevance : {75, 100}, novelty : {80, 100}]

\* Two workers race for two targets that others offer and complete; two recordings
\* interleave with one worker.
MCSettings ==
  { [recordings |-> 0, claims |-> 2, attempts |-> 2, open |-> 1,
     targets |-> {video, channel}, offers |-> Offers],
    [recordings |-> 2, claims |-> 1, attempts |-> 1, open |-> 0, targets |-> {}, offers |-> {}] }

MCSymmetry == Permutations(Workers) \cup Permutations(Enqueuers)

Ok(t) == [target |-> t, ok |-> TRUE]
Failed(t) == [target |-> t, ok |-> FALSE]

\* A single video; the channel with one of its two videos failing; a report
\* whose only item failed.
MCReports ==
  { [seed |-> video, items |-> <<Ok(video)>>],
    [seed |-> channel, items |-> <<Failed(other), Ok(video)>>],
    [seed |-> other, items |-> <<Failed(other)>>] }
=============================================================================
