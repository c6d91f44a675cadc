----------------------------- MODULE MCUpstream -----------------------------
(***************************************************************************)
(* Instances of Upstream.  What shares no state need not be interleaved:   *)
(* either there are requests for tariffs and every job is over, or there   *)
(* are jobs and no request ever asks.                                      *)
(***************************************************************************)
EXTENDS Upstream

CONSTANTS roof, shed, fence, remote

\* roof and shed fall into one bucket, and fence too, on the other side of a
\* border; the provider of remote has no credentials or needs none
MCBucketOf == [s \in Site |-> IF s = remote THEN "b2" ELSE "b1"]
MCSourceOf == [s \in Site |-> CASE s = fence -> "pvgis" [] s = remote -> "openmeteo"
                                [] OTHER -> "nsrdb"]

MCInit == Init /\ (hasKey <=> \A j \in Job : job[j] = "absent")

MCSpec == MCInit /\ [][Next]_vars /\ RatesFairness /\ TmyFairness
=============================================================================
