----------------------------- MODULE Protection -----------------------------
(***************************************************************************)
(* apps/macos/Core: ProtectionStatus.swift and Impact.swift over the path  *)
(* policy.  The paths of a session go up and down while it runs; each      *)
(* stretch with a constant number of paths up is a segment, and            *)
(* computeImpact folds the segments into the figures the user is shown.    *)
(* Definitions named X_Y are mistaken variants of X.                       *)
(***************************************************************************)
EXTENDS PathPolicy

CONSTANTS
  PathNames,    \* configured paths
  Durations,    \* bound: how long a segment lasts
  MaxSegments   \* bound: segments of a session

ASSUME PathsAssumption == IsFiniteSet(PathNames) /\ Durations \subseteq Nat

VARIABLES
  paths,    \* the configured paths: a sequence of [id, up, metered]
  segments  \* the session so far: a sequence of [duration, upCount]

pathVars == <<paths, segments>>
None == "none"
UpCount == Cardinality(UpPaths(paths))
Policies == [mode : Modes, preferred : PathNames \cup {None}]

SessionInit ==
  /\ \E n \in 0..Cardinality(PathNames) :
       \E order \in [1..n -> PathNames], m \in [PathNames -> BOOLEAN] :
         /\ \A i, j \in 1..n : order[i] = order[j] => i = j
         /\ paths = [i \in 1..n |-> [id |-> order[i], up |-> TRUE,
                                     metered |-> m[order[i]]]]
  /\ segments = <<>>

\* A stretch of the session ends and paths may go up or down.
PathChanges ==
  /\ Len(segments) < MaxSegments
  /\ \E d \in Durations :
       segments' = Append(segments, [duration |-> d, upCount |-> UpCount])
  /\ \E up \in [DOMAIN paths -> BOOLEAN] :
       paths' = [i \in DOMAIN paths |-> [paths[i] EXCEPT !.up = up[i]]]

-----------------------------------------------------------------------------
protectionStatus(ps, paused, connecting) ==
  LET up == Cardinality(UpPaths(ps)) IN
  IF paused THEN "paused" ELSE IF connecting THEN "connecting"
  ELSE IF ps = <<>> THEN "off"
  ELSE IF up >= 2 THEN "protected"
  ELSE IF up = 1 /\ Len(ps) >= 2 THEN "degraded"
  ELSE IF up = 1 THEN "atRisk" ELSE "down"

\* computeImpact's loop, one segment.
NoStats == [session |-> 0, covered |-> 0, absorbed |-> 0, failovers |-> 0,
            longest |-> 0, previousUp |-> 0, inDrop |-> FALSE, run |-> 0]

CountSegment_Sticky(s, seg) ==
  LET drop == seg.upCount = 1 /\ (s.previousUp >= 2 \/ s.inDrop)
      run == IF ~drop THEN 0
             ELSE IF s.previousUp >= 2 THEN seg.duration ELSE s.run + seg.duration
  IN [session |-> s.session + seg.duration,
      covered |-> s.covered + (IF seg.upCount >= 2 THEN seg.duration ELSE 0),
      absorbed |-> s.absorbed + (IF drop THEN seg.duration ELSE 0),
      failovers |-> s.failovers +
                    (IF drop /\ s.previousUp >= 2 THEN 1 ELSE 0),
      longest |-> IF run > s.longest THEN run ELSE s.longest,
      previousUp |-> seg.upCount,
      inDrop |-> IF seg.upCount >= 2 THEN FALSE ELSE drop \/ s.inDrop,
      run |-> run]

CountSegment(s, seg) ==
  LET drop == seg.upCount = 1 /\ (s.previousUp >= 2 \/ s.inDrop)
      run == IF ~drop THEN 0
             ELSE IF s.previousUp >= 2 THEN seg.duration ELSE s.run + seg.duration
  IN [session |-> s.session + seg.duration,
      covered |-> s.covered + (IF seg.upCount >= 2 THEN seg.duration ELSE 0),
      absorbed |-> s.absorbed + (IF drop THEN seg.duration ELSE 0),
      failovers |-> s.failovers +
                    (IF drop /\ s.previousUp >= 2 THEN 1 ELSE 0),
      longest |-> IF run > s.longest THEN run ELSE s.longest,
      previousUp |-> seg.upCount,
      inDrop |-> drop,
      run |-> run]

\* The figures after each segment, and after the last.
Figures(segs) ==
  LET stats[n \in 0..Len(segs)] ==
        IF n = 0 THEN NoStats ELSE CountSegment(stats[n - 1], segs[n])
  IN stats
computeImpact(segs) == Figures(segs)[Len(segs)]

-----------------------------------------------------------------------------
Without(ps, k) == [i \in DOMAIN ps |-> [ps[i] EXCEPT !.up = @ /\ i # k]]
Sends(policy, ps) == sendPaths(policy, ps, FALSE) # {}

(* sendPaths and the headline keep their promises for every policy the user may
   choose.  A packet goes somewhere exactly when a path is up and only over
   paths that are up; duplicate, and auto with nothing metered, use them all;
   a metered path carries it only if the user asked for that, there is no
   free path up, or the primary is unstable; and the path the user prefers, if
   it is up, is never left out.  The session is called protected
   ("Two or more paths up: a drop would be absorbed", ProtectionStatus.swift:9)
   exactly when it sends now and would still send after the loss of any one
   path. *)
PolicySound ==
  LET up == IdsOf(paths, UpPaths(paths))
      free == IdsOf(paths, FreePaths(paths))
  IN
  /\ \A policy \in Policies, unstable \in BOOLEAN :
       LET sent == sendPaths(policy, paths, unstable) IN
       /\ sent \subseteq up /\ (sent = {} <=> up = {})
       /\ policy.mode = "duplicate" \/ (policy.mode = "auto" /\ free = up) => sent = up
       /\ policy.mode # "duplicate" =>
            \A p \in sent \ free :
              p = policy.preferred \/ free = {} \/ (unstable /\ policy.mode # "failover")
       /\ policy.preferred \in up => policy.preferred \in sent
  /\ protectionStatus(paths, FALSE, FALSE) = "protected" <=>
       \A policy \in Policies :
         /\ Sends(policy, paths)
         /\ \A k \in DOMAIN paths : Sends(policy, Without(paths, k))

\* The single-path segments that follow a fall from redundancy.
Survived(i) ==
  \E j \in 1..(i - 1) :
    /\ segments[j].upCount >= 2
    /\ \A k \in (j + 1)..i : segments[k].upCount = 1
\* The time the first n segments among S lasted, for each n, and all of them.
Times(S) ==
  LET time[n \in 0..Len(segments)] ==
        IF n = 0 THEN 0
        ELSE time[n - 1] + (IF n \in S THEN segments[n].duration ELSE 0)
  IN time
Lasting(S) == Times(S)[Len(segments)]

(* The figures claim no more than happened (Impact.swift:40): the absorbed
   time is exactly the single-path time that follows a fall from two or more
   paths, the longest drop its longest stretch, and each fall counts once;
   time after a total outage, or before there was redundancy, is not
   claimed. *)
ImpactHonest ==
  LET stats == computeImpact(segments)
      all == DOMAIN segments
      drops == {i \in all : Survived(i)}
  IN
  /\ stats.session = Lasting(all)
  /\ stats.covered = Lasting({i \in all : segments[i].upCount >= 2})
  /\ stats.absorbed = Lasting(drops)
  /\ stats.failovers = Cardinality({i \in drops : segments[i - 1].upCount >= 2})
  /\ \A a, b \in drops : a..b \subseteq drops => Lasting(a..b) <= stats.longest
  /\ \/ stats.longest = 0
     \/ \E a, b \in drops : a..b \subseteq drops /\ Lasting(a..b) = stats.longest
=============================================================================
