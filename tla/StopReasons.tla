----------------------------- MODULE StopReasons -----------------------------
(***************************************************************************)
(* The vocabulary every part of the runtime shares: why an actor stops,    *)
(* how severe a stop request is, and how a stop lane answers a request.    *)
(* A Failure's error and a panic's payload are dropped: nothing here tells *)
(* two failures apart.                                                     *)
(***************************************************************************)
EXTENDS Naturals

(* StopReason::{Graceful, ParentRequest}: pre_stop may veto them.          *)
Requested == {"Graceful", "ParentRequest"}

(* StopReason::{Failure, ParentKilled, Cancelled}: not vetoable, on_stopped*)
(* still runs.                                                             *)
Forced == {"Failure", "ParentKilled", "Cancelled"}

Reasons == Requested \cup Forced \cup {"Kill"}

(* Option::<StopReason>::None.                                             *)
None == "none"

(* StopSeverity::of, as the position in the enum's derived order.          *)
Severity(r) ==
    IF r = "Kill" THEN 3 ELSE IF r \in Forced THEN 2 ELSE 1

(* StopSeverity::rank: the order of two requests of the same severity.     *)
Rank(r) ==
    IF r = "Failure" THEN 2
    ELSE IF r \in {"ParentRequest", "ParentKilled"} THEN 1 ELSE 0

(* LaneState.                                                              *)
LaneStates ==
    [reason: Reasons \cup {None}, generation: Nat, killOnly: BOOLEAN, sealed: BOOLEAN]

FreshLane == [reason |-> None, generation |-> 0, killOnly |-> FALSE, sealed |-> FALSE]

Answers == {"Recorded", "Superseded", "Refused"}

(* The early returns of lane_accept that answer Refused.                   *)
RefusedBy(lane, new, rxGone) ==
    rxGone \/ lane.sealed \/ (lane.killOnly /\ new # "Kill")

(* Mutant: the rank is ignored.                                            *)
ReplacesUnranked(new, stored) == stored = None \/ Severity(new) >= Severity(stored)

(* A request of equal severity replaces the stored one when it ranks at    *)
(* least as high; one of higher severity always does.                      *)
Replaces(new, stored) ==
    \/ stored = None
    \/ Severity(new) > Severity(stored)
    \/ Severity(new) = Severity(stored) /\ Rank(new) >= Rank(stored)

Supersedes(stored, new) == stored # None /\ Severity(new) < Severity(stored)

(* lane_accept: the answer the caller of try_raise gets.                   *)
AnswerTo(lane, new, rxGone) ==
    IF RefusedBy(lane, new, rxGone) THEN "Refused"
    ELSE IF Supersedes(lane.reason, new) THEN "Superseded"
    ELSE "Recorded"

(* Mutant: the last request written wins.                                  *)
RaisedLaneLastWins(lane, new, rxGone) ==
    IF RefusedBy(lane, new, rxGone) THEN lane
    ELSE [lane EXCEPT !.generation = @ + 1, !.reason = new]

(* Mutant: a recorded request rewrites the whole state.                    *)
RaisedLaneFresh(lane, new, rxGone) ==
    IF AnswerTo(lane, new, rxGone) # "Recorded" THEN lane
    ELSE [FreshLane EXCEPT !.generation = lane.generation + 1,
                           !.reason = IF Replaces(new, lane.reason) THEN new ELSE lane.reason]

(* LaneCell::raise: the lane after the one critical section that decides   *)
(* and writes. Every recorded request moves the generation, one that does  *)
(* not replace the stored reason included.                                 *)
RaisedLane(lane, new, rxGone) ==
    IF AnswerTo(lane, new, rxGone) # "Recorded" THEN lane
    ELSE [lane EXCEPT !.generation = @ + 1,
                      !.reason = IF Replaces(new, @) THEN new ELSE @]

(* The order the lane climbs: by severity, then by rank.                   *)
AtLeast(r, s) ==
    \/ s = None
    \/ r # None /\ Severity(r) > Severity(s)
    \/ r # None /\ Severity(r) = Severity(s) /\ Rank(r) >= Rank(s)
=============================================================================
