--------------------------- MODULE StopLaneProofs ---------------------------
(***************************************************************************)
(* The stop lane's guarantees for any number of raisers and any number of  *)
(* requests. The inductive invariant adds to the checked ones where the    *)
(* slot can be armed and that a waiting loop is armed or scheduled.        *)
(***************************************************************************)
EXTENDS StopLane, TLAPS

(* From the registration on, the slot is armed or its waker was called.    *)
ArmedOrWoken == pc \in {"recheck", "parked"} => armed \/ woken

LaneInv ==
    /\ TypeOK /\ VersionFollows /\ ArmedOrWoken
    /\ NoLostWake /\ NoLostNotify /\ KillKept

-----------------------------------------------------------------------------
(* What one raise does to the lane, whatever the request and its answer:   *)
(* the type, the flags, the generation and the climb (LaneCell::raise).    *)
LEMMA RaiseStep ==
    ASSUME NEW l \in LaneStates, NEW r \in Reasons, NEW gone \in BOOLEAN,
           NEW n, n = RaisedLane(l, r, gone)
    PROVE  /\ n \in LaneStates
           /\ n.killOnly = l.killOnly /\ n.sealed = l.sealed
           /\ n = l \/ n.generation = l.generation + 1
           /\ l.sealed => n = l
           /\ l.reason = "Kill" => n.reason = "Kill"
           /\ r = "Kill" /\ AnswerTo(l, r, gone) = "Recorded" =>
                 n.reason = "Kill" /\ ~l.sealed
           /\ AtLeast(n.reason, l.reason)
<1> DEFINE new == IF Replaces(r, l.reason) THEN r ELSE l.reason
<1>1. l.generation \in Nat /\ l.reason \in Reasons \cup {None}
      /\ l.killOnly \in BOOLEAN /\ l.sealed \in BOOLEAN
  BY DEF LaneStates
<1>2. CASE AnswerTo(l, r, gone) # "Recorded"
  <2>1. n = l
    BY <1>2 DEF RaisedLane
  <2>2. AtLeast(l.reason, l.reason)
    BY <1>1 DEF AtLeast, Severity, Rank, Reasons, Requested, Forced, None
  <2> QED
    BY <1>2, <2>1, <2>2
<1>3. CASE AnswerTo(l, r, gone) = "Recorded"
  <2>1. n = [l EXCEPT !.generation = l.generation + 1, !.reason = new]
    BY <1>3 DEF RaisedLane
  <2>2. new \in Reasons \cup {None}
    BY <1>1 DEF Reasons
  <2>3. n \in LaneStates /\ n.killOnly = l.killOnly /\ n.sealed = l.sealed
        /\ n.generation = l.generation + 1 /\ n.reason = new
    <3> HIDE DEF new
    <3>1. l.generation + 1 \in Nat
      BY <1>1
    <3> QED
      BY <1>1, <2>1, <2>2, <3>1 DEF LaneStates
  <2>4. ~l.sealed /\ ~Supersedes(l.reason, r)
    BY <1>3 DEF AnswerTo, RefusedBy
  <2>5. l.reason = "Kill" => new = "Kill"
    BY <2>4 DEF Supersedes, Severity, Reasons, Requested, Forced, None
  <2>6. r = "Kill" => new = "Kill"
    BY <1>1 DEF Replaces, Severity, Rank, Reasons, Requested, Forced, None
  <2>7. AtLeast(new, l.reason)
    BY <1>1, <2>4 DEF AtLeast, Replaces, Supersedes, Severity, Rank, Reasons,
                      Requested, Forced, None
  <2> QED
    BY <2>3, <2>4, <2>5, <2>6, <2>7
<1> QED
  BY <1>2, <1>3 DEF AnswerTo

(* The invariant holds of a lane just created (StopLane::new).             *)
LEMMA LaneInit == Init => LaneInv
<1> SUFFICES ASSUME Init PROVE LaneInv
  OBVIOUS
<1>1. TypeOK
  BY DEF Init, TypeOK, LaneStates, FreshLane, LoopPlaces, RaiserPlaces
<1>2. VersionFollows
  BY DEF Init, VersionFollows, FreshLane
<1>3. ArmedOrWoken /\ NoLostWake /\ NoLostNotify /\ KillKept
  BY DEF Init, ArmedOrWoken, NoLostWake, NoLostNotify, KillKept
<1> QED
  BY <1>1, <1>2, <1>3 DEF LaneInv

(* A raise preserves the invariant: the version moves with the state, the  *)
(* raiser that moved it has both wakes still to make, and a Kill it was    *)
(* told about is stored.                                                   *)
LEMMA RaisePreserves ==
    ASSUME LaneInv, NEW p \in Raisers, NEW r \in Reasons, TryRaise(p, r)
    PROVE  LaneInv'
<1> USE DEF LaneInv
<1>1. /\ lane' \in LaneStates
      /\ lane'.sealed = lane.sealed
      /\ lane' = lane \/ lane'.generation = lane.generation + 1
      /\ lane.sealed => lane' = lane
      /\ lane.reason = "Kill" => lane'.reason = "Kill"
      /\ r = "Kill" /\ AnswerTo(lane, r, rxGone) = "Recorded" =>
            lane'.reason = "Kill" /\ ~lane.sealed
  <2>1. lane \in LaneStates /\ rxGone \in BOOLEAN
    BY DEF TypeOK
  <2>2. lane' = RaisedLane(lane, r, rxGone)
    BY DEF TryRaise
  <2> QED
    BY <2>1, <2>2, RaiseStep
<1>2. version' \in Nat /\ version' = lane'.generation
  BY <1>1 DEF TryRaise, LaneStates
<1>3. raiser' \in [Raisers -> RaiserPlaces]
  BY DEF TypeOK, TryRaise, RaiserPlaces
<1>4. killTold' \in BOOLEAN
  BY DEF TryRaise, TypeOK
<1>5. TypeOK'
  BY <1>1, <1>2, <1>3, <1>4 DEF TypeOK, TryRaise
<1>6. VersionFollows'
  BY <1>1, <1>2 DEF VersionFollows, TypeOK, TryRaise, LaneStates
<1>7. ArmedOrWoken'
  BY DEF ArmedOrWoken, TryRaise
<1>8. CASE lane' = lane
  <2>1. version' = version /\ raiser' = raiser /\ killTold' = killTold
    <3>1. raiser' = raiser
      BY <1>8 DEF TryRaise, TypeOK
    <3>2. version' = version
      BY <1>2, <1>8 DEF VersionFollows
    <3>3. r = "Kill" /\ AnswerTo(lane, r, rxGone) = "Recorded" => FALSE
      <4> SUFFICES ASSUME AnswerTo(lane, r, rxGone) = "Recorded" PROVE lane' # lane
        BY <1>8
      <4>1. lane' = [lane EXCEPT !.generation = @ + 1,
                                 !.reason = IF Replaces(r, @) THEN r ELSE @]
        BY DEF TryRaise, RaisedLane
      <4>2. lane.generation \in Nat /\ lane'.generation = lane.generation + 1
        BY <4>1 DEF TypeOK, LaneStates
      <4> QED
        BY <4>2
    <3> QED
      BY <3>1, <3>2, <3>3 DEF TryRaise, TypeOK
  <2> QED
    BY <1>5, <1>6, <1>7, <1>8, <2>1
       DEF NoLostWake, NoLostNotify, KillKept, TryRaise, unseen
<1>9. CASE lane' # lane
  <2>1. raiser'[p] = "wake"
    BY <1>9 DEF TryRaise, TypeOK
  <2>2. NoLostWake'
    BY <2>1 DEF NoLostWake, ArmedOrWoken, TryRaise
  <2>3. NoLostNotify'
    BY <2>1 DEF NoLostNotify, TryRaise
  <2>4. ~lane.sealed /\ ~lane'.sealed
    BY <1>1, <1>9 DEF TypeOK, LaneStates
  <2>5. KillKept'
    BY <1>1, <2>4 DEF KillKept, TryRaise
  <2> QED
    BY <1>5, <1>6, <1>7, <2>2, <2>3, <2>5
<1> QED
  BY <1>8, <1>9

(* The two wakes of a raise preserve the invariant.                        *)
LEMMA WakesPreserve ==
    ASSUME LaneInv, NEW p \in Raisers, WakeReader(p) \/ NotifySignals(p)
    PROVE  LaneInv'
<1> USE DEF LaneInv
<1>1. CASE WakeReader(p)
  <2>1. raiser' \in [Raisers -> RaiserPlaces] /\ raiser'[p] = "notify"
    BY <1>1 DEF WakeReader, TypeOK, RaiserPlaces
  <2>2. woken' \in BOOLEAN /\ (woken \/ armed => woken')
    BY <1>1 DEF WakeReader, TypeOK
  <2>3. TypeOK' /\ VersionFollows' /\ KillKept'
    BY <1>1, <2>1, <2>2 DEF WakeReader, TypeOK, VersionFollows, KillKept, cell
  <2>4. ArmedOrWoken' /\ NoLostWake'
    BY <1>1, <2>2 DEF WakeReader, ArmedOrWoken, NoLostWake, cell, unseen
  <2>5. NoLostNotify'
    BY <1>1, <2>1 DEF WakeReader, NoLostNotify
  <2> QED
    BY <2>3, <2>4, <2>5
<1>2. CASE NotifySignals(p)
  <2>1. raiser' \in [Raisers -> RaiserPlaces]
        /\ \A q \in Raisers : raiser[q] = "wake" => raiser'[q] = "wake"
    BY <1>2 DEF NotifySignals, TypeOK, RaiserPlaces
  <2>2. TypeOK' /\ VersionFollows' /\ KillKept' /\ ArmedOrWoken'
    BY <1>2, <2>1 DEF NotifySignals, TypeOK, VersionFollows, KillKept, ArmedOrWoken, cell
  <2>3. NoLostWake'
    BY <1>2, <2>1 DEF NotifySignals, NoLostWake, cell, unseen
  <2>4. NoLostNotify'
    BY <1>2 DEF NotifySignals, NoLostNotify
  <2> QED
    BY <2>2, <2>3, <2>4
<1> QED
  BY <1>1, <1>2

(* Every step of the run loop on the lane preserves the invariant.         *)
LEMMA LoopPreserves ==
    ASSUME LaneInv,
           \/ TurnBoundary \/ FirstRead \/ Register \/ SecondRead \/ Repoll
           \/ Observe \/ TurnReturns \/ CloseToNonKill \/ CreateNotified \/ ReadChanged
           \/ Notified \/ OtherArm \/ Seal \/ DropRx \/ Abort
    PROVE  LaneInv'
<1> USE DEF LaneInv, cell
<1>1. CASE TurnBoundary
  <2>1. TypeOK'
    BY <1>1 DEF TurnBoundary, TypeOK, LoopPlaces
  <2>2. VersionFollows' /\ KillKept'
    BY <1>1 DEF TurnBoundary, VersionFollows, KillKept, TypeOK
  <2>3. ArmedOrWoken' /\ NoLostWake' /\ NoLostNotify'
    BY <1>1 DEF TurnBoundary, ArmedOrWoken, NoLostWake, NoLostNotify, unseen
  <2> QED
    BY <2>1, <2>2, <2>3
<1>2. CASE FirstRead
  <2>1. TypeOK'
    BY <1>2 DEF FirstRead, TypeOK, LoopPlaces
  <2>2. VersionFollows' /\ KillKept'
    BY <1>2 DEF FirstRead, VersionFollows, KillKept, TypeOK
  <2>3. ArmedOrWoken' /\ NoLostWake' /\ NoLostNotify'
    BY <1>2 DEF FirstRead, ArmedOrWoken, NoLostWake, NoLostNotify, unseen
  <2> QED
    BY <2>1, <2>2, <2>3
<1>3. CASE Register
  <2>1. TypeOK'
    BY <1>3 DEF Register, TypeOK, LoopPlaces
  <2>2. VersionFollows' /\ KillKept'
    BY <1>3 DEF Register, VersionFollows, KillKept, TypeOK
  <2>3. ArmedOrWoken' /\ NoLostWake' /\ NoLostNotify'
    BY <1>3 DEF Register, ArmedOrWoken, NoLostWake, NoLostNotify, unseen
  <2> QED
    BY <2>1, <2>2, <2>3
<1>4. CASE SecondRead
  <2>1. TypeOK'
    BY <1>4 DEF SecondRead, TypeOK, LoopPlaces
  <2>2. VersionFollows' /\ KillKept'
    BY <1>4 DEF SecondRead, VersionFollows, KillKept, TypeOK
  <2>3. ArmedOrWoken' /\ NoLostWake' /\ NoLostNotify'
    BY <1>4 DEF SecondRead, ArmedOrWoken, NoLostWake, NoLostNotify, unseen
  <2> QED
    BY <2>1, <2>2, <2>3
<1>5. CASE Repoll
  <2>1. TypeOK'
    BY <1>5 DEF Repoll, TypeOK, LoopPlaces
  <2>2. VersionFollows' /\ KillKept'
    BY <1>5 DEF Repoll, VersionFollows, KillKept, TypeOK
  <2>3. ArmedOrWoken' /\ NoLostWake' /\ NoLostNotify'
    BY <1>5 DEF Repoll, ArmedOrWoken, NoLostWake, NoLostNotify, unseen
  <2> QED
    BY <2>1, <2>2, <2>3
<1>6. CASE Observe
  <2>1. TypeOK'
    BY <1>6 DEF Observe, TypeOK, LoopPlaces
  <2>2. VersionFollows' /\ KillKept'
    BY <1>6 DEF Observe, VersionFollows, KillKept, TypeOK
  <2>3. ArmedOrWoken' /\ NoLostWake' /\ NoLostNotify'
    BY <1>6 DEF Observe, ArmedOrWoken, NoLostWake, NoLostNotify, unseen
  <2> QED
    BY <2>1, <2>2, <2>3
<1>7. CASE TurnReturns
  <2>1. TypeOK'
    BY <1>7 DEF TurnReturns, TypeOK, LoopPlaces
  <2>2. VersionFollows' /\ KillKept'
    BY <1>7 DEF TurnReturns, VersionFollows, KillKept, TypeOK
  <2>3. ArmedOrWoken' /\ NoLostWake' /\ NoLostNotify'
    BY <1>7 DEF TurnReturns, ArmedOrWoken, NoLostWake, NoLostNotify, unseen
  <2> QED
    BY <2>1, <2>2, <2>3
<1>8. CASE CloseToNonKill
  <2>1. TypeOK'
    BY <1>8 DEF CloseToNonKill, TypeOK, LoopPlaces, LaneStates
  <2>2. VersionFollows' /\ KillKept'
    BY <1>8 DEF CloseToNonKill, VersionFollows, KillKept, TypeOK, LaneStates
  <2>3. ArmedOrWoken' /\ NoLostWake' /\ NoLostNotify'
    BY <1>8 DEF CloseToNonKill, ArmedOrWoken, NoLostWake, NoLostNotify, unseen
  <2> QED
    BY <2>1, <2>2, <2>3
<1>9. CASE CreateNotified
  <2>1. TypeOK'
    BY <1>9 DEF CreateNotified, TypeOK, LoopPlaces
  <2>2. VersionFollows' /\ KillKept'
    BY <1>9 DEF CreateNotified, VersionFollows, KillKept, TypeOK
  <2>3. ArmedOrWoken' /\ NoLostWake' /\ NoLostNotify'
    BY <1>9 DEF CreateNotified, ArmedOrWoken, NoLostWake, NoLostNotify, unseen
  <2> QED
    BY <2>1, <2>2, <2>3
<1>10. CASE ReadChanged
  <2>1. TypeOK'
    BY <1>10 DEF ReadChanged, TypeOK, LoopPlaces
  <2>2. VersionFollows' /\ KillKept'
    BY <1>10 DEF ReadChanged, VersionFollows, KillKept, TypeOK
  <2>3. ArmedOrWoken' /\ NoLostWake' /\ NoLostNotify'
    BY <1>10 DEF ReadChanged, ArmedOrWoken, NoLostWake, NoLostNotify, unseen
  <2> QED
    BY <2>1, <2>2, <2>3
<1>11. CASE Notified
  <2>1. TypeOK'
    BY <1>11 DEF Notified, TypeOK, LoopPlaces
  <2>2. VersionFollows' /\ KillKept'
    BY <1>11 DEF Notified, VersionFollows, KillKept, TypeOK
  <2>3. ArmedOrWoken' /\ NoLostWake' /\ NoLostNotify'
    BY <1>11 DEF Notified, ArmedOrWoken, NoLostWake, NoLostNotify, unseen
  <2> QED
    BY <2>1, <2>2, <2>3
<1>12. CASE OtherArm
  <2>1. TypeOK'
    BY <1>12 DEF OtherArm, TypeOK, LoopPlaces
  <2>2. VersionFollows' /\ KillKept'
    BY <1>12 DEF OtherArm, VersionFollows, KillKept, TypeOK
  <2>3. ArmedOrWoken' /\ NoLostWake' /\ NoLostNotify'
    BY <1>12 DEF OtherArm, ArmedOrWoken, NoLostWake, NoLostNotify, unseen
  <2> QED
    BY <2>1, <2>2, <2>3
<1>13. CASE Seal
  <2>1. TypeOK'
    BY <1>13 DEF Seal, TypeOK, LoopPlaces, LaneStates
  <2>2. VersionFollows' /\ KillKept'
    BY <1>13 DEF Seal, VersionFollows, KillKept, TypeOK, LaneStates
  <2>3. ArmedOrWoken' /\ NoLostWake' /\ NoLostNotify'
    BY <1>13 DEF Seal, ArmedOrWoken, NoLostWake, NoLostNotify, unseen
  <2> QED
    BY <2>1, <2>2, <2>3
<1>14. CASE DropRx
  <2>1. TypeOK'
    BY <1>14 DEF DropRx, TypeOK, LoopPlaces
  <2>2. VersionFollows' /\ KillKept'
    BY <1>14 DEF DropRx, VersionFollows, KillKept, TypeOK
  <2>3. ArmedOrWoken' /\ NoLostWake' /\ NoLostNotify'
    BY <1>14 DEF DropRx, ArmedOrWoken, NoLostWake, NoLostNotify, unseen
  <2> QED
    BY <2>1, <2>2, <2>3
<1>15. CASE Abort
  <2>1. TypeOK'
    BY <1>15 DEF Abort, TypeOK, LoopPlaces
  <2>2. VersionFollows' /\ KillKept'
    BY <1>15 DEF Abort, VersionFollows, KillKept, TypeOK
  <2>3. ArmedOrWoken' /\ NoLostWake' /\ NoLostNotify'
    BY <1>15 DEF Abort, ArmedOrWoken, NoLostWake, NoLostNotify, unseen
  <2> QED
    BY <2>1, <2>2, <2>3
<1> QED
  BY <1>1, <1>2, <1>3, <1>4, <1>5, <1>6, <1>7, <1>8, <1>9, <1>10, <1>11, <1>12, <1>13, <1>14, <1>15

(* Every step of raisers and loop preserves the invariant.                 *)
LEMMA LaneNext == LaneInv /\ [Next]_vars => LaneInv'
<1> SUFFICES ASSUME LaneInv, [Next]_vars PROVE LaneInv'
  OBVIOUS
<1>1. ASSUME NEW p \in Raisers, NEW r \in Reasons, TryRaise(p, r) PROVE LaneInv'
  BY <1>1, RaisePreserves
<1>2. ASSUME NEW p \in Raisers, WakeReader(p) \/ NotifySignals(p) PROVE LaneInv'
  BY <1>2, WakesPreserve
<1>3. CASE \/ TurnBoundary \/ FirstRead \/ Register \/ SecondRead \/ Repoll
           \/ Observe \/ TurnReturns \/ CloseToNonKill \/ CreateNotified \/ ReadChanged
           \/ Notified \/ OtherArm \/ Seal \/ DropRx \/ Abort
  BY <1>3, LoopPreserves
<1>4. CASE UNCHANGED vars
  BY <1>4 DEF vars, LaneInv, TypeOK, VersionFollows, ArmedOrWoken, NoLostWake,
              NoLostNotify, KillKept, unseen
<1> QED
  BY <1>1, <1>2, <1>3, <1>4 DEF Next

(* The inductive invariant holds in every state of every run.              *)
THEOREM LaneInvariant == Spec => []LaneInv
  BY LaneInit, LaneNext, PTL DEF Spec

(* Every variable of the lane keeps its type.                              *)
THEOREM TypeCorrect == Spec => []TypeOK
  BY LaneInvariant, PTL DEF LaneInv

(* No wake of a parked run loop is lost, with any number of raisers        *)
(* between the two reads around the registration (LaneChanged::poll).      *)
THEOREM WakeNotLost == Spec => []NoLostWake
  BY LaneInvariant, PTL DEF LaneInv

(* No notification of the teardown's wait is lost (LaneRx::changed).       *)
THEOREM NotifyNotLost == Spec => []NoLostNotify
  BY LaneInvariant, PTL DEF LaneInv

(* A Kill a caller was told is recorded stays stored and is what the seal  *)
(* returns (StopLane::try_raise, close_to_non_kill and seal).              *)
THEOREM KillNotLost == Spec => []KillKept
  BY LaneInvariant, PTL DEF LaneInv

(* The stored request only strengthens (LaneCell::raise).                  *)
THEOREM LaneOnlyClimbs == Spec => LaneClimbs
<1>1. ASSUME TypeOK, [Next]_vars PROVE [AtLeast(lane'.reason, lane.reason)]_vars
  <2>1. lane.reason \in Reasons \cup {None}
    BY <1>1 DEF TypeOK, LaneStates
  <2>2. AtLeast(lane.reason, lane.reason)
    BY <2>1 DEF AtLeast, Severity, Rank, Reasons, Requested, Forced, None
  <2>3. ASSUME NEW p \in Raisers, NEW r \in Reasons, TryRaise(p, r)
        PROVE  AtLeast(lane'.reason, lane.reason)
    <3>1. lane \in LaneStates /\ rxGone \in BOOLEAN
      BY <1>1 DEF TypeOK
    <3>2. lane' = RaisedLane(lane, r, rxGone)
      BY <2>3 DEF TryRaise
    <3> QED
      BY <3>1, <3>2, RaiseStep
  <2>4. ASSUME NEW p \in Raisers, WakeReader(p) \/ NotifySignals(p)
        PROVE  lane' = lane
    BY <2>4 DEF WakeReader, NotifySignals, cell
  <2>5. CASE CloseToNonKill \/ Seal
    BY <1>1, <2>2, <2>5 DEF CloseToNonKill, Seal, TypeOK, LaneStates
  <2>6. CASE \/ TurnBoundary \/ FirstRead \/ Register \/ SecondRead \/ Repoll
             \/ Observe \/ TurnReturns \/ CreateNotified \/ ReadChanged
             \/ Notified \/ OtherArm \/ DropRx \/ Abort
    <3>1. lane' = lane
      BY <2>6 DEF TurnBoundary, FirstRead, Register, SecondRead, Repoll, Observe,
                  TurnReturns, CreateNotified, ReadChanged, Notified, OtherArm, DropRx,
                  Abort, cell
    <3> QED
      BY <2>2, <3>1
  <2> QED
    BY <1>1, <2>2, <2>3, <2>4, <2>5, <2>6 DEF Next
<1> QED
  BY <1>1, TypeCorrect, PTL DEF Spec, LaneClimbs

(* A lane that refuses a request never takes it again (lane_accept).       *)
THEOREM RefusalNeverReverts == Spec => RefusalIsFinal
<1> DEFINE Stays == \A r \in Reasons : RefusedBy(lane, r, rxGone) => RefusedBy(lane, r, rxGone)'
<1>1. ASSUME TypeOK, [Next]_vars PROVE [Stays]_vars
  <2>1. ASSUME lane'.killOnly = lane.killOnly, lane'.sealed = lane.sealed, rxGone => rxGone'
        PROVE  Stays
    BY <2>1 DEF RefusedBy
  <2>2. ASSUME NEW p \in Raisers, NEW r \in Reasons, TryRaise(p, r)
        PROVE  Stays
    <3>1. lane \in LaneStates /\ rxGone \in BOOLEAN
      BY <1>1 DEF TypeOK
    <3>2. lane' = RaisedLane(lane, r, rxGone) /\ rxGone' = rxGone
      BY <2>2 DEF TryRaise
    <3>3. lane'.killOnly = lane.killOnly /\ lane'.sealed = lane.sealed
      BY <3>1, <3>2, RaiseStep
    <3> QED
      BY <2>1, <3>2, <3>3
  <2>3. ASSUME NEW p \in Raisers, WakeReader(p) \/ NotifySignals(p)
        PROVE  lane' = lane /\ rxGone' = rxGone
    BY <2>3 DEF WakeReader, NotifySignals, cell
  <2>4. CASE CloseToNonKill \/ Seal
    BY <1>1, <2>4 DEF CloseToNonKill, Seal, RefusedBy, TypeOK, LaneStates
  <2>5. CASE \/ TurnBoundary \/ FirstRead \/ Register \/ SecondRead \/ Repoll
             \/ Observe \/ TurnReturns \/ CreateNotified \/ ReadChanged
             \/ Notified \/ OtherArm \/ DropRx \/ Abort
    <3>1. lane' = lane /\ (rxGone => rxGone')
      BY <2>5 DEF TurnBoundary, FirstRead, Register, SecondRead, Repoll, Observe,
                  TurnReturns, CreateNotified, ReadChanged, Notified, OtherArm, DropRx,
                  Abort, cell
    <3> QED
      BY <2>1, <3>1
  <2> QED
    BY <1>1, <2>1, <2>2, <2>3, <2>4, <2>5 DEF Next
<1> QED
  BY <1>1, TypeCorrect, PTL DEF Spec, RefusalIsFinal
=============================================================================
