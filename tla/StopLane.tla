------------------------------ MODULE StopLane ------------------------------
(***************************************************************************)
(* The stop lane of one incarnation: its cell, the run loop's receiving    *)
(* half, the loop's single-reader wake slot and the block's `signals`      *)
(* notification. Raisers are threads of their own; each raise is one       *)
(* critical section followed, after the unlock, by the two wakes. The run  *)
(* loop is the sequence of reads, registrations and waits it makes on the  *)
(* lane from its first poll to the seal; what it does with a request it    *)
(* observed is ActorRun's.                                                 *)
(***************************************************************************)
EXTENDS StopReasons

CONSTANTS Raisers,      \* the threads that call try_raise
          MaxGeneration \* bound on the recorded requests of one lane

ASSUME StopLaneAssumption == MaxGeneration \in Nat

VARIABLES lane,     \* LaneCell.state
          version,  \* LaneCell.version
          rxGone,   \* LaneCell.rx_gone
          seen,     \* LaneRx.seen
          armed,    \* WakeSlot.armed, with the loop's waker stored when TRUE
          woken,    \* the loop's task was scheduled since it last parked
          notified, \* the Notified of LaneRx::changed was reached
          pc,       \* where the run loop is on the lane
          raiser,   \* raiser[p]: where p is in try_raise, and the answer it got
          killTold, \* history: a caller was answered Recorded for a Kill
          final     \* history: the reason StopLane::seal returned

vars == <<lane, version, rxGone, seen, armed, woken, notified, pc, raiser,
          killTold, final>>

(* top: a turn boundary; poll..parked: LaneChanged in the select; turn: a  *)
(* callback of another branch; ended, narrowed: past the loop; read,       *)
(* waiting: the teardown's LaneRx::changed; settled: the children are      *)
(* stopped; sealed, gone.                                                  *)
LoopPlaces == {"top", "poll", "register", "recheck", "parked", "observe", "turn",
               "ended", "narrowed", "read", "waiting", "settled", "sealed", "gone"}

RaiserPlaces == {"idle", "wake", "notify"}

TypeOK ==
    /\ lane \in LaneStates
    /\ version \in Nat /\ seen \in Nat
    /\ rxGone \in BOOLEAN /\ armed \in BOOLEAN /\ woken \in BOOLEAN
    /\ notified \in BOOLEAN /\ killTold \in BOOLEAN
    /\ pc \in LoopPlaces
    /\ raiser \in [Raisers -> RaiserPlaces]
    /\ final \in Reasons \cup {None}

(* StopLane::new.                                                          *)
Init ==
    /\ lane = FreshLane
    /\ version = 0 /\ seen = 0
    /\ rxGone = FALSE /\ armed = FALSE /\ woken = FALSE /\ notified = FALSE
    /\ pc = "top"
    /\ raiser = [p \in Raisers |-> "idle"]
    /\ killTold = FALSE
    /\ final = None

unseen == version # seen

cell == <<lane, version, rxGone>>

-----------------------------------------------------------------------------
(* The raisers.                                                            *)

(* The critical section of try_raise. The version is its last write, so a  *)
(* reader without the lock sees it together with the state.                *)
TryRaise(p, r) ==
    /\ raiser[p] = "idle"
    /\ lane.generation < MaxGeneration
    /\ lane' = RaisedLane(lane, r, rxGone)
    /\ version' = lane'.generation
    /\ raiser' = [raiser EXCEPT ![p] = IF lane' = lane THEN @ ELSE "wake"]
    /\ killTold' = (killTold \/ (r = "Kill" /\ AnswerTo(lane, r, rxGone) = "Recorded"))
    /\ UNCHANGED <<rxGone, seen, armed, woken, notified, pc, final>>

(* Mutant: the slot is cleared and its waker not called.                   *)
WakeReaderSilent(p) ==
    /\ raiser[p] = "wake"
    /\ armed' = FALSE
    /\ raiser' = [raiser EXCEPT ![p] = "notify"]
    /\ UNCHANGED <<cell, seen, woken, notified, pc, killTold, final>>

(* WakeSlot::wake: the swap of `armed` under the slot's lock.              *)
WakeReader(p) ==
    /\ raiser[p] = "wake"
    /\ woken' = (woken \/ armed)
    /\ armed' = FALSE
    /\ raiser' = [raiser EXCEPT ![p] = "notify"]
    /\ UNCHANGED <<cell, seen, notified, pc, killTold, final>>

(* AbortRecord::notify_signals: notify_waiters reaches every Notified      *)
(* created before it.                                                      *)
NotifySignals(p) ==
    /\ raiser[p] = "notify"
    /\ notified' = TRUE
    /\ raiser' = [raiser EXCEPT ![p] = "idle"]
    /\ UNCHANGED <<cell, seen, armed, woken, pc, killTold, final>>

-----------------------------------------------------------------------------
(* The run loop.                                                           *)

(* A turn boundary: the fast path takes the mailbox without registering    *)
(* when the lane reads idle, anything else enters the select.              *)
TurnBoundary ==
    /\ pc = "top"
    /\ \/ ~unseen /\ pc' = "turn"
       \/ pc' = "poll"
    /\ UNCHANGED <<cell, seen, armed, woken, notified, raiser, killTold, final>>

(* LaneChanged::poll, the read before the arming.                          *)
FirstRead ==
    /\ pc = "poll"
    /\ IF unseen THEN pc' = "observe" /\ armed' = FALSE
                 ELSE pc' = "register" /\ UNCHANGED armed
    /\ UNCHANGED <<cell, seen, woken, notified, raiser, killTold, final>>

(* WakeSlot::register.                                                     *)
Register ==
    /\ pc = "register"
    /\ armed' = TRUE
    /\ pc' = "recheck"
    /\ UNCHANGED <<cell, seen, woken, notified, raiser, killTold, final>>

(* Mutant: no read after the arming.                                       *)
SecondReadSkipped ==
    /\ pc = "recheck"
    /\ \/ pc' = "parked" /\ UNCHANGED armed
       \/ pc' = "turn" /\ armed' = FALSE
    /\ UNCHANGED <<cell, seen, woken, notified, raiser, killTold, final>>

(* The read after the arming. The branch's future drops, disarming the     *)
(* slot, when the select completes with this branch or a lower one.        *)
SecondRead ==
    /\ pc = "recheck"
    /\ \/ unseen /\ pc' = "observe" /\ armed' = FALSE
       \/ ~unseen /\ pc' = "parked" /\ UNCHANGED armed
       \/ ~unseen /\ pc' = "turn" /\ armed' = FALSE
    /\ UNCHANGED <<cell, seen, woken, notified, raiser, killTold, final>>

(* The task is polled again: it was woken through the slot, or by a waker  *)
(* another branch registered.                                              *)
Repoll ==
    /\ pc = "parked"
    /\ woken' = FALSE
    /\ pc' = "poll"
    /\ UNCHANGED <<cell, seen, armed, notified, raiser, killTold, final>>

(* borrow_and_update, and the tiers of the stop branch: a Kill and a       *)
(* forced reason end the loop, a request may be vetoed by pre_stop.        *)
Observe ==
    /\ pc = "observe"
    /\ seen' = version
    /\ \/ lane.reason # None /\ pc' = "ended"
       \/ lane.reason \in Requested \cup {None} /\ pc' = "top"
    /\ UNCHANGED <<cell, armed, woken, notified, raiser, killTold, final>>

(* A callback returns: the loop goes on, or ends with a failure.           *)
TurnReturns ==
    /\ pc = "turn"
    /\ pc' \in {"top", "ended"}
    /\ UNCHANGED <<cell, seen, armed, woken, notified, raiser, killTold, final>>

(* StopLane::close_to_non_kill, past the loop and on_stopped.              *)
CloseToNonKill ==
    /\ pc = "ended"
    /\ lane' = [lane EXCEPT !.killOnly = TRUE]
    /\ pc' = "narrowed"
    /\ UNCHANGED <<version, rxGone, seen, armed, woken, notified, raiser, killTold, final>>

(* Mutant: changed waits without a read of the version.                    *)
CreateNotifiedUnread ==
    /\ pc = "narrowed"
    /\ \/ pc' = "settled" /\ UNCHANGED notified
       \/ lane.reason # "Kill" /\ pc' = "waiting" /\ notified' = FALSE
    /\ UNCHANGED <<cell, seen, armed, woken, raiser, killTold, final>>

(* settle_children, from the top of its loop: the wait ends when every     *)
(* stop settled or a Kill is stored, else LaneRx::changed creates its      *)
(* notification. An actor without children goes straight on.               *)
CreateNotified ==
    /\ pc = "narrowed"
    /\ \/ pc' = "settled" /\ UNCHANGED notified
       \/ lane.reason # "Kill" /\ pc' = "read" /\ notified' = FALSE
    /\ UNCHANGED <<cell, seen, armed, woken, raiser, killTold, final>>

(* Mutant: the version is rewound so that the wait fires once more.        *)
ReadChangedRewinds ==
    /\ pc = "read"
    /\ seen' = version - 1
    /\ pc' = IF unseen THEN "narrowed" ELSE "waiting"
    /\ UNCHANGED <<cell, armed, woken, notified, raiser, killTold, final>>

(* The read of LaneRx::changed under the lock, after the notification was  *)
(* created: an unseen version is consumed, otherwise it waits.             *)
ReadChanged ==
    /\ pc = "read"
    /\ seen' = version
    /\ pc' = IF unseen THEN "narrowed" ELSE "waiting"
    /\ UNCHANGED <<cell, armed, woken, notified, raiser, killTold, final>>

(* The notification fired: changed reads the version again.                *)
Notified ==
    /\ pc = "waiting" /\ notified
    /\ pc' = "read" /\ notified' = FALSE
    /\ UNCHANGED <<cell, seen, armed, woken, raiser, killTold, final>>

(* Another arm of the teardown's select completed: a cell settled or a     *)
(* restart attempt reported.                                               *)
OtherArm ==
    /\ pc = "waiting"
    /\ pc' = "narrowed"
    /\ UNCHANGED <<cell, seen, armed, woken, notified, raiser, killTold, final>>

(* StopLane::seal.                                                         *)
Seal ==
    /\ pc = "settled"
    /\ lane' = [lane EXCEPT !.sealed = TRUE]
    /\ final' = lane.reason
    /\ pc' = "sealed"
    /\ UNCHANGED <<version, rxGone, seen, armed, woken, notified, raiser, killTold>>

(* LaneRx::drop, after the seal.                                           *)
DropRx ==
    /\ pc = "sealed"
    /\ rxGone' = TRUE
    /\ pc' = "gone"
    /\ UNCHANGED <<lane, version, seen, armed, woken, notified, raiser, killTold, final>>

(* The task is aborted while suspended: its state drops (SlotHold clears   *)
(* the slot, LaneRx marks the receiver gone) and the lane is never sealed. *)
Abort ==
    /\ pc \in {"parked", "turn", "ended", "waiting", "settled"}
    /\ armed' = FALSE
    /\ rxGone' = TRUE
    /\ pc' = "gone"
    /\ UNCHANGED <<lane, version, seen, woken, notified, raiser, killTold, final>>

RaiserStep(p) == WakeReader(p) \/ NotifySignals(p)

WokenRepoll == woken /\ Repoll

LoopStep ==
    \/ TurnBoundary \/ FirstRead \/ Register \/ SecondRead \/ WokenRepoll
    \/ Observe \/ TurnReturns
    \/ CloseToNonKill \/ CreateNotified \/ ReadChanged \/ Notified \/ Seal \/ DropRx

Next ==
    \/ \E p \in Raisers, r \in Reasons : TryRaise(p, r)
    \/ \E p \in Raisers : WakeReader(p) \/ NotifySignals(p)
    \/ TurnBoundary \/ FirstRead \/ Register \/ SecondRead \/ Repoll
    \/ Observe \/ TurnReturns
    \/ CloseToNonKill \/ CreateNotified \/ ReadChanged \/ Notified \/ OtherArm
    \/ Seal \/ DropRx \/ Abort

Spec == Init /\ [][Next]_vars

(* A thread past its critical section finishes its call, and tokio polls a *)
(* scheduled task. Callbacks are assumed to return; nothing makes another  *)
(* branch ready, a caller raise, or a child settle.                        *)
Fairness == WF_vars(LoopStep) /\ \A p \in Raisers : WF_vars(RaiserStep(p))

FairSpec == Spec /\ Fairness

-----------------------------------------------------------------------------
(* The properties.                                                         *)

(* The version a reader consumes without the lock belongs to the state the *)
(* lock guards, and the receiver never marks a version seen that no raise  *)
(* published.                                                              *)
VersionFollows == version = lane.generation /\ seen <= version

(* A parked run loop is never left behind an unseen version: the version   *)
(* was written by a raiser that still has its wake to make and will find   *)
(* the slot armed, or the loop was scheduled already (LaneChanged::poll,   *)
(* WakeSlot::register and wake).                                           *)
NoLostWake ==
    pc = "parked" /\ unseen =>
        woken \/ (armed /\ \E p \in Raisers : raiser[p] = "wake")

(* The teardown's wait is never left behind an unseen version: a raiser    *)
(* that wrote it has its notification still to send, or the one the wait   *)
(* created first was reached (LaneRx::changed, notify_signals).            *)
NoLostNotify ==
    pc = "waiting" /\ unseen =>
        notified \/ \E p \in Raisers : raiser[p] \in {"wake", "notify"}

(* A Kill some caller was told was recorded stays the lane's reason, and   *)
(* is what the seal returns: no later request and no narrowing loses it.   *)
KillKept ==
    killTold => lane.reason = "Kill" /\ (lane.sealed => final = "Kill")

(* The stored request only strengthens, by severity and then by rank, so   *)
(* the reason read after pre_stop is never weaker than the one before it.  *)
LaneClimbs == [][AtLeast(lane'.reason, lane.reason)]_vars

(* A refusal is final: a lane that refuses a request never takes it again, *)
(* whether it was narrowed, sealed or lost its receiver.                   *)
RefusalIsFinal ==
    [][\A r \in Reasons : RefusedBy(lane, r, rxGone) => RefusedBy(lane, r, rxGone)']_vars

(* A stored Kill ends the actor wherever the lane finds it: parked in its  *)
(* select, between turns, or waiting for its children in the teardown.     *)
KillEndsTheRun == lane.reason = "Kill" ~> pc \in {"sealed", "gone"}
=============================================================================
