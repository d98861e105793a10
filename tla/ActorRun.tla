------------------------------ MODULE ActorRun ------------------------------
(***************************************************************************)
(* run_actor: one actor task from its first poll to the end of its drops,  *)
(* against callers that raise its stop lane at any moment and an abort     *)
(* that may drop the task at any suspension. A callback is a place the     *)
(* task stays in until it returns; what the callback decides is chosen     *)
(* nondeterministically. A raise is one step here: that a parked loop is   *)
(* woken by it is StopLane's theorem. The supervisor's own bookkeeping is  *)
(* reduced to the callbacks and waits it adds to the run.                  *)
(***************************************************************************)
EXTENDS StopReasons

CONSTANTS MaxGeneration, \* bound on the recorded requests of the lane
          MaxReports     \* bound on the deliveries of one supervision event, and
                         \* on the child deaths pending at the loop's end

ASSUME ActorRunAssumption == MaxGeneration \in Nat /\ MaxReports \in Nat

VARIABLES lane,         \* the stop lane's state
          seen,         \* LaneRx.seen
          rxGone,       \* LaneCell.rx_gone
          pc,           \* where the task is
          turn,         \* what the turn in progress handles
          reason,       \* the local stop_reason
          initFailed,   \* init_result is an Err
          failedExit,   \* pending_exit: a final delivery failed
          reports,      \* the reports the event, or the end, has yet to deliver
          supervises,   \* the actor has a supervision config
          plane,        \* the status plane: status, reason, closed
          ack,          \* the start ack's sender
          named,        \* the registered name is held
          queues,       \* the mailbox and the priority lane
          held,         \* the answer of the one request whose handler failed
          killTold,     \* history: a caller was answered Recorded for a Kill
          killAtReturn, \* history: a Kill was stored when a callback returned
          asked         \* history: the last generation the loop decided on

laneVars == <<lane, seen, rxGone>>
outside == <<plane, ack, named, queues, held>>
locals == <<turn, reason, initFailed, failedExit, reports, supervises>>
history == <<killTold, killAtReturn, asked>>
vars == <<laneVars, pc, locals, outside, history>>

(* The places where user code runs.                                        *)
Callbacks == {"pre_start", "on_started", "pre_stop", "turn", "final_delivery", "on_stopped"}

(* The task is in a callback, or between two of one supervision event.     *)
Occupied == Callbacks \cup {"event"}

(* The places a task dropped before its return can be dropped from: its    *)
(* callbacks and its awaits.                                               *)
Suspensions == Callbacks \cup {"loop", "collect", "yield", "children", "forwarders"}

Tail == {"last_read", "narrow", "close_queues", "children", "free_name", "forwarders",
         "seal", "answer", "write_reason", "resolve_ack", "drop_values",
         "publish_stopped", "close_plane", "done"}

AbortDrops == {"drop_ack", "drop_name", "drop_rx", "abort_reason", "abort_values",
               "unpolled_queues", "unpolled_rx", "unpolled_name", "unpolled_plane",
               "unpolled_ack"}

Places == Suspensions \cup Tail \cup AbortDrops
          \cup {"spawned", "running", "start_ack", "event", "ended", "drain", "stop_read"}

Statuses == {"Initializing", "Running", "Stopping", "Stopped"}

TypeOK ==
    /\ lane \in LaneStates /\ seen \in Nat /\ rxGone \in BOOLEAN
    /\ pc \in Places
    /\ turn \in {"none", "notify", "request", "child"}
    /\ reason \in Reasons \cup {None}
    /\ initFailed \in BOOLEAN /\ failedExit \in BOOLEAN /\ supervises \in BOOLEAN
    /\ reports \in Nat
    /\ plane \in [status: Statuses, reason: Reasons \cup {None}, closed: BOOLEAN]
    /\ ack \in {"waiting", "ok", "err", "dropped"}
    /\ named \in BOOLEAN
    /\ queues \in {"open", "closed", "ended"}
    /\ held \in {"none", "held", "sent", "dropped"}
    /\ killTold \in BOOLEAN /\ killAtReturn \in BOOLEAN /\ asked \in Nat

(* spawn_actor_parts_in: the name is registered and the status plane open  *)
(* before the task is spawned.                                             *)
Init ==
    /\ lane = FreshLane /\ seen = 0 /\ rxGone = FALSE
    /\ pc = "spawned"
    /\ turn = "none" /\ reason = None
    /\ initFailed = FALSE /\ failedExit = FALSE /\ reports = 0
    /\ supervises \in BOOLEAN
    /\ plane = [status |-> "Initializing", reason |-> None, closed |-> FALSE]
    /\ ack = "waiting" /\ named = TRUE /\ queues = "open" /\ held = "none"
    /\ killTold = FALSE /\ killAtReturn = FALSE /\ asked = 0

killStored == lane.reason = "Kill"

unseen == lane.generation # seen

Goto(place) == pc' = place

(* A callback returns.                                                     *)
Returned == killAtReturn' = (killAtReturn \/ killStored)

(* A caller raises the lane.                                               *)
Raise(r) ==
    /\ lane.generation < MaxGeneration
    /\ lane' = RaisedLane(lane, r, rxGone)
    /\ killTold' = (killTold \/ (r = "Kill" /\ AnswerTo(lane, r, rxGone) = "Recorded"))
    /\ UNCHANGED <<seen, rxGone, pc, locals, outside, killAtReturn, asked>>

-----------------------------------------------------------------------------
(* The start.                                                              *)

(* init_kill_check before pre_start: a pending Kill skips every start hook.*)
FirstPoll ==
    /\ pc = "spawned"
    /\ IF killStored THEN reason' = "Kill" /\ Goto("last_read")
                     ELSE Goto("pre_start") /\ UNCHANGED reason
    /\ UNCHANGED <<laneVars, turn, initFailed, failedExit, reports, supervises,
                   outside, history>>

(* pre_start returns, and the lane is read once more before on_started.    *)
PreStartReturns(ok) ==
    /\ pc = "pre_start"
    /\ Returned
    /\ initFailed' = ~ok
    /\ reason' = IF ~ok THEN "Failure" ELSE IF killStored THEN "Kill" ELSE reason
    /\ Goto(IF ok /\ ~killStored THEN "on_started" ELSE "last_read")
    /\ UNCHANGED <<laneVars, turn, failedExit, reports, supervises, outside,
                   killTold, asked>>

(* on_started returns. A Kill raised meanwhile is the message loop's.      *)
OnStartedReturns(ok) ==
    /\ pc = "on_started"
    /\ Returned
    /\ initFailed' = ~ok
    /\ reason' = IF ok THEN "Graceful" ELSE "Failure"
    /\ Goto(IF ok THEN "running" ELSE "last_read")
    /\ UNCHANGED <<laneVars, turn, failedExit, reports, supervises, outside,
                   killTold, asked>>

PublishRunning ==
    /\ pc = "running"
    /\ plane' = [plane EXCEPT !.status = "Running"]
    /\ Goto("start_ack")
    /\ UNCHANGED <<laneVars, locals, ack, named, queues, held, history>>

AckStarted ==
    /\ pc = "start_ack"
    /\ ack' = "ok"
    /\ Goto("loop")
    /\ UNCHANGED <<laneVars, locals, plane, named, queues, held, history>>

-----------------------------------------------------------------------------
(* The message loop: a biased select, the stop lane first.                 *)

(* The stop branch: borrow_and_update, then the tier of the request.       *)
ObserveLane ==
    /\ pc = "loop" /\ unseen
    /\ seen' = lane.generation
    /\ asked' = lane.generation
    /\ IF lane.reason \in Requested
       THEN Goto("pre_stop") /\ UNCHANGED reason
       ELSE reason' = lane.reason /\ Goto("ended")
    /\ UNCHANGED <<lane, rxGone, turn, initFailed, failedExit, reports, supervises,
                   outside, killTold, killAtReturn>>

(* Mutant: the read after pre_stop consumes the version.                   *)
PreStopReturnsConsumes(answer) ==
    /\ pc = "pre_stop"
    /\ Returned
    /\ seen' = lane.generation
    /\ LET stops == killStored \/ answer # "veto" \/ lane.reason \in Forced
       IN  /\ Goto(IF stops THEN "ended" ELSE "loop")
           /\ reason' = IF stops THEN lane.reason ELSE reason
    /\ UNCHANGED <<lane, rxGone, turn, initFailed, failedExit, reports, supervises,
                   outside, killTold, asked>>

(* pre_stop returns; the lane is read again without consuming a version. A *)
(* Kill wins over everything, a panic over any forced reason (a standing   *)
(* Failure is one), a forced reason over the answer, and an accepted stop  *)
(* ends with the strongest request stored by then.                         *)
PreStopReturns(answer) ==
    /\ pc = "pre_stop"
    /\ Returned
    /\ LET stops == killStored \/ answer # "veto" \/ lane.reason \in Forced
       IN  /\ Goto(IF stops THEN "ended" ELSE "loop")
           /\ reason' = IF ~stops THEN reason
                        ELSE IF answer = "panic" /\ ~killStored THEN "Failure"
                        ELSE lane.reason
    /\ UNCHANGED <<laneVars, turn, initFailed, failedExit, reports, supervises,
                   outside, killTold, asked>>

(* A lower branch: a message of the mailbox or the priority lane, or an    *)
(* event of the supervision planes, which makes any number of deliveries   *)
(* to on_child_stopped: a worklist, absorbed reports, released triggers.   *)
TakeTurn(what) ==
    /\ pc = "loop" /\ ~unseen
    /\ turn' = what
    /\ \/ what # "child" /\ Goto("turn") /\ UNCHANGED reports
       \/ what = "child" /\ supervises /\ Goto("event") /\ reports' \in 0..MaxReports
    /\ UNCHANGED <<laneVars, reason, initFailed, failedExit, supervises, outside, history>>

(* The turn's callback returns. A failed request's answer is held for the  *)
(* seal; an exhausted restart budget ends the loop with ParentRequest, and *)
(* a panic of a response nobody receives is a failure with nothing held. A *)
(* delivery that succeeds goes back to its event, not to the loop.         *)
TurnReturns(outcome) ==
    /\ pc = "turn"
    /\ outcome = "exhausted" => turn = "child"
    /\ Returned
    /\ turn' = IF outcome = "ok" /\ turn = "child" THEN turn ELSE "none"
    /\ \/ /\ outcome = "ok" /\ Goto(IF turn = "child" THEN "event" ELSE "loop")
          /\ UNCHANGED <<reason, held>>
       \/ outcome = "exhausted" /\ Goto("ended") /\ reason' = "ParentRequest"
          /\ UNCHANGED held
       \/ /\ outcome = "failed" /\ Goto("ended") /\ reason' = "Failure"
          /\ held' \in IF turn = "request" THEN {"none", "held"} ELSE {held}
    /\ UNCHANGED <<laneVars, initFailed, failedExit, reports, supervises,
                   plane, ack, named, queues, killTold, asked>>

(* The next delivery of the supervision event: no lane is read before it.  *)
EventDelivers ==
    /\ pc = "event" /\ reports > 0
    /\ reports' = reports - 1
    /\ Goto("turn")
    /\ UNCHANGED <<laneVars, turn, reason, initFailed, failedExit, supervises, outside,
                   history>>

(* The event is handled: the loop goes on.                                 *)
EventEnds ==
    /\ pc = "event" /\ reports = 0
    /\ turn' = "none"
    /\ Goto("loop")
    /\ UNCHANGED <<laneVars, reason, initFailed, failedExit, reports, supervises, outside,
                   history>>

(* The event ends the loop without a callback: the drop of a removed       *)
(* child's factory panics (drop_removed), or, once it is handled, a group  *)
(* restart is held only by unresponsive members (check_verdicts).          *)
EventFails ==
    /\ pc = "event"
    /\ turn' = "none"
    /\ reason' = "Failure"
    /\ Goto("ended")
    /\ UNCHANGED <<laneVars, initFailed, failedExit, reports, supervises, outside, history>>

(* Every handle is dropped: both user lanes report closed.                 *)
HandlesDropped ==
    /\ pc = "loop" /\ ~unseen
    /\ Goto("ended")
    /\ UNCHANGED <<laneVars, locals, outside, history>>

-----------------------------------------------------------------------------
(* Past the loop: the final deliveries and on_stopped.                     *)

(* Stopping is published for every reason but Kill.                        *)
LeaveLoop ==
    /\ pc = "ended"
    /\ IF reason = "Kill"
       THEN Goto("last_read") /\ UNCHANGED plane
       ELSE /\ plane' = [plane EXCEPT !.status = "Stopping"]
            /\ Goto(IF supervises THEN "collect" ELSE "yield")
    /\ UNCHANGED <<laneVars, locals, ack, named, queues, held, history>>

YieldOnce ==
    /\ pc = "yield"
    /\ Goto("stop_read")
    /\ UNCHANGED <<laneVars, locals, outside, history>>

(* collect_final fixes the set of reports the final deliveries make.       *)
CollectFinal(n) ==
    /\ pc = "collect"
    /\ reports' = n
    /\ Goto("drain")
    /\ UNCHANGED <<laneVars, turn, reason, initFailed, failedExit, supervises,
                   outside, history>>

(* Mutant: the drain does not stop at an empty set.                        *)
DrainNextUnbounded ==
    /\ pc = "drain"
    /\ reports' = reports - 1
    /\ Goto("final_delivery")
    /\ UNCHANGED <<laneVars, turn, reason, initFailed, failedExit, supervises, outside,
                   history>>

(* final_drain: the lane is read before each delivery.                     *)
DrainNext ==
    /\ pc = "drain"
    /\ \/ reports = 0 /\ Goto("stop_read") /\ UNCHANGED <<reason, reports>>
       \/ /\ reports > 0 /\ killStored
          /\ reason' = "Kill" /\ Goto("last_read") /\ UNCHANGED reports
       \/ /\ reports > 0 /\ ~killStored
          /\ reports' = reports - 1 /\ Goto("final_delivery") /\ UNCHANGED reason
    /\ UNCHANGED <<laneVars, turn, initFailed, failedExit, supervises, outside, history>>

FinalDeliveryReturns(ok) ==
    /\ pc = "final_delivery"
    /\ Returned
    /\ failedExit' = (failedExit \/ ~ok)
    /\ Goto("drain")
    /\ UNCHANGED <<laneVars, turn, reason, initFailed, reports, supervises, outside,
                   killTold, asked>>

(* Mutant: on_stopped begins without a read of the lane.                   *)
StopReadSkipped ==
    /\ pc = "stop_read"
    /\ Goto("on_stopped")
    /\ UNCHANGED <<laneVars, locals, outside, history>>

(* The read before on_stopped: the loop can end for a reason that read no  *)
(* lane.                                                                   *)
StopRead ==
    /\ pc = "stop_read"
    /\ IF killStored THEN reason' = "Kill" /\ Goto("last_read")
                     ELSE Goto("on_stopped") /\ UNCHANGED reason
    /\ UNCHANGED <<laneVars, turn, initFailed, failedExit, reports, supervises,
                   outside, history>>

OnStoppedReturns(ok) ==
    /\ pc = "on_stopped"
    /\ Returned
    /\ reason' = IF failedExit \/ ~ok THEN "Failure" ELSE reason
    /\ Goto("last_read")
    /\ UNCHANGED <<laneVars, turn, initFailed, failedExit, reports, supervises,
                   outside, killTold, asked>>

-----------------------------------------------------------------------------
(* The tail every run that is not aborted goes through.                    *)

(* The last read before the lane narrows.                                  *)
LastRead ==
    /\ pc = "last_read"
    /\ reason' = IF killStored THEN "Kill" ELSE reason
    /\ Goto("narrow")
    /\ UNCHANGED <<laneVars, turn, initFailed, failedExit, reports, supervises,
                   outside, history>>

(* The system receiver drops and the lane narrows to Kill.                 *)
Narrow ==
    /\ pc = "narrow"
    /\ lane' = [lane EXCEPT !.killOnly = TRUE]
    /\ Goto("close_queues")
    /\ UNCHANGED <<seen, rxGone, locals, outside, history>>

(* The user lanes close, and a supervisor not dying with Kill goes on to   *)
(* stop its children; one that is drops them unawaited.                    *)
CloseQueues ==
    /\ pc = "close_queues"
    /\ queues' = "closed"
    /\ Goto(IF supervises /\ reason # "Kill" THEN "children" ELSE "free_name")
    /\ UNCHANGED <<laneVars, locals, plane, ack, named, held, history>>

(* end_drop_panicked: an earlier Kill or Failure stands.                   *)
AfterDropPanic == IF reason \in {"Kill", "Failure"} THEN reason ELSE "Failure"

(* stop_all_children returns Killed when it read a Kill, Done when every   *)
(* child settled; a factory's or the supervision state's drop may panic.   *)
ChildrenStopped(panicked) ==
    /\ pc = "children"
    /\ \/ killStored /\ reason' = "Kill"
       \/ reason' = IF panicked THEN AfterDropPanic ELSE reason
    /\ Goto("free_name")
    /\ UNCHANGED <<laneVars, turn, initFailed, failedExit, reports, supervises,
                   outside, history>>

FreeName ==
    /\ pc = "free_name"
    /\ named' = FALSE
    /\ Goto("forwarders")
    /\ UNCHANGED <<laneVars, locals, plane, ack, queues, held, history>>

(* end_forwarders, the last await.                                         *)
ForwardersEnd(panicked) ==
    /\ pc = "forwarders"
    /\ reason' = IF panicked THEN AfterDropPanic ELSE reason
    /\ Goto("seal")
    /\ UNCHANGED <<laneVars, turn, initFailed, failedExit, reports, supervises,
                   outside, history>>

(* Mutant: the reason the seal returns is dropped.                         *)
SealUnread ==
    /\ pc = "seal"
    /\ lane' = [lane EXCEPT !.sealed = TRUE]
    /\ rxGone' = TRUE
    /\ Goto("answer")
    /\ UNCHANGED <<seen, locals, outside, history>>

(* The seal reads the lane a last time in its critical section; the        *)
(* receiver drops with it.                                                 *)
Seal ==
    /\ pc = "seal"
    /\ lane' = [lane EXCEPT !.sealed = TRUE]
    /\ rxGone' = TRUE
    /\ reason' = IF killStored THEN "Kill" ELSE reason
    /\ Goto("answer")
    /\ UNCHANGED <<seen, turn, initFailed, failedExit, reports, supervises, outside,
                   history>>

(* Mutant: the sender is kept when a Kill ended the actor.                 *)
DeliverHeldKept ==
    /\ pc = "answer"
    /\ held' = IF held = "none" \/ reason = "Kill" THEN held ELSE "sent"
    /\ Goto("write_reason")
    /\ UNCHANGED <<laneVars, locals, plane, ack, named, queues, history>>

(* HeldAnswer::deliver.                                                    *)
DeliverHeld ==
    /\ pc = "answer"
    /\ held' = IF held = "none" THEN held ELSE IF reason = "Kill" THEN "dropped" ELSE "sent"
    /\ Goto("write_reason")
    /\ UNCHANGED <<laneVars, locals, plane, ack, named, queues, history>>

(* StatusValue::write_reason: the first write stands.                      *)
Written(r) == [plane EXCEPT !.reason = IF @ = None THEN r ELSE @]

WriteFinalReason ==
    /\ pc = "write_reason"
    /\ plane' = Written(reason)
    /\ Goto("resolve_ack")
    /\ UNCHANGED <<laneVars, locals, ack, named, queues, held, history>>

(* The ack of an init that did not succeed: the error, or dropped          *)
(* unanswered when a Kill ended the actor.                                 *)
ResolveAck ==
    /\ pc = "resolve_ack"
    /\ ack' = IF ack # "waiting" THEN ack
              ELSE IF initFailed /\ reason # "Kill" THEN "err" ELSE "dropped"
    /\ Goto("drop_values")
    /\ UNCHANGED <<laneVars, locals, plane, named, queues, held, history>>

(* The queued messages, the value and the context drop.                    *)
DropValues ==
    /\ pc = "drop_values"
    /\ queues' = "ended"
    /\ Goto("publish_stopped")
    /\ UNCHANGED <<laneVars, locals, plane, ack, named, held, history>>

PublishStopped ==
    /\ pc = "publish_stopped"
    /\ plane' = [plane EXCEPT !.status = "Stopped"]
    /\ Goto("close_plane")
    /\ UNCHANGED <<laneVars, locals, ack, named, queues, held, history>>

(* The last sender of the status plane drops.                              *)
ClosePlane ==
    /\ pc = "close_plane"
    /\ plane' = [plane EXCEPT !.closed = TRUE]
    /\ Goto("done")
    /\ UNCHANGED <<laneVars, locals, ack, named, queues, held, history>>

-----------------------------------------------------------------------------
(* An abort while suspended: the body's locals drop, then the parameters   *)
(* last to first. What the tail released already is skipped.               *)

(* Mutant: the abort guard is a local of the body, and drops first.        *)
AbortWritesFirst ==
    /\ pc \in Suspensions
    /\ held' = IF held = "held" THEN "dropped" ELSE held
    /\ plane' = Written("Kill")
    /\ Goto("drop_ack")
    /\ UNCHANGED <<laneVars, locals, ack, named, queues, history>>

Abort ==
    /\ pc \in Suspensions
    /\ held' = IF held = "held" THEN "dropped" ELSE held
    /\ Goto("drop_ack")
    /\ UNCHANGED <<laneVars, locals, plane, ack, named, queues, history>>

AbortDropsAck ==
    /\ pc = "drop_ack"
    /\ ack' = IF ack = "waiting" THEN "dropped" ELSE ack
    /\ Goto("drop_name")
    /\ UNCHANGED <<laneVars, locals, plane, named, queues, held, history>>

AbortDropsName ==
    /\ pc = "drop_name"
    /\ named' = FALSE
    /\ Goto("drop_rx")
    /\ UNCHANGED <<laneVars, locals, plane, ack, queues, held, history>>

AbortDropsRx ==
    /\ pc = "drop_rx"
    /\ rxGone' = TRUE
    /\ Goto("abort_reason")
    /\ UNCHANGED <<lane, seen, locals, outside, history>>

(* AbortReason::drop.                                                      *)
AbortWritesReason ==
    /\ pc = "abort_reason"
    /\ plane' = Written("Kill")
    /\ Goto("abort_values")
    /\ UNCHANGED <<laneVars, locals, ack, named, queues, held, history>>

AbortDropsValues ==
    /\ pc = "abort_values"
    /\ queues' = "ended"
    /\ Goto("close_plane")
    /\ UNCHANGED <<laneVars, locals, plane, ack, named, held, history>>

-----------------------------------------------------------------------------
(* An abort before the first poll: the parameters drop first to last, so   *)
(* the context writes the reason while the name is still registered, and   *)
(* the registry guard's own sender keeps the plane open until the name is  *)
(* free.                                                                   *)

AbortUnpolled ==
    /\ pc = "spawned"
    /\ plane' = Written("Kill")
    /\ Goto("unpolled_queues")
    /\ UNCHANGED <<laneVars, locals, ack, named, queues, held, history>>

UnpolledDropsQueues ==
    /\ pc = "unpolled_queues"
    /\ queues' = "ended"
    /\ Goto("unpolled_rx")
    /\ UNCHANGED <<laneVars, locals, plane, ack, named, held, history>>

UnpolledDropsRx ==
    /\ pc = "unpolled_rx"
    /\ rxGone' = TRUE
    /\ Goto("unpolled_name")
    /\ UNCHANGED <<lane, seen, locals, outside, history>>

UnpolledDropsName ==
    /\ pc = "unpolled_name"
    /\ named' = FALSE
    /\ Goto("unpolled_plane")
    /\ UNCHANGED <<laneVars, locals, plane, ack, queues, held, history>>

UnpolledClosesPlane ==
    /\ pc = "unpolled_plane"
    /\ plane' = [plane EXCEPT !.closed = TRUE]
    /\ Goto("unpolled_ack")
    /\ UNCHANGED <<laneVars, locals, ack, named, queues, held, history>>

UnpolledDropsAck ==
    /\ pc = "unpolled_ack"
    /\ ack' = "dropped"
    /\ Goto("done")
    /\ UNCHANGED <<laneVars, locals, plane, named, queues, held, history>>

-----------------------------------------------------------------------------
CallbackReturns ==
    \/ \E ok \in BOOLEAN : PreStartReturns(ok)
    \/ \E ok \in BOOLEAN : OnStartedReturns(ok)
    \/ \E answer \in {"accept", "veto", "panic"} : PreStopReturns(answer)
    \/ \E outcome \in {"ok", "failed", "exhausted"} : TurnReturns(outcome)
    \/ \E ok \in BOOLEAN : FinalDeliveryReturns(ok)
    \/ \E ok \in BOOLEAN : OnStoppedReturns(ok)

(* The steps the task takes without anything arriving from outside.        *)
OwnStep ==
    \/ FirstPoll \/ PublishRunning \/ AckStarted \/ ObserveLane
    \/ EventDelivers \/ EventEnds \/ EventFails
    \/ LeaveLoop \/ YieldOnce \/ DrainNext \/ StopRead
    \/ \E n \in 0..MaxReports : CollectFinal(n)
    \/ LastRead \/ Narrow \/ CloseQueues \/ FreeName
    \/ \E panicked \in BOOLEAN : ChildrenStopped(panicked)
    \/ \E panicked \in BOOLEAN : ForwardersEnd(panicked)
    \/ Seal \/ DeliverHeld \/ WriteFinalReason \/ ResolveAck
    \/ DropValues \/ PublishStopped \/ ClosePlane
    \/ AbortDropsAck \/ AbortDropsName \/ AbortDropsRx \/ AbortWritesReason
    \/ AbortDropsValues
    \/ UnpolledDropsQueues \/ UnpolledDropsRx \/ UnpolledDropsName
    \/ UnpolledClosesPlane \/ UnpolledDropsAck

(* What arrives at the loop.                                               *)
Arrival ==
    \/ \E what \in {"notify", "request", "child"} : TakeTurn(what)
    \/ HandlesDropped

Next ==
    \/ \E r \in Reasons : Raise(r)
    \/ CallbackReturns \/ OwnStep \/ Arrival
    \/ Abort \/ AbortUnpolled

Spec == Init /\ [][Next]_vars

(* tokio polls a runnable task; the callbacks return (one that does not is *)
(* the ladder's to abort) and the children's ladders end. Nothing makes a  *)
(* message arrive, a caller raise or anyone abort.                         *)
FairSpec == Spec /\ WF_vars(OwnStep \/ CallbackReturns)

-----------------------------------------------------------------------------
(* A Kill some caller was told is accepted is the reason every reader of   *)
(* the plane gets, and no caller is told an error of the run: whether it   *)
(* landed in a callback, between the reads of the tail, during the         *)
(* children's teardown or the forwarders' end, or raced an abort.          *)
KillIsFinal ==
    killTold => /\ plane.reason \in {None, "Kill"}
                /\ held # "sent" /\ ack # "err"

(* Once a callback returned with a Kill stored, neither a callback nor a   *)
(* supervision event begins: not the next turn, a final delivery or        *)
(* on_stopped. The one exception is the code's own: the deliveries left of *)
(* the event whose delivery returned (handle_worklist, deliver_absorbed)   *)
(* read no lane between them.                                              *)
NoHookAfterKill ==
    [][killAtReturn /\ pc \notin Occupied => pc' \notin Occupied]_vars

(* A request that landed at any point of the loop is put to pre_stop (or   *)
(* ends the loop): a veto of an earlier one, or a raise while pre_stop     *)
(* runs, never swallows it.                                                *)
RequestIsAsked ==
    \A g \in 1..MaxGeneration :
        pc \in {"loop", "pre_stop", "turn", "event"} /\ lane.generation >= g ~>
            asked >= g \/ pc \notin {"loop", "pre_stop", "turn", "event"}

(* Everyone waiting on the actor gets an answer: the spawner, the caller   *)
(* of the failed request, and, once the loop is over, the readers of the   *)
(* plane.                                                                  *)
EveryWaiterResolves ==
    /\ ack = "waiting" ~> ack # "waiting"
    /\ held = "held" ~> held # "held"
    /\ pc = "ended" \/ killTold ~> plane.closed

(* The implementation of ActorLife: the promised order of everything the   *)
(* end shows to others.                                                    *)
Life == INSTANCE ActorLife

KeepsItsPromise == Life!Spec
=============================================================================
